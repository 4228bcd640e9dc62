------------------------------- MODULE Outbound -------------------------------
(***************************************************************************)
(* src/libs/ws/outbound.rs: the bounded queue between the threads that     *)
(* produce frames for a connection and the one session loop that sends     *)
(* them.  Every method body runs under one mutex, so each locked section   *)
(* is one action; waking the parked receiver happens after the unlock, so  *)
(* it is an action of its own and other threads may run in between.        *)
(***************************************************************************)
EXTENDS Naturals, Sequences, FiniteSets

CONSTANTS Threads,   \* threads that call Sender methods
          Handles,   \* identities of Sender values
          Wakers,    \* wakers the receiving task may be polled with
          Values,    \* messages
          Capacity,  \* channel(capacity)
          MaxSends,  \* bound: how many messages are ever accepted
          None

ASSUME OutboundAssumption ==
  /\ Capacity \in Nat
  /\ MaxSends \in Nat
  /\ IsFiniteSet(Handles)
  /\ Handles # {}
  /\ None \notin Wakers
  /\ None \notin Handles

VARIABLES
  \* Inner, the state behind the mutex
  queue, senders, receiver_alive, recv_waker,
  \* the rest of the world
  live,      \* Sender values that exist (Arc handles held by somebody)
  call,      \* per thread: the waker it took and must still wake, and the
             \* Sender it borrows while doing so
  parked,    \* the waker the receiving task last returned Pending with
  \* history
  accepted, delivered, eof

inner == <<queue, senders, receiver_alive, recv_waker>>
history == <<accepted, delivered, eof>>
vars == <<inner, live, call, parked, history>>

Idle == [waker |-> None, handle |-> None]

\* The Sender values some thread is in the middle of a method call on.
Borrowed == {call[t].handle : t \in Threads}

TypeOK ==
  /\ queue \in Seq(Values)
  /\ senders \in Nat
  /\ receiver_alive \in BOOLEAN
  /\ recv_waker \in Wakers \cup {None}
  /\ live \in SUBSET Handles
  /\ call \in [Threads -> [waker : Wakers \cup {None}, handle : Handles \cup {None}]]
  /\ parked \in Wakers \cup {None}
  /\ accepted \in Seq(Values)
  /\ delivered \in Seq(Values)
  /\ eof \in BOOLEAN

\* channel(capacity)
Init ==
  /\ queue = <<>>
  /\ senders = 1
  /\ receiver_alive = TRUE
  /\ recv_waker = None
  /\ \E h \in Handles : live = {h}
  /\ call = [t \in Threads |-> Idle]
  /\ parked = None
  /\ accepted = <<>>
  /\ delivered = <<>>
  /\ eof = FALSE
-----------------------------------------------------------------------------
(* Senders *)

\* Option::take on recv_waker: thread t leaves the mutex with the waker and,
\* if there is one, still has to call wake() on it.
TakeWaker(t, h) ==
  /\ recv_waker' = None
  /\ call' = IF recv_waker = None
             THEN call
             ELSE [call EXCEPT ![t] = [waker |-> recv_waker, handle |-> h]]

\* The depth check of try_send, under the lock.
HasRoom == Len(queue) < Capacity

\* Sender::try_send that queues the value.  The other two outcomes, Closed when
\* the receiver is gone and Full when there is no room, change nothing here.
TrySendOk(t, h, v) ==
  /\ call[t] = Idle
  /\ h \in live
  /\ Len(accepted) < MaxSends
  /\ receiver_alive
  /\ HasRoom
  /\ queue' = Append(queue, v)
  /\ TakeWaker(t, h)
  /\ accepted' = Append(accepted, v)
  /\ UNCHANGED <<senders, receiver_alive, live, parked, delivered, eof>>

\* Sender::clone
Clone(t, h, h2) ==
  /\ call[t] = Idle
  /\ h \in live
  /\ h2 \in Handles \ live
  /\ senders' = senders + 1
  /\ live' = live \cup {h2}
  /\ UNCHANGED <<queue, receiver_alive, recv_waker, call, parked, history>>

\* Sender::drop.  A Sender that a method still borrows cannot be dropped.
DropSender(t, h) ==
  /\ call[t] = Idle
  /\ h \in live \ Borrowed
  /\ senders' = senders - 1
  /\ live' = live \ {h}
  /\ IF senders' = 0
     THEN TakeWaker(t, None)
     ELSE UNCHANGED <<recv_waker, call>>
  /\ UNCHANGED <<queue, receiver_alive, parked, history>>

\* waker.wake() after the unlock: it reaches the receiving task only if that
\* is the waker the task last parked with.
Wake(t) ==
  /\ call[t] # Idle
  /\ parked' = IF parked = call[t].waker THEN None ELSE parked
  /\ call' = [call EXCEPT ![t] = Idle]
  /\ UNCHANGED <<inner, live, history>>
-----------------------------------------------------------------------------
(* The receiver: one task, the session loop *)

\* Mutant of PopValue: the newest message leaves first.
PopNewest ==
  /\ queue # <<>>
  /\ queue' = SubSeq(queue, 1, Len(queue) - 1)
  /\ delivered' = Append(delivered, queue[Len(queue)])
  /\ UNCHANGED eof

\* Inner::pop in the two outcomes that hand something back.
PopValue ==
  /\ queue # <<>>
  /\ queue' = Tail(queue)
  /\ delivered' = Append(delivered, Head(queue))
  /\ UNCHANGED eof

PopClosed ==
  /\ queue = <<>> /\ senders = 0
  /\ eof' = TRUE
  /\ UNCHANGED <<queue, delivered>>

\* Receiver::try_recv, and Recv::poll when it is Ready: both are one pop.
\* try_recv that finds the queue Empty changes nothing.
Receive ==
  /\ receiver_alive /\ parked = None
  /\ PopValue \/ PopClosed
  /\ UNCHANGED <<senders, receiver_alive, recv_waker, live, call, parked, accepted>>

\* Mutant of PollPending: a waker that is already stored is never replaced.
PollKeepsOldWaker(w) ==
  /\ receiver_alive /\ parked = None
  /\ queue = <<>> /\ senders # 0
  /\ recv_waker' = IF recv_waker = None THEN w ELSE recv_waker
  /\ parked' = w
  /\ UNCHANGED <<queue, senders, receiver_alive, live, call, history>>

\* Recv::poll with context waker w that finds the queue Empty.  A parked waker
\* that would wake the same task is kept, any other one is replaced: in both
\* cases w is the waker left in place.
PollPending(w) ==
  /\ receiver_alive /\ parked = None
  /\ queue = <<>> /\ senders # 0
  /\ recv_waker' = w
  /\ parked' = w
  /\ UNCHANGED <<queue, senders, receiver_alive, live, call, history>>

\* The task runs again although the queue did not wake it: another arm of the
\* session's select became ready.
OtherWake ==
  /\ receiver_alive /\ parked # None
  /\ parked' = None
  /\ UNCHANGED <<inner, live, call, history>>

\* Receiver::drop.  The task does not wait on the queue any more.
DropReceiver ==
  /\ receiver_alive
  /\ receiver_alive' = FALSE
  /\ parked' = None
  /\ UNCHANGED <<queue, senders, recv_waker, live, call, history>>
-----------------------------------------------------------------------------
Next ==
  \/ \E t \in Threads, h \in Handles :
       \/ \E v \in Values : TrySendOk(t, h, v)
       \/ \E h2 \in Handles : Clone(t, h, h2)
       \/ DropSender(t, h)
  \/ \E t \in Threads : Wake(t)
  \/ Receive
  \/ \E w \in Wakers : PollPending(w)
  \/ OtherWake
  \/ DropReceiver

\* A thread that took a waker goes on to call it, and a task that is not
\* parked is run by its executor.  Nothing else is promised: senders may never
\* send, no other arm need ever wake the task.
Fairness == /\ \A t \in Threads : WF_vars(Wake(t))
            /\ WF_vars(Receive)

SafeSpec == Init /\ [][Next]_vars
Spec == SafeSpec /\ Fairness
-----------------------------------------------------------------------------
(* Properties *)

\* No lost wakeup: while the receiving task sleeps, either there is nothing for
\* it (no message, and a sender that may still send), or some thread has taken
\* exactly the waker it sleeps on and is about to call it.
NoLostWakeup ==
  parked # None /\ (queue # <<>> \/ senders = 0)
    => \E t \in Threads : call[t].waker = parked

\* The end is final: once recv has returned None no message is queued, none
\* was lost, and no sender exists that could add one.
EofIsFinal == eof => queue = <<>> /\ delivered = accepted /\ live = {}

\* The queue never holds more than the capacity it was created with, however
\* many clones of the sender there are.
Bounded == Len(queue) <= Capacity

\* What makes the properties above inductive.  The sender count is the number
\* of Sender values; a waker is stored only while there is nothing to receive;
\* a sleeping task's waker is stored or in the hands of a thread that will call
\* it; and what was accepted is what was delivered followed by the queue.
SendersExact == senders = Cardinality(live)
WakerMeansEmpty == recv_waker # None => queue = <<>> /\ senders # 0
ParkedIsCovered ==
  parked # None => \/ recv_waker = parked
                   \/ \E t \in Threads : call[t].waker = parked
Fifo == accepted = delivered \o queue
EofMeansDrained == eof => queue = <<>> /\ senders = 0
IInv == /\ TypeOK
        /\ SendersExact
        /\ WakerMeansEmpty
        /\ ParkedIsCovered
        /\ Fifo
        /\ EofMeansDrained
        /\ Bounded

\* The queue implements the abstract channel, deliveries and end of stream
\* included: Chan!Spec also says that they eventually happen.
Chan == INSTANCE Channel WITH open <- senders # 0, alive <- receiver_alive
ImplementsChannel == Chan!Spec
==============================================================================
