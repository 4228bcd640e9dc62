----------------------------- MODULE SessionProofs -----------------------------
(***************************************************************************)
(* What a session promises its peer and the server's limits, for any       *)
(* number of requests and pushers and any configuration.                   *)
(***************************************************************************)
EXTENDS Session, FiniteSetTheorems, TLAPS

Phases == {"none", "before", "handler", "after", "done", "dropped"}

\* The part of the type invariant the proofs need.
RequestsTyped ==
  /\ phase \in [Requests -> Phases]
  /\ answers \in [Requests -> Nat]
  /\ inflight \in Nat

\* What has been said to the peer is known from the phase of the task and the
\* responded cell: this is what makes AnsweredOnce inductive.
AnswersInv ==
  \A r \in Requests :
    /\ phase[r] \in {"none", "before", "handler"}
         => answers[r] = 0 /\ r \notin responded /\ r \notin silent
    /\ phase[r] = "after" => r \in responded
    /\ phase[r] \in {"after", "done"} => answers[r] = IF r \in silent THEN 0 ELSE 1
    /\ answers[r] <= 1

\* Each task has one slot, and the end of the session leaves none.
SlotsInv ==
  /\ inflight = Cardinality(Live) /\ inflight <= MaxInflight
  /\ pc = "ended" => Live = {}

\* A frame begun late is the last one: the session is still sending it, or on
\* its way to the check that ends it.
LateInv ==
  /\ late \in 0..1
  /\ late = 1 => overdue /\ pc \in {"arm_send", "top", "ended"}

\* After its one frame a header_only session only waits for it to be sent.
ShotInv ==
  HeaderOnly => /\ sent \in 0..1
                /\ sent = 1 => pc \in {"drain_send", "arm_send", "ended"}

-----------------------------------------------------------------------------
(* What the steps do to the request tasks *)

\* No task is touched.
Quiet == UNCHANGED requests /\ (pc' = "ended" => pc = "ended")

\* Every task is dropped.
Ended == /\ pc # "ended" /\ pc' = "ended"
         /\ phase' = [r \in Requests |-> IF r \in Live THEN "dropped" ELSE phase[r]]
         /\ inflight' = inflight - Cardinality(Live)
         /\ UNCHANGED <<responded, answers, silent>>

\* A step touches no task, drops them all, polls one or adds one.
LEMMA StepKinds ==
  ASSUME [Next]_vars
  PROVE  \/ Quiet \/ Ended
         \/ \E r \in Requests : Poll(r) \/ InboundRequest(r)
<1> USE DEF Quiet, Ended, requests
<1>1. ASSUME NEW c \in Callers, Enqueue(c) PROVE Quiet
  BY <1>1 DEF Enqueue, EnqueueTry, EnqueueClose, EnqueueCancel
<1>2. ASSUME NEW p \in Pushers, Push(p) PROVE Quiet
  BY <1>2 DEF Push
<1>3. CASE RemoveState \/ IdleElapses
  BY <1>3 DEF RemoveState, IdleElapses
<1>4. ASSUME NEW r \in Requests, RequestElapses(r) PROVE Quiet
  BY <1>4 DEF RequestElapses
<1>5. CASE AuthOk \/ AuthFail \/ AuthErrorEnd
  BY <1>5 DEF AuthOk, AuthFail, AuthErrorEnd, GoTo
<1>6. CASE LoopTop
  BY <1>6 DEF LoopTop, GoTo, Exit
<1>7. CASE DrainFrame
  BY <1>7 DEF DrainFrame, BeginSend, GoTo, Exit
<1>8. CASE DrainEmpty \/ HandlersPending \/ OutboundPending \/ Wake
  BY <1>8 DEF DrainEmpty, HandlersPending, OutboundPending, Wake, GoTo
<1>9. CASE CheckFlag
  BY <1>9 DEF CheckFlag, GoTo, Exit
<1>10. CASE OutboundFrame
  BY <1>10 DEF OutboundFrame, BeginSend, GoTo
<1>11. CASE OutboundClosed
  BY <1>11 DEF OutboundClosed, Exit
<1>12. CASE InboundIgnored \/ InboundReplied \/ InboundPending
  BY <1>12 DEF InboundIgnored, InboundReplied, InboundPending, GoTo
<1>13. CASE InboundEnd
  BY <1>13 DEF InboundEnd, Exit
<1>14. CASE EndPoll
  BY <1>14 DEF EndPoll, GoTo, Exit
<1>15. CASE SendOk
  BY <1>15 DEF SendOk, GoTo, Exit
<1>16. CASE SendError \/ IdleFires \/ FlushElapses \/ Dropped
  BY <1>16 DEF SendError, IdleFires, FlushElapses, Dropped, Exit, Awaits
<1>17. CASE UNCHANGED vars
  BY <1>17 DEF vars
<1>18. QED
  BY <1>1, <1>2, <1>3, <1>4, <1>5, <1>6, <1>7, <1>8, <1>9, <1>10, <1>11, <1>12,
     <1>13, <1>14, <1>15, <1>16, <1>17 DEF Next, Step, Inbound
-----------------------------------------------------------------------------
(* The invariant of the request tasks *)

TasksInv == RequestsTyped /\ AnswersInv /\ SlotsInv

\* There are finitely many tasks, so their number is a number.
LEMMA LiveIsFinite == IsFiniteSet(Live)
<1>1. Live \subseteq Requests
  BY DEF Live
<1>2. QED
  BY <1>1, SessionAssumption, FS_Subset DEF SessionAssumption

\* A session starts without tasks and without slots.
LEMMA TasksInit == Init => TasksInv
<1> SUFFICES ASSUME Init PROVE TasksInv
  OBVIOUS
<1>1. RequestsTyped /\ AnswersInv
  BY DEF Init, RequestsTyped, AnswersInv, Phases
<1>2. Live = {}
  BY DEF Init, Live
<1>3. SlotsInv
  BY <1>2, FS_EmptySet, SessionAssumption DEF SlotsInv, Init, SessionAssumption
<1>4. QED
  BY <1>1, <1>3 DEF TasksInv

\* A task advances within the set.
LEMMA AdvanceStep ==
  ASSUME TasksInv, NEW r \in Requests, NEW from, NEW to \in {"handler", "after"},
         from \in {"before", "handler"}, Advance(r, from, to)
  PROVE  phase' \in [Requests -> Phases] /\ SlotsInv'
<1> USE DEF TasksInv, RequestsTyped, Advance
<1>1. phase' \in [Requests -> Phases]
  BY DEF Phases
<1>2. Live' = Live
  BY DEF Live
<1>3. QED
  BY <1>1, <1>2 DEF SlotsInv

\* A task that completes gives back its own slot.
LEMMA CompleteStep ==
  ASSUME TasksInv, NEW r \in Requests, Complete(r)
  PROVE  phase' \in [Requests -> Phases] /\ inflight' \in Nat /\ SlotsInv'
<1> USE DEF TasksInv, RequestsTyped, Complete
<1>1. phase' \in [Requests -> Phases]
  BY DEF Phases
<1>2. Live' = Live \ {r} /\ r \in Live
  BY DEF Live
<1>3. Cardinality(Live') = Cardinality(Live) - 1 /\ Cardinality(Live) \in Nat
  BY <1>2, LiveIsFinite, FS_RemoveElement, FS_CardinalityType
<1>4. inflight >= 1
  BY <1>2, LiveIsFinite, FS_EmptySet, FS_CardinalityType DEF SlotsInv
<1>5. QED
  BY <1>1, <1>3, <1>4, SessionAssumption DEF SlotsInv, SessionAssumption

\* Whatever a polled task does, it is answered once.
LEMMA PollStep ==
  ASSUME TasksInv, NEW r \in Requests, Poll(r)
  PROVE  TasksInv'
<1> USE DEF RequestsTyped, AnswersInv
<1>1. CASE BeforeOk(r)
  <2>1. phase' \in [Requests -> Phases] /\ SlotsInv'
    BY <1>1, AdvanceStep DEF BeforeOk
  <2>2. QED
    BY <1>1, <2>1 DEF BeforeOk, Advance, TasksInv, Phases
<1>2. CASE BeforeReject(r)
  <2>1. phase' \in [Requests -> Phases] /\ SlotsInv'
    BY <1>2, AdvanceStep DEF BeforeReject
  <2>2. QED
    BY <1>2, <2>1 DEF BeforeReject, Advance, Answer, TasksInv, Phases
<1>3. CASE HandlerAnswers(r)
  <2>1. phase' \in [Requests -> Phases] /\ SlotsInv'
    BY <1>3, AdvanceStep DEF HandlerAnswers
  <2>2. QED
    BY <1>3, <2>1 DEF HandlerAnswers, Advance, Answer, TasksInv, Phases
<1>4. CASE HandlerSilent(r)
  <2>1. phase' \in [Requests -> Phases] /\ SlotsInv'
    BY <1>4, AdvanceStep DEF HandlerSilent
  <2>2. QED
    BY <1>4, <2>1 DEF HandlerSilent, Advance, TasksInv, Phases
<1>5. CASE AfterDone(r)
  <2>1. phase' \in [Requests -> Phases] /\ inflight' \in Nat /\ SlotsInv'
    BY <1>5, CompleteStep DEF AfterDone
  <2>2. QED
    BY <1>5, <2>1 DEF AfterDone, Complete, TasksInv, Phases
<1>6. CASE TimeoutRequest(r)
  <2>1. phase' \in [Requests -> Phases] /\ inflight' \in Nat /\ SlotsInv'
    BY <1>6, CompleteStep DEF TimeoutRequest
  <2>2. phase[r] \in {"before", "handler", "after"}
    BY <1>6 DEF TimeoutRequest, Complete, Live
  <2>3. QED
    BY <1>6, <2>1, <2>2 DEF TimeoutRequest, Complete, Answer, TasksInv, Phases
<1>7. QED
  BY <1>1, <1>2, <1>3, <1>4, <1>5, <1>6 DEF Poll

\* A new task takes one slot, below the limit.
LEMMA ArrivalStep ==
  ASSUME TasksInv, NEW r \in Requests, InboundRequest(r)
  PROVE  TasksInv'
<1> USE DEF TasksInv, RequestsTyped, InboundRequest
<1>1. phase' \in [Requests -> Phases]
  BY DEF Phases
<1>2. Live' = Live \cup {r} /\ r \notin Live
  BY DEF Live
<1>3. Cardinality(Live') = Cardinality(Live) + 1
  BY <1>2, LiveIsFinite, FS_AddElement
<1>4. SlotsInv'
  BY <1>3, SessionAssumption DEF SlotsInv, SessionAssumption
<1>5. AnswersInv'
  BY DEF AnswersInv
<1>6. QED
  BY <1>1, <1>4, <1>5

\* The end of the session gives back every slot.
LEMMA EndStep ==
  ASSUME TasksInv, Ended
  PROVE  TasksInv'
<1> USE DEF TasksInv, RequestsTyped, Ended
<1>1. phase' \in [Requests -> Phases]
  BY DEF Phases
<1>2. Live' = {}
  BY DEF Live
<1>3. inflight' = 0
  BY DEF SlotsInv
<1>4. SlotsInv'
  BY <1>2, <1>3, FS_EmptySet, SessionAssumption DEF SlotsInv, SessionAssumption
<1>5. AnswersInv'
  BY DEF AnswersInv, Live
<1>6. QED
  BY <1>1, <1>3, <1>4, <1>5

\* The invariant of the request tasks is inductive.
LEMMA TasksStep == TasksInv /\ [Next]_vars => TasksInv'
<1> SUFFICES ASSUME TasksInv, [Next]_vars PROVE TasksInv'
  OBVIOUS
<1>1. CASE Quiet
  <2>1. UNCHANGED <<phase, responded, inflight, answers, silent>>
    BY <1>1 DEF Quiet, requests
  <2>2. QED
    BY <1>1, <2>1 DEF Quiet, TasksInv, RequestsTyped, AnswersInv, SlotsInv, Live
<1>2. QED
  BY <1>1, StepKinds, PollStep, ArrivalStep, EndStep

\* The invariant of the request tasks is inductive for every step of the session,
\* of its callers and of the clock.
THEOREM TasksInvariant == SafeSpec => []TasksInv
<1>1. QED
  BY TasksInit, TasksStep, PTL DEF SafeSpec

\* A request is answered at most once, and exactly once when its task runs to
\* its end and its handler has something to say, whichever of the handler and
\* request_timeout comes first (run_loop's request tasks, session.rs).
THEOREM OneAnswer == SafeSpec => []AnsweredOnce
<1>1. TasksInv => AnsweredOnce
  BY DEF TasksInv, AnswersInv, AnsweredOnce
<1>2. QED
  BY <1>1, TasksInvariant, PTL

\* The in-flight slots a session holds are those of its request tasks, within
\* the limit, and none is left when the session has ended.
THEOREM SlotsComeBack == SafeSpec => []SlotsExact
<1>1. TasksInv => SlotsExact
  BY FS_EmptySet DEF TasksInv, SlotsInv, SlotsExact
<1>2. QED
  BY <1>1, TasksInvariant, PTL
-----------------------------------------------------------------------------
(* The invariant of the frames given to the transport *)

WireInv == LateInv /\ ShotInv

\* The invariant of the frames is inductive.
LEMMA WireStep == WireInv /\ [Next]_vars => WireInv'
<1> SUFFICES ASSUME WireInv, [Next]_vars PROVE WireInv'
  OBVIOUS
<1> USE DEF WireInv, LateInv, ShotInv, wire
<1>1. ASSUME NEW c \in Callers, Enqueue(c) PROVE WireInv'
  BY <1>1 DEF Enqueue, EnqueueTry, EnqueueClose, EnqueueCancel
<1>2. ASSUME NEW p \in Pushers, Push(p) PROVE WireInv'
  BY <1>2 DEF Push
<1>3. CASE RemoveState \/ IdleElapses
  BY <1>3 DEF RemoveState, IdleElapses
<1>4. ASSUME NEW r \in Requests, RequestElapses(r) PROVE WireInv'
  BY <1>4 DEF RequestElapses
<1>5. CASE AuthOk \/ AuthFail \/ AuthErrorEnd
  BY <1>5 DEF AuthOk, AuthFail, AuthErrorEnd, GoTo
<1>6. CASE LoopTop
  BY <1>6 DEF LoopTop, GoTo, Exit
<1>7. CASE DrainFrame
  BY <1>7 DEF DrainFrame, BeginSend, UpTo2, GoTo, Exit
<1>8. CASE DrainEmpty \/ HandlersPending \/ OutboundPending \/ Wake
  BY <1>8 DEF DrainEmpty, HandlersPending, OutboundPending, Wake, GoTo
<1>9. CASE CheckFlag
  BY <1>9 DEF CheckFlag, GoTo, Exit
<1>10. CASE OutboundFrame
  BY <1>10 DEF OutboundFrame, BeginSend, UpTo2, GoTo
<1>11. CASE OutboundClosed
  BY <1>11 DEF OutboundClosed, Exit
<1>12. CASE InboundIgnored \/ InboundReplied \/ InboundPending
  BY <1>12 DEF InboundIgnored, InboundReplied, InboundPending, GoTo
<1>13. CASE InboundEnd
  BY <1>13 DEF InboundEnd, Exit
<1>14. CASE EndPoll
  BY <1>14 DEF EndPoll, GoTo, Exit
<1>15. CASE SendOk
  BY <1>15 DEF SendOk, GoTo, Exit
<1>16. CASE SendError \/ IdleFires \/ FlushElapses \/ Dropped
  BY <1>16 DEF SendError, IdleFires, FlushElapses, Dropped, Exit, Awaits
<1>17. ASSUME NEW r \in Requests, Poll(r) PROVE WireInv'
  BY <1>17 DEF Poll, BeforeOk, BeforeReject, HandlerAnswers, HandlerSilent, Advance,
               AfterDone, TimeoutRequest, Complete
<1>18. ASSUME NEW r \in Requests, InboundRequest(r) PROVE WireInv'
  BY <1>18 DEF InboundRequest
<1>19. CASE UNCHANGED vars
  BY <1>19 DEF vars
<1>20. QED
  BY <1>1, <1>2, <1>3, <1>4, <1>5, <1>6, <1>7, <1>8, <1>9, <1>10, <1>11, <1>12,
     <1>13, <1>14, <1>15, <1>16, <1>17, <1>18, <1>19 DEF Next, Step, Inbound

\* What the session has given to the transport is known from where it is: a
\* late frame, and a header_only session's only frame, are the last.
THEOREM WireInvariant == SafeSpec => []WireInv
<1>1. Init => WireInv
  BY DEF Init, WireInv, LateInv, ShotInv
<1>2. QED
  BY <1>1, WireStep, PTL DEF SafeSpec

\* After the idle deadline has passed at most one more frame is begun, however
\* fast the pushers queue (run_loop's drain and its outbound arm, session.rs).
THEOREM LateFrameIsTheLast == SafeSpec => []OneLateFrame
<1>1. WireInv => OneLateFrame
  BY DEF WireInv, LateInv, OneLateFrame
<1>2. QED
  BY <1>1, WireInvariant, PTL

\* A header_only session never gives the transport a second frame.
THEOREM OneFrameOnly == SafeSpec => []OneShot
<1>1. WireInv => OneShot
  BY DEF WireInv, ShotInv, OneShot
<1>2. QED
  BY <1>1, WireInvariant, PTL
-----------------------------------------------------------------------------
(* Types, and the invariant of the queue and the flag *)

\* What a session owes a peer that failed auth.  Until the first frame is given
\* to the transport the error, or what was queued ahead of it, is on its way to
\* the queue or in it; or the entry is gone, and then nobody sets the flag.
FlushInv ==
  auth_failed =>
    /\ pc # "auth"
    /\ sent = 0 =>
         /\ pc = "auth_error" => \/ ~open
                                 \/ queue # <<>>
                                 \/ enq[Loop] # <<>> /\ Head(enq[Loop]) = "try"
         /\ pc \in {"top", "drain"} => queue # <<>> \/ ~(end \/ open)
         /\ pc \in {"flag", "handlers", "outbound", "inbound", "end_poll", "parked"}
              => ~(end \/ open)
         /\ pc \notin {"drain_send", "arm_send"}
         /\ pc = "ended" => cause # "flag"

\* An enqueue holds the lock of the table: none is under way without an entry.
EntryInv == ~open => \A c \in Callers : enq[c] = <<>>

\* The cause is written when the session ends.
CauseInv == pc # "ended" => cause = "none"

\* While the session is between the look that found the queue empty and the
\* look at the flag, tasks of its own thread queue nothing.
DrainedInv ==
  SameThread => /\ pc \in {"flag", "inbound", "end_poll"}
                     => queue = <<>> /\ \A c \in Callers : enq[c] = <<>>
                /\ cause = "flag" => queue = <<>>

FlagInv == FlushInv /\ EntryInv /\ CauseInv /\ DrainedInv

\* The types of what the tasks' invariant does not speak of.
LoopTyped ==
  /\ pc \in Awaits \cup {"auth_error", "top", "drain", "flag", "handlers",
                         "outbound", "inbound", "end_poll", "ended"}
  /\ queue \in Seq({"payload", "close"}) /\ Len(queue) <= Capacity
  /\ open \in BOOLEAN /\ end \in BOOLEAN
  /\ enq \in [Callers -> Seq(EnqueueSteps)]
  /\ overdue \in BOOLEAN /\ auth_failed \in BOOLEAN
  /\ responded \subseteq Requests /\ expired \subseteq Requests /\ silent \subseteq Requests
  /\ sent \in 0..2 /\ late \in 0..2
  /\ cause \in {"none", "idle", "flag", "closed", "send", "oneshot", "peer", "flush", "dropped"}

\* What is left of an enqueue after its first try_send.
LEMMA AfterTryTyped ==
  ASSUME NEW full \in BOOLEAN
  PROVE  AfterTry(full) \in Seq(EnqueueSteps)
<1>1. ClosePolicy \in Seq(EnqueueSteps) /\ <<>> \in Seq(EnqueueSteps)
  BY DEF ClosePolicy, EnqueueSteps
<1>2. QED
  BY <1>1 DEF AfterTry

\* A frame put into a queue that is not full leaves it within its capacity.
LEMMA QueueGrows ==
  \A q \in Seq({"payload", "close"}), f \in {"payload", "close"} :
    Len(q) < Capacity => Append(q, f) \in Seq({"payload", "close"}) /\ Len(Append(q, f)) <= Capacity
<1>1. Capacity \in Nat
  BY SessionAssumption
<1>2. QED
  BY <1>1

\* The steps of enqueue keep the types.
LEMMA EnqueueTypes ==
  ASSUME LoopTyped, NEW c \in Callers, Enqueue(c)
  PROVE  LoopTyped'
<1> USE DEF LoopTyped, requests, wire
<1>1. Capacity \in Nat \ {0}
  BY SessionAssumption DEF SessionAssumption
<1>2. CASE EnqueueTry(c)
  <2>1. enq' \in [Callers -> Seq(EnqueueSteps)]
    BY <1>2, AfterTryTyped DEF EnqueueTry
  <2>2. queue' = queue \/ (Len(queue) < Capacity /\ queue' = Append(queue, "payload"))
    BY <1>2 DEF EnqueueTry
  <2>3. queue' \in Seq({"payload", "close"}) /\ Len(queue') <= Capacity
    <3>1. CASE queue' = queue
      BY <3>1
    <3>2. CASE Len(queue) < Capacity /\ queue' = Append(queue, "payload")
      BY <3>2, QueueGrows, Zenon
    <3>3. QED
      BY <2>2, <3>1, <3>2
  <2>4. QED
    BY <1>2, <2>1, <2>3 DEF EnqueueTry
<1>3. CASE EnqueueClose(c)
  <2>1. enq' \in [Callers -> Seq(EnqueueSteps)]
    BY <1>3 DEF EnqueueClose
  <2>2. queue' \in Seq({"payload", "close"}) /\ Len(queue') <= Capacity
    <3>1. CASE queue' = queue
      BY <3>1
    <3>2. CASE Len(queue) < Capacity /\ queue' = Append(queue, "close")
      BY <3>2, QueueGrows, Zenon
    <3>3. QED
      BY <1>3, <3>1, <3>2 DEF EnqueueClose
  <2>3. QED
    BY <1>3, <2>1, <2>2 DEF EnqueueClose
<1>4. CASE EnqueueCancel(c)
  <2>1. enq' \in [Callers -> Seq(EnqueueSteps)]
    BY <1>4 DEF EnqueueCancel
  <2>2. QED
    BY <1>4, <2>1 DEF EnqueueCancel
<1>5. QED
  BY <1>2, <1>3, <1>4 DEF Enqueue

\* The types are kept by every step.
LEMMA TypesStep == LoopTyped /\ [Next]_vars => LoopTyped'
<1> SUFFICES ASSUME LoopTyped, [Next]_vars PROVE LoopTyped'
  OBVIOUS
<1> USE DEF LoopTyped, requests, wire, Awaits
<1>1. <<"try">> \in Seq(EnqueueSteps)
  BY DEF EnqueueSteps
<1>2. ASSUME NEW c \in Callers, Enqueue(c) PROVE LoopTyped'
  BY <1>2, EnqueueTypes
<1>3. ASSUME NEW p \in Pushers, Push(p) PROVE LoopTyped'
  <2>1. enq' \in [Callers -> Seq(EnqueueSteps)]
    BY <1>1, <1>3 DEF Push, CallSend
  <2>2. QED
    BY <1>3, <2>1 DEF Push, CallSend
<1>4. CASE RemoveState \/ IdleElapses
  <2>1. CASE RemoveState
    BY <2>1 DEF RemoveState
  <2>2. CASE IdleElapses
    BY <2>2 DEF IdleElapses
  <2>3. QED
    BY <1>4, <2>1, <2>2
<1>5. ASSUME NEW r \in Requests, RequestElapses(r) PROVE LoopTyped'
  BY <1>5 DEF RequestElapses
<1>6. CASE AuthOk \/ AuthErrorEnd
  BY <1>6 DEF AuthOk, AuthErrorEnd, GoTo
<1>7. CASE AuthFail
  BY <1>1, <1>7 DEF AuthFail, GoTo, CallSend, Callers
<1>8. CASE LoopTop
  BY <1>8 DEF LoopTop, GoTo, Exit
<1>9. CASE DrainFrame \/ OutboundFrame
  <2>1. queue' = Tail(queue) /\ queue # <<>>
    BY <1>9 DEF DrainFrame, OutboundFrame
  <2>2. Tail(queue) \in Seq({"payload", "close"}) /\ Len(Tail(queue)) <= Capacity
    BY <2>1, SessionAssumption DEF SessionAssumption
  <2>3. sent' \in 0..2 /\ late' \in 0..2
    BY <1>9 DEF DrainFrame, OutboundFrame, BeginSend, UpTo2
  <2>4. QED
    BY <1>9, <2>1, <2>2, <2>3 DEF DrainFrame, OutboundFrame, BeginSend, GoTo, Exit
<1>10. CASE DrainEmpty \/ HandlersPending \/ OutboundPending \/ Wake
  BY <1>10 DEF DrainEmpty, HandlersPending, OutboundPending, Wake, GoTo
<1>11. CASE CheckFlag
  BY <1>11 DEF CheckFlag, GoTo, Exit
<1>13. CASE OutboundClosed
  BY <1>13 DEF OutboundClosed, Exit
<1>14. CASE InboundIgnored \/ InboundPending
  BY <1>14 DEF InboundIgnored, InboundPending, GoTo
<1>15. CASE InboundReplied
  BY <1>1, <1>15 DEF InboundReplied, GoTo, CallSend, Callers
<1>16. CASE InboundEnd
  BY <1>16 DEF InboundEnd, Exit
<1>17. CASE EndPoll
  BY <1>17 DEF EndPoll, GoTo, Exit
<1>18. CASE SendOk
  BY <1>18 DEF SendOk, GoTo, Exit
<1>19. CASE SendError \/ IdleFires \/ FlushElapses \/ Dropped
  BY <1>19 DEF SendError, IdleFires, FlushElapses, Dropped, Exit
<1>20. ASSUME NEW r \in Requests, Poll(r) PROVE LoopTyped'
  <2>1. enq' \in [Callers -> Seq(EnqueueSteps)]
    BY <1>1, <1>20 DEF Poll, BeforeOk, BeforeReject, HandlerAnswers, HandlerSilent, Answer,
                      CallSend, AfterDone, TimeoutRequest, Callers
  <2>2. QED
    BY <1>20, <2>1 DEF Poll, BeforeOk, BeforeReject, HandlerAnswers, HandlerSilent, Advance,
                      AfterDone, TimeoutRequest, Complete
<1>21. ASSUME NEW r \in Requests, InboundRequest(r) PROVE LoopTyped'
  BY <1>21 DEF InboundRequest
<1>22. CASE UNCHANGED vars
  BY <1>22 DEF vars
<1>23. QED
  BY <1>2, <1>3, <1>4, <1>5, <1>6, <1>7, <1>8, <1>9, <1>10, <1>11, <1>13, <1>14,
     <1>15, <1>16, <1>17, <1>18, <1>19, <1>20, <1>21, <1>22 DEF Next, Step, Inbound

\* No step loses the error, or lets the flag win over a queued frame.
LEMMA FlagStep == LoopTyped /\ FlagInv /\ [Next]_vars => FlagInv'
<1> SUFFICES ASSUME LoopTyped, FlagInv, [Next]_vars PROVE FlagInv'
  OBVIOUS
<1> USE DEF FlagInv, FlushInv, EntryInv, CauseInv, DrainedInv, requests, wire, Awaits
<1>1. ASSUME NEW c \in Callers, Enqueue(c) PROVE FlagInv'
  <2>1. open /\ enq[c] # <<>> /\ UNCHANGED <<pc, open, auth_failed, sent, cause>>
    BY <1>1 DEF Enqueue, EnqueueTry, EnqueueClose, EnqueueCancel
  <2>2. queue' = queue \/ (pc # "ended" /\ queue' # <<>>)
    <3>1. \/ queue' = queue
          \/ pc # "ended" /\ \E frame \in {"payload", "close"} : queue' = Append(queue, frame)
      BY <1>1 DEF Enqueue, EnqueueTry, EnqueueClose, EnqueueCancel
    <3>2. QED
      BY <3>1 DEF LoopTyped
  <2>3. \A d \in Callers : d # c => enq'[d] = enq[d]
    BY <1>1 DEF Enqueue, EnqueueTry, EnqueueClose, EnqueueCancel, LoopTyped
  <2>4. SameThread => pc \notin {"flag", "inbound", "end_poll"}
    BY <1>1, <2>1
  <2>5. pc = "auth_error" /\ c = Loop /\ Head(enq[c]) = "try" => queue' # <<>>
    <3>1. SUFFICES ASSUME pc = "auth_error", Head(enq[c]) = "try" PROVE queue' # <<>>
      OBVIOUS
    <3>2. EnqueueTry(c)
      BY <1>1, <3>1 DEF Enqueue, EnqueueClose, EnqueueCancel
    <3>3. CASE Len(queue) < Capacity
      BY <3>1, <3>2, <3>3 DEF EnqueueTry, LoopTyped
    <3>4. CASE ~(Len(queue) < Capacity)
      BY <3>1, <3>2, <3>4, SessionAssumption DEF EnqueueTry, LoopTyped, SessionAssumption
    <3>5. QED
      BY <3>3, <3>4
  <2>6. FlushInv'
    BY <2>1, <2>2, <2>3, <2>5, Loop \in Callers DEF Callers
  <2>7. QED
    BY <2>1, <2>2, <2>4, <2>6
<1>2. ASSUME NEW p \in Pushers, Push(p) PROVE FlagInv'
  BY <1>2, SessionAssumption DEF Push, CallSend, MayRun, LoopTyped, Callers, SessionAssumption
<1>3. CASE RemoveState \/ IdleElapses
  BY <1>3 DEF RemoveState, IdleElapses, Callers
<1>4. ASSUME NEW r \in Requests, RequestElapses(r) PROVE FlagInv'
  BY <1>4 DEF RequestElapses
<1>5. CASE AuthOk \/ AuthErrorEnd
  BY <1>5 DEF AuthOk, AuthErrorEnd, GoTo, Running
<1>6. CASE AuthFail
  BY <1>6 DEF AuthFail, GoTo, CallSend, LoopTyped, Callers
<1>7. CASE LoopTop
  BY <1>7 DEF LoopTop, GoTo, Exit
<1>8. CASE DrainFrame
  BY <1>8 DEF DrainFrame, BeginSend, UpTo2, GoTo, Exit, LoopTyped
<1>9. CASE DrainEmpty \/ HandlersPending \/ OutboundPending \/ Wake
  BY <1>9 DEF DrainEmpty, HandlersPending, OutboundPending, Wake, GoTo, Running, Callers
<1>10. CASE CheckFlag
  BY <1>10 DEF CheckFlag, GoTo, Exit
<1>11. CASE OutboundFrame
  BY <1>11 DEF OutboundFrame, BeginSend, UpTo2, GoTo, LoopTyped
<1>12. CASE OutboundClosed
  BY <1>12 DEF OutboundClosed, Exit
<1>13. CASE InboundIgnored \/ InboundPending
  BY <1>13 DEF InboundIgnored, InboundPending, GoTo, Running
<1>14. CASE InboundReplied
  BY <1>14 DEF InboundReplied, GoTo, CallSend
<1>15. CASE InboundEnd
  BY <1>15 DEF InboundEnd, Exit
<1>16. CASE EndPoll
  BY <1>16 DEF EndPoll, GoTo, Exit
<1>17. CASE SendOk
  BY <1>17 DEF SendOk, GoTo, Exit
<1>18. CASE SendError \/ IdleFires \/ FlushElapses \/ Dropped
  BY <1>18 DEF SendError, IdleFires, FlushElapses, Dropped, Exit
<1>19. ASSUME NEW r \in Requests, Poll(r) PROVE FlagInv'
  BY <1>19 DEF Poll, BeforeOk, BeforeReject, HandlerAnswers, HandlerSilent, Advance, Answer,
               CallSend, AfterDone, TimeoutRequest, Complete
<1>20. ASSUME NEW r \in Requests, InboundRequest(r) PROVE FlagInv'
  BY <1>20 DEF InboundRequest
<1>21. CASE UNCHANGED vars
  BY <1>21 DEF vars
<1>22. QED
  BY <1>1, <1>2, <1>3, <1>4, <1>5, <1>6, <1>7, <1>8, <1>9, <1>10, <1>11, <1>12, <1>13, <1>14,
     <1>15, <1>16, <1>17, <1>18, <1>19, <1>20, <1>21 DEF Next, Step, Inbound

\* Types, flag and queue fit together in every reachable state.
LEMMA FlagInvariant == SafeSpec => [](LoopTyped /\ FlagInv)
<1>1. Init => LoopTyped
  <2> SUFFICES ASSUME Init PROVE LoopTyped
    OBVIOUS
  <2>1. queue \in Seq({"payload", "close"}) /\ Len(queue) = 0
    BY DEF Init
  <2>2. enq \in [Callers -> Seq(EnqueueSteps)]
    BY DEF Init
  <2>3. Len(queue) <= Capacity
    BY <2>1, SessionAssumption DEF SessionAssumption
  <2>4. /\ open \in BOOLEAN /\ end \in BOOLEAN /\ overdue \in BOOLEAN /\ auth_failed \in BOOLEAN
        /\ responded \subseteq Requests /\ expired \subseteq Requests /\ silent \subseteq Requests
    BY DEF Init
  <2>5. sent \in 0..2 /\ late \in 0..2 /\ pc = "auth" /\ cause = "none"
    BY DEF Init
  <2>6. QED
    BY <2>1, <2>2, <2>3, <2>4, <2>5, Zenon DEF LoopTyped, Awaits
<1>2. Init => FlagInv
  BY DEF Init, FlagInv, FlushInv, EntryInv, CauseInv, DrainedInv
<1>3. QED
  BY <1>1, <1>2, TypesStep, FlagStep, PTL DEF SafeSpec

\* A peer that fails auth is told before the flag ends its session: the flag is
\* set at once (serve_connection, server.rs), but the error, or what was queued
\* ahead of it, has been given to the transport when the session sees it.
THEOREM AuthErrorIsFlushed == SafeSpec => []TypedAndFlushed
<1>1. LoopTyped /\ TasksInv => TypeOK
  BY DEF LoopTyped, TasksInv, RequestsTyped, Phases, TypeOK
<1>2. LoopTyped /\ FlagInv => AuthErrorFlushed
  BY DEF LoopTyped, FlagInv, FlushInv, CauseInv, AuthErrorFlushed
<1>3. QED
  BY <1>1, <1>2, FlagInvariant, TasksInvariant, PTL DEF TypedAndFlushed

\* Where the senders share the session's thread, run_loop's comment is true:
\* the flag only wins once there is nothing left to send.
THEOREM FlagWinsOnOneThread ==
  ASSUME SameThread
  PROVE  SafeSpec => []FlagWinsWhenDrained
<1>1. FlagInv => FlagWinsWhenDrained
  BY SameThread DEF FlagInv, DrainedInv, FlagWinsWhenDrained
<1>2. QED
  BY <1>1, FlagInvariant, PTL
================================================================================
