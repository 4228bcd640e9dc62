-------------------------------- MODULE Session --------------------------------
(***************************************************************************)
(* One connection of the server, from auth to the end of its session loop: *)
(* serve_connection (server.rs), WsClientSession::run and run_loop         *)
(* (session.rs), the request tasks the loop polls in place, and            *)
(* Toolbox::enqueue (toolbox.rs), by which the request tasks and other     *)
(* threads queue frames and order the connection closed.                   *)
(*                                                                         *)
(* The loop runs on one thread and gives way to nobody between two awaits, *)
(* but pushers on other threads run between any two of its steps, so each  *)
(* look at shared state (the queue, the end flag) is a step of its own.    *)
(* Module Outbound is the queue, Shutdown the end flag and Limits the      *)
(* in-flight counter; here each is used through what those modules show.   *)
(***************************************************************************)
EXTENDS Naturals, Sequences, FiniteSets

CONSTANTS Requests,       \* the requests the peer may send, one frame each
          Pushers,        \* tasks that send to this connection from outside
          Loop,           \* the session's own thread, as a caller of enqueue
          Capacity,       \* message_buffer_size
          MaxInflight,    \* max_inflight_requests, as far as this session goes
          HeaderOnly,     \* header_only, which is enqueue's `oneshot`
          DropOnFull,     \* drop_conn_on_buffer_full
          IdleTimeout,    \* whether idle_timeout is set
          RequestTimeout, \* whether request_timeout is set
          SameThread      \* whether the pushers run on the session's thread

ASSUME SessionAssumption ==
  /\ Capacity \in Nat \ {0}
  /\ MaxInflight \in Nat
  /\ IsFiniteSet(Requests)
  /\ Loop \notin Pushers
  /\ {HeaderOnly, DropOnFull, IdleTimeout, RequestTimeout, SameThread} \subseteq BOOLEAN

VARIABLES
  pc,         \* where the session's task is
  queue,      \* the outbound queue: "payload" and "close" frames
  open,       \* the connection's entry in the states table, and so its Sender
  end,        \* WsStreamState::end is cancelled
  enq,        \* per caller, what is left of the enqueue it is in
  overdue,    \* idle_timeout has passed since last_received
  auth_failed,
  phase,      \* per request: what its task is doing
  responded,  \* requests whose responded cell is set
  expired,    \* requests whose request_timeout has passed
  inflight,   \* slots this session holds
  \* history
  answers,    \* per request: how often a response was handed to the toolbox
  silent,     \* requests whose handler returned NoResponse
  sent,       \* frames given to the transport, counted up to 2
  late,       \* of these, the ones begun while overdue, up to 2
  cause       \* why the session ended

requests == <<phase, responded, inflight, answers, silent>>
wire == <<sent, late>>
vars == <<pc, queue, open, end, enq, overdue, auth_failed, expired, requests, wire, cause>>

Callers == Pushers \cup {Loop}
EnqueueSteps == {"try", "close", "cancel"}

\* The awaits of the connection's task, where it lets other tasks of its thread
\* run and where it can be dropped.
Awaits == {"auth", "parked", "drain_send", "arm_send"}

Live == {r \in Requests : phase[r] \in {"before", "handler", "after"}}

TypeOK ==
  /\ pc \in Awaits \cup {"auth_error", "top", "drain", "flag", "handlers",
                         "outbound", "inbound", "end_poll", "ended"}
  /\ queue \in Seq({"payload", "close"}) /\ Len(queue) <= Capacity
  /\ open \in BOOLEAN
  /\ end \in BOOLEAN
  /\ enq \in [Callers -> Seq(EnqueueSteps)]
  /\ overdue \in BOOLEAN
  /\ auth_failed \in BOOLEAN
  /\ phase \in [Requests -> {"none", "before", "handler", "after", "done", "dropped"}]
  /\ responded \subseteq Requests
  /\ expired \subseteq Requests
  /\ inflight \in Nat
  /\ answers \in [Requests -> Nat]
  /\ silent \subseteq Requests
  /\ sent \in 0..2 /\ late \in 0..2
  /\ cause \in {"none", "idle", "flag", "closed", "send", "oneshot", "peer", "flush", "dropped"}

\* serve_connection after states.insert: registered, not yet authenticated.
Init ==
  /\ pc = "auth"
  /\ queue = <<>>
  /\ open = TRUE
  /\ end = FALSE
  /\ enq = [c \in Callers |-> <<>>]
  /\ overdue = FALSE
  /\ auth_failed = FALSE
  /\ phase = [r \in Requests |-> "none"]
  /\ responded = {}
  /\ expired = {}
  /\ inflight = 0
  /\ answers = [r \in Requests |-> 0]
  /\ silent = {}
  /\ sent = 0 /\ late = 0
  /\ cause = "none"
-----------------------------------------------------------------------------
(* Toolbox::send and enqueue, by whoever calls them *)

\* send / send_raw: nothing happens when the connection is not in the table.
CallSend(c) == enq' = IF open THEN [enq EXCEPT ![c] = <<"try">>] ELSE enq

\* close_for_policy: try_send(Close), then end.cancel().
ClosePolicy == <<"close", "cancel">>

\* Whether c's thread is free to take an enqueue step: a pusher on the
\* session's thread runs only while the session awaits.
MayRun(c) == SameThread /\ c # Loop => pc \in Awaits \cup {"ended"}

\* What follows the first try_send of enqueue.
AfterTry(full) ==
  (IF full /\ DropOnFull THEN ClosePolicy ELSE <<>>)
    \o (IF HeaderOnly THEN ClosePolicy ELSE <<>>)

\* enqueue: try_send of the payload.  After the session is gone it is Closed.
EnqueueTry(c) ==
  /\ enq[c] # <<>> /\ Head(enq[c]) = "try" /\ MayRun(c)
  /\ IF pc = "ended"
     THEN enq' = [enq EXCEPT ![c] = AfterTry(FALSE)] /\ UNCHANGED queue
     ELSE /\ enq' = [enq EXCEPT ![c] = AfterTry(Len(queue) = Capacity)]
          /\ queue' = IF Len(queue) < Capacity THEN Append(queue, "payload") ELSE queue
  /\ UNCHANGED <<pc, open, end, overdue, auth_failed, expired, requests, wire, cause>>

\* close_for_policy: try_send of a Close frame, its result ignored.
EnqueueClose(c) ==
  /\ enq[c] # <<>> /\ Head(enq[c]) = "close" /\ MayRun(c)
  /\ enq' = [enq EXCEPT ![c] = Tail(@)]
  /\ queue' = IF pc # "ended" /\ Len(queue) < Capacity THEN Append(queue, "close") ELSE queue
  /\ UNCHANGED <<pc, open, end, overdue, auth_failed, expired, requests, wire, cause>>

\* close_for_policy: end.cancel().
EnqueueCancel(c) ==
  /\ enq[c] # <<>> /\ Head(enq[c]) = "cancel" /\ MayRun(c)
  /\ enq' = [enq EXCEPT ![c] = Tail(@)]
  /\ end' = TRUE
  /\ UNCHANGED <<pc, queue, open, overdue, auth_failed, expired, requests, wire, cause>>

\* A pusher calls Toolbox::send for this connection.
Push(p) ==
  /\ pc # "ended" /\ open /\ enq[p] = <<>> /\ MayRun(p)
  /\ CallSend(p)
  /\ UNCHANGED <<pc, queue, open, end, overdue, auth_failed, expired, requests, wire, cause>>

\* WebsocketStates::remove, called by an embedder while the session lives.  An
\* enqueue holds the table's lock, so none is under way.
RemoveState ==
  /\ pc # "ended" /\ open
  /\ SameThread => pc \in Awaits
  /\ \A c \in Callers : enq[c] = <<>>
  /\ open' = FALSE
  /\ UNCHANGED <<pc, queue, end, enq, overdue, auth_failed, expired, requests, wire, cause>>
-----------------------------------------------------------------------------
(* The session's task *)

\* The task can take its next step: it is not inside enqueue, and neither is
\* another task of its thread.
Running == /\ enq[Loop] = <<>>
           /\ SameThread => \A p \in Pushers : enq[p] = <<>>

\* Every way out of the session drops the loop and with it the request tasks,
\* each of which gives back its slot.  Mutant: the tasks go on without it.
ExitKeepingTasks(why) ==
  /\ pc' = "ended"
  /\ cause' = why
  /\ UNCHANGED <<phase, inflight>>
Exit(why) ==
  /\ pc' = "ended"
  /\ cause' = why
  /\ phase' = [r \in Requests |-> IF r \in Live THEN "dropped" ELSE phase[r]]
  /\ inflight' = inflight - Cardinality(Live)

GoTo(p) == pc' = p /\ UNCHANGED <<cause, phase, inflight>>

UpTo2(n) == IF n < 2 THEN n + 1 ELSE n

\* conn.send is called; the task awaits it at p.
BeginSend(p) ==
  /\ GoTo(p)
  /\ sent' = UpTo2(sent)
  /\ late' = IF overdue THEN UpTo2(late) ELSE late

\* serve_connection: auth succeeds.  The session binds the flag of its entry in
\* the table; without an entry it has a flag of its own, which nobody sets.
AuthOk ==
  /\ pc = "auth" /\ Running
  /\ GoTo("top")
  /\ end' = (end /\ open)
  /\ UNCHANGED <<queue, open, enq, overdue, auth_failed, expired,
                 responded, answers, silent, wire>>

\* serve_connection: auth fails or runs out of time; the error is queued.
AuthFail ==
  /\ pc = "auth" /\ Running
  /\ GoTo("auth_error")
  /\ auth_failed' = TRUE
  /\ CallSend(Loop)
  /\ UNCHANGED <<queue, open, end, overdue, expired, responded, answers, silent, wire>>

\* ... then end is cancelled, if the entry is still there, and the session is
\* run to flush the error.
AuthErrorEnd ==
  /\ pc = "auth_error" /\ Running
  /\ GoTo("top")
  /\ end' = open
  /\ UNCHANGED <<queue, open, enq, overdue, auth_failed, expired,
                 responded, answers, silent, wire>>

\* Mutant of LoopTop: the flag is looked at before the queue is drained.
LoopTopFlagFirst ==
  /\ pc = "top" /\ Running
  /\ IF overdue THEN Exit("idle") ELSE IF end THEN Exit("flag") ELSE GoTo("drain")
  /\ UNCHANGED <<queue, open, end, enq, overdue, auth_failed, expired,
                 responded, answers, silent, wire>>

\* The head of the loop: idle_expired().
LoopTop ==
  /\ pc = "top" /\ Running
  /\ IF overdue THEN Exit("idle") ELSE GoTo("drain")
  /\ UNCHANGED <<queue, open, end, enq, overdue, auth_failed, expired,
                 responded, answers, silent, wire>>

\* Mutant of DrainFrame: the deadline is only looked at before the first frame.
DrainFrameUnchecked ==
  /\ pc = "drain" /\ Running /\ queue # <<>>
  /\ queue' = Tail(queue)
  /\ BeginSend("drain_send")
  /\ UNCHANGED <<open, end, enq, overdue, auth_failed, expired, responded, answers, silent>>

\* try_recv hands out a frame; it is sent unless the deadline has passed.
DrainFrame ==
  /\ pc = "drain" /\ Running /\ queue # <<>>
  /\ queue' = Tail(queue)
  /\ IF overdue
     THEN Exit("idle") /\ UNCHANGED wire
     ELSE BeginSend("drain_send")
  /\ UNCHANGED <<open, end, enq, overdue, auth_failed, expired, responded, answers, silent>>

\* try_recv finds nothing.
DrainEmpty ==
  /\ pc = "drain" /\ Running /\ queue = <<>>
  /\ GoTo("flag")
  /\ UNCHANGED <<queue, open, end, enq, overdue, auth_failed, expired,
                 responded, answers, silent, wire>>

\* Mutant of CheckFlag: the loop relies on the last arm of its select.
CheckFlagNever ==
  /\ pc = "flag" /\ Running
  /\ GoTo("handlers")
  /\ UNCHANGED <<queue, open, end, enq, overdue, auth_failed, expired,
                 responded, answers, silent, wire>>

\* end.is_cancelled()
CheckFlag ==
  /\ pc = "flag" /\ Running
  /\ IF end THEN Exit("flag") ELSE GoTo("handlers")
  /\ UNCHANGED <<queue, open, end, enq, overdue, auth_failed, expired,
                 responded, answers, silent, wire>>
-----------------------------------------------------------------------------
(* priority4, first arm: the request tasks, polled in place *)

\* The task of r goes from one phase to the next and stays in the set.
Advance(r, from, to) ==
  /\ pc = "handlers" /\ Running /\ phase[r] = from
  /\ phase' = [phase EXCEPT ![r] = to]
  /\ UNCHANGED <<pc, queue, open, end, overdue, auth_failed, expired, inflight, wire, cause>>

\* A response to r is handed to the toolbox.
Answer(r) ==
  /\ answers' = [answers EXCEPT ![r] = @ + 1]
  /\ CallSend(Loop)

\* run_before lets the request through.
BeforeOk(r) ==
  /\ Advance(r, "before", "handler")
  /\ UNCHANGED <<enq, responded, answers, silent>>

\* run_before rejects it: the cell is set, the error sent, then run_after.
BeforeReject(r) ==
  /\ Advance(r, "before", "after")
  /\ responded' = responded \cup {r}
  /\ Answer(r)
  /\ UNCHANGED silent

\* Mutant of HandlerAnswers: the cell is not set.
HandlerAnswersUnmarked(r) ==
  /\ Advance(r, "handler", "after")
  /\ Answer(r)
  /\ UNCHANGED <<responded, silent>>

\* handle / handle_mcp completes with a response of any kind: a result, an
\* error, or bad parameters.
HandlerAnswers(r) ==
  /\ Advance(r, "handler", "after")
  /\ responded' = responded \cup {r}
  /\ Answer(r)
  /\ UNCHANGED silent

\* handle / handle_mcp completes with NoResponse.
HandlerSilent(r) ==
  /\ Advance(r, "handler", "after")
  /\ responded' = responded \cup {r}
  /\ silent' = silent \cup {r}
  /\ UNCHANGED <<enq, answers>>

\* The task of r completes and leaves the set, its slot is dropped, and the
\* select is over: Ready::Handler.
Complete(r) ==
  /\ pc = "handlers" /\ Running /\ r \in Live
  /\ pc' = "top"
  /\ phase' = [phase EXCEPT ![r] = "done"]
  /\ inflight' = inflight - 1
  /\ UNCHANGED <<queue, open, end, overdue, auth_failed, expired, responded, silent, wire, cause>>

\* run_after is done, and with it the work.
AfterDone(r) ==
  /\ phase[r] = "after"
  /\ Complete(r)
  /\ UNCHANGED <<enq, answers>>

\* nagoya::timeout gives up on the work, whatever it was doing; the peer is
\* told unless it has its answer.
TimeoutRequest(r) ==
  /\ r \in expired
  /\ Complete(r)
  /\ IF r \in responded THEN UNCHANGED <<enq, answers>> ELSE Answer(r)

\* Nothing completes.  A task whose time is up would have.
HandlersPending ==
  /\ pc = "handlers" /\ Running
  /\ Live \cap expired = {}
  /\ GoTo("outbound")
  /\ UNCHANGED <<queue, open, end, enq, overdue, auth_failed, expired,
                 responded, answers, silent, wire>>
-----------------------------------------------------------------------------
(* priority4, the other arms *)

\* rx.recv() has a frame.
OutboundFrame ==
  /\ pc = "outbound" /\ Running /\ queue # <<>>
  /\ queue' = Tail(queue)
  /\ BeginSend("arm_send")
  /\ UNCHANGED <<open, end, enq, overdue, auth_failed, expired, responded, answers, silent>>

\* rx.recv() is None: every sender is gone.
OutboundClosed ==
  /\ pc = "outbound" /\ Running /\ queue = <<>> /\ ~open
  /\ Exit("closed")
  /\ UNCHANGED <<queue, open, end, enq, overdue, auth_failed, expired,
                 responded, answers, silent, wire>>

OutboundPending ==
  /\ pc = "outbound" /\ Running /\ queue = <<>> /\ open
  /\ GoTo("inbound")
  /\ UNCHANGED <<queue, open, end, enq, overdue, auth_failed, expired,
                 responded, answers, silent, wire>>

\* conn.recv() yields a frame that handle_message only looks at: a ping or
\* pong, an unsupported frame, an MCP notification.  last_received moves.
InboundIgnored ==
  /\ pc = "inbound" /\ Running
  /\ overdue' = FALSE
  /\ GoTo("top")
  /\ UNCHANGED <<queue, open, end, enq, auth_failed, expired, responded, answers, silent, wire>>

\* ... that is answered at once: malformed, unknown method, forbidden, no slot
\* left, not MCP on an MCP-only server, or an MCP lifecycle call.
InboundReplied ==
  /\ pc = "inbound" /\ Running
  /\ overdue' = FALSE
  /\ GoTo("top")
  /\ CallSend(Loop)
  /\ UNCHANGED <<queue, open, end, auth_failed, expired, responded, answers, silent, wire>>

\* ... that becomes a request task, having acquired a slot.
InboundRequest(r) ==
  /\ pc = "inbound" /\ Running
  /\ phase[r] = "none" /\ inflight < MaxInflight
  /\ overdue' = FALSE
  /\ pc' = "top"
  /\ phase' = [phase EXCEPT ![r] = "before"]
  /\ inflight' = inflight + 1
  /\ UNCHANGED <<queue, open, end, enq, auth_failed, expired, responded, answers,
                 silent, wire, cause>>

\* ... a Close frame, an error or the end of the stream.
InboundEnd ==
  /\ pc = "inbound" /\ Running
  /\ overdue' \in {overdue, FALSE}
  /\ Exit("peer")
  /\ UNCHANGED <<queue, open, end, enq, auth_failed, expired, responded, answers, silent, wire>>

InboundPending ==
  /\ pc = "inbound" /\ Running
  /\ GoTo("end_poll")
  /\ UNCHANGED <<queue, open, end, enq, overdue, auth_failed, expired,
                 responded, answers, silent, wire>>

\* end.cancelled() is the last arm; with nothing ready the task parks.
EndPoll ==
  /\ pc = "end_poll" /\ Running
  /\ IF end THEN Exit("flag") ELSE GoTo("parked")
  /\ UNCHANGED <<queue, open, end, enq, overdue, auth_failed, expired,
                 responded, answers, silent, wire>>
-----------------------------------------------------------------------------
(* Awaits and the clock *)

\* The parked task is woken and polls the select again, from its first arm.
\* The idle deadline is polled before that.
Wake ==
  /\ pc = "parked" /\ Running /\ ~overdue
  /\ GoTo("handlers")
  /\ UNCHANGED <<queue, open, end, enq, overdue, auth_failed, expired,
                 responded, answers, silent, wire>>

\* Mutant of SendOk: only the drain stops after one frame.
SendOkGoesOn ==
  /\ pc \in {"drain_send", "arm_send"} /\ Running
  /\ IF HeaderOnly /\ pc = "arm_send"
     THEN Exit("oneshot")
     ELSE GoTo(IF pc = "drain_send" THEN "drain" ELSE "top")
  /\ UNCHANGED <<queue, open, end, enq, overdue, auth_failed, expired,
                 responded, answers, silent, wire>>

\* conn.send completes.
SendOk ==
  /\ pc \in {"drain_send", "arm_send"} /\ Running
  /\ IF HeaderOnly
     THEN Exit("oneshot")
     ELSE GoTo(IF pc = "drain_send" THEN "drain" ELSE "top")
  /\ UNCHANGED <<queue, open, end, enq, overdue, auth_failed, expired,
                 responded, answers, silent, wire>>

\* conn.send fails, in any of four ways.
SendError ==
  /\ pc \in {"drain_send", "arm_send"} /\ Running
  /\ Exit("send")
  /\ UNCHANGED <<queue, open, end, enq, overdue, auth_failed, expired,
                 responded, answers, silent, wire>>

\* Mutant of IdleFires: the deadline is one more arm of the select, so a send
\* that blocks is not interrupted.
IdleFiresInSelect ==
  /\ pc = "parked" /\ Running /\ overdue
  /\ Exit("idle")
  /\ UNCHANGED <<queue, open, end, enq, overdue, auth_failed, expired,
                 responded, answers, silent, wire>>

\* run(): the idle future wins the select against the loop, at any of its
\* awaits.
IdleFires ==
  /\ pc \in Awaits \ {"auth"} /\ Running /\ overdue
  /\ Exit("idle")
  /\ UNCHANGED <<queue, open, end, enq, overdue, auth_failed, expired,
                 responded, answers, silent, wire>>

\* serve_connection: the second given to flushing an auth error is over.
FlushElapses ==
  /\ auth_failed /\ pc \in Awaits /\ Running
  /\ Exit("flush")
  /\ UNCHANGED <<queue, open, end, enq, overdue, auth_failed, expired,
                 responded, answers, silent, wire>>

\* The connection's future is dropped because its shard stops.
Dropped ==
  /\ pc \in Awaits /\ Running
  /\ Exit("dropped")
  /\ UNCHANGED <<queue, open, end, enq, overdue, auth_failed, expired,
                 responded, answers, silent, wire>>

\* idle_timeout has passed since the last frame (or since the session began).
IdleElapses ==
  /\ IdleTimeout /\ ~overdue /\ pc \notin {"auth", "auth_error", "ended"}
  /\ overdue' = TRUE
  /\ UNCHANGED <<pc, queue, open, end, enq, auth_failed, expired, requests, wire, cause>>

\* request_timeout has passed since the task of r started.
RequestElapses(r) ==
  /\ RequestTimeout /\ r \in Live \ expired
  /\ expired' = expired \cup {r}
  /\ UNCHANGED <<pc, queue, open, end, enq, overdue, auth_failed, requests, wire, cause>>
-----------------------------------------------------------------------------
Enqueue(c) == EnqueueTry(c) \/ EnqueueClose(c) \/ EnqueueCancel(c)

Poll(r) == \/ BeforeOk(r) \/ BeforeReject(r) \/ HandlerAnswers(r) \/ HandlerSilent(r)
           \/ AfterDone(r) \/ TimeoutRequest(r)

Inbound == \/ InboundIgnored \/ InboundReplied \/ InboundEnd \/ InboundPending
           \/ \E r \in Requests : InboundRequest(r)

\* What the task does on its own between two awaits.
Step == \/ AuthErrorEnd \/ LoopTop \/ DrainFrame \/ DrainEmpty \/ CheckFlag
        \/ \E r \in Requests : Poll(r)
        \/ HandlersPending \/ OutboundFrame \/ OutboundClosed \/ OutboundPending
        \/ Inbound \/ EndPoll

Next == \/ Step
        \/ AuthOk \/ AuthFail
        \/ Wake \/ SendOk \/ SendError \/ IdleFires \/ FlushElapses \/ Dropped
        \/ IdleElapses
        \/ \E r \in Requests : RequestElapses(r)
        \/ \E c \in Callers : Enqueue(c)
        \/ \E p \in Pushers : Push(p)
        \/ RemoveState

\* A parked task is woken for what its arms wait for.
WakeReady == /\ queue # <<>> \/ ~open \/ end \/ Live \cap expired # {}
             /\ Wake

\* Threads are scheduled, the clock runs, a passed deadline is polled, and auth
\* is bounded by handshake_timeout.  The peer owes nothing: conn.send may never
\* complete, nothing need arrive, and hooks and handlers may never finish.
Fairness ==
  /\ WF_vars(Step)
  /\ WF_vars(WakeReady)
  /\ WF_vars(IdleFires)
  /\ WF_vars(FlushElapses)
  /\ WF_vars(AuthOk \/ AuthFail)
  /\ WF_vars(IdleElapses)
  /\ \A r \in Requests : WF_vars(RequestElapses(r))
  /\ \A c \in Callers : WF_vars(Enqueue(c))

SafeSpec == Init /\ [][Next]_vars
Spec == SafeSpec /\ Fairness
-----------------------------------------------------------------------------
(* Properties *)

\* A request is answered at most once, and exactly once when its task runs to
\* its end, by completion or by expiry, unless the handler chose NoResponse:
\* a timeout that races a late answer neither doubles it nor swallows it.
AnsweredOnce ==
  \A r \in Requests :
    /\ answers[r] <= 1
    /\ phase[r] = "done" => answers[r] = IF r \in silent THEN 0 ELSE 1

\* The slots held are those of the tasks that exist: none survives the session,
\* however it ended, and there are never more than the limit.
SlotsExact ==
  /\ inflight = Cardinality(Live) /\ inflight <= MaxInflight
  /\ pc = "ended" => inflight = 0

\* Outbound traffic does not extend the idle deadline: at most one frame is
\* begun after it has passed, the one the select had already chosen.  (A frame
\* of the drain counts as begun at its idle_expired check.)
OneLateFrame == late <= 1

\* A header_only connection puts one frame on the wire, although a Close frame
\* is queued behind it and other tasks may queue more.
OneShot == HeaderOnly => sent <= 1

\* A failed auth ends the session through the flag, but not before the queued
\* error (or what was queued ahead of it) was given to the transport.
AuthErrorFlushed == auth_failed /\ cause = "flag" => sent > 0

\* The types, and what an unauthenticated peer is owed.
TypedAndFlushed == TypeOK /\ AuthErrorFlushed

\* run_loop, comment: "A payload already queued is sent above; the flag only
\* wins once there is nothing left to send."
FlagWinsWhenDrained == cause = "flag" => queue = <<>>

\* The idle deadline ends a session or a received frame moves it: neither a
\* peer that does not read nor pushers that never pause hold it up.
IdleEnds == overdue ~> (~overdue \/ pc = "ended")

\* A policy close ends the session.
EndIsObserved == end ~> pc = "ended"

\* Every request task ends, whatever its hooks and handler do: it completes,
\* expires or is dropped with its session, and gives its slot back.
TasksEnd == \A r \in Requests : phase[r] = "before" ~> r \notin Live
================================================================================
