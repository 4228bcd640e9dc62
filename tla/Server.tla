-------------------------------- MODULE Server --------------------------------
(***************************************************************************)
(* The server around the sessions (server.rs): listen_on starts the shard  *)
(* threads and joins them, serve_shard accepts connections and polls them, *)
(* serve_connection registers a connection in the table that all shards    *)
(* share, and ConnectionCleanup takes it out again, whatever ended it.     *)
(* serve_with is the same loop on the caller's thread, without stop and    *)
(* handshake.  Module Session is what happens inside phase "session".      *)
(***************************************************************************)
EXTENDS Naturals, FiniteSets

CONSTANTS Shards,   \* the shard threads
          First,    \* the shard that is the thread of listen() itself
          Conns,    \* the connections that peers make, each once
          MaxConns, \* max_connections
          IdSpace,  \* how many connection ids there are (2^32 in the code)
          None

ASSUME ServerAssumption ==
  /\ First \in Shards
  /\ IsFiniteSet(Conns) /\ IsFiniteSet(Shards)
  /\ MaxConns \in Nat
  /\ IdSpace \in Nat /\ Cardinality(Conns) <= IdSpace
  /\ None \notin Conns

VARIABLES
  main,       \* where listen_on is
  stop,       \* the caller's stop future, or a signal
  shutdown,   \* the Shutdown that stops the other shards
  spc,        \* where each shard's loop is
  broken,     \* shards whose listener fails at once when asked to accept
  retry,      \* shards whose retry_at lies ahead
  phase,      \* what each connection's future is doing
  home,       \* the shard that polls it
  due,        \* connections whose future has something to finish: a deadline
              \* of its phase has passed or its session loop has ended
  next_id,    \* get_conn_id's counter
  id,         \* connection_id
  states,     \* WebsocketStates: id -> connection
  job,        \* connections whose ConnectionCleanup still holds its job
  slots,      \* ServerLimitState::connections
  \* history
  registered, \* connections that were ever in the table
  hooked      \* per connection: how often its disconnect hooks were dispatched

loop == <<main, stop, shutdown, broken>>
table == <<next_id, id, states, job, registered, hooked>>
vars == <<loop, spc, retry, phase, home, due, slots, table>>

Ids == 0..(IdSpace - 1)
Others == Shards \ {First}

\* The phases in which a connection's future exists, and holds a slot.
Alive == {"handshake", "hook", "auth", "flush", "session", "cleanup"}
Live == {c \in Conns : phase[c] \in Alive}
LiveOn(s) == {c \in Live : home[c] = s}

TypeOK ==
  /\ main \in {"spawning", "serving", "joining", "returned"}
  /\ stop \in BOOLEAN /\ shutdown \in BOOLEAN
  /\ spc \in [Shards -> {"unborn", "starting", "stop", "accept", "conns", "parked", "stopped"}]
  /\ broken \subseteq Shards /\ retry \subseteq Shards
  /\ phase \in [Conns -> Alive \cup {"away", "backlog", "gone"}]
  /\ home \in [Conns -> Shards]
  /\ due \subseteq Live
  /\ next_id \in Ids
  /\ id \in [Conns -> Ids \cup {None}]
  /\ states \in [Ids -> Conns \cup {None}]
  /\ job \subseteq Live
  /\ slots \in Nat
  /\ registered \subseteq Conns
  /\ hooked \in [Conns -> Nat]

Init ==
  /\ main = "spawning"
  /\ stop = FALSE /\ shutdown = FALSE
  /\ spc = [s \in Shards |-> "unborn"]
  /\ broken = {} /\ retry = {}
  /\ phase = [c \in Conns |-> "away"]
  /\ home \in [Conns -> Shards]
  /\ due = {}
  /\ next_id \in Ids
  /\ id = [c \in Conns |-> None]
  /\ states = [i \in Ids |-> None]
  /\ job = {}
  /\ slots = 0
  /\ registered = {}
  /\ hooked = [c \in Conns |-> 0]
-----------------------------------------------------------------------------
(* listen_on *)

\* A shard thread is started.
SpawnShard(s) ==
  /\ main = "spawning" /\ s \in Others /\ spc[s] = "unborn"
  /\ spc' = [spc EXCEPT ![s] = "starting"]
  /\ UNCHANGED <<loop, retry, phase, home, due, slots, table>>

\* One cannot be started: the others are stopped and joined.
SpawnFails ==
  /\ main = "spawning"
  /\ \E s \in Others : spc[s] = "unborn"
  /\ main' = "joining"
  /\ shutdown' = TRUE
  /\ UNCHANGED <<stop, broken, spc, retry, phase, home, due, slots, table>>

\* All are started; this thread becomes the first shard.
ServeFirst ==
  /\ main = "spawning"
  /\ \A s \in Others : spc[s] # "unborn"
  /\ main' = "serving"
  /\ spc' = [spc EXCEPT ![First] = "starting"]
  /\ UNCHANGED <<stop, shutdown, broken, retry, phase, home, due, slots, table>>

\* Mutant of FirstStopped: the other shards are left alone.
FirstStoppedNoCancel ==
  /\ main = "serving" /\ spc[First] = "stopped"
  /\ main' = "joining"
  /\ UNCHANGED <<stop, shutdown, broken, spc, retry, phase, home, due, slots, table>>

\* The first shard has returned, for whatever reason: stop them all.
FirstStopped ==
  /\ main = "serving" /\ spc[First] = "stopped"
  /\ main' = "joining"
  /\ shutdown' = TRUE
  /\ UNCHANGED <<stop, broken, spc, retry, phase, home, due, slots, table>>

\* Mutant of JoinShards: the first thread to end is enough.
JoinAnyShard ==
  /\ main = "joining"
  /\ \E s \in Shards : spc[s] = "stopped"
  /\ main' = "returned"
  /\ UNCHANGED <<stop, shutdown, broken, spc, retry, phase, home, due, slots, table>>

\* Every thread that was started is joined, then listen() returns.
JoinShards ==
  /\ main = "joining"
  /\ \A s \in Others : spc[s] \in {"unborn", "stopped"}
  /\ main' = "returned"
  /\ UNCHANGED <<stop, shutdown, broken, spc, retry, phase, home, due, slots, table>>
-----------------------------------------------------------------------------
(* serve_shard: one loop per shard; its select polls stop, then accept, then
   the connections *)

GoTo(s, p) == spc' = [spc EXCEPT ![s] = p]

\* The shard has its reactor, listener and signal registrations, or fails.
StartShard(s) ==
  /\ spc[s] = "starting"
  /\ GoTo(s, "stop") \/ GoTo(s, "stopped")
  /\ UNCHANGED <<loop, retry, phase, home, due, slots, table>>

StopSeen(s) == IF s = First THEN stop ELSE shutdown

\* ConnectionCleanup::dispatch for the connections cs, by finish or by Drop:
\* the one that still holds its job gives it up, the entry with its id leaves
\* the table and the hooks are dispatched.
Dispatch(cs) ==
  /\ job' = job \ cs
  /\ states' = [i \in Ids |-> IF \E c \in cs \cap job : id[c] = i THEN None ELSE states[i]]
  /\ hooked' = [c \in Conns |-> IF c \in cs \cap job THEN hooked[c] + 1 ELSE hooked[c]]

\* Mutant of DropFutures: the slot is only given back by a future that completes.
DropFuturesKeepingSlot(cs) ==
  /\ Dispatch(cs)
  /\ phase' = [c \in Conns |-> IF c \in cs THEN "gone" ELSE phase[c]]
  /\ slots' = slots - Cardinality({c \in cs : phase[c] = "cleanup"})
  /\ due' = due \ cs
  /\ UNCHANGED <<next_id, id, registered>>

\* The futures of cs are dropped, and with them what they hold: the cleanup
\* guard and the slot.
DropFutures(cs) ==
  /\ Dispatch(cs)
  /\ phase' = [c \in Conns |-> IF c \in cs THEN "gone" ELSE phase[c]]
  /\ slots' = slots - Cardinality(cs)
  /\ due' = due \ cs
  /\ UNCHANGED <<next_id, id, registered>>

\* The stop arm is ready: the loop is left and its connections are dropped.
Break(s) ==
  /\ spc[s] = "stop" /\ StopSeen(s)
  /\ GoTo(s, "stopped")
  /\ DropFutures(LiveOn(s))
  /\ UNCHANGED <<loop, retry, home>>

StopPending(s) ==
  /\ spc[s] = "stop" /\ ~StopSeen(s)
  /\ GoTo(s, "accept")
  /\ UNCHANGED <<loop, retry, phase, home, due, slots, table>>

Waiting(s) == {c \in Conns : phase[c] = "backlog" /\ home[c] = s}
AcceptReady(s) == s \notin retry /\ (s \in broken \/ Waiting(s) # {})

\* accept() yields a connection and it gets a slot; retry_at is cleared.
Admit(s, c) ==
  /\ spc[s] = "accept" /\ s \notin retry \cup broken /\ c \in Waiting(s)
  /\ slots < MaxConns
  /\ slots' = slots + 1
  /\ phase' = [phase EXCEPT ![c] = "handshake"]
  /\ GoTo(s, "stop")
  /\ UNCHANGED <<loop, retry, home, due, table>>

\* accept() yields a connection that is refused.  The other shards may each be
\* inside an acquire() that is going to be refused as well.
Refuse(s, c) ==
  /\ spc[s] = "accept" /\ s \notin retry \cup broken /\ c \in Waiting(s)
  /\ slots + Cardinality(Shards) > MaxConns
  /\ phase' = [phase EXCEPT ![c] = "gone"]
  /\ GoTo(s, "stop")
  /\ UNCHANGED <<loop, retry, home, due, slots, table>>

\* Mutant of AcceptFails: no back-off.
AcceptFailsAtOnce(s) ==
  /\ spc[s] = "accept" /\ s \in broken \ retry
  /\ GoTo(s, "stop")
  /\ UNCHANGED <<loop, retry, phase, home, due, slots, table>>

\* accept() fails: the next one waits until retry_at.
AcceptFails(s) ==
  /\ spc[s] = "accept" /\ s \in broken \ retry
  /\ retry' = retry \cup {s}
  /\ GoTo(s, "stop")
  /\ UNCHANGED <<loop, phase, home, due, slots, table>>

AcceptPending(s) ==
  /\ spc[s] = "accept" /\ ~AcceptReady(s)
  /\ GoTo(s, "conns")
  /\ UNCHANGED <<loop, retry, phase, home, due, slots, table>>

\* No connection completes and none has anything to finish.
ConnsPending(s) ==
  /\ spc[s] = "conns" /\ LiveOn(s) \cap due = {}
  /\ GoTo(s, "parked")
  /\ UNCHANGED <<loop, retry, phase, home, due, slots, table>>

Wake(s) ==
  /\ spc[s] = "parked"
  /\ GoTo(s, "stop")
  /\ UNCHANGED <<loop, retry, phase, home, due, slots, table>>
-----------------------------------------------------------------------------
(* A connection's future, polled by its shard *)

Polled(c) == spc[home[c]] = "conns"

\* The future goes on to its next phase, and its shard to the next future.
Becomes(c, p) ==
  /\ phase' = [phase EXCEPT ![c] = p]
  /\ due' = due \ {c}
  /\ UNCHANGED <<loop, spc, retry, home, slots>>

\* The future completes before it registered anything; the select is over.
Ends(c) ==
  /\ DropFutures({c})
  /\ GoTo(home[c], "stop")
  /\ UNCHANGED <<loop, retry, home>>

\* handshake and upgrade within one deadline.
Upgrade(c) ==
  /\ Polled(c) /\ phase[c] = "handshake"
  /\ Becomes(c, "hook")
  /\ UNCHANGED table

\* They fail, run out of time, or end in a plain HTTP answer.
NoUpgrade(c) ==
  /\ Polled(c) /\ phase[c] = "handshake"
  /\ Ends(c)

\* run_on_connect refuses the peer.
OnConnectRefuses(c) ==
  /\ Polled(c) /\ phase[c] = "hook"
  /\ Ends(c)

\* Mutant of Register: two connections that register in the same instant get
\* one id, as when it was taken from the clock.
RegisterByClock(c) ==
  /\ Polled(c) /\ phase[c] = "hook"
  /\ id' = [id EXCEPT ![c] = next_id]
  /\ next_id' \in {next_id, (next_id + 1) % IdSpace}
  /\ states' = [states EXCEPT ![next_id] = c]
  /\ job' = job \cup {c}
  /\ registered' = registered \cup {c}
  /\ Becomes(c, "auth")
  /\ UNCHANGED hooked

\* serve_connection: the connection gets its id, enters the table, and from
\* here on its cleanup guard exists.
Register(c) ==
  /\ Polled(c) /\ phase[c] = "hook"
  /\ id' = [id EXCEPT ![c] = next_id]
  /\ next_id' = (next_id + 1) % IdSpace
  /\ states' = [states EXCEPT ![next_id] = c]
  /\ job' = job \cup {c}
  /\ registered' = registered \cup {c}
  /\ Becomes(c, "auth")
  /\ UNCHANGED hooked

\* Auth succeeds, or fails and leaves a second to flush the error.
Authenticated(c) ==
  /\ Polled(c) /\ phase[c] = "auth"
  /\ Becomes(c, "session") \/ Becomes(c, "flush")
  /\ UNCHANGED table

\* The session loop ends, or the flush is over: cleanup.finish().
Finish(c) ==
  /\ Polled(c) /\ phase[c] \in {"flush", "session"}
  /\ Dispatch({c})
  /\ phase' = [phase EXCEPT ![c] = "cleanup"]
  /\ due' = due \cup {c}
  /\ UNCHANGED <<loop, spc, retry, home, slots, next_id, id, registered>>

\* The future completes and the guard is dropped.
Complete(c) ==
  /\ Polled(c) /\ phase[c] = "cleanup"
  /\ Ends(c)
-----------------------------------------------------------------------------
(* The world *)

\* A peer connects and the kernel picks a shard that listens.
Connect(c) ==
  /\ phase[c] = "away" /\ spc[home[c]] \notin {"unborn", "starting", "stopped"}
  /\ phase' = [phase EXCEPT ![c] = "backlog"]
  /\ UNCHANGED <<loop, spc, retry, home, due, slots, table>>

\* A listener starts or ceases to fail.
BreakListener(s) ==
  /\ spc[s] = "parked"
  /\ broken' = IF s \in broken THEN broken \ {s} ELSE broken \cup {s}
  /\ UNCHANGED <<main, stop, shutdown, spc, retry, phase, home, due, slots, table>>

\* A connection's deadline passes, or its session loop has ended.
FallsDue(c) ==
  /\ phase[c] \in {"handshake", "auth", "flush", "session"} /\ c \notin due
  /\ due' = due \cup {c}
  /\ UNCHANGED <<loop, spc, retry, phase, home, slots, table>>

\* retry_at is reached.  One round of the loop takes less than the shortest
\* back-off, so this happens while the shard is parked.
RetryElapses(s) ==
  /\ s \in retry /\ spc[s] = "parked"
  /\ retry' = retry \ {s}
  /\ UNCHANGED <<loop, spc, phase, home, due, slots, table>>

\* SIGTERM, SIGINT, or the caller's stop future resolves.
RequestStop ==
  /\ ~stop
  /\ stop' = TRUE
  /\ UNCHANGED <<main, shutdown, broken, spc, retry, phase, home, due, slots, table>>
-----------------------------------------------------------------------------
Main == (\E s \in Shards : SpawnShard(s)) \/ ServeFirst \/ FirstStopped \/ JoinShards

Round(s) == \/ Break(s) \/ StopPending(s)
            \/ \E c \in Conns : Admit(s, c) \/ Refuse(s, c)
            \/ AcceptFails(s) \/ AcceptPending(s) \/ ConnsPending(s)

Future(c) == \/ Upgrade(c) \/ NoUpgrade(c) \/ OnConnectRefuses(c) \/ Register(c)
             \/ Authenticated(c) \/ Finish(c) \/ Complete(c)

World == \/ \E c \in Conns : Connect(c) \/ FallsDue(c)
         \/ \E s \in Shards : BreakListener(s) \/ RetryElapses(s)
         \/ RequestStop

Next == \/ Main \/ SpawnFails \/ World
        \/ \E s \in Shards : StartShard(s) \/ Round(s) \/ Wake(s)
        \/ \E c \in Conns : Future(c)

\* A parked shard is woken for what its arms wait for.
WakeReady(s) == /\ StopSeen(s) \/ AcceptReady(s) \/ LiveOn(s) \cap due # {}
                /\ Wake(s)

\* A shard polls the futures that have something to finish.
FinishDue(s) == \E c \in Conns : home[c] = s /\ c \in due /\ Future(c)

\* Threads are scheduled and timers fire.  Peers, hooks and signals owe
\* nothing, and a listener may fail for ever.
Fairness ==
  /\ WF_vars(Main)
  /\ \A s \in Shards : /\ WF_vars(StartShard(s))
                       /\ WF_vars(Round(s) \/ FinishDue(s))
                       /\ WF_vars(WakeReady(s))
                       /\ WF_vars(RetryElapses(s))

SafeSpec == Init /\ [][Next]_vars
Spec == SafeSpec /\ Fairness
-----------------------------------------------------------------------------
(* Properties *)

\* The table holds exactly the connections whose cleanup guard is armed, each
\* under its own id, although the shards insert and remove concurrently: no
\* connection is unreachable, replaced by another or left behind.
EntriesExact ==
  /\ \A c \in job : states[id[c]] = c
  /\ \A i \in Ids : states[i] # None => states[i] \in job /\ id[states[i]] = i

\* The disconnect hooks are dispatched once for every connection that was
\* registered, however it ended, and never for one that was refused.
HookedOnce ==
  \A c \in Conns :
    /\ hooked[c] <= 1
    /\ phase[c] = "gone" => hooked[c] = IF c \in registered THEN 1 ELSE 0

\* Cleanup is exact whichever of finish and Drop comes to it, on whichever shard.
CleanupExact == TypeOK /\ EntriesExact /\ HookedOnce

\* A connection holds its slot as long as its future exists, and there are
\* never more than max_connections.
SlotsExact == slots = Cardinality(Live) /\ slots <= MaxConns

\* When listen() returns no shard runs, no connection lives, nothing is left in
\* the table and no slot is taken.
NothingOutlivesListen ==
  main = "returned" =>
    /\ \A s \in Shards : spc[s] \in {"unborn", "stopped"}
    /\ Live = {} /\ slots = 0
    /\ \A i \in Ids : states[i] = None

\* docs/server-limits.md: a stop is not held up by peers, sessions or a
\* listener that keeps failing; every shard is stopped and joined.
ServerStops == stop ~> main = "returned"

\* ... and "Accept failures back off ... while live sessions and shutdown
\* continue to be polled": a connection with something to finish finishes it
\* even if accept never succeeds again.
DueIsPolled == \A c \in Conns : c \in due ~> c \notin due
==============================================================================
