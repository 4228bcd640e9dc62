----------------------------- MODULE ServerProofs -----------------------------
(***************************************************************************)
(* Connection cleanup and the connection limit hold for any number of      *)
(* shards, connections and ids.                                            *)
(***************************************************************************)
EXTENDS Server, FiniteSetTheorems, TLAPS

USE ServerAssumption

\* The phases in which the cleanup guard holds its job, and those after it.
Armed == {"auth", "flush", "session"}
Entered == Armed \cup {"cleanup", "gone"}

\* A connection is registered once, on its way into the guarded phases, and its
\* hooks have been dispatched exactly if its guard has given up the job.
GuardInv ==
  /\ job = {c \in Conns : phase[c] \in Armed}
  /\ job \subseteq registered
  /\ \A c \in Conns : phase[c] = "cleanup" => c \in registered
  /\ \A c \in registered : phase[c] \in Entered
  /\ \A c \in Conns : hooked[c] = IF c \in registered \ job THEN 1 ELSE 0

\* How many ids ago a connection got its id.
Age(c) == IF id[c] < next_id THEN next_id - id[c] ELSE next_id - id[c] + IdSpace

\* No id is older than there are registered connections, so the counter has not
\* come round to one of them.
IdInv == \A c \in registered : id[c] \in Ids /\ Age(c) <= Cardinality(registered)

\* A connection's future lives on a shard whose loop runs; the first shard is
\* not left running when the threads are joined.
ShardInv ==
  /\ \A c \in Live : spc[home[c]] \in {"stop", "accept", "conns", "parked"}
  /\ main = "spawning" => spc[First] = "unborn"
  /\ main \in {"joining", "returned"} => spc[First] \in {"unborn", "stopped"}
  /\ main = "returned" => \A s \in Others : spc[s] \in {"unborn", "stopped"}
-----------------------------------------------------------------------------
\* The steps of the loops that touch no connection.
Quiet == UNCHANGED <<phase, home, due, slots, table>>

\* Every step is one of the loops, a drop of futures, or a step of one connection.
LEMMA Steps ==
  ASSUME [Next]_vars
  PROVE  \/ Quiet
         \/ \E s \in Shards : Break(s)
         \/ \E s \in Shards, c \in Conns : Admit(s, c) \/ Refuse(s, c)
         \/ \E c \in Conns : \/ NoUpgrade(c) \/ OnConnectRefuses(c) \/ Complete(c)
                             \/ Upgrade(c) \/ Authenticated(c) \/ Register(c) \/ Finish(c)
                             \/ Connect(c) \/ FallsDue(c)
<1>1. CASE Next
  <2>1. CASE Main
    BY <2>1 DEF Main, SpawnShard, ServeFirst, FirstStopped, JoinShards, Quiet, table
  <2>2. CASE SpawnFails
    BY <2>2 DEF SpawnFails, Quiet, table
  <2>3. CASE World
    BY <2>3 DEF World, BreakListener, RetryElapses, RequestStop, Quiet, table
  <2>4. ASSUME NEW s \in Shards, StartShard(s) \/ Wake(s)
        PROVE  Quiet
    BY <2>4 DEF StartShard, Wake, Quiet, table
  <2>5. ASSUME NEW s \in Shards, StopPending(s) \/ AcceptFails(s) \/ AcceptPending(s) \/ ConnsPending(s)
        PROVE  Quiet
    BY <2>5 DEF StopPending, AcceptFails, AcceptPending, ConnsPending, Quiet, table
  <2>6. QED
    BY <1>1, <2>1, <2>2, <2>3, <2>4, <2>5 DEF Next, Round, Future
<1>2. CASE UNCHANGED vars
  BY <1>2 DEF vars, Quiet, table
<1>3. QED
  BY <1>1, <1>2

\* The connections with a future can be counted.
LEMMA LiveIsFinite == IsFiniteSet(Live) /\ Cardinality(Live) \in Nat
  BY FS_Subset, FS_CardinalityType DEF Live

\* Dropping futures that live gives their slots back.
LEMMA DropCounts ==
  ASSUME TypeOK, SlotsExact, NEW cs \in SUBSET Live, DropFutures(cs)
  PROVE  /\ Live' = Live \ cs
         /\ slots' = Cardinality(Live') /\ slots' \in Nat /\ slots' <= MaxConns
<1>1. Live' = Live \ cs
  BY DEF DropFutures, Live, Alive, TypeOK
<1>2. IsFiniteSet(Live) /\ IsFiniteSet(cs) /\ IsFiniteSet(Live \ cs)
  BY LiveIsFinite, FS_Subset
<1>3. Live \cap cs = cs
  OBVIOUS
<1>4. Cardinality(Live \ cs) = Cardinality(Live) - Cardinality(cs)
  BY <1>2, <1>3, FS_Difference
<1>5. Cardinality(Live \ cs) \in Nat /\ Cardinality(cs) \in Nat /\ Cardinality(Live) \in Nat
  BY <1>2, FS_CardinalityType
<1>6. slots' = slots - Cardinality(cs)
  BY DEF DropFutures
<1>7. QED
  BY <1>1, <1>4, <1>5, <1>6 DEF SlotsExact

\* The part of TypeOK that is about the loops.
LoopTypes ==
  /\ main \in {"spawning", "serving", "joining", "returned"}
  /\ stop \in BOOLEAN /\ shutdown \in BOOLEAN
  /\ spc \in [Shards -> {"unborn", "starting", "stop", "accept", "conns", "parked", "stopped"}]
  /\ broken \subseteq Shards /\ retry \subseteq Shards
  /\ home \in [Conns -> Shards]

\* The loops keep the types of their variables, and no connection changes its
\* shard.
LEMMA LoopsKeepTypes == ASSUME TypeOK, [Next]_vars PROVE LoopTypes' /\ home' = home
<1> USE DEF LoopTypes
<1>0. LoopTypes
  BY DEF TypeOK
<1>1. CASE Main \/ SpawnFails \/ World
  BY <1>0, <1>1 DEF Main, SpawnShard, ServeFirst, FirstStopped, JoinShards, SpawnFails, World,
              BreakListener, RetryElapses, RequestStop, Connect, FallsDue, loop, Others
<1>2. ASSUME NEW s \in Shards, StartShard(s) \/ Round(s) \/ Wake(s)
      PROVE  LoopTypes' /\ home' = home
  BY <1>0, <1>2 DEF StartShard, Round, Wake, Break, StopPending, Admit, Refuse, AcceptFails,
              AcceptPending, ConnsPending, GoTo, loop
<1>3. ASSUME NEW c \in Conns, Future(c)
      PROVE  LoopTypes' /\ home' = home
  BY <1>0, <1>3 DEF Future, Upgrade, NoUpgrade, OnConnectRefuses, Register, Authenticated,
              Finish, Complete, Becomes, Ends, GoTo, loop
<1>4. QED
  BY <1>0, <1>1, <1>2, <1>3 DEF Next, vars, loop

\* The part that is about the connections; slots is left to SlotsExact.
ConnTypes ==
  /\ phase \in [Conns -> Alive \cup {"away", "backlog", "gone"}]
  /\ due \subseteq Live
  /\ next_id \in Ids
  /\ id \in [Conns -> Ids \cup {None}]
  /\ states \in [Ids -> Conns \cup {None}]
  /\ job \subseteq Live
  /\ slots \in Nat
  /\ registered \subseteq Conns
  /\ hooked \in [Conns -> Nat]

\* The type invariant is that of the loops and that of the connections.
LEMMA TypesSplit == TypeOK <=> LoopTypes /\ ConnTypes
  BY DEF TypeOK, LoopTypes, ConnTypes

\* The counter of ids goes up by one and comes round to zero.
LEMMA NextId ==
  ASSUME NEW i \in Ids
  PROVE  (i + 1) % IdSpace = IF i + 1 = IdSpace THEN 0 ELSE i + 1
  BY DEF Ids

\* Dropping futures, as the end of a shard does, keeps types and slots.
LEMMA DropTypes ==
  ASSUME ConnTypes, SlotsExact, TypeOK, NEW cs \in SUBSET Live, DropFutures(cs)
  PROVE  ConnTypes' /\ SlotsExact'
<1>1. Live' = Live \ cs /\ slots' = Cardinality(Live') /\ slots' \in Nat /\ slots' <= MaxConns
  BY DropCounts
<1>2. QED
  BY <1>1 DEF ConnTypes, SlotsExact, DropFutures, Dispatch, Alive, Ids

\* Every step keeps the types of the connections and the slots.
LEMMA ConnsKeepTypes ==
  ASSUME TypeOK, SlotsExact, [Next]_vars
  PROVE  ConnTypes' /\ SlotsExact'
<1>0. ConnTypes
  BY TypesSplit
<1>1. CASE Quiet
  BY <1>0, <1>1 DEF Quiet, table, ConnTypes, SlotsExact, Live
<1>2. ASSUME NEW s \in Shards, Break(s)
      PROVE  ConnTypes' /\ SlotsExact'
  BY <1>0, <1>2, DropTypes DEF Break, LiveOn
<1>3. ASSUME NEW s \in Shards, NEW c \in Conns, Admit(s, c)
      PROVE  ConnTypes' /\ SlotsExact'
  <2>1. Live' = Live \cup {c} /\ c \notin Live
    BY <1>0, <1>3 DEF Admit, Waiting, Live, Alive, ConnTypes
  <2>2. Cardinality(Live') = Cardinality(Live) + 1
    BY <2>1, LiveIsFinite, FS_AddElement
  <2>3. QED
    BY <1>0, <1>3, <2>1, <2>2 DEF Admit, ConnTypes, SlotsExact, table, Alive
<1>4. ASSUME NEW s \in Shards, NEW c \in Conns, Refuse(s, c)
      PROVE  ConnTypes' /\ SlotsExact'
  <2>1. Live' = Live
    BY <1>0, <1>4 DEF Refuse, Waiting, Live, Alive, ConnTypes
  <2>2. QED
    BY <1>0, <1>4, <2>1 DEF Refuse, ConnTypes, SlotsExact, table
<1>5. ASSUME NEW c \in Conns, NoUpgrade(c) \/ OnConnectRefuses(c) \/ Complete(c)
      PROVE  ConnTypes' /\ SlotsExact'
  <2>1. {c} \in SUBSET Live /\ DropFutures({c})
    BY <1>5 DEF NoUpgrade, OnConnectRefuses, Complete, Ends, Live, Alive
  <2>2. QED
    BY <1>0, <2>1, DropTypes
<1>6. ASSUME NEW c \in Conns, Upgrade(c) \/ Authenticated(c) \/ Register(c) \/ Finish(c)
      PROVE  ConnTypes' /\ SlotsExact'
  <2>1. Live' = Live /\ c \in Live
    BY <1>0, <1>6 DEF Upgrade, Authenticated, Register, Finish, Becomes, Live, Alive, ConnTypes
  <2>2. slots' = slots
    BY <1>6 DEF Upgrade, Authenticated, Register, Finish, Becomes
  <2>3. CASE Upgrade(c) \/ Authenticated(c)
    BY <1>0, <2>1, <2>2, <2>3 DEF Upgrade, Authenticated, Becomes, table, ConnTypes, SlotsExact, Alive
  <2>4. CASE Register(c)
    <3>1. next_id' \in Ids
      BY <1>0, <2>4, NextId DEF Register, ConnTypes, Ids
    <3>2. QED
      BY <1>0, <2>1, <2>2, <2>4, <3>1 DEF Register, Becomes, table, ConnTypes, SlotsExact, Alive
  <2>5. CASE Finish(c)
    BY <1>0, <2>1, <2>2, <2>5 DEF Finish, Dispatch, ConnTypes, SlotsExact, Alive, Ids
  <2>6. QED
    BY <1>6, <2>3, <2>4, <2>5
<1>7. ASSUME NEW c \in Conns, Connect(c) \/ FallsDue(c)
      PROVE  ConnTypes' /\ SlotsExact'
  <2>1. Live' = Live
    BY <1>0, <1>7 DEF Connect, FallsDue, Live, Alive, ConnTypes
  <2>2. due' \subseteq Live
    BY <1>0, <1>7 DEF Connect, FallsDue, Live, Alive, ConnTypes
  <2>3. QED
    BY <1>0, <1>7, <2>1, <2>2 DEF Connect, FallsDue, ConnTypes, SlotsExact, table
<1>8. QED
  BY <1>1, <1>2, <1>3, <1>4, <1>5, <1>6, <1>7, Steps

\* Types and slots hold throughout.
LEMMA TypeInvariant == SafeSpec => [](TypeOK /\ SlotsExact)
<1>1. Init => TypeOK /\ SlotsExact
  <2> SUFFICES ASSUME Init PROVE TypeOK /\ SlotsExact
    OBVIOUS
  <2>1. Live = {}
    BY DEF Init, Live, Alive
  <2>2. Cardinality(Live) = 0
    BY <2>1, FS_EmptySet
  <2>3. LoopTypes
    BY DEF Init, LoopTypes
  <2>4. ConnTypes
    BY <2>1 DEF Init, ConnTypes, Alive
  <2>5. QED
    BY <2>2, <2>3, <2>4, TypesSplit DEF Init, SlotsExact
<1>2. TypeOK /\ SlotsExact /\ [Next]_vars => TypeOK' /\ SlotsExact'
  <2> SUFFICES ASSUME TypeOK, SlotsExact, [Next]_vars PROVE TypeOK' /\ SlotsExact'
    OBVIOUS
  <2>1. LoopTypes' /\ ConnTypes' /\ SlotsExact'
    BY LoopsKeepTypes, ConnsKeepTypes
  <2>2. QED
    BY <2>1 DEF TypeOK, LoopTypes, ConnTypes
<1>3. QED
  BY <1>1, <1>2, PTL DEF SafeSpec
-----------------------------------------------------------------------------
(* Cleanup *)

\* Dropped futures give up their jobs, whatever phase they are in.
LEMMA DropGuards ==
  ASSUME TypeOK, GuardInv, NEW cs \in SUBSET Live, DropFutures(cs)
  PROVE  GuardInv'
<1>1. job' = {c \in Conns : phase'[c] \in Armed}
  BY DEF DropFutures, Dispatch, GuardInv, TypeOK, Armed
<1>2. \A c \in Conns : hooked'[c] = IF c \in registered \ job' THEN 1 ELSE 0
  BY DEF DropFutures, Dispatch, GuardInv, TypeOK
<1>3. QED
  BY <1>1, <1>2 DEF DropFutures, Dispatch, GuardInv, TypeOK, Entered

\* Every step keeps that the guard is armed exactly between registration and
\* cleanup.
LEMMA GuardsKept ==
  ASSUME TypeOK, GuardInv, [Next]_vars
  PROVE  GuardInv'
<1>1. CASE Quiet
  BY <1>1 DEF Quiet, table, GuardInv
<1>2. ASSUME NEW s \in Shards, Break(s)
      PROVE  GuardInv'
  BY <1>2, DropGuards DEF Break, LiveOn
<1>3. ASSUME NEW s \in Shards, NEW c \in Conns, Admit(s, c) \/ Refuse(s, c)
      PROVE  GuardInv'
  <2>1. phase[c] = "backlog" /\ phase' \in {[phase EXCEPT ![c] = "handshake"], [phase EXCEPT ![c] = "gone"]}
        /\ UNCHANGED <<job, registered, hooked>>
    BY <1>3 DEF Admit, Refuse, Waiting, table
  <2>2. QED
    BY <2>1 DEF GuardInv, TypeOK, Armed, Entered
<1>5. ASSUME NEW c \in Conns, NoUpgrade(c) \/ OnConnectRefuses(c) \/ Complete(c)
      PROVE  GuardInv'
  <2>1. {c} \in SUBSET Live /\ DropFutures({c})
    BY <1>5 DEF NoUpgrade, OnConnectRefuses, Complete, Ends, Live, Alive
  <2>2. QED
    BY <2>1, DropGuards
<1>6. ASSUME NEW c \in Conns, Upgrade(c) \/ Authenticated(c)
      PROVE  GuardInv'
  BY <1>6 DEF Upgrade, Authenticated, Becomes, table, GuardInv, TypeOK, Armed, Entered
<1>7. ASSUME NEW c \in Conns, Register(c)
      PROVE  GuardInv'
  BY <1>7 DEF Register, Becomes, GuardInv, TypeOK, Armed, Entered
<1>8. ASSUME NEW c \in Conns, Finish(c)
      PROVE  GuardInv'
  BY <1>8 DEF Finish, Dispatch, GuardInv, TypeOK, Armed, Entered
<1>9. ASSUME NEW c \in Conns, Connect(c) \/ FallsDue(c)
      PROVE  GuardInv'
  BY <1>9 DEF Connect, FallsDue, table, GuardInv, TypeOK, Armed, Entered
<1>10. QED
  BY <1>1, <1>2, <1>3, <1>5, <1>6, <1>7, <1>8, <1>9, Steps

\* While a connection that has no id yet exists, the counter is at an id that
\* no registered connection has.
LEMMA IdIsFresh ==
  ASSUME TypeOK, IdInv, NEW c \in Conns, c \notin registered
  PROVE  /\ Cardinality(registered) \in Nat /\ Cardinality(registered) < IdSpace
         /\ IsFiniteSet(registered)
         /\ \A d \in registered : id[d] # next_id
<1>1. IsFiniteSet(registered) /\ registered \subseteq Conns
  BY FS_Subset DEF TypeOK
<1>2. Cardinality(registered \cup {c}) = Cardinality(registered) + 1
  BY <1>1, FS_AddElement
<1>3. Cardinality(registered \cup {c}) <= Cardinality(Conns)
  BY <1>1, FS_Subset
<1>4. Cardinality(registered) \in Nat /\ Cardinality(Conns) \in Nat
  BY <1>1, FS_CardinalityType
<1>5. Cardinality(registered) < IdSpace
  BY <1>2, <1>3, <1>4
<1>6. \A d \in registered : id[d] # next_id
  BY <1>4, <1>5 DEF IdInv, Age, Ids, TypeOK
<1>7. QED
  BY <1>1, <1>4, <1>5, <1>6

\* Only Register moves the counter, and it makes every older id one older.
LEMMA IdsKept ==
  ASSUME TypeOK, GuardInv, IdInv, [Next]_vars
  PROVE  IdInv'
<1>1. CASE UNCHANGED <<next_id, id, registered>>
  BY <1>1 DEF IdInv, Age
<1>2. ASSUME NEW c \in Conns, Register(c)
      PROVE  IdInv'
  <2>1. c \notin registered
    BY <1>2 DEF Register, GuardInv, Entered, Armed
  <2> DEFINE n == Cardinality(registered)
  <2>2. n \in Nat /\ n < IdSpace /\ IsFiniteSet(registered)
    BY <2>1, IdIsFresh
  <2>3. Cardinality(registered') = n + 1
    BY <1>2, <2>1, <2>2, FS_AddElement DEF Register
  <2>4. next_id' = (IF next_id + 1 = IdSpace THEN 0 ELSE next_id + 1) /\ next_id \in Ids
    BY <1>2, NextId DEF Register, TypeOK
  <2> HIDE DEF n
  <2>5. id'[c] \in Ids /\ Age(c)' <= n + 1
    BY <1>2, <2>2, <2>4 DEF Register, Age, Ids, TypeOK
  <2>6. ASSUME NEW d \in registered
        PROVE  id'[d] \in Ids /\ Age(d)' <= n + 1
    <3>1. id'[d] = id[d] /\ id[d] \in Ids /\ Age(d) <= n
      BY <1>2, <2>1 DEF Register, IdInv, TypeOK, n
    <3>2. QED
      BY <2>2, <2>4, <3>1 DEF Age, Ids
  <2>7. QED
    BY <1>2, <2>3, <2>5, <2>6 DEF Register, IdInv
<1>3. QED
  <2>1. CASE Quiet \/ \E s \in Shards, c \in Conns : Admit(s, c) \/ Refuse(s, c)
    BY <1>1, <2>1 DEF Quiet, Admit, Refuse, table
  <2>2. CASE \E s \in Shards : Break(s)
    BY <1>1, <2>2 DEF Break, DropFutures
  <2>3. CASE \E c \in Conns : NoUpgrade(c) \/ OnConnectRefuses(c) \/ Complete(c)
    BY <1>1, <2>3 DEF NoUpgrade, OnConnectRefuses, Complete, Ends, DropFutures
  <2>4. CASE \E c \in Conns : Upgrade(c) \/ Authenticated(c) \/ Finish(c) \/ Connect(c) \/ FallsDue(c)
    BY <1>1, <2>4 DEF Upgrade, Authenticated, Finish, Connect, FallsDue, table
  <2>5. QED
    BY <1>2, <2>1, <2>2, <2>3, <2>4, Steps

\* Dispatching takes out the entries of the guards it fires and no other, since
\* no two armed guards share an id.
LEMMA DispatchEntries ==
  ASSUME EntriesExact, NEW cs \in SUBSET Conns, Dispatch(cs), id' = id,
         \A c \in job : id[c] \in Ids
  PROVE  EntriesExact'
<1>1. ASSUME NEW c \in job'
      PROVE  states'[id'[c]] = c
  <2>1. c \in job /\ c \notin cs /\ states[id[c]] = c
    BY <1>1 DEF Dispatch, EntriesExact
  <2>2. id[c] \in Ids
    BY <2>1
  <2>3. \A d \in cs \cap job : id[d] # id[c]
    BY <2>1 DEF EntriesExact
  <2>4. QED
    BY <2>1, <2>2, <2>3 DEF Dispatch
<1>2. ASSUME NEW i \in Ids, states'[i] # None
      PROVE  states'[i] \in job' /\ id'[states'[i]] = i
  <2>1. states'[i] = states[i] /\ \A c \in cs \cap job : id[c] # i
    BY <1>2 DEF Dispatch
  <2>2. states[i] \in job /\ id[states[i]] = i
    BY <1>2, <2>1 DEF EntriesExact
  <2>3. QED
    BY <2>1, <2>2 DEF Dispatch
<1>3. QED
  BY <1>1, <1>2 DEF EntriesExact, Ids

\* Every step keeps the table exact: the id of a new entry is not in use, and
\* an entry that is removed is the own one.
LEMMA EntriesKept ==
  ASSUME TypeOK, GuardInv, IdInv, EntriesExact, [Next]_vars
  PROVE  EntriesExact'
<1>0. \A c \in job : id[c] \in Ids
  BY DEF GuardInv, IdInv
<1>1. CASE UNCHANGED <<id, states, job>>
  BY <1>1 DEF EntriesExact
<1>2. ASSUME NEW cs \in SUBSET Conns, Dispatch(cs), id' = id
      PROVE  EntriesExact'
  BY <1>0, <1>2, DispatchEntries
<1>3. ASSUME NEW c \in Conns, Register(c)
      PROVE  EntriesExact'
  <2>1. c \notin registered
    BY <1>3 DEF Register, GuardInv, Entered, Armed
  <2>2. \A d \in job : id[d] # next_id /\ d # c
    BY <2>1, IdIsFresh DEF GuardInv
  <2>3. next_id \in Ids /\ c # None
    BY DEF TypeOK
  <2>4. id' = [id EXCEPT ![c] = next_id] /\ states' = [states EXCEPT ![next_id] = c] /\ job' = job \cup {c}
    BY <1>3 DEF Register
  <2>5. \A d \in job' : states'[id'[d]] = d
    BY <1>0, <2>2, <2>3, <2>4 DEF EntriesExact, TypeOK, GuardInv
  <2>6. ASSUME NEW i \in Ids, states'[i] # None
        PROVE  states'[i] \in job' /\ id'[states'[i]] = i
    <3>1. CASE i = next_id
      BY <2>3, <2>4, <3>1 DEF TypeOK
    <3>2. CASE i # next_id
      <4>1. states'[i] = states[i] /\ states[i] \in job /\ id[states[i]] = i
        BY <2>4, <2>6, <3>2 DEF EntriesExact, TypeOK
      <4>2. QED
        BY <2>2, <2>4, <4>1 DEF TypeOK
    <3>3. QED
      BY <3>1, <3>2
  <2>7. QED
    BY <2>5, <2>6 DEF EntriesExact, Ids
<1>4. QED
  <2>1. CASE Quiet \/ \E s \in Shards, c \in Conns : Admit(s, c) \/ Refuse(s, c)
    BY <1>1, <2>1 DEF Quiet, Admit, Refuse, table
  <2>2. CASE \E s \in Shards : Break(s)
    BY <1>2, <2>2 DEF Break, DropFutures, LiveOn, Live
  <2>3. CASE \E c \in Conns : NoUpgrade(c) \/ OnConnectRefuses(c) \/ Complete(c)
    BY <1>2, <2>3 DEF NoUpgrade, OnConnectRefuses, Complete, Ends, DropFutures
  <2>4. CASE \E c \in Conns : Upgrade(c) \/ Authenticated(c) \/ Connect(c) \/ FallsDue(c)
    BY <1>1, <2>4 DEF Upgrade, Authenticated, Connect, FallsDue, table
  <2>5. CASE \E c \in Conns : Finish(c)
    BY <1>2, <2>5 DEF Finish
  <2>6. QED
    BY <1>3, <2>1, <2>2, <2>3, <2>4, <2>5, Steps

\* Everything the cleanup of connections rests on.
CleanupInv == TypeOK /\ SlotsExact /\ GuardInv /\ IdInv /\ EntriesExact

\* What the cleanup rests on holds throughout.
LEMMA CleanupInvariant == SafeSpec => []CleanupInv
<1>1. Init => GuardInv /\ IdInv /\ EntriesExact
  BY DEF Init, GuardInv, IdInv, EntriesExact, Armed, Entered
<1>2. TypeOK /\ SlotsExact /\ GuardInv /\ IdInv /\ EntriesExact /\ [Next]_vars
      => GuardInv' /\ IdInv' /\ EntriesExact'
  BY GuardsKept, IdsKept, EntriesKept
<1>3. QED
  BY <1>1, <1>2, TypeInvariant, PTL DEF SafeSpec, CleanupInv

\* ConnectionCleanup: for any number of shards that insert and remove at once,
\* and however a connection ends, the shared table holds the connections whose
\* guard is armed and the hooks of each are dispatched once.
THEOREM CleanupIsExact == SafeSpec => []CleanupExact
<1>1. CleanupInv => CleanupExact
  BY DEF CleanupInv, CleanupExact, HookedOnce, GuardInv, TypeOK, Armed, Entered
<1>2. QED
  BY <1>1, CleanupInvariant, PTL

\* max_connections: a slot is held exactly as long as its future exists, so all
\* come back and the limit holds, for any limit and any number of shards.
THEOREM SlotsComeBack == SafeSpec => []SlotsExact
  BY TypeInvariant, PTL
-----------------------------------------------------------------------------
(* The end of listen() *)

\* Every step keeps futures on shards whose loop runs.
LEMMA ShardsKept ==
  ASSUME TypeOK, ShardInv, [Next]_vars
  PROVE  ShardInv'
<1> USE DEF ShardInv, TypeOK
<1>1. CASE Main \/ SpawnFails
  BY <1>1 DEF Main, SpawnShard, ServeFirst, FirstStopped, JoinShards, SpawnFails, loop, Others, Live
<1>2. CASE World
  BY <1>2 DEF World, Connect, FallsDue, BreakListener, RetryElapses, RequestStop, loop, Others, Live, Alive
<1>3. ASSUME NEW s \in Shards, StartShard(s) \/ Wake(s) \/ StopPending(s) \/ AcceptFails(s)
                               \/ AcceptPending(s) \/ ConnsPending(s)
      PROVE  ShardInv'
  BY <1>3 DEF StartShard, Wake, StopPending, AcceptFails, AcceptPending, ConnsPending, GoTo, loop, Others, Live
<1>4. ASSUME NEW s \in Shards, Break(s)
      PROVE  ShardInv'
  BY <1>4 DEF Break, DropFutures, GoTo, loop, Others, Live, LiveOn, Alive
<1>5. ASSUME NEW s \in Shards, NEW c \in Conns, Admit(s, c) \/ Refuse(s, c)
      PROVE  ShardInv'
  BY <1>5 DEF Admit, Refuse, Waiting, GoTo, loop, Others, Live, Alive
<1>6. ASSUME NEW c \in Conns, Future(c)
      PROVE  ShardInv'
  <2>1. spc[home[c]] = "conns" /\ c \in Live
    BY <1>6 DEF Future, Upgrade, NoUpgrade, OnConnectRefuses, Register, Authenticated, Finish, Complete,
                Polled, Live, Alive
  <2>2. Live' \subseteq Live /\ UNCHANGED <<main, home>>
    BY <1>6, <2>1 DEF Future, Upgrade, NoUpgrade, OnConnectRefuses, Register, Authenticated, Finish, Complete,
                Becomes, Ends, DropFutures, Live, Alive, loop
  <2>3. spc' = spc \/ spc' = [spc EXCEPT ![home[c]] = "stop"]
    BY <1>6 DEF Future, Upgrade, NoUpgrade, OnConnectRefuses, Register, Authenticated, Finish, Complete,
                Becomes, Ends, GoTo
  <2>4. home[c] \in Shards /\ \A d \in Live : home[d] \in Shards
    BY DEF Live
  <2>5. \A s \in Shards : spc'[s] = spc[s] \/ (s = home[c] /\ spc'[s] = "stop")
    BY <2>3, <2>4
  <2>6. \A d \in Live' : spc'[home'[d]] \in {"stop", "accept", "conns", "parked"}
    BY <2>2, <2>4, <2>5
  <2>7. QED
    BY <2>1, <2>2, <2>5, <2>6 DEF Others
<1>7. CASE UNCHANGED vars
  BY <1>7 DEF vars, loop, Live, Others
<1>8. QED
  BY <1>1, <1>2, <1>3, <1>4, <1>5, <1>6, <1>7 DEF Next, Round

\* listen() returns only when every shard has stopped, and a stopped shard has
\* dropped its connections: nothing of the server is left.
THEOREM NothingIsLeft == SafeSpec => []NothingOutlivesListen
<1>1. Init => ShardInv
  BY DEF Init, ShardInv, Live, Alive
<1>2. TypeOK /\ ShardInv /\ [Next]_vars => ShardInv'
  BY ShardsKept
<1>3. CleanupInv /\ ShardInv => NothingOutlivesListen
  <2> SUFFICES ASSUME CleanupInv, ShardInv, main = "returned"
               PROVE  /\ \A s \in Shards : spc[s] \in {"unborn", "stopped"}
                      /\ Live = {} /\ slots = 0
                      /\ \A i \in Ids : states[i] = None
    BY DEF NothingOutlivesListen
  <2>1. \A s \in Shards : spc[s] \in {"unborn", "stopped"}
    BY DEF ShardInv, Others
  <2>2. Live = {}
    BY <2>1 DEF ShardInv, CleanupInv, TypeOK, Live
  <2>3. slots = 0
    BY <2>2, FS_EmptySet DEF CleanupInv, SlotsExact
  <2>4. \A i \in Ids : states[i] = None
    BY <2>2 DEF CleanupInv, EntriesExact, TypeOK
  <2>5. QED
    BY <2>1, <2>2, <2>3, <2>4
<1>4. QED
  BY <1>1, <1>2, <1>3, CleanupInvariant, PTL DEF SafeSpec, CleanupInv
===============================================================================
