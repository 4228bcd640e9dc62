---------------------------- MODULE ServicesProofs ----------------------------
(***************************************************************************)
(* The services that share nothing but the process: the scheduler, the     *)
(* error aggregation and the two publishers, for any jobs, threads,        *)
(* connections, keys and topics and any bounds.                            *)
(***************************************************************************)
EXTENDS MCServices, FiniteSetTheorems, TLAPS

AllSafe == AllInit /\ [][AllNext]_all
-----------------------------------------------------------------------------
(* The scheduler *)

\* Once a body was timed by an old period, the sleep under way was begun with
\* the new one, unless the period has been set again since.
PeriodInv ==
  /\ phase \in [Jobs -> {"unknown", "pending", "ready", "asleep"}]
  /\ period \in [Jobs -> Periods]
  /\ DOMAIN slept = Jobs /\ DOMAIN stale = Jobs
  /\ \A j \in Jobs : /\ stale[j] \in {0, 1}
                     /\ stale[j] = 1 /\ phase[j] = "asleep" => slept[j] = period[j]

\* Every step of the scheduler keeps what is known of the sleep under way.
LEMMA PeriodInvKept == PeriodInv /\ [Next]_vars => PeriodInv'
<1> SUFFICES ASSUME PeriodInv, [Next]_vars PROVE PeriodInv'
  OBVIOUS
<1> USE DEF PeriodInv
<1>1. CASE Spawn
  BY <1>1 DEF Spawn
<1>2. CASE Tick
  BY <1>2 DEF Tick
<1>3. ASSUME NEW j \in Jobs, AddJob(j)
      PROVE  PeriodInv'
  BY <1>3 DEF AddJob
<1>4. ASSUME NEW j \in Jobs, ReadDuration(j)
      PROVE  PeriodInv'
  BY <1>4 DEF ReadDuration
<1>5. ASSUME NEW j \in Jobs, Fire(j)
      PROVE  PeriodInv'
  <2>1. /\ phase' = [phase EXCEPT ![j] = "ready"] /\ UNCHANGED <<period, slept>>
        /\ stale' = [stale EXCEPT ![j] = IF slept[j] = period[j] THEN @ ELSE CountUp(@)]
    BY <1>5 DEF Fire
  <2>2. slept[j] # period[j] => stale[j] = 0
    BY <1>5 DEF Fire
  <2>3. CountUp(0) \in {0, 1}
    BY DEF CountUp
  <2>4. stale'[j] \in {0, 1}
    BY <2>1, <2>2, <2>3
  <2>5. QED
    BY <2>1, <2>4
<1>6. ASSUME NEW j \in Jobs, BodyEnds(j)
      PROVE  PeriodInv'
  BY <1>6 DEF BodyEnds
<1>7. ASSUME NEW j \in Jobs, NEW d \in Periods, SetDuration(j, d)
      PROVE  PeriodInv'
  BY <1>7 DEF SetDuration
<1>8. CASE UNCHANGED vars
  BY <1>8 DEF vars
<1>9. QED
  BY <1>1, <1>2, <1>3, <1>4, <1>5, <1>6, <1>7, <1>8 DEF Next

\* AdaptiveJob::run reads the shared period on every turn of its loop: however
\* often triggers set it, at most one body is timed by the period before.
THEOREM NewPeriodIsUsed == AllSafe => []ChangeTakesEffect
<1>1. AllInit => PeriodInv
  BY DEF AllInit, Init, PeriodInv
<1>2. PeriodInv => ChangeTakesEffect
  <2> SUFFICES ASSUME PeriodInv, NEW j \in Jobs PROVE stale[j] <= 1
    BY DEF ChangeTakesEffect
  <2>1. stale[j] = 0 \/ stale[j] = 1
    BY DEF PeriodInv
  <2>2. QED
    BY <2>1
<1>3. [AllNext]_all => [Next]_vars
  BY DEF AllNext, all
<1>4. QED
  BY <1>1, <1>2, <1>3, PeriodInvKept, PTL DEF AllSafe
-----------------------------------------------------------------------------
(* The error aggregation *)

\* The occurrences counted under the keys of f, and the threads between stamping
\* and queueing.
Occurrences(f) == UNION {{k} \X (1..f[k].count) : k \in DOMAIN f}
Stamping == {t \in Threads : stamped[t] # None}
Stats == [count : Nat \ {0}, first : Nat, last : Nat, text : Texts]
LogEntries == [text : Texts, time : Nat]

\* What is logged is in one of five places; each is finite.
StoreInv ==
  /\ clock \in 0..MaxTime /\ task \in BOOLEAN
  /\ stamped \in [Threads -> LogEntries \cup {None}]
  /\ \A t \in Threads : stamped[t] # None => stamped[t].time <= clock
  /\ IsFiniteSet(Stamping)
  /\ channel \in Seq(LogEntries)
  /\ \A i \in 1..Len(channel) : channel[i].time <= clock
  /\ storage \in [DOMAIN storage -> Stats]
  /\ \A k \in DOMAIN storage : storage[k].first <= clock /\ storage[k].last <= clock
  /\ IsFiniteSet(DOMAIN storage) /\ IsFiniteSet(Occurrences(storage))
  /\ logged \in 0..MaxEvents /\ refused \in Nat /\ forgotten \in Nat
  /\ E!StorageBounded
  /\ E!EveryErrorCounted

\* The counting of the instance is that of this module.
LEMMA SameCardinality == \A S : E!Cardinality(S) = Cardinality(S)
  BY DEF E!Cardinality, Cardinality, E!IsFiniteSet, IsFiniteSet

\* An occurrence is an entry and one of the numbers up to its count.
LEMMA OccurrencesMember ==
  ASSUME NEW f, NEW x
  PROVE  x \in Occurrences(f) <=>
           \E k \in DOMAIN f, i \in Int : i \in 1..f[k].count /\ x = <<k, i>>
  BY DEF Occurrences

\* The occurrences under one key are as many as its count.
LEMMA ColumnCount ==
  ASSUME NEW k, NEW n \in Nat
  PROVE  IsFiniteSet({k} \X (1..n)) /\ Cardinality({k} \X (1..n)) = n
<1> DEFINE g == [i \in 1..n |-> <<k, i>>]
<1>1. g \in [1..n -> {k} \X (1..n)]
  OBVIOUS
<1>2. \A i, j \in 1..n : g[i] = g[j] => i = j
  OBVIOUS
<1>3. \A x \in {k} \X (1..n) : \E i \in 1..n : g[i] = x
  OBVIOUS
<1> HIDE DEF g
<1>4. g \in Bijection(1..n, {k} \X (1..n))
  BY <1>1, <1>2, <1>3 DEF Bijection, Injection, Surjection, IsInjective
<1>5. IsFiniteSet(1..n) /\ Cardinality(1..n) = n
  BY FS_Interval
<1>6. QED
  BY <1>4, <1>5, FS_Bijection DEF ExistsBijection

\* g is f with s under k, where s counts one occurrence more than f has there.
CountsOneMore(g, f, k, s) ==
  /\ \/ k \in DOMAIN f /\ f[k].count \in Nat /\ s.count = f[k].count + 1
     \/ k \notin DOMAIN f /\ s.count = 1
  /\ g = [l \in DOMAIN f \cup {k} |-> IF l = k THEN s ELSE f[l]]

\* One more occurrence, under a key that is there or a new one.
LEMMA OneMore ==
  ASSUME NEW f, IsFiniteSet(Occurrences(f)), NEW k, NEW s, NEW g, CountsOneMore(g, f, k, s)
  PROVE  /\ IsFiniteSet(Occurrences(g))
         /\ Cardinality(Occurrences(g)) = Cardinality(Occurrences(f)) + 1
<1> USE DEF CountsOneMore
<1> DEFINE x == <<k, s.count>>
<1>1. x \notin Occurrences(f)
  <2> SUFFICES ASSUME x \in Occurrences(f) PROVE FALSE
    OBVIOUS
  <2>1. PICK l \in DOMAIN f, i \in Int : i \in 1..f[l].count /\ x = <<l, i>>
    BY OccurrencesMember
  <2>2. l = k /\ i = s.count
    BY <2>1
  <2>3. QED
    BY <2>1, <2>2
<1>2. Occurrences(g) = Occurrences(f) \cup {x}
  <2>0. DOMAIN g = DOMAIN f \cup {k} /\ g[k] = s /\ (\A l \in DOMAIN f : l # k => g[l] = f[l])
    OBVIOUS
  <2>1. ASSUME NEW y \in Occurrences(g) PROVE y \in Occurrences(f) \cup {x}
    <3>1. PICK l \in DOMAIN g, i \in Int : i \in 1..g[l].count /\ y = <<l, i>>
      BY OccurrencesMember
    <3>2. CASE l # k
      BY <2>0, <3>1, <3>2, OccurrencesMember
    <3>3. CASE l = k /\ k \notin DOMAIN f
      <4>1. i = 1 /\ s.count = 1
        BY <2>0, <3>1, <3>3
      <4>2. QED
        BY <3>1, <3>3, <4>1
    <3>4. CASE l = k /\ k \in DOMAIN f
      <4>1. i \in 1..f[k].count \/ i = s.count
        BY <2>0, <3>1, <3>4
      <4>2. QED
        BY <3>1, <3>4, <4>1, OccurrencesMember
    <3>5. QED
      BY <3>2, <3>3, <3>4
  <2>2. ASSUME NEW y \in Occurrences(f) PROVE y \in Occurrences(g)
    <3>1. PICK l \in DOMAIN f, i \in Int : i \in 1..f[l].count /\ y = <<l, i>>
      BY OccurrencesMember
    <3>2. l \in DOMAIN g /\ i \in 1..g[l].count
      BY <2>0, <3>1
    <3>3. QED
      BY <3>1, <3>2, OccurrencesMember
  <2>3. x \in Occurrences(g)
    <3>1. s.count \in 1..g[k].count /\ k \in DOMAIN g
      BY <2>0
    <3>2. QED
      BY <3>1, OccurrencesMember
  <2>4. QED
    BY <2>1, <2>2, <2>3
<1> HIDE DEF x
<1>3. PICK S, T, y : S = Occurrences(f) /\ T = Occurrences(g) /\ y = x
  OBVIOUS
<1>4. IsFiniteSet(S) /\ y \notin S /\ T = S \cup {y}
  BY <1>1, <1>2, <1>3
<1>5. IsFiniteSet(T) /\ Cardinality(T) = Cardinality(S) + 1
  BY <1>4, FS_AddElement
<1>6. QED
  BY <1>3, <1>5

\* A key is given up with its occurrences.
LEMMA KeyLess ==
  ASSUME NEW f, IsFiniteSet(Occurrences(f)), NEW k \in DOMAIN f, f[k].count \in Nat
  PROVE  LET g == [l \in DOMAIN f \ {k} |-> f[l]]
         IN  /\ IsFiniteSet(Occurrences(g))
             /\ Cardinality(Occurrences(f)) = Cardinality(Occurrences(g)) + f[k].count
<1> DEFINE g == [l \in DOMAIN f \ {k} |-> f[l]]
           C == {k} \X (1..f[k].count)
<1>0. DOMAIN g = DOMAIN f \ {k} /\ \A l \in DOMAIN g : g[l] = f[l]
  OBVIOUS
<1> HIDE DEF g
<1>1. Occurrences(g) \subseteq Occurrences(f)
  BY <1>0, OccurrencesMember
<1>2. C \subseteq Occurrences(f)
  BY OccurrencesMember
<1>3. Occurrences(f) \subseteq Occurrences(g) \cup C
  <2> SUFFICES ASSUME NEW y \in Occurrences(f), y \notin C PROVE y \in Occurrences(g)
    OBVIOUS
  <2>1. PICK l \in DOMAIN f, i \in Int : i \in 1..f[l].count /\ y = <<l, i>>
    BY OccurrencesMember
  <2>2. l # k
    BY <2>1
  <2>3. QED
    BY <1>0, <2>1, <2>2, OccurrencesMember
<1>4. Occurrences(g) \cap C = {}
  <2> SUFFICES ASSUME NEW y \in Occurrences(g), y \in C PROVE FALSE
    OBVIOUS
  <2>1. PICK l \in DOMAIN g, i \in Int : i \in 1..g[l].count /\ y = <<l, i>>
    BY OccurrencesMember
  <2>2. QED
    BY <1>0, <2>1
<1>5. IsFiniteSet(C) /\ Cardinality(C) = f[k].count
  BY ColumnCount
<1>6. IsFiniteSet(Occurrences(g))
  BY <1>1, FS_Subset
<1> HIDE DEF C
<1>7. Occurrences(f) = Occurrences(g) \cup C
  BY <1>1, <1>2, <1>3
<1>8. Cardinality(Occurrences(g)) \in Nat
  BY <1>6, FS_CardinalityType
<1>9. Cardinality(Occurrences(f)) = Cardinality(Occurrences(g)) + f[k].count
  BY <1>4, <1>5, <1>6, <1>7, <1>8, FS_Union, FS_EmptySet
<1>10. QED
  BY <1>6, <1>9 DEF g

\* An empty map counts nothing.
LEMMA NoOccurrences == Occurrences(<<>>) = {} /\ IsFiniteSet({}) /\ Cardinality({}) = 0
  BY FS_EmptySet DEF Occurrences

\* A refused entry is counted among the refused.
LEMMA OneRefused == \A c, r \in Nat : r + 1 \in Nat /\ c + (r + 1) = c + r + 1
  OBVIOUS

\* What the counts need of arithmetic.
LEMMA LessOne == \A n \in Nat : n - 1 # n /\ n - 1 # n + 1 /\ (n - 1) + 1 = n
  OBVIOUS

\* The channel without its first entry is still a channel.
LEMMA EntryTaken ==
  ASSUME StoreInv, channel # <<>>, channel' = Tail(channel)
  PROVE  channel' \in Seq(LogEntries) /\ Len(channel') = Len(channel) - 1
         /\ \A i \in 1..Len(channel') : channel'[i].time <= clock
<1>1. channel \in Seq(LogEntries) /\ \A i \in 1..Len(channel) : channel[i].time <= clock
  BY DEF StoreInv
<1>2. channel' \in Seq(LogEntries) /\ Len(channel') = Len(channel) - 1
      /\ \A i \in 1..Len(channel') : i + 1 \in 1..Len(channel) /\ channel'[i] = channel[i + 1]
  BY <1>1
<1>3. QED
  BY <1>1, <1>2

\* The map with one more entry folded in, before the entry leaves the channel.
LEMMA FoldedIn ==
  ASSUME StoreInv, NEW g, g \in [DOMAIN g -> Stats], IsFiniteSet(DOMAIN g),
         IsFiniteSet(Occurrences(g)),
         \A k \in DOMAIN g : g[k].first <= clock /\ g[k].last <= clock,
         Cardinality(DOMAIN g) <= (IF Limit = 0 THEN 1 ELSE Limit),
         storage' = g, forgotten' \in Nat,
         channel' \in Seq(LogEntries), \A i \in 1..Len(channel') : channel'[i].time <= clock,
         E!EveryErrorCounted',
         UNCHANGED <<clock, stamped, task, logged, refused>>
  PROVE  StoreInv'
<1> USE ServicesAssumption
<1>1. E!StorageBounded'
  BY SameCardinality DEF E!StorageBounded, E!Stored
<1>2. QED
  BY <1>1 DEF StoreInv, Stamping

\* Every step of the aggregation keeps every error in one of five places.
LEMMA StoreInvKept ==
  ASSUME StoreInv, E!Next \/ UNCHANGED errors
  PROVE  StoreInv'
<1> USE ServicesAssumption
<1>0. /\ Cardinality(Stamping) \in Nat /\ Cardinality(Occurrences(storage)) \in Nat
      /\ Len(channel) \in Nat
  BY FS_CardinalityType DEF StoreInv
<1>a. logged = Cardinality(Stamping) + Len(channel) + Cardinality(Occurrences(storage)) + forgotten + refused
  BY SameCardinality DEF StoreInv, E!EveryErrorCounted, E!Sum, Occurrences, Stamping
<1>t. forgotten \in Nat /\ refused \in Nat
  BY DEF StoreInv
<1>b. ASSUME logged' = Cardinality(Stamping') + Len(channel') + Cardinality(Occurrences(storage')) + forgotten' + refused'
      PROVE  E!EveryErrorCounted'
  BY <1>b, SameCardinality DEF E!EveryErrorCounted, E!Sum, Occurrences, Stamping
<1>1. CASE E!TimePasses
  <2>1. clock' = clock + 1 /\ clock' \in 0..MaxTime
        /\ UNCHANGED <<stamped, channel, storage, task, logged, refused, forgotten>>
    <3>1. clock < MaxTime /\ clock' = clock + 1
          /\ UNCHANGED <<stamped, channel, storage, task, logged, refused, forgotten>>
      BY <1>1 DEF E!TimePasses
    <3>2. clock \in 0..MaxTime
      BY DEF StoreInv
    <3>3. QED
      BY <3>1, <3>2
  <2>2. E!EveryErrorCounted' /\ E!StorageBounded' /\ Stamping' = Stamping
    BY <2>1 DEF StoreInv, E!EveryErrorCounted, E!StorageBounded, E!Stored, Stamping
  <2>3. \A t \in Threads : stamped[t] # None => stamped[t].time \in Nat
    BY DEF StoreInv, LogEntries
  <2>4. \A i \in 1..Len(channel) : channel[i].time \in Nat
    <3>1. \A i \in 1..Len(channel) : channel[i] \in LogEntries
      BY DEF StoreInv
    <3>2. QED
      BY <3>1 DEF LogEntries
  <2>5. \A k \in DOMAIN storage : storage[k].first \in Nat /\ storage[k].last \in Nat
    BY DEF StoreInv, Stats
  <2>6. /\ \A t \in Threads : stamped[t] # None => stamped[t].time <= clock'
        /\ \A i \in 1..Len(channel) : channel[i].time <= clock'
        /\ \A k \in DOMAIN storage : storage[k].first <= clock' /\ storage[k].last <= clock'
    <3>1. \A m \in Nat : m <= clock => m <= clock'
      BY <2>1 DEF StoreInv
    <3>2. \A t \in Threads : stamped[t] # None => stamped[t].time <= clock'
      BY <2>3, <3>1 DEF StoreInv
    <3>3. \A i \in 1..Len(channel) : channel[i].time <= clock'
      BY <2>4, <3>1 DEF StoreInv
    <3>4. \A k \in DOMAIN storage : storage[k].first <= clock' /\ storage[k].last <= clock'
      BY <2>5, <3>1 DEF StoreInv
    <3>5. QED
      BY <3>2, <3>3, <3>4
  <2>7. QED
    BY <2>1, <2>2, <2>6 DEF StoreInv
<1>2. ASSUME NEW t \in Threads, NEW text \in Texts, E!Stamp(t, text)
      PROVE  StoreInv'
  <2> DEFINE e == [text |-> text, time |-> clock]
  <2>1. e \in LogEntries /\ e # None /\ e.time = clock
    BY DEF LogEntries, StoreInv
  <2>2. stamped[t] = None /\ logged < MaxEvents /\ stamped' = [stamped EXCEPT ![t] = e] /\ logged' = logged + 1
        /\ UNCHANGED <<clock, channel, storage, task, refused, forgotten>>
    BY <1>2 DEF E!Stamp
  <2> HIDE DEF e
  <2>3. stamped' \in [Threads -> LogEntries \cup {None}]
        /\ \A u \in Threads : stamped'[u] # None => stamped'[u].time <= clock
    BY <2>1, <2>2 DEF StoreInv
  <2>4. Stamping' = Stamping \cup {t} /\ t \notin Stamping
    BY <2>1, <2>2 DEF StoreInv, Stamping
  <2>5. IsFiniteSet(Stamping') /\ Cardinality(Stamping') = Cardinality(Stamping) + 1
    BY <2>4, FS_AddElement DEF StoreInv
  <2>6. E!EveryErrorCounted'
    <3>1. logged' = Cardinality(Stamping') + Len(channel') + Cardinality(Occurrences(storage')) + forgotten' + refused'
      <4>1. PICK x, y \in Nat : x = Cardinality(Stamping) /\ y = Cardinality(Occurrences(storage))
        BY <1>0
      <4>2. Cardinality(Stamping') = x + 1 /\ Occurrences(storage') = Occurrences(storage)
        BY <2>2, <2>5, <4>1 DEF Occurrences
      <4>3. PICK l \in Nat : l = Len(channel) /\ logged = x + l + y + forgotten + refused
        BY <1>0, <1>a, <4>1
      <4>4. logged + 1 = (x + 1) + l + y + forgotten + refused
        BY <1>t, <4>3
      <4>5. QED
        BY <2>2, <4>1, <4>2, <4>3, <4>4
    <3>2. QED
      BY <1>b, <3>1
  <2>7. E!StorageBounded'
    BY <2>2 DEF StoreInv, E!StorageBounded, E!Stored
  <2>8. logged' \in 0..MaxEvents
    BY <2>2 DEF StoreInv
  <2>9. QED
    BY <2>2, <2>3, <2>5, <2>6, <2>7, <2>8 DEF StoreInv
<1>3. ASSUME NEW t \in Threads, E!Queue(t)
      PROVE  StoreInv'
  <2>1. stamped[t] # None /\ stamped' = [stamped EXCEPT ![t] = None]
        /\ UNCHANGED <<clock, storage, task, logged, forgotten>>
        /\ \/ channel' = Append(channel, stamped[t]) /\ UNCHANGED refused
           \/ refused' = refused + 1 /\ UNCHANGED channel
    BY <1>3 DEF E!Queue
  <2>2. stamped[t] \in LogEntries /\ stamped[t].time <= clock
    BY <2>1 DEF StoreInv
  <2>3. stamped' \in [Threads -> LogEntries \cup {None}]
        /\ \A u \in Threads : stamped'[u] # None => stamped'[u].time <= clock
    BY <2>1 DEF StoreInv
  <2>4. Stamping' = Stamping \ {t} /\ t \in Stamping
    BY <2>1 DEF StoreInv, Stamping
  <2>5. IsFiniteSet(Stamping') /\ Cardinality(Stamping') = Cardinality(Stamping) - 1
    BY <2>4, FS_RemoveElement DEF StoreInv
  <2>6. channel' \in Seq(LogEntries) /\ (\A i \in 1..Len(channel') : channel'[i].time <= clock)
        /\ refused' \in Nat /\ Len(channel') + refused' = Len(channel) + refused + 1
    <3>1. CASE channel' = Append(channel, stamped[t]) /\ UNCHANGED refused
      <4>1. channel \in Seq(LogEntries) /\ refused \in Nat /\ \A i \in 1..Len(channel) : channel[i].time <= clock
        BY DEF StoreInv
      <4>2. channel' \in Seq(LogEntries) /\ Len(channel') = Len(channel) + 1 /\ channel'[Len(channel) + 1] = stamped[t]
            /\ \A i \in 1..Len(channel) : channel'[i] = channel[i]
        BY <2>2, <3>1, <4>1
      <4>3. \A i \in 1..Len(channel') : i \in 1..Len(channel) \/ i = Len(channel) + 1
        BY <4>1, <4>2
      <4>4. \A i \in 1..Len(channel') : channel'[i].time <= clock
        BY <2>2, <4>1, <4>2, <4>3
      <4>5. Len(channel') + refused' = Len(channel) + refused + 1
        BY <3>1, <4>1, <4>2
      <4>6. QED
        BY <3>1, <4>1, <4>2, <4>4, <4>5
    <3>2. CASE refused' = refused + 1 /\ UNCHANGED channel
      <4>1. refused' \in Nat /\ Len(channel) + refused' = Len(channel) + refused + 1
        BY <1>0, <1>t, <3>2, OneRefused, Zenon
      <4>2. QED
        BY <3>2, <4>1 DEF StoreInv
    <3>3. QED
      BY <2>1, <3>1, <3>2
  <2>7. E!EveryErrorCounted'
    <3>1. logged' = Cardinality(Stamping') + Len(channel') + Cardinality(Occurrences(storage')) + forgotten' + refused'
      <4>1. Len(channel') + refused' = Len(channel) + refused + 1 /\ Len(channel') \in Nat /\ refused' \in Nat
        BY <2>6
      <4>2. Cardinality(Stamping') = Cardinality(Stamping) - 1
        BY <2>5
      <4>3. logged' = logged /\ storage' = storage /\ forgotten' = forgotten
        BY <2>1
      <4>4. PICK s \in Nat, c \in Nat, o \in Nat, f \in Nat, r \in Nat :
              /\ s = Cardinality(Stamping) /\ c = Len(channel) /\ o = Cardinality(Occurrences(storage))
              /\ f = forgotten /\ r = refused
        BY <1>0, <1>t
      <4>5. PICK c2 \in Nat, r2 \in Nat : c2 = Len(channel') /\ r2 = refused'
        BY <4>1
      <4>6. c2 + r2 = c + r + 1
        BY <4>1, <4>4, <4>5
      <4> HIDE ServicesAssumption
      <4>7. s + c + o + f + r = (s - 1) + c2 + o + f + r2
        BY <4>6
      <4>8. QED
        BY <1>a, <4>2, <4>3, <4>4, <4>5, <4>7
    <3>2. QED
      BY <1>b, <3>1
  <2>8. E!StorageBounded'
    BY <2>1 DEF StoreInv, E!StorageBounded, E!Stored
  <2>9. QED
    BY <2>1, <2>3, <2>5, <2>6, <2>7, <2>8 DEF StoreInv
<1> DEFINE e == Head(channel)
           k == Pattern[e.text]
           With(f, s) == [l \in DOMAIN f \cup {k} |-> IF l = k THEN s ELSE f[l]]
<1>4. channel # <<>> => e \in LogEntries /\ e.time <= clock /\ e.time \in Nat /\ e.text \in Texts
  <2> SUFFICES ASSUME channel # <<>>
               PROVE  e \in LogEntries /\ e.time <= clock /\ e.time \in Nat /\ e.text \in Texts
    OBVIOUS
  <2>1. 1 \in 1..Len(channel) /\ e = channel[1] /\ e \in LogEntries
    BY DEF StoreInv
  <2>2. e.time <= clock
    BY <2>1 DEF StoreInv
  <2>3. QED
    BY <2>1, <2>2 DEF LogEntries
<1> HIDE DEF e, k
<1>7. ASSUME channel # <<>>, channel' = Tail(channel), forgotten' \in Nat,
             UNCHANGED <<stamped, logged, refused>>, IsFiniteSet(Occurrences(storage')),
             Cardinality(Occurrences(storage')) + forgotten' = Cardinality(Occurrences(storage)) + forgotten + 1
      PROVE  E!EveryErrorCounted'
  <2>1. Len(channel') = Len(channel) - 1 /\ Stamping' = Stamping /\ Cardinality(Occurrences(storage')) \in Nat
    BY <1>7, EntryTaken, FS_CardinalityType DEF Stamping
  <2>2. logged' = Cardinality(Stamping') + Len(channel') + Cardinality(Occurrences(storage')) + forgotten' + refused'
    <3>1. PICK o \in Nat : o = Cardinality(Occurrences(storage'))
      BY <2>1
    <3>2. PICK f \in Nat : f = forgotten'
      BY <1>7
    <3>3. PICK s \in Nat, c \in Nat, p \in Nat, r \in Nat :
            s = Cardinality(Stamping) /\ c = Len(channel) /\ p = Cardinality(Occurrences(storage)) /\ r = refused
      BY <1>0, <1>t
    <3>4. PICK q \in Nat : q = forgotten
      BY <1>t
    <3>5. o + f = p + q + 1
      BY <1>7, <3>1, <3>2, <3>3, <3>4
    <3> HIDE ServicesAssumption
    <3>6. s + c + p + q + r = s + (c - 1) + o + f + r
      BY <3>5
    <3>7. QED
      BY <1>a, <1>7, <2>1, <3>1, <3>2, <3>3, <3>4, <3>6
  <2>3. QED
    BY <1>b, <2>2
<1>5. CASE E!Repeat
  <2> DEFINE s == [count |-> storage[k].count + 1, first |-> storage[k].first, last |-> e.time, text |-> e.text]
  <2>1. channel # <<>> /\ k \in DOMAIN storage /\ storage' = With(storage, s) /\ channel' = Tail(channel)
        /\ UNCHANGED <<clock, stamped, task, logged, refused, forgotten>>
    BY <1>5 DEF E!Repeat, E!Stored, E!Key, E!Entry, E!With, E!Stats, e, k
  <2>2. storage[k].count \in Nat /\ storage[k].first \in Nat /\ storage[k].first <= clock
    BY <2>1 DEF StoreInv, Stats
  <2>3. s \in Stats /\ s.count = storage[k].count + 1 /\ s.first <= clock /\ s.last <= clock
    BY <1>4, <2>1, <2>2 DEF Stats
  <2> HIDE DEF s
  <2> DEFINE g == With(storage, s)
  <2>4. DOMAIN g = DOMAIN storage /\ g \in [DOMAIN g -> Stats]
        /\ \A l \in DOMAIN g : g[l].first <= clock /\ g[l].last <= clock
    BY <2>1, <2>3 DEF StoreInv
  <2>5. IsFiniteSet(Occurrences(g)) /\ Cardinality(Occurrences(g)) = Cardinality(Occurrences(storage)) + 1
    <3>1. IsFiniteSet(Occurrences(storage)) /\ g = [l \in DOMAIN storage \cup {k} |-> IF l = k THEN s ELSE storage[l]]
      BY DEF StoreInv
    <3> HIDE DEF g
    <3>2. QED
      <4>1. k \in DOMAIN storage /\ storage[k].count \in Nat /\ s.count = storage[k].count + 1
        BY <2>1, <2>2, <2>3
      <4>2. CountsOneMore(g, storage, k, s)
        BY <3>1, <4>1 DEF CountsOneMore
      <4>3. QED
        BY <3>1, <4>2, OneMore, Zenon
  <2>6. Cardinality(DOMAIN g) <= (IF Limit = 0 THEN 1 ELSE Limit)
    BY <2>4, SameCardinality DEF StoreInv, E!StorageBounded, E!Stored
  <2> HIDE DEF g
  <2>7. Cardinality(Occurrences(g)) + forgotten = Cardinality(Occurrences(storage)) + forgotten + 1
    BY <1>0, <2>5 DEF StoreInv
  <2>8. storage' = g
    BY <2>1 DEF g
  <2>9. IsFiniteSet(DOMAIN g) /\ forgotten \in Nat
    BY <2>4 DEF StoreInv
  <2>10. E!EveryErrorCounted'
    <3>1. UNCHANGED <<stamped, logged, refused, forgotten>>
      BY <2>1
    <3>2. QED
      BY <1>7, <2>1, <2>5, <2>7, <2>8, <2>9, <3>1
  <2>11. QED
    BY <2>1, <2>4, <2>5, <2>6, <2>8, <2>9, <2>10, EntryTaken, FoldedIn
<1>6. ASSUME NEW v, E!Insert(v)
      PROVE  StoreInv'
  <2> DEFINE s == [count |-> 1, first |-> e.time, last |-> e.time, text |-> e.text]
  <2>1. channel # <<>> /\ k \notin DOMAIN storage /\ channel' = Tail(channel)
        /\ UNCHANGED <<clock, stamped, task, logged, refused>>
    BY <1>6 DEF E!Insert, E!Stored, E!Key, E!Entry, e, k
  <2>2. s \in Stats /\ s.count = 1 /\ s.first <= clock /\ s.last <= clock
    BY <1>4, <2>1 DEF Stats
  <2>3. ASSUME NEW f, f \in [DOMAIN f -> Stats], k \notin DOMAIN f, IsFiniteSet(DOMAIN f), IsFiniteSet(Occurrences(f)),
               \A l \in DOMAIN f : f[l].first <= clock /\ f[l].last <= clock,
               Cardinality(DOMAIN f) < (IF Limit = 0 THEN 1 ELSE Limit),
               storage' = With(f, s), forgotten' \in Nat,
               Cardinality(Occurrences(f)) + forgotten' = Cardinality(Occurrences(storage)) + forgotten
        PROVE  StoreInv'
    <3> DEFINE g == With(f, s)
    <3> HIDE DEF s
    <3>1. DOMAIN g = DOMAIN f \cup {k} /\ g \in [DOMAIN g -> Stats]
          /\ \A l \in DOMAIN g : g[l].first <= clock /\ g[l].last <= clock
      BY <2>2, <2>3
    <3>2. IsFiniteSet(Occurrences(g)) /\ Cardinality(Occurrences(g)) = Cardinality(Occurrences(f)) + 1
      <4>1. g = [l \in DOMAIN f \cup {k} |-> IF l = k THEN s ELSE f[l]]
        OBVIOUS
      <4> HIDE DEF g
      <4>2. QED
        <5>1. IsFiniteSet(Occurrences(f)) /\ k \notin DOMAIN f /\ s.count = 1
          BY <2>2, <2>3
        <5>2. CountsOneMore(g, f, k, s)
          BY <4>1, <5>1 DEF CountsOneMore
        <5>3. QED
          BY <5>1, <5>2, OneMore, Zenon
    <3>3. IsFiniteSet(DOMAIN g) /\ Cardinality(DOMAIN g) = Cardinality(DOMAIN f) + 1
      BY <2>3, <3>1, FS_AddElement
    <3>4. storage' = g
      BY <2>3
    <3> HIDE DEF g
    <3>5. Cardinality(DOMAIN f) \in Nat /\ Cardinality(Occurrences(f)) \in Nat
      BY <2>3, FS_CardinalityType
    <3>6. Cardinality(DOMAIN g) <= (IF Limit = 0 THEN 1 ELSE Limit)
      BY <2>3, <3>3, <3>5
    <3>7. Cardinality(Occurrences(g)) + forgotten' = Cardinality(Occurrences(storage)) + forgotten + 1
      <4>1. PICK n \in Nat, o \in Nat, x \in Nat, q \in Nat :
              n = Cardinality(Occurrences(f)) /\ o = Cardinality(Occurrences(storage)) /\ x = forgotten' /\ q = forgotten
        BY <1>0, <1>t, <2>3, <3>5
      <4>2. n + x = o + q
        BY <2>3, <4>1
      <4> HIDE ServicesAssumption
      <4>3. (n + 1) + x = o + q + 1
        BY <4>2
      <4>4. QED
        BY <3>2, <4>1, <4>3
    <3>8. E!EveryErrorCounted'
      <4>1. UNCHANGED <<stamped, logged, refused>>
        BY <2>1
      <4>2. QED
        BY <1>7, <2>1, <2>3, <3>2, <3>4, <3>7, <4>1
    <3>9. QED
      BY <2>1, <2>3, <3>1, <3>2, <3>3, <3>4, <3>6, <3>8, EntryTaken, FoldedIn
  <2> HIDE DEF s
  <2>4. Cardinality(DOMAIN storage) \in Nat /\ Cardinality(DOMAIN storage) <= (IF Limit = 0 THEN 1 ELSE Limit)
        /\ (Cardinality(DOMAIN storage) = 0 <=> DOMAIN storage = {})
    BY FS_CardinalityType, FS_EmptySet, SameCardinality DEF StoreInv, E!StorageBounded, E!Stored
  <2>5. CASE E!Full /\ E!Stored # {}
    <3> DEFINE f == [l \in DOMAIN storage \ {v} |-> storage[l]]
    <3>1. v \in DOMAIN storage /\ storage' = With(f, s) /\ forgotten' = forgotten + storage[v].count
      BY <1>6, <2>5 DEF E!Insert, E!Oldest, E!Stored, E!Less, E!Restrict, E!With, E!Stats, E!Key, E!Entry,
                        e, k, s
    <3>2. storage[v].count \in Nat
      BY <3>1 DEF StoreInv, Stats
    <3>3. IsFiniteSet(Occurrences(f)) /\ Cardinality(Occurrences(storage)) = Cardinality(Occurrences(f)) + storage[v].count
      BY <3>1, <3>2, KeyLess DEF StoreInv
    <3>4. DOMAIN f = DOMAIN storage \ {v} /\ f \in [DOMAIN f -> Stats]
          /\ \A l \in DOMAIN f : f[l].first <= clock /\ f[l].last <= clock
      BY DEF StoreInv
    <3> HIDE DEF f
    <3>5. IsFiniteSet(DOMAIN f) /\ Cardinality(DOMAIN f) = Cardinality(DOMAIN storage) - 1
      BY <3>1, <3>4, FS_RemoveElement DEF StoreInv
    <3>6. Cardinality(DOMAIN f) < (IF Limit = 0 THEN 1 ELSE Limit)
      BY <2>4, <3>5
    <3>7. Cardinality(Occurrences(f)) \in Nat
      BY <3>3, FS_CardinalityType
    <3>8. forgotten' \in Nat
          /\ Cardinality(Occurrences(f)) + forgotten' = Cardinality(Occurrences(storage)) + forgotten
      <4>1. PICK n \in Nat, o \in Nat, q \in Nat :
              n = storage[v].count /\ o = Cardinality(Occurrences(f)) /\ q = forgotten
        BY <1>t, <3>2, <3>7
      <4> HIDE ServicesAssumption
      <4>2. q + n \in Nat /\ o + (q + n) = (o + n) + q
        OBVIOUS
      <4>3. QED
        BY <3>1, <3>3, <4>1, <4>2
    <3>9. k \notin DOMAIN f
      BY <2>1, <3>4
    <3>10. QED
      BY <2>3, <3>1, <3>3, <3>4, <3>5, <3>6, <3>8, <3>9
  <2>6. CASE ~(E!Full /\ E!Stored # {})
    <3>1. storage' = With(storage, s) /\ UNCHANGED forgotten
      BY <1>6, <2>6 DEF E!Insert, E!With, E!Stats, E!Key, E!Entry, e, k, s
    <3>2. Cardinality(DOMAIN storage) < (IF Limit = 0 THEN 1 ELSE Limit)
      <4>1. Cardinality(DOMAIN storage) < Limit \/ DOMAIN storage = {}
        <5>1. ~(Cardinality(DOMAIN storage) >= Limit) \/ DOMAIN storage = {}
          BY <2>6, SameCardinality DEF E!Full, E!Stored
        <5>2. Cardinality(DOMAIN storage) \in Nat
          BY <2>4
        <5>3. QED
          BY <5>1, <5>2
      <4>2. QED
        BY <2>4, <4>1
    <3>3. QED
      BY <2>1, <2>3, <3>1, <3>2 DEF StoreInv
  <2>7. QED
    BY <2>5, <2>6
<1>8. CASE E!Clear \/ E!DropContainer
  <2>1. storage' = <<>> /\ UNCHANGED <<clock, stamped, logged, refused>> /\ task' \in BOOLEAN
        /\ forgotten' \in Nat /\ channel' \in {channel, <<>>}
        /\ Len(channel') + forgotten' = Len(channel) + forgotten + Cardinality(Occurrences(storage))
    <3>1. CASE E!Clear
      <4>1. forgotten' = forgotten + Cardinality(Occurrences(storage)) /\ UNCHANGED channel
        BY <3>1, SameCardinality DEF E!Clear, E!Sum, Occurrences
      <4>2. QED
        <5>1. PICK n \in Nat, o \in Nat, q \in Nat :
                n = Len(channel) /\ o = Cardinality(Occurrences(storage)) /\ q = forgotten
          BY <1>0, <1>t
        <5>2. q + o \in Nat /\ n + (q + o) = n + q + o
          <6> HIDE ServicesAssumption
          <6> QED
            OBVIOUS
        <5>3. storage' = <<>> /\ UNCHANGED <<clock, stamped, logged, refused, task, channel>>
          BY <3>1 DEF E!Clear
        <5>4. task \in BOOLEAN
          BY DEF StoreInv
        <5>5. QED
          BY <4>1, <5>1, <5>2, <5>3, <5>4
    <3>2. CASE E!DropContainer
      <4>1. forgotten' = forgotten + Cardinality(Occurrences(storage)) + Len(channel) /\ channel' = <<>>
        BY <3>2, SameCardinality DEF E!DropContainer, E!Sum, Occurrences
      <4>2. Len(channel') = 0
        BY <4>1
      <4>3. QED
        <5>1. Len(channel') + forgotten' = Len(channel) + forgotten + Cardinality(Occurrences(storage))
              /\ forgotten' \in Nat
          BY <1>0, <1>t, <4>1, <4>2
        <5>2. QED
          BY <3>2, <4>1, <5>1 DEF E!DropContainer
    <3>3. QED
      BY <1>8, <3>1, <3>2
  <2>2. channel' \in Seq(LogEntries) /\ Len(channel') \in Nat /\ \A i \in 1..Len(channel') : channel'[i].time <= clock
    <3>1. CASE channel' = channel
      BY <1>0, <3>1 DEF StoreInv
    <3>2. CASE channel' = <<>>
      BY <3>2
    <3>3. QED
      BY <2>1, <3>1, <3>2
  <2>3. DOMAIN storage' = {} /\ Occurrences(storage') = {}
    BY <2>1, NoOccurrences
  <2>4. E!EveryErrorCounted'
    <3>1. logged' = Cardinality(Stamping') + Len(channel') + Cardinality(Occurrences(storage')) + forgotten' + refused'
      <4>1. Stamping' = Stamping /\ Cardinality(Occurrences(storage')) = 0
        BY <2>1, <2>3, FS_EmptySet DEF Stamping
      <4>2. PICK s \in Nat, c \in Nat, o \in Nat, f \in Nat, r \in Nat :
              /\ s = Cardinality(Stamping) /\ c = Len(channel) /\ o = Cardinality(Occurrences(storage))
              /\ f = forgotten /\ r = refused
        BY <1>0, <1>t
      <4>3. PICK c2 \in Nat, f2 \in Nat : c2 = Len(channel') /\ f2 = forgotten'
        BY <2>1, <2>2
      <4>4. c2 + f2 = c + f + o
        BY <2>1, <4>2, <4>3
      <4> HIDE ServicesAssumption
      <4>5. s + c + o + f + r = s + c2 + 0 + f2 + r
        BY <4>4
      <4>6. QED
        BY <1>a, <2>1, <4>1, <4>2, <4>3, <4>5
    <3>2. QED
      BY <1>b, <3>1
  <2>5. E!StorageBounded' /\ IsFiniteSet(DOMAIN storage') /\ IsFiniteSet(Occurrences(storage'))
    BY <2>3, FS_EmptySet, SameCardinality DEF E!StorageBounded, E!Stored
  <2>6. storage' \in [DOMAIN storage' -> Stats]
    BY <2>1, <2>3
  <2>7. QED
    BY <2>1, <2>2, <2>3, <2>4, <2>5, <2>6 DEF StoreInv, Stamping
<1>9. CASE UNCHANGED errors
  BY <1>9 DEF errors, StoreInv, E!EveryErrorCounted, E!StorageBounded, E!Stored, Stamping
<1>10. QED
  BY <1>1, <1>2, <1>3, <1>5, <1>6, <1>8, <1>9 DEF E!Next

\* The record of one key never counts more than what was logged.
LEMMA StoreInvExact == StoreInv => StoreExact
<1> SUFFICES ASSUME StoreInv PROVE E!StoreExact
  BY DEF StoreExact
<1> USE ServicesAssumption
<1>1. /\ Cardinality(Stamping) \in Nat /\ Cardinality(Occurrences(storage)) \in Nat
      /\ Len(channel) \in Nat /\ forgotten \in Nat /\ refused \in Nat /\ logged \in 0..MaxEvents
  BY FS_CardinalityType DEF StoreInv
<1>2. logged = Cardinality(Stamping) + Len(channel) + Cardinality(Occurrences(storage)) + forgotten + refused
  BY SameCardinality DEF StoreInv, E!EveryErrorCounted, E!Sum, Occurrences, Stamping
<1>3. forgotten \in 0..MaxEvents /\ refused \in 0..MaxEvents /\ Cardinality(Occurrences(storage)) <= MaxEvents
  BY <1>1, <1>2
<1>4. ASSUME NEW k \in DOMAIN storage
      PROVE  storage[k].count \in 1..MaxEvents
             /\ storage[k].first \in 0..clock /\ storage[k].last \in 0..clock
  <2> DEFINE C == {k} \X (1..storage[k].count)
  <2>1. storage[k] \in Stats /\ storage[k].first <= clock /\ storage[k].last <= clock
    BY DEF StoreInv
  <2>2. storage[k].count \in Nat \ {0} /\ storage[k].first \in Nat /\ storage[k].last \in Nat
    BY <2>1 DEF Stats
  <2>3. IsFiniteSet(C) /\ Cardinality(C) = storage[k].count
    BY <2>2, ColumnCount
  <2>4. C \subseteq Occurrences(storage)
    BY OccurrencesMember
  <2> HIDE DEF C
  <2>5. Cardinality(C) <= Cardinality(Occurrences(storage))
    BY <2>4, FS_Subset DEF StoreInv
  <2>6. storage[k].count \in 1..MaxEvents
    BY <1>1, <1>3, <2>2, <2>3, <2>5
  <2>7. clock \in Nat
    BY DEF StoreInv
  <2>8. QED
    BY <2>1, <2>2, <2>6, <2>7
<1>5. E!TypeOK
  BY <1>1, <1>3, <1>4 DEF StoreInv, E!TypeOK, E!Stored
<1>6. QED
  BY <1>5 DEF StoreInv, E!StoreExact

\* At first nothing is logged.
LEMMA StoreInvInit == AllInit => StoreInv
<1> SUFFICES ASSUME AllInit PROVE StoreInv
  OBVIOUS
<1> USE ServicesAssumption
<1>1. /\ clock = 0 /\ stamped = [t \in Threads |-> None] /\ channel = <<>>
      /\ storage = <<>> /\ task = TRUE /\ logged = 0 /\ refused = 0 /\ forgotten = 0
  BY DEF AllInit, E!Init
<1>2. Stamping = {} /\ DOMAIN storage = {} /\ Occurrences(storage) = {} /\ Len(channel) = 0
  BY <1>1, NoOccurrences DEF Stamping
<1>3. IsFiniteSet({}) /\ Cardinality({}) = 0
  BY FS_EmptySet
<1>4. E!EveryErrorCounted
  <2>1. logged = Cardinality(Stamping) + Len(channel) + Cardinality(Occurrences(storage)) + forgotten + refused
    <3>1. Cardinality(Stamping) = 0 /\ Cardinality(Occurrences(storage)) = 0
      BY <1>2, <1>3
    <3>2. QED
      BY <1>1, <1>2, <3>1
  <2>2. QED
    BY <2>1, SameCardinality DEF E!EveryErrorCounted, E!Sum, Occurrences, Stamping
<1>5. E!StorageBounded
  BY <1>2, <1>3, SameCardinality DEF E!StorageBounded, E!Stored
<1>6. storage \in [DOMAIN storage -> Stats] /\ channel \in Seq(LogEntries)
  BY <1>1, <1>2
<1>7. stamped \in [Threads -> LogEntries \cup {None}] /\ \A t \in Threads : stamped[t] = None
  BY <1>1
<1>8. clock \in 0..MaxTime /\ logged \in 0..MaxEvents /\ refused \in Nat /\ forgotten \in Nat /\ 1..Len(channel) = {}
  BY <1>1, <1>2
<1>9. QED
  BY <1>1, <1>2, <1>3, <1>4, <1>5, <1>6, <1>7, <1>8 DEF StoreInv

\* A step of the composition is a step of the aggregation or leaves it alone.
LEMMA ErrorsStep == [AllNext]_all => (E!Next \/ UNCHANGED errors)
  BY DEF AllNext, all

\* aggregation_task: every error logged is on its way, counted in the map or
\* given up, and the map keeps to its limit, for any threads, messages, patterns
\* and limit (zero included) and any order in which entries arrive.
THEOREM EveryErrorIsCounted == AllSafe => []StoreExact
<1>1. StoreInv /\ [AllNext]_all => StoreInv'
  BY StoreInvKept, ErrorsStep
<1>2. QED
  BY <1>1, StoreInvInit, StoreInvExact, PTL DEF AllSafe

\* aggregation_task: the entry that was folded in last is in the map, although
\* its stamp may be older than all the others in a full one.
THEOREM NewestStays == AllSafe => NewestIsKept
<1>1. StoreInv /\ [AllNext]_all =>
        [task' /\ channel # <<>> /\ channel' = Tail(channel) => E!Key \in DOMAIN storage']_(E!vars)
  <2> SUFFICES ASSUME StoreInv, E!Next, task', channel # <<>>, channel' = Tail(channel)
               PROVE  E!Key \in DOMAIN storage'
    BY ErrorsStep DEF errors, E!vars
  <2>1. channel \in Seq(LogEntries) /\ Len(Tail(channel)) = Len(channel) - 1 /\ Len(channel) \in Nat
    BY DEF StoreInv
  <2>2. channel' # channel /\ \A e \in LogEntries : channel' # Append(channel, e)
    <3>1. \A e \in LogEntries : Len(Append(channel, e)) = Len(channel) + 1
      BY <2>1
    <3>2. Len(channel') # Len(channel) /\ Len(channel') # Len(channel) + 1
      BY <2>1, LessOne
    <3>3. QED
      BY <3>1, <3>2
  <2>3. \A t \in Threads : stamped[t] # None => stamped[t] \in LogEntries
    BY DEF StoreInv
  <2>4. E!Repeat \/ \E k : E!Insert(k)
    BY <2>2, <2>3 DEF E!Next, E!TimePasses, E!Queue, E!Stamp, E!Clear, E!DropContainer
  <2>5. CASE E!Repeat
    BY <2>5 DEF E!Repeat, E!With
  <2>6. ASSUME NEW k, E!Insert(k)
        PROVE  E!Key \in DOMAIN storage'
    BY <2>6 DEF E!Insert, E!With
  <2>7. QED
    BY <2>4, <2>5, <2>6
<1>2. StoreInv /\ [AllNext]_all => StoreInv'
  BY StoreInvKept, ErrorsStep
<1>3. QED
  BY <1>1, <1>2, StoreInvInit, PTL DEF AllSafe, NewestIsKept, E!NewestIsKept
-----------------------------------------------------------------------------
(* What a peer has received, followed by what is queued for it: both         *)
(* publishers add to its end, and only the end of the connection cuts it off *)

Line(c) == heard[c] \o queue[c]

\* A frame that is received stays in its place on the line.
LEMMA LineReceived ==
  ASSUME NEW T, NEW h \in Seq(T), NEW q \in Seq(T), q # <<>>
  PROVE  Append(h, Head(q)) \o Tail(q) = h \o q
  OBVIOUS

\* A frame that is queued is the last of the line.
LEMMA LineQueued ==
  ASSUME NEW T, NEW h \in Seq(T), NEW q \in Seq(T), NEW f \in T
  PROVE  h \o Append(q, f) = Append(h \o q, f)
  OBVIOUS

\* A connection that goes leaves the front of its line.
LEMMA LineCut ==
  ASSUME NEW T, NEW h \in Seq(T), NEW q \in Seq(T)
  PROVE  \A i \in 1..Len(h \o <<>>) : i \in 1..Len(h \o q) /\ (h \o <<>>)[i] = (h \o q)[i]
  OBVIOUS

\* A line is a sequence of frames.
LEMMA LineType ==
  ASSUME NEW T, NEW h \in Seq(T), NEW q \in Seq(T)
  PROVE  h \o q \in Seq(T) /\ DOMAIN (h \o q) = 1..Len(h \o q)
  OBVIOUS

\* The places of the frames in S, and the numbers they carry: increasing, and
\* one for each number below next that was not lost.
Marked(L, S) == {i \in 1..Len(L) : L[i] \in S}
Exact(L, S, next, losses) ==
  /\ \A i, j \in Marked(L, S) : i < j => L[i].n < L[j].n
  /\ \A i \in Marked(L, S) : L[i].n < next
  /\ Cardinality(Marked(L, S)) + losses = next

\* The frames of a stream on a line can be counted.
LEMMA MarkedType ==
  ASSUME NEW T, NEW L \in Seq(T), NEW S
  PROVE  IsFiniteSet(Marked(L, S)) /\ Cardinality(Marked(L, S)) \in Nat
<1>1. IsFiniteSet(1..Len(L)) /\ Marked(L, S) \subseteq 1..Len(L)
  BY FS_Interval DEF Marked
<1>2. QED
  BY <1>1, FS_Subset, FS_CardinalityType

\* A new stream has neither frames nor losses.
LEMMA ExactFresh ==
  ASSUME NEW T, NEW L \in Seq(T), NEW S, \A i \in 1..Len(L) : L[i] \notin S
  PROVE  Exact(L, S, 0, 0)
<1>1. Marked(L, S) = {}
  BY DEF Marked
<1>2. QED
  BY <1>1, FS_EmptySet DEF Exact

\* A number that a full queue loses is one loss more.
LEMMA ExactLost ==
  ASSUME NEW T, NEW L \in Seq(T), \A f \in T : f.n \in Nat, NEW S,
         NEW next \in Nat, NEW losses \in Nat, Exact(L, S, next, losses)
  PROVE  Exact(L, S, next + 1, losses + 1)
<1>1. Cardinality(Marked(L, S)) \in Nat
  BY MarkedType
<1>2. \A i \in Marked(L, S) : L[i].n \in Nat
  BY DEF Marked
<1>3. \A i \in Marked(L, S) : L[i].n < next + 1
  BY <1>2 DEF Exact
<1>4. QED
  BY <1>1, <1>3 DEF Exact

\* A frame of another stream does not count.
LEMMA ExactOther ==
  ASSUME NEW T, NEW L \in Seq(T), NEW f \in T, NEW S, f \notin S, NEW next, NEW losses, Exact(L, S, next, losses)
  PROVE  Exact(Append(L, f), S, next, losses)
<1>1. Marked(Append(L, f), S) = Marked(L, S)
  BY DEF Marked
<1>2. PICK M : M = Append(L, f)
  OBVIOUS
<1>3. Marked(M, S) = Marked(L, S) /\ \A i \in Marked(L, S) : M[i] = L[i]
  BY <1>1, <1>2 DEF Marked
<1>4. Exact(M, S, next, losses)
  BY <1>3 DEF Exact
<1>5. QED
  BY <1>2, <1>4

\* A frame with the next number keeps the stream in order and exact.
LEMMA ExactNext ==
  ASSUME NEW T, NEW L \in Seq(T), \A g \in T : g.n \in Nat, NEW f \in T, NEW S, f \in S,
         NEW next \in Nat, NEW losses \in Nat, Exact(L, S, next, losses), f.n = next
  PROVE  Exact(Append(L, f), S, next + 1, losses)
<1> DEFINE M == Append(L, f)
           e == Len(L) + 1
<1>1. Marked(M, S) = Marked(L, S) \cup {e} /\ e \notin Marked(L, S) /\ M[e] = f
      /\ \A i \in Marked(L, S) : i < e
  BY DEF Marked
<1>2. \A i \in Marked(L, S) : M[i] = L[i] /\ i \in Nat /\ L[i].n \in Nat
  BY DEF Marked
<1>3. Cardinality(Marked(L, S)) \in Nat /\ Cardinality(Marked(M, S)) = Cardinality(Marked(L, S)) + 1
  <2> HIDE DEF M, e
  <2>1. QED
    BY <1>1, MarkedType, FS_AddElement
<1>4. e \in Nat
  OBVIOUS
<1> HIDE DEF M, e
<1>5. \A i \in Marked(M, S) : M[i].n < next + 1
  <2> TAKE i \in Marked(M, S)
  <2>1. CASE i = e
    BY <1>1, <2>1
  <2>2. CASE i # e
    BY <1>1, <1>2, <2>2 DEF Exact
  <2>3. QED
    BY <2>1, <2>2
<1>6. \A i, j \in Marked(M, S) : i < j => M[i].n < M[j].n
  <2> TAKE i, j \in Marked(M, S)
  <2> HAVE i < j
  <2>1. i # e
    BY <1>1, <1>2, <1>4
  <2>2. CASE j = e
    BY <1>1, <1>2, <2>1, <2>2 DEF Exact
  <2>3. CASE j # e
    BY <1>1, <1>2, <2>1, <2>3 DEF Exact
  <2>4. QED
    BY <2>2, <2>3
<1>7. Cardinality(Marked(M, S)) + losses = next + 1
  BY <1>3 DEF Exact
<1>8. QED
  BY <1>5, <1>6, <1>7 DEF Exact, M
-----------------------------------------------------------------------------
(* SubscriptionManager *)

SubFrames == [seq : Nat, n : Nat, p : Nat]
OfRequest(r) == {f \in SubFrames : f.seq = r}
SubJobs == [keys : Seq(Keys), todo : SUBSET Conns, done : SUBSET Conns,
            tried : SUBSET Conns, dead : SUBSET Conns, filtered : BOOLEAN]

SubsTypes ==
  /\ live \subseteq Conns /\ gone \subseteq Conns /\ strays \subseteq Conns
  /\ queue \in [Conns -> Seq(SubFrames)] /\ heard \in [Conns -> Seq(SubFrames)]
  /\ \A c \in Conns : Len(queue[c]) <= Capacity
  /\ requests \in 0..MaxSubs /\ published \in 0..MaxPublish
  /\ subscribes \in [DOMAIN subscribes -> [seq : Nat, next : Nat]] /\ DOMAIN subscribes \subseteq Conns
  /\ mappings \in [DOMAIN mappings -> SUBSET Conns] /\ DOMAIN mappings \subseteq Keys
  /\ lost \in [Conns -> Nat]
  /\ job \in SubJobs \cup {None}

\* No frame is from a later request or publish, and the publish in progress has
\* sent to those it is done with, once.
LinesInv ==
  \A c \in Conns :
    /\ \A i \in 1..Len(Line(c)) :
         /\ Line(c)[i].seq <= requests /\ Line(c)[i].p <= published
         /\ job # None /\ Line(c)[i].p = published => c \in job.done
    /\ \A i, j \in 1..Len(Line(c)) : Line(c)[i].p = Line(c)[j].p => i = j

CountsInv ==
  \A c \in DOMAIN subscribes :
    /\ subscribes[c].seq \in 1..requests
    /\ c \in live => Exact(Line(c), OfRequest(subscribes[c].seq), subscribes[c].next, lost[c])

JobInv ==
  job # None =>
    /\ job.todo \cap job.done = {}
    /\ gone \cap live = {}
    /\ DOMAIN subscribes \cap gone \cap job.tried \subseteq job.dead

SubsInv == SubsTypes /\ LinesInv /\ CountsInv /\ U!KeysAreSubscribed /\ JobInv

\* The fields of a frame are numbers.
LEMMA SubFrameTypes == \A f \in SubFrames : f.seq \in Nat /\ f.n \in Nat /\ f.p \in Nat
  BY DEF SubFrames

\* What is true of a line, from its connection's point of view.
LEMMA SubLineType ==
  ASSUME SubsTypes, NEW c \in Conns
  PROVE  /\ Line(c) \in Seq(SubFrames) /\ DOMAIN Line(c) = 1..Len(Line(c))
         /\ \A i \in 1..Len(Line(c)) : Line(c)[i] \in SubFrames
<1>1. heard[c] \in Seq(SubFrames) /\ queue[c] \in Seq(SubFrames)
  BY DEF SubsTypes
<1>2. Line(c) \in Seq(SubFrames) /\ DOMAIN Line(c) = 1..Len(Line(c))
  BY <1>1, LineType DEF Line
<1>3. QED
  BY <1>2

\* The subscriptions and keys shrink, the lines and the job stay.
LEMMA SubsShrink ==
  ASSUME SubsInv, NEW D, D \subseteq DOMAIN subscribes,
         subscribes' = [d \in D |-> subscribes[d]],
         mappings' \in [DOMAIN mappings' -> SUBSET Conns], DOMAIN mappings' \subseteq DOMAIN mappings,
         \A k \in DOMAIN mappings' : mappings'[k] \subseteq D \cup strays', strays' \subseteq Conns,
         UNCHANGED <<live, queue, heard, requests, lost, published, gone>>,
         job' = None \/ (job' = job)
  PROVE  SubsInv'
<1>0. DOMAIN subscribes' = D /\ \A d \in D : subscribes'[d] = subscribes[d]
  OBVIOUS
<1>1. SubsTypes'
  <2>1. subscribes' \in [D -> [seq : Nat, next : Nat]]
    BY DEF SubsInv, SubsTypes
  <2>2. QED
    BY <1>0, <2>1 DEF SubsInv, SubsTypes
<1>l. \A d \in Conns : Line(d)' = Line(d)
  BY DEF Line
<1>2. LinesInv'
  <2>1. LinesInv
    BY DEF SubsInv
  <2>2. CASE job' = job
    BY <1>l, <2>1, <2>2 DEF LinesInv
  <2>3. CASE job' = None
    BY <1>l, <2>1, <2>3 DEF LinesInv
  <2>4. QED
    BY <2>2, <2>3
<1>3. CountsInv'
  BY <1>0 DEF SubsInv, CountsInv, Line
<1>4. U!KeysAreSubscribed'
  BY <1>0 DEF U!KeysAreSubscribed, U!Subscribed
<1>5. JobInv'
  BY <1>0 DEF SubsInv, JobInv
<1>6. QED
  BY <1>1, <1>2, <1>3, <1>4, <1>5 DEF SubsInv

\* A subscription begins a stream under a number that no frame carries.
LEMMA SubscribeKept ==
  ASSUME SubsInv, NEW c \in Conns, NEW keys \in SUBSET Keys, U!Subscribe(c, keys)
  PROVE  SubsInv'
<1> USE ServicesAssumption
<1> DEFINE e == IF c \in DOMAIN subscribes THEN subscribes[c] ELSE [seq |-> requests + 1, next |-> 0]
<1>1. job = None /\ requests < MaxSubs /\ requests' = requests + 1
      /\ subscribes' = [d \in DOMAIN subscribes \cup {c} |-> IF d = c THEN e ELSE subscribes[d]]
      /\ lost' = (IF c \in DOMAIN subscribes THEN lost ELSE [lost EXCEPT ![c] = 0])
      /\ mappings' = [k \in DOMAIN mappings \cup keys |->
                       (IF k \in DOMAIN mappings THEN mappings[k] ELSE {})
                         \cup (IF k \in keys THEN {c} ELSE {})]
      /\ strays' = strays \ {c}
      /\ UNCHANGED <<live, queue, heard, job, published, gone>>
  BY DEF U!Subscribe, U!Entry, U!Subscribed, U!table
<1>2. e \in [seq : Nat, next : Nat] /\ (c \notin DOMAIN subscribes => e.seq = requests + 1 /\ e.next = 0)
  BY DEF SubsInv, SubsTypes
<1>3. c \in DOMAIN subscribes => e = subscribes[c]
  OBVIOUS
<1> HIDE DEF e
<1>4. DOMAIN subscribes' = DOMAIN subscribes \cup {c} /\ subscribes'[c] = e
      /\ \A d \in DOMAIN subscribes : subscribes'[d] = subscribes[d]
  BY <1>1, <1>3
<1>5. SubsTypes'
  <2>1. subscribes' \in [DOMAIN subscribes \cup {c} -> [seq : Nat, next : Nat]]
    BY <1>1, <1>2 DEF SubsInv, SubsTypes
  <2>2. mappings' \in [DOMAIN mappings \cup keys -> SUBSET Conns]
    BY <1>1 DEF SubsInv, SubsTypes
  <2>3. lost' \in [Conns -> Nat]
    BY <1>1 DEF SubsInv, SubsTypes
  <2>4. requests' \in 0..MaxSubs
    BY <1>1 DEF SubsInv, SubsTypes
  <2>5. QED
    BY <1>1, <2>1, <2>2, <2>3, <2>4 DEF SubsInv, SubsTypes
<1>6. \A d \in Conns : Line(d)' = Line(d)
  BY <1>1 DEF Line
<1>7. LinesInv'
  <2>1. ASSUME NEW d \in Conns, NEW i \in 1..Len(Line(d))
        PROVE  Line(d)[i].seq <= requests'
    <3>1. Line(d)[i].seq \in Nat
      BY SubLineType, SubFrameTypes DEF SubsInv
    <3>2. Line(d)[i].seq <= requests /\ requests \in Nat
      <4>1. requests \in Nat
        BY DEF SubsInv, SubsTypes
      <4>2. QED
        BY <4>1 DEF SubsInv, LinesInv
    <3>3. QED
      BY <1>1, <3>1, <3>2
  <2>2. QED
    BY <1>1, <1>6, <2>1 DEF SubsInv, LinesInv
<1>8. CountsInv'
  <2> SUFFICES ASSUME NEW d \in DOMAIN subscribes'
               PROVE  /\ subscribes'[d].seq \in 1..requests'
                      /\ d \in live => Exact(Line(d), OfRequest(subscribes'[d].seq), subscribes'[d].next, lost'[d])
    BY <1>1 DEF CountsInv, Line
  <2>1. CASE d \in DOMAIN subscribes
    <3>1. subscribes'[d] = subscribes[d] /\ subscribes[d].seq \in 1..requests
      BY <1>4, <2>1 DEF SubsInv, CountsInv
    <3>2. lost'[d] = lost[d]
      BY <1>1, <2>1 DEF SubsInv, SubsTypes
    <3>3. requests' = requests + 1 /\ requests \in Nat
      BY <1>1 DEF SubsInv, SubsTypes
    <3>4. subscribes'[d].seq \in 1..requests'
      BY <3>1, <3>3
    <3>5. QED
      BY <2>1, <3>1, <3>2, <3>4 DEF SubsInv, CountsInv
  <2>2. CASE d = c /\ c \notin DOMAIN subscribes
    <3>1. subscribes'[d].seq = requests + 1 /\ subscribes'[d].next = 0 /\ lost'[d] = 0
      BY <1>1, <1>2, <1>4, <2>2 DEF SubsInv, SubsTypes
    <3>2. \A i \in 1..Len(Line(d)) : Line(d)[i].seq # requests + 1
      <4> TAKE i \in 1..Len(Line(d))
      <4>1. Line(d)[i].seq \in Nat
        BY <2>2, SubLineType, SubFrameTypes DEF SubsInv
      <4>2. Line(d)[i].seq <= requests /\ requests \in Nat
        <5>1. requests \in Nat
          BY DEF SubsInv, SubsTypes
        <5>2. QED
          BY <2>2, <5>1 DEF SubsInv, LinesInv
      <4>3. QED
        BY <4>1, <4>2
    <3>3. Exact(Line(d), OfRequest(requests + 1), 0, 0)
      BY <2>2, <3>2, SubLineType, ExactFresh DEF SubsInv, OfRequest
    <3>4. requests + 1 \in 1..requests'
      <4>1. requests \in Nat /\ requests' = requests + 1
        BY <1>1 DEF SubsInv, SubsTypes
      <4>2. QED
        BY <4>1
    <3>5. QED
      BY <3>1, <3>3, <3>4
  <2>3. QED
    BY <1>4, <2>1, <2>2
<1>9. U!KeysAreSubscribed'
  <2>1. \A k \in DOMAIN mappings : mappings[k] \subseteq DOMAIN subscribes \cup strays
    BY DEF SubsInv, U!KeysAreSubscribed, U!Subscribed
  <2>2. \A k \in DOMAIN mappings' : mappings'[k] \subseteq DOMAIN subscribes \cup {c} \cup strays'
    BY <1>1, <2>1
  <2>3. QED
    BY <1>4, <2>2 DEF U!KeysAreSubscribed, U!Subscribed
<1>10. JobInv'
  BY <1>1 DEF JobInv
<1>11. QED
  BY <1>5, <1>7, <1>8, <1>9, <1>10 DEF SubsInv

\* Only the job moves: its todo comes from the connections it has not dealt with.
LEMMA JobMoves ==
  ASSUME SubsInv, NEW j \in SubJobs, job' = j, job # None,
         j.todo \cap j.done = {}, job.done \subseteq j.done, j.tried = job.tried, j.dead = job.dead,
         UNCHANGED <<live, queue, heard, subscribes, mappings, requests, lost, published, strays, gone>>
  PROVE  SubsInv'
<1>1. SubsTypes'
  BY DEF SubsInv, SubsTypes
<1>2. LinesInv'
  <2>1. \A c \in Conns : Line(c)' = Line(c)
    BY DEF Line
  <2>2. QED
    BY <2>1 DEF SubsInv, LinesInv
<1>3. CountsInv' /\ U!KeysAreSubscribed' /\ JobInv'
  BY DEF SubsInv, CountsInv, U!KeysAreSubscribed, U!Subscribed, JobInv, Line
<1>4. QED
  BY <1>1, <1>2, <1>3 DEF SubsInv

\* A publish begins with nobody sent to, under a number that no frame carries.
LEMMA StartKept ==
  ASSUME SubsInv, NEW keys \in Seq(Keys), NEW todo \in SUBSET Conns, NEW filtered \in BOOLEAN,
         U!Start(keys, todo, filtered)
  PROVE  SubsInv'
<1> USE ServicesAssumption
<1> DEFINE j == [keys |-> keys, todo |-> todo, done |-> {}, tried |-> {}, dead |-> {}, filtered |-> filtered]
<1>1. job' = j /\ published' = published + 1 /\ published < MaxPublish /\ gone' = Conns \ live
      /\ UNCHANGED <<live, queue, heard, subscribes, mappings, requests, lost, strays>>
  BY DEF U!Start, U!table
<1>2. j \in SubJobs /\ j.done = {} /\ j.tried = {}
  BY DEF SubJobs
<1> HIDE DEF j
<1>3. published' \in 0..MaxPublish /\ published \in Nat
  BY <1>1 DEF SubsInv, SubsTypes
<1>4. SubsTypes'
  BY <1>1, <1>2, <1>3 DEF SubsInv, SubsTypes
<1>5. LinesInv'
  <2>1. ASSUME NEW c \in Conns, NEW i \in 1..Len(Line(c))
        PROVE  Line(c)[i].p <= published' /\ Line(c)[i].p # published'
    <3>1. Line(c)[i].p \in Nat
      BY SubLineType, SubFrameTypes DEF SubsInv
    <3>2. Line(c)[i].p <= published
      BY DEF SubsInv, LinesInv
    <3>3. QED
      BY <1>1, <1>3, <3>1, <3>2
  <2>2. \A c \in Conns : Line(c)' = Line(c)
    BY <1>1 DEF Line
  <2>3. QED
    BY <1>1, <2>1, <2>2 DEF SubsInv, LinesInv
<1>6. CountsInv' /\ U!KeysAreSubscribed'
  BY <1>1 DEF SubsInv, CountsInv, U!KeysAreSubscribed, U!Subscribed, Line
<1>7. JobInv'
  BY <1>1, <1>2 DEF JobInv
<1>8. QED
  BY <1>4, <1>5, <1>6, <1>7 DEF SubsInv

\* A line is cut off or keeps what it has; the frames left are at their places.
LEMMA LineShortened ==
  ASSUME SubsInv, SubsTypes', NEW c \in Conns, live' \subseteq live,
         \A d \in Conns : Line(d)' = Line(d) \/ (d \notin live' /\
            \A i \in 1..Len(Line(d)') : i \in 1..Len(Line(d)) /\ Line(d)'[i] = Line(d)[i]),
         UNCHANGED <<subscribes, mappings, job, requests, lost, published, strays, gone>>
  PROVE  SubsInv'
<1>1. LinesInv'
  <2> SUFFICES ASSUME NEW d \in Conns
               PROVE  /\ \A i \in 1..Len(Line(d)') :
                           /\ Line(d)'[i].seq <= requests /\ Line(d)'[i].p <= published
                           /\ job # None /\ Line(d)'[i].p = published => d \in job.done
                      /\ \A i, j \in 1..Len(Line(d)') : Line(d)'[i].p = Line(d)'[j].p => i = j
    BY DEF LinesInv
  <2>1. \A i \in 1..Len(Line(d)') : i \in 1..Len(Line(d)) /\ Line(d)'[i] = Line(d)[i]
    OBVIOUS
  <2>2. QED
    BY <2>1 DEF SubsInv, LinesInv
<1>2. CountsInv'
  <2> SUFFICES ASSUME NEW d \in DOMAIN subscribes, d \in live'
               PROVE  Exact(Line(d)', OfRequest(subscribes[d].seq), subscribes[d].next, lost[d])
    BY DEF SubsInv, CountsInv
  <2>1. Line(d)' = Line(d) /\ d \in live
    BY DEF SubsInv, SubsTypes
  <2>2. QED
    BY <2>1 DEF SubsInv, CountsInv
<1>3. U!KeysAreSubscribed' /\ JobInv'
  BY DEF SubsInv, U!KeysAreSubscribed, U!Subscribed, JobInv
<1>4. QED
  BY <1>1, <1>2, <1>3 DEF SubsInv

\* Connections that go or receive keep the lines in order.
LEMMA TableKept ==
  ASSUME SubsInv, NEW c \in Conns, U!Disconnect(c) \/ U!Receive(c)
  PROVE  SubsInv'
<1>0. heard[c] \in Seq(SubFrames) /\ queue[c] \in Seq(SubFrames)
  BY DEF SubsInv, SubsTypes
<1>1. CASE U!Disconnect(c)
  <2>1. live' = live \ {c} /\ queue' = [queue EXCEPT ![c] = <<>>]
        /\ UNCHANGED <<heard, subscribes, mappings, job, requests, lost, published, strays, gone>>
    BY <1>1 DEF U!Disconnect
  <2>2. SubsTypes'
    <3>1. queue' \in [Conns -> Seq(SubFrames)] /\ \A d \in Conns : Len(queue'[d]) <= Capacity
      BY <2>1, ServicesAssumption DEF SubsInv, SubsTypes
    <3>2. QED
      BY <2>1, <3>1 DEF SubsInv, SubsTypes
  <2>3. \A d \in Conns : d # c => Line(d)' = Line(d)
    BY <2>1 DEF Line, SubsInv, SubsTypes
  <2>4. Line(c)' = heard[c] \o <<>>
    BY <2>1 DEF Line, SubsInv, SubsTypes
  <2>5. \A i \in 1..Len(Line(c)') : i \in 1..Len(Line(c)) /\ Line(c)'[i] = Line(c)[i]
    <3>1. \A i \in 1..Len(heard[c] \o <<>>) :
            i \in 1..Len(heard[c] \o queue[c]) /\ (heard[c] \o <<>>)[i] = (heard[c] \o queue[c])[i]
      BY <1>0, LineCut
    <3>2. Line(c) = heard[c] \o queue[c]
      BY DEF Line
    <3>3. QED
      BY <2>4, <3>1, <3>2
  <2>6. QED
    BY <2>1, <2>2, <2>3, <2>5, LineShortened
<1>2. CASE U!Receive(c)
  <2>1. queue[c] # <<>> /\ heard' = [heard EXCEPT ![c] = Append(heard[c], Head(queue[c]))]
        /\ queue' = [queue EXCEPT ![c] = Tail(queue[c])]
        /\ UNCHANGED <<live, subscribes, mappings, job, requests, lost, published, strays, gone>>
    BY <1>2 DEF U!Receive
  <2>2. Append(heard[c], Head(queue[c])) \in Seq(SubFrames) /\ Tail(queue[c]) \in Seq(SubFrames)
        /\ Len(Tail(queue[c])) <= Len(queue[c])
    BY <1>0, <2>1
  <2>3. SubsTypes'
    <3>1. queue' \in [Conns -> Seq(SubFrames)] /\ heard' \in [Conns -> Seq(SubFrames)]
      BY <2>1, <2>2 DEF SubsInv, SubsTypes
    <3>2. Len(Tail(queue[c])) <= Capacity
      <4>1. Len(queue[c]) \in Nat /\ Len(Tail(queue[c])) \in Nat /\ Len(queue[c]) <= Capacity
        BY <1>0, <2>2 DEF SubsInv, SubsTypes
      <4>2. QED
        BY <2>2, <4>1, ServicesAssumption
    <3>3. \A d \in Conns : Len(queue'[d]) <= Capacity
      BY <2>1, <3>2 DEF SubsInv, SubsTypes
    <3>4. QED
      BY <2>1, <3>1, <3>3 DEF SubsInv, SubsTypes
  <2>4. Line(c)' = Append(heard[c], Head(queue[c])) \o Tail(queue[c])
    BY <2>1 DEF Line, SubsInv, SubsTypes
  <2>5. Line(c)' = Line(c)
    BY <1>0, <2>1, <2>4, LineReceived DEF Line
  <2>6. \A d \in Conns : Line(d)' = Line(d)
    BY <2>1, <2>5 DEF Line, SubsInv, SubsTypes
  <2>7. QED
    BY <2>1, <2>3, <2>6, LineShortened
<1>3. QED
  BY <1>1, <1>2

\* The next number of a subscription is taken.
LEMMA NumberTaken ==
  ASSUME NEW D, NEW g \in [D -> [seq : Nat, next : Nat]], NEW c \in D
  PROVE  LET h == [g EXCEPT ![c].next = @ + 1]
         IN /\ h \in [D -> [seq : Nat, next : Nat]] /\ DOMAIN h = D
            /\ h[c].seq = g[c].seq /\ h[c].next = g[c].next + 1
            /\ \A d \in D : d # c => h[d] = g[d]
<1> DEFINE e == [g[c] EXCEPT !.next = @ + 1]
           h == [g EXCEPT ![c] = e]
<1>1. g[c] \in [seq : Nat, next : Nat]
  OBVIOUS
<1>2. e \in [seq : Nat, next : Nat] /\ e.seq = g[c].seq /\ e.next = g[c].next + 1
  BY <1>1
<1>3. [g EXCEPT ![c].next = @ + 1] = h
  OBVIOUS
<1> HIDE DEF e
<1>4. h \in [D -> [seq : Nat, next : Nat]] /\ DOMAIN h = D /\ h[c] = e
      /\ \A d \in D : d # c => h[d] = g[d]
  BY <1>2
<1> HIDE DEF h
<1>5. QED
  BY <1>2, <1>3, <1>4

\* A publish is done with a connection it has sent to.
LEMMA JobDone ==
  ASSUME job \in SubJobs, NEW c \in Conns, NEW dead \in SUBSET Conns, U!Done(c, dead)
  PROVE  /\ job' \in SubJobs /\ job'.todo = job.todo \ {c} /\ job'.done = job.done \cup {c}
         /\ job'.tried = job.tried \cup {c} /\ job'.dead = job.dead \cup dead
<1>1. PICK j \in SubJobs : j = job
  OBVIOUS
<1>2. job' = [j EXCEPT !.todo = @ \ {c}, !.done = @ \cup {c}, !.tried = @ \cup {c}, !.dead = @ \cup dead]
  BY <1>1 DEF U!Done
<1>3. QED
  BY <1>1, <1>2 DEF SubJobs

\* A publish sends one frame, or loses it to a full queue and counts it.
LEMMA SendKept ==
  ASSUME SubsInv, NEW c \in Conns, U!Send(c)
  PROVE  SubsInv'
<1> USE ServicesAssumption
<1> DEFINE f == [seq |-> subscribes[c].seq, n |-> subscribes[c].next, p |-> published]
<1>1. job # None /\ c \in job.todo /\ c \in DOMAIN subscribes /\ c \in live
      /\ subscribes' = [subscribes EXCEPT ![c].next = @ + 1]
      /\ UNCHANGED <<live, heard, mappings, requests, published, strays, gone>>
      /\ \/ Len(queue[c]) < Capacity /\ queue' = [queue EXCEPT ![c] = Append(@, f)] /\ UNCHANGED lost
         \/ lost' = [lost EXCEPT ![c] = @ + 1] /\ UNCHANGED queue
  BY DEF U!Send, U!Done, U!Numbered, U!Frame, U!Subscribed
<1>2. job' \in SubJobs /\ job'.todo = job.todo \ {c} /\ job'.done = job.done \cup {c}
      /\ job'.tried = job.tried \cup {c} /\ job'.dead = job.dead
  <2>1. job \in SubJobs /\ U!Done(c, {}) /\ {} \in SUBSET Conns
    BY <1>1 DEF SubsInv, SubsTypes, U!Send
  <2>2. job' \in SubJobs /\ job'.todo = job.todo \ {c} /\ job'.done = job.done \cup {c}
        /\ job'.tried = job.tried \cup {c} /\ job'.dead = job.dead \cup {}
    BY <2>1, JobDone
  <2>3. QED
    BY <2>2
<1>3. subscribes[c] \in [seq : Nat, next : Nat] /\ published \in Nat /\ requests \in Nat
  BY <1>1 DEF SubsInv, SubsTypes
<1>4. f \in SubFrames /\ f.seq = subscribes[c].seq /\ f.n = subscribes[c].next /\ f.p = published
  BY <1>3 DEF SubFrames
<1> HIDE DEF f
<1>5. DOMAIN subscribes' = DOMAIN subscribes
      /\ subscribes' \in [DOMAIN subscribes -> [seq : Nat, next : Nat]]
      /\ subscribes'[c].seq = subscribes[c].seq /\ subscribes'[c].next = subscribes[c].next + 1
      /\ \A d \in DOMAIN subscribes : d # c => subscribes'[d] = subscribes[d]
  <2>1. subscribes \in [DOMAIN subscribes -> [seq : Nat, next : Nat]]
    BY DEF SubsInv, SubsTypes
  <2>2. QED
    BY <1>1, <2>1, NumberTaken
<1>6. heard[c] \in Seq(SubFrames) /\ queue[c] \in Seq(SubFrames) /\ Len(queue[c]) \in Nat /\ lost[c] \in Nat
  BY DEF SubsInv, SubsTypes
<1>7. \A d \in Conns : d # c => Line(d)' = Line(d) /\ lost'[d] = lost[d]
  <2>1. queue \in [Conns -> Seq(SubFrames)] /\ lost \in [Conns -> Nat]
    BY DEF SubsInv, SubsTypes
  <2>2. \A d \in Conns : d # c => queue'[d] = queue[d] /\ lost'[d] = lost[d]
    BY <1>1, <2>1
  <2>3. QED
    BY <1>1, <2>2 DEF Line
<1>8. \/ Line(c)' = Append(Line(c), f) /\ lost'[c] = lost[c]
      \/ Line(c)' = Line(c) /\ lost'[c] = lost[c] + 1
  <2>1. CASE queue' = [queue EXCEPT ![c] = Append(@, f)] /\ UNCHANGED lost
    <3>1. Line(c)' = heard[c] \o Append(queue[c], f)
      <4>1. queue \in [Conns -> Seq(SubFrames)]
        BY DEF SubsInv, SubsTypes
      <4>2. queue'[c] = Append(queue[c], f) /\ heard'[c] = heard[c]
        BY <1>1, <2>1, <4>1
      <4>3. QED
        BY <4>2 DEF Line
    <3>2. heard[c] \o Append(queue[c], f) = Append(heard[c] \o queue[c], f)
      <4>1. \A h, q \in Seq(SubFrames) : \A g \in SubFrames : h \o Append(q, g) = Append(h \o q, g)
        BY LineQueued
      <4>2. QED
        BY <1>4, <1>6, <4>1
    <3>3. QED
      BY <2>1, <3>1, <3>2 DEF Line
  <2>2. CASE lost' = [lost EXCEPT ![c] = @ + 1] /\ UNCHANGED queue
    BY <1>1, <2>2 DEF Line, SubsInv, SubsTypes
  <2>3. QED
    BY <1>1, <2>1, <2>2
<1>9. SubsTypes'
  <2>1. queue' \in [Conns -> Seq(SubFrames)] /\ lost' \in [Conns -> Nat]
        /\ \A d \in Conns : Len(queue'[d]) <= Capacity
    <3>1. CASE Len(queue[c]) < Capacity /\ queue' = [queue EXCEPT ![c] = Append(@, f)] /\ UNCHANGED lost
      <4>1. Append(queue[c], f) \in Seq(SubFrames) /\ Len(Append(queue[c], f)) = Len(queue[c]) + 1
        BY <1>4, <1>6
      <4>2. Len(Append(queue[c], f)) <= Capacity
        BY <1>6, <3>1, <4>1
      <4>3. QED
        BY <3>1, <4>1, <4>2 DEF SubsInv, SubsTypes
    <3>2. CASE lost' = [lost EXCEPT ![c] = @ + 1] /\ UNCHANGED queue
      BY <3>2 DEF SubsInv, SubsTypes
    <3>3. QED
      BY <1>1, <3>1, <3>2
  <2>2. QED
    BY <1>1, <1>2, <1>5, <2>1 DEF SubsInv, SubsTypes
<1>10. c \notin job.done
  BY <1>1 DEF SubsInv, JobInv
<1>11. LinesInv'
  <2> SUFFICES ASSUME NEW d \in Conns
               PROVE  /\ \A i \in 1..Len(Line(d)') :
                           /\ Line(d)'[i].seq <= requests /\ Line(d)'[i].p <= published
                           /\ Line(d)'[i].p = published => d \in job'.done
                      /\ \A i, k \in 1..Len(Line(d)') : Line(d)'[i].p = Line(d)'[k].p => i = k
    BY <1>1 DEF LinesInv
  <2>0. /\ \A i \in 1..Len(Line(d)) :
             /\ Line(d)[i].seq <= requests /\ Line(d)[i].p <= published
             /\ Line(d)[i].p = published => d \in job.done
        /\ \A i, k \in 1..Len(Line(d)) : Line(d)[i].p = Line(d)[k].p => i = k
    BY <1>1 DEF SubsInv, LinesInv
  <2>1. CASE Line(d)' = Line(d)
    BY <1>2, <2>0, <2>1
  <2>2. CASE d = c /\ Line(c)' = Append(Line(c), f)
    <3>1. Line(c) \in Seq(SubFrames)
      BY SubLineType DEF SubsInv
    <3>2. \A i \in 1..Len(Line(c)') :
            \/ i \in 1..Len(Line(c)) /\ Line(c)'[i] = Line(c)[i]
            \/ i = Len(Line(c)) + 1 /\ Line(c)'[i] = f
      BY <2>2, <3>1
    <3>3. \A i \in 1..Len(Line(c)) : Line(c)[i].p # published
      BY <1>10, <2>0, <2>2
    <3>4. f.seq <= requests /\ f.p <= published
      BY <1>1, <1>3, <1>4 DEF SubsInv, CountsInv
    <3>5. \A i \in 1..Len(Line(c)') :
            /\ Line(c)'[i].seq <= requests /\ Line(c)'[i].p <= published
            /\ Line(c)'[i].p = published => c \in job'.done
      BY <1>2, <2>0, <2>2, <3>2, <3>4
    <3>6. \A i, k \in 1..Len(Line(c)') : Line(c)'[i].p = Line(c)'[k].p => i = k
      BY <1>4, <2>0, <2>2, <3>2, <3>3
    <3>7. QED
      BY <2>2, <3>5, <3>6
  <2>3. QED
    BY <1>7, <1>8, <2>1, <2>2
<1>12. CountsInv'
  <2> SUFFICES ASSUME NEW d \in DOMAIN subscribes
               PROVE  /\ subscribes'[d].seq \in 1..requests
                      /\ d \in live => Exact(Line(d)', OfRequest(subscribes'[d].seq), subscribes'[d].next, lost'[d])
    BY <1>1, <1>5 DEF CountsInv
  <2>1. CASE d # c
    BY <1>5, <1>7, <2>1 DEF SubsInv, SubsTypes, CountsInv
  <2>2. CASE d = c
    <3> DEFINE S == OfRequest(subscribes[c].seq)
    <3>1. Exact(Line(c), S, subscribes[c].next, lost[c]) /\ subscribes[c].seq \in 1..requests
      BY <1>1 DEF SubsInv, CountsInv
    <3>2. f \in S
      BY <1>4 DEF OfRequest
    <3>3. Line(c) \in Seq(SubFrames) /\ subscribes[c].next \in Nat
      BY <1>3, SubLineType DEF SubsInv
    <3> HIDE DEF S
    <3>4. CASE Line(c)' = Append(Line(c), f) /\ lost'[c] = lost[c]
      <4>1. Exact(Append(Line(c), f), S, subscribes[c].next + 1, lost[c])
        BY <1>4, <1>6, <3>1, <3>2, <3>3, ExactNext, SubFrameTypes
      <4>2. QED
        BY <1>5, <2>2, <3>1, <3>4, <4>1 DEF S
    <3>5. CASE Line(c)' = Line(c) /\ lost'[c] = lost[c] + 1
      BY <1>5, <1>6, <2>2, <3>1, <3>3, <3>5, ExactLost, SubFrameTypes DEF S
    <3>6. QED
      BY <1>8, <3>4, <3>5
  <2>3. QED
    BY <2>1, <2>2
<1>13. U!KeysAreSubscribed'
  BY <1>1, <1>5 DEF SubsInv, U!KeysAreSubscribed, U!Subscribed
<1>14. JobInv'
  BY <1>1, <1>2, <1>5 DEF SubsInv, JobInv
<1>15. QED
  BY <1>9, <1>11, <1>12, <1>13, <1>14 DEF SubsInv

\* Without restricts a function.
LEMMA WithoutDef ==
  ASSUME NEW g, NEW S
  PROVE  U!Without(g, S) = [d \in DOMAIN g \ S |-> g[d]]
  BY DEF U!Without, U!Restrict

\* unsubscribe, and the removal of the dead at the end of a filtered publish.
LEMMA UnsubscribedKept ==
  ASSUME SubsInv, NEW S, U!Unsubscribed(S), UNCHANGED <<live, queue, heard, requests, lost, published, gone>>,
         job' = None \/ job' = job
  PROVE  SubsInv' /\ DOMAIN subscribes' = DOMAIN subscribes \ S
<1> DEFINE D == DOMAIN subscribes \ S
<1>1. subscribes' = [d \in D |-> subscribes[d]] /\ mappings' = [k \in DOMAIN mappings |-> mappings[k] \ S]
      /\ strays' = strays \ S
  BY WithoutDef DEF U!Unsubscribed
<1>2. D \subseteq DOMAIN subscribes
  OBVIOUS
<1>3. mappings' \in [DOMAIN mappings' -> SUBSET Conns] /\ DOMAIN mappings' \subseteq DOMAIN mappings
  BY <1>1 DEF SubsInv, SubsTypes
<1>4. (\A k \in DOMAIN mappings' : mappings'[k] \subseteq D \cup strays') /\ strays' \subseteq Conns
  BY <1>1 DEF SubsInv, SubsTypes, U!KeysAreSubscribed, U!Subscribed
<1> HIDE DEF D
<1>5. SubsInv'
  BY <1>1, <1>2, <1>3, <1>4, SubsShrink
<1>6. DOMAIN subscribes' = D
  BY <1>1
<1>7. QED
  BY <1>5, <1>6 DEF D

\* Keys that are left stay keys of subscribers, or of the connection astray.
LEMMA UnsubscribeWithKept ==
  ASSUME SubsInv, NEW c \in Conns, NEW remove \in BOOLEAN, NEW keys \in SUBSET Keys,
         U!UnsubscribeWith(c, remove, keys)
  PROVE  SubsInv'
<1> DEFINE D == IF remove THEN DOMAIN subscribes \ {c} ELSE DOMAIN subscribes
           emptied == {k \in DOMAIN mappings : k \in keys /\ mappings[k] \subseteq {c}}
<1>1. /\ strays' = (IF remove /\ \E k \in DOMAIN mappings \ keys : c \in mappings[k]
                     THEN strays \cup {c} ELSE strays)
      /\ subscribes' = (IF remove THEN U!Without(subscribes, {c}) ELSE subscribes)
      /\ mappings' = [k \in DOMAIN mappings \ emptied |->
                        IF k \in keys THEN mappings[k] \ {c} ELSE mappings[k]]
      /\ UNCHANGED <<live, queue, heard, job, requests, lost, published, gone>>
  BY DEF U!UnsubscribeWith, U!table
<1>2. subscribes' = [d \in D |-> subscribes[d]]
  <2>1. subscribes = [d \in DOMAIN subscribes |-> subscribes[d]]
    BY DEF SubsInv, SubsTypes
  <2>2. QED
    BY <1>1, <2>1, WithoutDef
<1>3. D \subseteq DOMAIN subscribes
  OBVIOUS
<1>4. \A k \in DOMAIN mappings : mappings[k] \in SUBSET Conns /\ mappings[k] \subseteq DOMAIN subscribes \cup strays
  BY DEF SubsInv, SubsTypes, U!KeysAreSubscribed, U!Subscribed
<1> HIDE DEF emptied
<1>5. mappings' \in [DOMAIN mappings' -> SUBSET Conns] /\ DOMAIN mappings' \subseteq DOMAIN mappings
  BY <1>1, <1>4
<1>6. (\A k \in DOMAIN mappings' : mappings'[k] \subseteq D \cup strays') /\ strays' \subseteq Conns
  <2>1. strays \subseteq Conns
    BY DEF SubsInv, SubsTypes
  <2>2. ASSUME NEW k \in DOMAIN mappings', NEW d \in mappings'[k]
        PROVE  d \in D \cup strays'
    <3>1. k \in DOMAIN mappings /\ d \in mappings[k] /\ (k \in keys => d # c)
      BY <1>1
    <3>2. CASE d = c
      BY <1>1, <1>4, <3>1, <3>2
    <3>3. CASE d # c
      BY <1>1, <1>4, <3>1, <3>3
    <3>4. QED
      BY <3>2, <3>3
  <2>3. QED
    BY <1>1, <2>1, <2>2
<1> HIDE DEF D
<1>7. QED
  BY <1>1, <1>2, <1>3, <1>5, <1>6, SubsShrink

\* A connection found gone is put on the list of the dead.
LEMMA SendDeadKept ==
  ASSUME SubsInv, NEW c \in Conns, U!SendDead(c)
  PROVE  SubsInv' /\ job' \in SubJobs
<1> DEFINE dead == IF job.filtered THEN {c} ELSE {}
<1>1. job \in SubJobs /\ c \in job.todo /\ c \in DOMAIN subscribes /\ c \notin live
      /\ dead \in SUBSET Conns /\ U!Done(c, dead)
      /\ UNCHANGED <<live, queue, heard, requests, lost, published, gone>>
  BY DEF SubsInv, SubsTypes, U!SendDead, U!Subscribed, U!table
<1>2. \/ dead = {c} /\ U!Numbered(c) /\ UNCHANGED <<mappings, strays>>
      \/ U!Unsubscribed({c})
  BY DEF U!SendDead
<1> HIDE DEF dead
<1>3. job' \in SubJobs /\ job'.todo = job.todo \ {c} /\ job'.done = job.done \cup {c}
      /\ job'.tried = job.tried \cup {c} /\ job'.dead = job.dead \cup dead
  BY <1>1, JobDone
<1>4. job # None /\ job' # None
  BY <1>1, <1>3, ServicesAssumption DEF SubJobs
<1>5. /\ DOMAIN subscribes' \subseteq DOMAIN subscribes
      /\ \A d \in DOMAIN subscribes' : d # c => subscribes'[d] = subscribes[d]
      /\ \A d \in DOMAIN subscribes' : subscribes'[d].seq = subscribes[d].seq
      /\ subscribes' \in [DOMAIN subscribes' -> [seq : Nat, next : Nat]]
      /\ c \in DOMAIN subscribes' => c \in dead
  <2>1. subscribes \in [DOMAIN subscribes -> [seq : Nat, next : Nat]]
    BY DEF SubsInv, SubsTypes
  <2>2. CASE dead = {c} /\ U!Numbered(c)
    <3>1. subscribes' = [subscribes EXCEPT ![c].next = @ + 1]
      BY <2>2 DEF U!Numbered
    <3>2. /\ subscribes' \in [DOMAIN subscribes -> [seq : Nat, next : Nat]] /\ DOMAIN subscribes' = DOMAIN subscribes
          /\ subscribes'[c].seq = subscribes[c].seq
          /\ \A d \in DOMAIN subscribes : d # c => subscribes'[d] = subscribes[d]
      BY <1>1, <2>1, <3>1, NumberTaken
    <3>3. QED
      BY <2>2, <3>2
  <2>3. CASE U!Unsubscribed({c})
    <3>1. subscribes' = [d \in DOMAIN subscribes \ {c} |-> subscribes[d]]
      BY <2>3, WithoutDef DEF U!Unsubscribed
    <3>2. QED
      BY <2>1, <3>1
  <2>4. QED
    BY <1>2, <2>2, <2>3
<1>6. /\ mappings' \in [DOMAIN mappings' -> SUBSET Conns] /\ DOMAIN mappings' \subseteq Keys
      /\ strays' \subseteq Conns /\ U!KeysAreSubscribed'
  <2>1. mappings \in [DOMAIN mappings -> SUBSET Conns] /\ DOMAIN mappings \subseteq Keys
        /\ strays \subseteq Conns /\ \A k \in DOMAIN mappings : mappings[k] \subseteq DOMAIN subscribes \cup strays
    BY DEF SubsInv, SubsTypes, U!KeysAreSubscribed, U!Subscribed
  <2>2. CASE U!Numbered(c) /\ UNCHANGED <<mappings, strays>>
    BY <2>1, <2>2 DEF U!Numbered, U!KeysAreSubscribed, U!Subscribed
  <2>3. CASE U!Unsubscribed({c})
    <3>1. DOMAIN subscribes' = DOMAIN subscribes \ {c}
          /\ mappings' = [k \in DOMAIN mappings |-> mappings[k] \ {c}]
          /\ strays' = strays \ {c}
      BY <2>3, WithoutDef DEF U!Unsubscribed
    <3>2. QED
      BY <2>1, <3>1 DEF U!KeysAreSubscribed, U!Subscribed
  <2>4. QED
    BY <1>2, <2>2, <2>3
<1>7. SubsTypes'
  BY <1>1, <1>3, <1>5, <1>6 DEF SubsInv, SubsTypes
<1>8. LinesInv'
  <2>1. \A d \in Conns : Line(d)' = Line(d)
    BY <1>1 DEF Line
  <2>2. QED
    BY <1>1, <1>3, <1>4, <2>1 DEF SubsInv, LinesInv
<1>9. CountsInv'
  BY <1>1, <1>5 DEF SubsInv, CountsInv, Line
<1>10. JobInv'
  BY <1>1, <1>3, <1>4, <1>5 DEF SubsInv, JobInv
<1>11. QED
  BY <1>3, <1>6, <1>7, <1>8, <1>9, <1>10 DEF SubsInv

\* A key is looked up, or a connection is passed over.
LEMMA LookedUpKept ==
  ASSUME SubsInv, U!NextKey \/ \E c \in Conns : U!Skip(c)
  PROVE  SubsInv' /\ job' \in SubJobs
<1>1. job # None /\ job \in SubJobs
      /\ UNCHANGED <<live, queue, heard, subscribes, mappings, requests, lost, published, strays, gone>>
  BY DEF SubsInv, SubsTypes, U!NextKey, U!Skip, U!table
<1>2. PICK j \in SubJobs : j = job
  BY <1>1
<1>3. /\ job' \in SubJobs /\ job'.todo \cap job'.done = {} /\ job.done \subseteq job'.done
      /\ job'.tried = job.tried /\ job'.dead = job.dead
  <2>1. CASE U!NextKey
    <3> DEFINE todo == IF Head(j.keys) \in DOMAIN mappings THEN mappings[Head(j.keys)] \ j.done ELSE {}
    <3>1. j.keys # <<>> /\ job' = [j EXCEPT !.keys = Tail(@), !.todo = todo]
      BY <1>2, <2>1 DEF U!NextKey, U!Fresh
    <3>2. todo \in SUBSET Conns /\ todo \cap j.done = {}
      BY DEF SubsInv, SubsTypes
    <3> HIDE DEF todo
    <3>3. PICK rest \in Seq(Keys) : rest = Tail(j.keys)
      <4>1. j.keys \in Seq(Keys)
        BY DEF SubJobs
      <4>2. Tail(j.keys) \in Seq(Keys)
        BY <3>1, <4>1
      <4>3. QED
        BY <4>2
    <3>4. job' = [j EXCEPT !.keys = rest, !.todo = todo]
      BY <3>1, <3>3
    <3>5. job' \in SubJobs /\ job'.todo = todo /\ job'.done = j.done
          /\ job'.tried = j.tried /\ job'.dead = j.dead
      BY <3>2, <3>4 DEF SubJobs
    <3>6. QED
      BY <1>2, <3>2, <3>5
  <2>2. ASSUME NEW c \in Conns, U!Skip(c)
        PROVE  /\ job' \in SubJobs /\ job'.todo \cap job'.done = {} /\ job.done \subseteq job'.done
               /\ job'.tried = job.tried /\ job'.dead = job.dead
    <3>1. job' = [j EXCEPT !.todo = @ \ {c}, !.done = @ \cup {c}]
      BY <1>2, <2>2 DEF U!Skip
    <3>2. j.todo \cap j.done = {}
      BY <1>1, <1>2 DEF SubsInv, JobInv
    <3>3. job' \in SubJobs /\ job'.todo = j.todo \ {c} /\ job'.done = j.done \cup {c}
          /\ job'.tried = j.tried /\ job'.dead = j.dead
      BY <3>1 DEF SubJobs
    <3>4. QED
      BY <1>2, <3>2, <3>3
  <2>3. QED
    BY <2>1, <2>2
<1>4. PICK k \in SubJobs : k = job'
  BY <1>3
<1>5. QED
  BY <1>1, <1>3, <1>4, JobMoves

\* A new manager has no subscriptions.
LEMMA SubsInvInit == AllInit => SubsInv
<1> SUFFICES ASSUME AllInit PROVE SubsInv
  OBVIOUS
<1> USE ServicesAssumption
<1>1. /\ live = Conns /\ queue = [c \in Conns |-> <<>>] /\ heard = [c \in Conns |-> <<>>]
      /\ subscribes = <<>> /\ mappings = <<>> /\ job = None
      /\ requests = 0 /\ lost = [c \in Conns |-> 0] /\ published = 0 /\ strays = {} /\ gone = {}
  BY DEF AllInit, U!Init
<1>2. DOMAIN subscribes = {} /\ DOMAIN mappings = {}
  BY <1>1
<1>3. SubsTypes
  <2>1. queue \in [Conns -> Seq(SubFrames)] /\ heard \in [Conns -> Seq(SubFrames)]
        /\ \A c \in Conns : Len(queue[c]) <= Capacity
    BY <1>1
  <2>2. subscribes \in [{} -> [seq : Nat, next : Nat]] /\ mappings \in [{} -> SUBSET Conns]
    BY <1>1
  <2>3. QED
    BY <1>1, <1>2, <2>1, <2>2 DEF SubsTypes
<1>4. \A c \in Conns : Len(Line(c)) = 0
  BY <1>1 DEF Line
<1>5. \A c \in Conns : 1..Len(Line(c)) = {}
  BY <1>4
<1>6. QED
  BY <1>1, <1>2, <1>3, <1>5 DEF SubsInv, LinesInv, CountsInv, U!KeysAreSubscribed, JobInv

\* A list of keys is a sequence of keys.
LEMMA KeyListType == ASSUME NEW ks \in U!KeyLists PROVE ks \in Seq(Keys)
<1>1. <<>> \in Seq(Keys) /\ (\A k \in Keys : <<k>> \in Seq(Keys)) /\ (\A k, l \in Keys : <<k, l>> \in Seq(Keys))
  OBVIOUS
<1>2. ks = <<>> \/ (\E k \in Keys : ks = <<k>>) \/ (\E k, l \in Keys : ks = <<k, l>>)
  BY DEF U!KeyLists
<1>3. QED
  BY <1>1, <1>2

\* Every step of SubscriptionManager keeps its invariant, and only Finish ends
\* a publish.
LEMMA SubsInvKept ==
  ASSUME SubsInv, U!Next \/ UNCHANGED <<table, subs>>
  PROVE  SubsInv' /\ (job # None /\ job' = None => U!Finish)
<1>0. \A j \in SubJobs : j # None
  BY ServicesAssumption DEF SubJobs
<1>1. ASSUME NEW c \in Conns, NEW keys \in SUBSET Keys, U!Subscribe(c, keys)
      PROVE  SubsInv' /\ job = None
  BY <1>1, SubscribeKept DEF U!Subscribe
<1>2. ASSUME NEW c \in Conns, NEW remove \in BOOLEAN, NEW keys \in SUBSET Keys,
             U!UnsubscribeWith(c, remove, keys)
      PROVE  SubsInv' /\ job = None
  BY <1>2, UnsubscribeWithKept DEF U!UnsubscribeWith
<1>3. ASSUME NEW c \in Conns, U!Unsubscribe(c)
      PROVE  SubsInv' /\ job = None
  BY <1>3, UnsubscribedKept DEF U!Unsubscribe, U!table
<1>4. ASSUME NEW keys \in Seq(Keys), NEW todo \in SUBSET Conns, NEW filtered \in BOOLEAN,
             U!Start(keys, todo, filtered)
      PROVE  SubsInv' /\ job = None
  BY <1>4, StartKept DEF U!Start
<1>5. ASSUME NEW c \in Conns, U!PublishTo(c)
      PROVE  SubsInv' /\ job = None
  <2>1. <<>> \in Seq(Keys) /\ {c} \in SUBSET Conns
    OBVIOUS
  <2>2. QED
    BY <1>4, <1>5, <2>1 DEF U!PublishTo
<1>6. ASSUME NEW keys \in U!KeyLists, U!PublishToKeys(keys)
      PROVE  SubsInv' /\ job = None
  <2>1. keys \in Seq(Keys) /\ {} \in SUBSET Conns
    BY KeyListType
  <2>2. QED
    BY <1>4, <1>6, <2>1 DEF U!PublishToKeys
<1>7. ASSUME NEW S \in SUBSET Conns, U!PublishWithFilter(S)
      PROVE  SubsInv' /\ job = None
  <2>1. <<>> \in Seq(Keys) /\ U!Subscribed \cap S \in SUBSET Conns
    OBVIOUS
  <2>2. QED
    BY <1>4, <1>7, <2>1 DEF U!PublishWithFilter
<1>8. ASSUME NEW c \in Conns, U!Send(c)
      PROVE  SubsInv' /\ job' # None
  <2>1. job \in SubJobs /\ U!Done(c, {}) /\ {} \in SUBSET Conns
    BY <1>8 DEF SubsInv, SubsTypes, U!Send
  <2>2. QED
    BY <1>0, <1>8, <2>1, JobDone, SendKept
<1>9. ASSUME NEW c \in Conns, U!SendDead(c)
      PROVE  SubsInv' /\ job' # None
  BY <1>0, <1>9, SendDeadKept
<1>10. ASSUME U!NextKey \/ \E c \in Conns : U!Skip(c)
       PROVE  SubsInv' /\ job' # None
  BY <1>0, <1>10, LookedUpKept
<1>11. ASSUME NEW c \in Conns, U!Disconnect(c) \/ U!Receive(c)
       PROVE  SubsInv' /\ job' = job
  BY <1>11, TableKept DEF U!Disconnect, U!Receive
<1>12. ASSUME U!Finish
       PROVE  SubsInv'
  BY <1>12, UnsubscribedKept DEF U!Finish, U!table
<1>13. ASSUME UNCHANGED <<table, subs>>
       PROVE  SubsInv' /\ job' = job
  BY <1>13 DEF table, subs, SubsInv, SubsTypes, LinesInv, CountsInv, U!KeysAreSubscribed,
               U!Subscribed, JobInv, Line
<1>14. QED
  BY <1>1, <1>2, <1>3, <1>5, <1>6, <1>7, <1>8, <1>9, <1>10, <1>11, <1>12, <1>13 DEF U!Next

\* The step that ends a publish.
LEMMA SubsPurged ==
  ASSUME SubsInv, U!Finish
  PROVE  U!PublishPurges
<1>1. job # None /\ DOMAIN subscribes' = DOMAIN subscribes \ job.dead
  BY WithoutDef DEF U!Finish, U!Unsubscribed
<1>2. DOMAIN subscribes \cap gone \cap job.tried \subseteq job.dead
  BY <1>1 DEF SubsInv, JobInv
<1>3. QED
  BY <1>1, <1>2 DEF U!PublishPurges

\* The counting of the instance is that of this module.
LEMMA SubsCardinality == \A S : U!Cardinality(S) = Cardinality(S)
  BY DEF U!Cardinality, Cardinality, U!IsFiniteSet, IsFiniteSet

\* The invariant says that gaps are losses.
LEMMA SubsInvExact == SubsInv => U!SubscriptionsExact
<1> SUFFICES ASSUME SubsInv PROVE U!SubscriptionsExact
  OBVIOUS
<1>1. \A c \in Conns : U!Stream(c) = Line(c) /\ DOMAIN U!Stream(c) = 1..Len(Line(c))
  BY SubLineType DEF SubsInv, U!Stream, Line
<1>2. U!TypeOK
  BY DEF SubsInv, SubsTypes, CountsInv, U!TypeOK, U!Subscribed
<1>3. U!GapsAreLosses
  <2> SUFFICES ASSUME NEW c \in U!Subscribed \cap live
               PROVE  /\ \A i, j \in U!Mine(c) : i < j => U!Stream(c)[i].n < U!Stream(c)[j].n
                      /\ U!Cardinality(U!Mine(c)) + lost[c] = subscribes[c].next
    BY DEF U!GapsAreLosses
  <2>1. c \in Conns /\ Exact(Line(c), OfRequest(subscribes[c].seq), subscribes[c].next, lost[c])
    BY DEF SubsInv, SubsTypes, CountsInv, U!Subscribed
  <2>2. U!Mine(c) = Marked(Line(c), OfRequest(subscribes[c].seq))
    BY <1>1, <2>1, SubLineType DEF U!Mine, Marked, OfRequest, SubsInv
  <2>3. QED
    BY <1>1, <2>1, <2>2, SubsCardinality DEF Exact
<1>4. U!OncePerPublish
  BY <1>1 DEF SubsInv, LinesInv, U!OncePerPublish
<1>5. QED
  BY <1>2, <1>3, <1>4 DEF SubsInv, U!SubscriptionsExact
-----------------------------------------------------------------------------
(* SubscribeManager *)

PushFrames == [topic : Topics, seq : Nat, n : Nat]
OfTopic(t, r) == {f \in PushFrames : f.topic = t /\ f.seq = r}
Contexts == [seq : Nat, next : Nat]
Publishes == [todo : SUBSET Conns, dead : SUBSET Conns, lost : SUBSET Conns]
Calls == [seq : Nat \cup {None}, todo : SUBSET Topics]

TopicTypes ==
  /\ topics \in [DOMAIN topics -> {topics[t] : t \in DOMAIN topics}] /\ DOMAIN topics \subseteq Topics
  /\ \A t \in DOMAIN topics :
       topics[t] \in [DOMAIN topics[t] -> Contexts] /\ DOMAIN topics[t] \subseteq Conns

PushTypes ==
  /\ live \subseteq Conns
  /\ queue \in [Conns -> Seq(PushFrames)] /\ heard \in [Conns -> Seq(PushFrames)]
  /\ TopicTypes
  /\ held \in [Topics -> Publishes \cup {None}]
  /\ multi \in [Conns -> Calls \cup {None}]
  /\ asked \in Nat /\ missed \in [Topics -> [Conns -> Nat]]

\* A call of subscribe has a number of its own, and no frame and no subscription
\* has that number on a topic the call has not come to yet.
Unused(c, t, r) == r <= asked /\ (multi[c] # None /\ multi[c].seq = r => t \notin multi[c].todo)

FramesInv ==
  \A c \in Conns :
    /\ \A i \in 1..Len(Line(c)) : Unused(c, Line(c)[i].topic, Line(c)[i].seq)
    /\ multi[c] # None /\ multi[c].seq # None => multi[c].seq <= asked

TopicsInv ==
  \A t \in DOMAIN topics : \A c \in DOMAIN topics[t] :
    /\ Unused(c, t, topics[t][c].seq)
    /\ c \in live => Exact(Line(c), OfTopic(t, topics[t][c].seq), topics[t][c].next, missed[t][c])

\* A publish holds its topic: those it has still to send to stay subscribed.
HeldInv ==
  \A t \in Topics : held[t] # None =>
    /\ t \in DOMAIN topics /\ held[t].todo \subseteq DOMAIN topics[t]
    /\ held[t].lost \cap live = {} /\ held[t].lost \subseteq held[t].todo \cup held[t].dead

PushInv == PushTypes /\ FramesInv /\ TopicsInv /\ HeldInv

\* The fields of a frame are a topic and numbers.
LEMMA PushFrameTypes == \A f \in PushFrames : f.topic \in Topics /\ f.seq \in Nat /\ f.n \in Nat
  BY DEF PushFrames

\* A line of SubscribeManager is a sequence of its frames.
LEMMA PushLineType ==
  ASSUME PushTypes, NEW c \in Conns
  PROVE  /\ Line(c) \in Seq(PushFrames) /\ DOMAIN Line(c) = 1..Len(Line(c))
         /\ \A i \in 1..Len(Line(c)) : Line(c)[i] \in PushFrames
<1>1. heard[c] \in Seq(PushFrames) /\ queue[c] \in Seq(PushFrames)
  BY DEF PushTypes
<1>2. Line(c) \in Seq(PushFrames) /\ DOMAIN Line(c) = 1..Len(Line(c))
  BY <1>1, LineType DEF Line
<1>3. QED
  BY <1>2

\* The subscribers of one topic are put in place.
LEMMA TopicPut ==
  ASSUME TopicTypes, NEW t \in Topics, NEW g, g \in [DOMAIN g -> Contexts], DOMAIN g \subseteq Conns, H!Put(t, g)
  PROVE  /\ TopicTypes' /\ DOMAIN topics' = DOMAIN topics \cup {t} /\ topics'[t] = g
         /\ \A u \in DOMAIN topics : u # t => topics'[u] = topics[u]
<1>1. topics' = [u \in DOMAIN topics \cup {t} |-> IF u = t THEN g ELSE topics[u]]
  BY DEF H!Put
<1>2. DOMAIN topics' = DOMAIN topics \cup {t} /\ topics'[t] = g
      /\ \A u \in DOMAIN topics : u # t => topics'[u] = topics[u]
  BY <1>1
<1>3. DOMAIN topics' \subseteq Topics
      /\ \A u \in DOMAIN topics' : topics'[u] \in [DOMAIN topics'[u] -> Contexts] /\ DOMAIN topics'[u] \subseteq Conns
  BY <1>2 DEF TopicTypes
<1>4. topics' = [u \in DOMAIN topics' |-> topics'[u]]
  BY <1>1, <1>2
<1>5. topics' \in [DOMAIN topics' -> {topics'[u] : u \in DOMAIN topics'}]
  BY <1>4
<1>6. QED
  BY <1>2, <1>3, <1>5 DEF TopicTypes

\* Subscriptions and calls are the ones there were or fewer, or calls with a new
\* number; lines stay, or are cut off with their connection.
LEMMA PushCarried ==
  ASSUME PushInv, PushTypes', asked' \in {asked, asked + 1}, live' \subseteq live, missed' = missed,
         \A d \in Conns : Line(d)' = Line(d) \/ (d \notin live' /\
            \A i \in 1..Len(Line(d)') : i \in 1..Len(Line(d)) /\ Line(d)'[i] = Line(d)[i]),
         \A d \in Conns : multi'[d] # None /\ multi'[d].seq # None =>
           \/ multi[d] # None /\ multi[d].seq = multi'[d].seq /\ multi'[d].todo \subseteq multi[d].todo
           \/ asked' = asked + 1 /\ multi'[d].seq = asked',
         \A u \in DOMAIN topics' : \A d \in DOMAIN topics'[u] :
           u \in DOMAIN topics /\ d \in DOMAIN topics[u] /\ topics'[u][d] = topics[u][d]
  PROVE  FramesInv' /\ TopicsInv'
<1> USE ServicesAssumption
<1>1. asked \in Nat /\ asked' \in Nat /\ asked <= asked'
  BY DEF PushInv, PushTypes
<1>2. ASSUME NEW d \in Conns, NEW t, NEW r \in Nat, Unused(d, t, r)
      PROVE  Unused(d, t, r)'
  <2>1. r <= asked'
    BY <1>1, <1>2 DEF Unused
  <2>2. ASSUME multi'[d] # None, multi'[d].seq = r
        PROVE  t \notin multi'[d].todo
    <3>1. r <= asked /\ r # asked + 1 /\ r # None
      BY <1>1, <1>2 DEF Unused
    <3>2. multi[d] # None /\ multi[d].seq = r /\ multi'[d].todo \subseteq multi[d].todo
      BY <2>2, <3>1
    <3>3. QED
      BY <1>2, <3>2 DEF Unused
  <2>3. QED
    BY <2>1, <2>2 DEF Unused
<1>3. FramesInv'
  <2> SUFFICES ASSUME NEW d \in Conns
               PROVE  /\ \A i \in 1..Len(Line(d)') : Unused(d, Line(d)[i].topic, Line(d)[i].seq)'
                      /\ multi'[d] # None /\ multi'[d].seq # None => multi'[d].seq <= asked'
    BY DEF FramesInv
  <2>1. ASSUME NEW i \in 1..Len(Line(d)')
        PROVE  Unused(d, Line(d)[i].topic, Line(d)[i].seq)'
    <3>1. i \in 1..Len(Line(d)) /\ Line(d)'[i] = Line(d)[i]
      OBVIOUS
    <3>2. Line(d)[i].topic \in Topics /\ Line(d)[i].seq \in Nat
      BY <3>1, PushLineType, PushFrameTypes DEF PushInv
    <3>3. Unused(d, Line(d)[i].topic, Line(d)[i].seq)
      BY <3>1 DEF PushInv, FramesInv
    <3>4. PICK x \in Topics, r \in Nat : x = Line(d)[i].topic /\ r = Line(d)[i].seq
      BY <3>2
    <3>5. Unused(d, x, r)'
      BY <1>2, <3>3, <3>4
    <3>6. QED
      BY <3>1, <3>4, <3>5
  <2>2. ASSUME multi'[d] # None, multi'[d].seq # None
        PROVE  multi'[d].seq <= asked'
    <3>1. CASE multi[d] # None /\ multi[d].seq = multi'[d].seq
      <4>1. multi[d] \in Calls
        BY <3>1 DEF PushInv, PushTypes
      <4>2. multi[d].seq \in Nat /\ multi[d].seq <= asked
        BY <2>2, <3>1, <4>1 DEF PushInv, FramesInv, Calls
      <4>3. QED
        BY <1>1, <3>1, <4>2
    <3>2. CASE multi'[d].seq = asked'
      BY <1>1, <3>2
    <3>3. QED
      BY <2>2, <3>1, <3>2
  <2>3. QED
    BY <2>1, <2>2
<1>4. TopicsInv'
  <2> SUFFICES ASSUME NEW u \in DOMAIN topics', NEW d \in DOMAIN topics'[u]
               PROVE  /\ Unused(d, u, topics[u][d].seq)'
                      /\ d \in live' => Exact(Line(d)', OfTopic(u, topics'[u][d].seq), topics'[u][d].next, missed'[u][d])
    BY DEF TopicsInv
  <2>1. u \in DOMAIN topics /\ d \in DOMAIN topics[u] /\ topics'[u][d] = topics[u][d]
    OBVIOUS
  <2>2. d \in Conns /\ topics[u][d].seq \in Nat
    BY <2>1 DEF PushInv, PushTypes, TopicTypes, Contexts
  <2>3. PICK r \in Nat : r = topics[u][d].seq
    BY <2>2
  <2>4. Unused(d, u, r)
    BY <2>1, <2>3 DEF PushInv, TopicsInv
  <2>5. Unused(d, u, r)'
    BY <1>2, <2>2, <2>4
  <2>6. d \in live' => d \in live /\ Line(d)' = Line(d)
    BY <2>2
  <2>7. d \in live => Exact(Line(d), OfTopic(u, topics[u][d].seq), topics[u][d].next, missed[u][d])
    BY <2>1 DEF PushInv, TopicsInv
  <2>8. QED
    BY <2>1, <2>3, <2>5, <2>6, <2>7
<1>5. QED
  BY <1>3, <1>4

\* A new topic has no subscribers.
LEMMA AddTopicKept ==
  ASSUME PushInv, NEW t \in Topics, H!AddTopic(t)
  PROVE  PushInv' /\ held' = held
<1>1. held[t] = None /\ t \notin DOMAIN topics /\ H!Put(t, <<>>)
      /\ UNCHANGED <<live, queue, heard, held, multi, asked, missed>>
  BY DEF H!AddTopic, H!table
<1>2. PICK g : g = <<>>
  OBVIOUS
<1>3. g \in [DOMAIN g -> Contexts] /\ DOMAIN g = {}
  BY <1>2
<1>4. /\ TopicTypes' /\ DOMAIN topics' = DOMAIN topics \cup {t} /\ topics'[t] = g
      /\ \A u \in DOMAIN topics : u # t => topics'[u] = topics[u]
  BY <1>1, <1>2, <1>3, TopicPut DEF PushInv, PushTypes
<1>5. PushTypes'
  BY <1>1, <1>4 DEF PushInv, PushTypes
<1>6. \A d \in Conns : Line(d)' = Line(d)
  BY <1>1 DEF Line
<1>7. \A u \in DOMAIN topics' : \A d \in DOMAIN topics'[u] :
        u \in DOMAIN topics /\ d \in DOMAIN topics[u] /\ topics'[u][d] = topics[u][d]
  BY <1>3, <1>4
<1>8. FramesInv' /\ TopicsInv'
  BY <1>1, <1>5, <1>6, <1>7, PushCarried
<1>9. HeldInv'
  BY <1>1, <1>4 DEF PushInv, HeldInv
<1>10. QED
  BY <1>1, <1>5, <1>8, <1>9 DEF PushInv

\* subscribe_multi and unsubscribe_multi begin.
LEMMA BeginKept ==
  ASSUME PushInv, NEW c \in Conns, NEW T \in SUBSET Topics, H!BeginSubscribe(c, T) \/ H!BeginUnsubscribe(c, T)
  PROVE  PushInv' /\ held' = held
<1>1. PICK r : /\ r = asked + 1 \/ r = None
               /\ multi' = [multi EXCEPT ![c] = [seq |-> r, todo |-> T]]
  BY DEF H!BeginSubscribe, H!BeginUnsubscribe
<1>2. asked' = asked + 1 /\ UNCHANGED <<live, queue, heard, topics, held, missed>>
  BY DEF H!BeginSubscribe, H!BeginUnsubscribe, H!table
<1>3. asked \in Nat /\ [seq |-> r, todo |-> T] \in Calls
  BY <1>1 DEF PushInv, PushTypes, Calls
<1>4. multi' \in [Conns -> Calls \cup {None}] /\ multi'[c] = [seq |-> r, todo |-> T]
      /\ \A d \in Conns : d # c => multi'[d] = multi[d]
  BY <1>1, <1>3 DEF PushInv, PushTypes
<1>5. PushTypes'
  BY <1>2, <1>3, <1>4 DEF PushInv, PushTypes, TopicTypes
<1>6. \A d \in Conns : Line(d)' = Line(d)
  BY <1>2 DEF Line
<1>7. \A d \in Conns : multi'[d] # None /\ multi'[d].seq # None =>
        \/ multi[d] # None /\ multi[d].seq = multi'[d].seq /\ multi'[d].todo \subseteq multi[d].todo
        \/ asked' = asked + 1 /\ multi'[d].seq = asked'
  BY <1>1, <1>2, <1>4
<1>8. FramesInv' /\ TopicsInv'
  BY <1>2, <1>5, <1>6, <1>7, PushCarried
<1>9. HeldInv'
  BY <1>2 DEF PushInv, HeldInv
<1>10. QED
  BY <1>2, <1>5, <1>8, <1>9 DEF PushInv

\* A call has come to one of its topics.
LEMMA LocksCall ==
  ASSUME PushInv, NEW c \in Conns, NEW t \in Topics, H!Locks(c, t)
  PROVE  /\ held[t] = None /\ multi[c] \in Calls /\ multi[c] # None /\ t \in multi[c].todo
         /\ multi' \in [Conns -> Calls \cup {None}]
         /\ \A d \in Conns : multi'[d] # None =>
              multi[d] # None /\ multi[d].seq = multi'[d].seq /\ multi'[d].todo \subseteq multi[d].todo
         /\ multi'[c] # None => t \notin multi'[c].todo
<1>1. held[t] = None /\ multi[c] \in Calls /\ multi[c] # None /\ t \in multi[c].todo
  BY DEF H!Locks, PushInv, PushTypes
<1>2. PICK m \in Calls : m = multi[c]
  BY <1>1
<1> DEFINE k == IF m.todo = {t} THEN None ELSE [seq |-> m.seq, todo |-> m.todo \ {t}]
<1>3. multi' = [multi EXCEPT ![c] = k]
  BY <1>2 DEF H!Locks
<1>4. k # None => k \in Calls /\ k.seq = m.seq /\ k.todo = m.todo \ {t}
  BY DEF Calls
<1> HIDE DEF k
<1>5. multi' \in [Conns -> Calls \cup {None}] /\ multi'[c] = k /\ \A d \in Conns : d # c => multi'[d] = multi[d]
  BY <1>3, <1>4 DEF PushInv, PushTypes
<1>6. QED
  BY <1>1, <1>2, <1>4, <1>5

\* Without restricts a function.
LEMMA PushWithoutDef ==
  ASSUME NEW g, NEW S
  PROVE  H!Without(g, S) = [d \in DOMAIN g \ S |-> g[d]]
  BY DEF H!Without, H!Restrict

\* Unsubscribing takes a stream off a topic that nobody holds.
LEMMA PushUnsubscribeKept ==
  ASSUME PushInv, NEW c \in Conns, NEW t \in Topics, H!Unsubscribe(c, t)
  PROVE  PushInv' /\ held' = held
<1>1. H!Locks(c, t) /\ UNCHANGED <<live, queue, heard, held, asked, missed>>
  BY DEF H!Unsubscribe, H!table
<1>2. TopicTypes' /\ DOMAIN topics' = DOMAIN topics
      /\ (\A u \in DOMAIN topics : u # t => topics'[u] = topics[u])
      /\ \A u \in DOMAIN topics' : \A d \in DOMAIN topics'[u] :
           u \in DOMAIN topics /\ d \in DOMAIN topics[u] /\ topics'[u][d] = topics[u][d]
  <2>1. CASE t \in DOMAIN topics
    <3>1. PICK g : g = [d \in DOMAIN topics[t] \ {c} |-> topics[t][d]]
      OBVIOUS
    <3>2. H!Put(t, g)
      BY <2>1, <3>1, PushWithoutDef DEF H!Unsubscribe
    <3>3. topics[t] \in [DOMAIN topics[t] -> Contexts] /\ DOMAIN topics[t] \subseteq Conns
      BY <2>1 DEF PushInv, PushTypes, TopicTypes
    <3>4. g \in [DOMAIN g -> Contexts] /\ DOMAIN g = DOMAIN topics[t] \ {c}
          /\ \A d \in DOMAIN g : g[d] = topics[t][d]
      BY <3>1, <3>3
    <3>5. /\ TopicTypes' /\ DOMAIN topics' = DOMAIN topics \cup {t} /\ topics'[t] = g
          /\ \A u \in DOMAIN topics : u # t => topics'[u] = topics[u]
      BY <3>2, <3>3, <3>4, TopicPut DEF PushInv, PushTypes
    <3>6. QED
      BY <2>1, <3>4, <3>5
  <2>2. CASE t \notin DOMAIN topics
    BY <2>2 DEF H!Unsubscribe, PushInv, PushTypes, TopicTypes
  <2>3. QED
    BY <2>1, <2>2
<1>3. held[t] = None /\ multi' \in [Conns -> Calls \cup {None}]
      /\ \A d \in Conns : multi'[d] # None =>
           multi[d] # None /\ multi[d].seq = multi'[d].seq /\ multi'[d].todo \subseteq multi[d].todo
  BY <1>1, LocksCall
<1>4. PushTypes'
  BY <1>1, <1>2, <1>3 DEF PushInv, PushTypes
<1>5. \A d \in Conns : Line(d)' = Line(d)
  BY <1>1 DEF Line
<1>6. FramesInv' /\ TopicsInv'
  BY <1>1, <1>2, <1>3, <1>4, <1>5, PushCarried
<1>7. HeldInv'
  BY <1>1, <1>2, <1>3 DEF PushInv, HeldInv
<1>8. QED
  BY <1>1, <1>4, <1>6, <1>7 DEF PushInv

\* A publish takes the lock of its topic and no other.
LEMMA PublishKept ==
  ASSUME PushInv, NEW t \in Topics, NEW S \in SUBSET Conns, H!Publish(t, S)
  PROVE  PushInv' /\ \A u \in Topics : held[u] # None => held'[u] = held[u]
<1> DEFINE p == [todo |-> S \cap DOMAIN topics[t], dead |-> {}, lost |-> (S \cap DOMAIN topics[t]) \ live]
<1>1. held[t] = None /\ t \in DOMAIN topics /\ held' = [held EXCEPT ![t] = p]
      /\ UNCHANGED <<live, queue, heard, topics, multi, asked, missed>>
  BY DEF H!Publish, H!table
<1>2. p \in Publishes /\ p.todo \subseteq DOMAIN topics[t] /\ p.lost \cap live = {} /\ p.lost \subseteq p.todo
  BY DEF Publishes
<1> HIDE DEF p
<1>3. held' \in [Topics -> Publishes \cup {None}] /\ held'[t] = p
      /\ \A u \in Topics : u # t => held'[u] = held[u]
  BY <1>1, <1>2 DEF PushInv, PushTypes
<1>4. PushTypes'
  BY <1>1, <1>3 DEF PushInv, PushTypes, TopicTypes
<1>5. \A d \in Conns : Line(d)' = Line(d)
  BY <1>1 DEF Line
<1>6. FramesInv' /\ TopicsInv'
  BY <1>1, <1>4, <1>5, PushCarried
<1>7. HeldInv'
  BY <1>1, <1>2, <1>3 DEF PushInv, HeldInv
<1>8. QED
  BY <1>1, <1>3, <1>4, <1>6, <1>7 DEF PushInv

\* The end of a publish takes the dead off the topic.
LEMMA PushFinishKept ==
  ASSUME PushInv, NEW t \in Topics, H!Finish(t)
  PROVE  PushInv' /\ H!TopicPurged
<1>1. held[t] # None /\ held[t].todo = {} /\ held' = [held EXCEPT ![t] = None]
      /\ H!Put(t, H!Without(topics[t], held[t].dead))
      /\ UNCHANGED <<live, queue, heard, multi, asked, missed>>
  BY DEF H!Finish, H!table
<1>2. t \in DOMAIN topics /\ held[t].lost \subseteq held[t].dead
  BY <1>1 DEF PushInv, HeldInv
<1>3. PICK g : g = [d \in DOMAIN topics[t] \ held[t].dead |-> topics[t][d]]
  OBVIOUS
<1>4. topics[t] \in [DOMAIN topics[t] -> Contexts] /\ DOMAIN topics[t] \subseteq Conns
  BY <1>2 DEF PushInv, PushTypes, TopicTypes
<1>5. g \in [DOMAIN g -> Contexts] /\ DOMAIN g = DOMAIN topics[t] \ held[t].dead
      /\ \A d \in DOMAIN g : g[d] = topics[t][d]
  BY <1>3, <1>4
<1>6. H!Put(t, g)
  BY <1>1, <1>3, PushWithoutDef
<1>7. /\ TopicTypes' /\ DOMAIN topics' = DOMAIN topics \cup {t} /\ topics'[t] = g
      /\ \A u \in DOMAIN topics : u # t => topics'[u] = topics[u]
  BY <1>4, <1>5, <1>6, TopicPut DEF PushInv, PushTypes
<1>8. held' \in [Topics -> Publishes \cup {None}] /\ held'[t] = None
      /\ \A u \in Topics : u # t => held'[u] = held[u]
  BY <1>1 DEF PushInv, PushTypes
<1>9. PushTypes'
  BY <1>1, <1>7, <1>8 DEF PushInv, PushTypes
<1>10. \A d \in Conns : Line(d)' = Line(d)
  BY <1>1 DEF Line
<1>11. \A u \in DOMAIN topics' : \A d \in DOMAIN topics'[u] :
         u \in DOMAIN topics /\ d \in DOMAIN topics[u] /\ topics'[u][d] = topics[u][d]
  BY <1>2, <1>5, <1>7
<1>12. FramesInv' /\ TopicsInv'
  BY <1>1, <1>9, <1>10, <1>11, PushCarried
<1>13. HeldInv'
  BY <1>1, <1>7, <1>8 DEF PushInv, HeldInv
<1>14. H!TopicPurged
  BY <1>2, <1>5, <1>7, <1>8 DEF H!TopicPurged
<1>15. QED
  BY <1>9, <1>12, <1>13, <1>14 DEF PushInv

\* Connections that go or receive keep the lines in order.
LEMMA PushTableKept ==
  ASSUME PushInv, NEW c \in Conns, H!Disconnect(c) \/ H!Receive(c)
  PROVE  PushInv' /\ held' = held
<1>0. heard[c] \in Seq(PushFrames) /\ queue[c] \in Seq(PushFrames)
  BY DEF PushInv, PushTypes
<1>1. CASE H!Disconnect(c)
  <2>1. live' = live \ {c} /\ queue' = [queue EXCEPT ![c] = <<>>]
        /\ UNCHANGED <<heard, topics, held, multi, asked, missed>>
    BY <1>1 DEF H!Disconnect
  <2>2. PushTypes'
    <3>1. queue' \in [Conns -> Seq(PushFrames)]
      BY <2>1 DEF PushInv, PushTypes
    <3>2. QED
      BY <2>1, <3>1 DEF PushInv, PushTypes, TopicTypes
  <2>3. \A d \in Conns : d # c => Line(d)' = Line(d)
    BY <2>1 DEF Line, PushInv, PushTypes
  <2>4. Line(c)' = heard[c] \o <<>>
    BY <2>1 DEF Line, PushInv, PushTypes
  <2>5. \A i \in 1..Len(Line(c)') : i \in 1..Len(Line(c)) /\ Line(c)'[i] = Line(c)[i]
    <3>1. \A i \in 1..Len(heard[c] \o <<>>) :
            i \in 1..Len(heard[c] \o queue[c]) /\ (heard[c] \o <<>>)[i] = (heard[c] \o queue[c])[i]
      BY <1>0, LineCut
    <3>2. Line(c) = heard[c] \o queue[c]
      BY DEF Line
    <3>3. QED
      BY <2>4, <3>1, <3>2
  <2>6. FramesInv' /\ TopicsInv'
    BY <2>1, <2>2, <2>3, <2>5, PushCarried
  <2>7. HeldInv'
    BY <2>1 DEF PushInv, HeldInv
  <2>8. QED
    BY <2>1, <2>2, <2>6, <2>7 DEF PushInv
<1>2. CASE H!Receive(c)
  <2>1. queue[c] # <<>> /\ heard' = [heard EXCEPT ![c] = Append(heard[c], Head(queue[c]))]
        /\ queue' = [queue EXCEPT ![c] = Tail(queue[c])]
        /\ UNCHANGED <<live, topics, held, multi, asked, missed>>
    BY <1>2 DEF H!Receive
  <2>2. Append(heard[c], Head(queue[c])) \in Seq(PushFrames) /\ Tail(queue[c]) \in Seq(PushFrames)
    BY <1>0, <2>1
  <2>3. PushTypes'
    <3>1. queue' \in [Conns -> Seq(PushFrames)] /\ heard' \in [Conns -> Seq(PushFrames)]
      BY <2>1, <2>2 DEF PushInv, PushTypes
    <3>2. QED
      BY <2>1, <3>1 DEF PushInv, PushTypes, TopicTypes
  <2>4. Line(c)' = Append(heard[c], Head(queue[c])) \o Tail(queue[c])
    BY <2>1 DEF Line, PushInv, PushTypes
  <2>5. Line(c)' = Line(c)
    BY <1>0, <2>1, <2>4, LineReceived DEF Line
  <2>6. \A d \in Conns : Line(d)' = Line(d)
    BY <2>1, <2>5 DEF Line, PushInv, PushTypes
  <2>7. FramesInv' /\ TopicsInv'
    BY <2>1, <2>3, <2>6, PushCarried
  <2>8. HeldInv'
    BY <2>1 DEF PushInv, HeldInv
  <2>9. QED
    BY <2>1, <2>3, <2>7, <2>8 DEF PushInv
<1>3. QED
  BY <1>1, <1>2

\* The subscription a call puts in place starts at zero: no frame has its number.
LEMMA PushSubscribeKept ==
  ASSUME PushInv, NEW c \in Conns, NEW t \in Topics, H!Subscribe(c, t)
  PROVE  PushInv' /\ held' = held
<1> USE ServicesAssumption
<1> DEFINE old == H!Subscribers(t)
           ctx == [seq |-> multi[c].seq, next |-> 0]
           g == [d \in DOMAIN old \cup {c} |-> IF d = c THEN ctx ELSE old[d]]
<1>1. H!Locks(c, t) /\ multi[c].seq # None /\ H!Put(t, g) /\ missed' = [missed EXCEPT ![t][c] = 0]
      /\ UNCHANGED <<live, queue, heard, held, asked>>
  BY DEF H!Subscribe, H!Context, H!table
<1>2. /\ held[t] = None /\ multi[c] \in Calls /\ multi[c] # None /\ t \in multi[c].todo
      /\ multi' \in [Conns -> Calls \cup {None}]
      /\ \A d \in Conns : multi'[d] # None =>
           multi[d] # None /\ multi[d].seq = multi'[d].seq /\ multi'[d].todo \subseteq multi[d].todo
      /\ multi'[c] # None => t \notin multi'[c].todo
  BY <1>1, LocksCall
<1>3. multi[c].seq \in Nat /\ multi[c].seq <= asked /\ asked \in Nat
  <2>1. multi[c].seq \in Nat \cup {None}
    BY <1>2 DEF Calls
  <2>2. QED
    BY <1>1, <1>2, <2>1 DEF PushInv, PushTypes, FramesInv
<1>4. ctx \in Contexts /\ ctx.seq = multi[c].seq /\ ctx.next = 0
  BY <1>3 DEF Contexts
<1>5. old \in [DOMAIN old -> Contexts] /\ DOMAIN old \subseteq Conns
      /\ (t \in DOMAIN topics => old = topics[t]) /\ (t \notin DOMAIN topics => DOMAIN old = {})
  <2>1. CASE t \in DOMAIN topics
    BY <2>1 DEF H!Subscribers, PushInv, PushTypes, TopicTypes
  <2>2. CASE t \notin DOMAIN topics
    <3>1. old = <<>>
      BY <2>2 DEF H!Subscribers
    <3>2. DOMAIN old = {} /\ old \in [{} -> Contexts]
      BY <3>1
    <3>3. QED
      BY <2>2, <3>2
  <2>3. QED
    BY <2>1, <2>2
<1> HIDE DEF old, ctx
<1>6. g \in [DOMAIN g -> Contexts] /\ DOMAIN g = DOMAIN old \cup {c} /\ DOMAIN g \subseteq Conns
      /\ g[c] = ctx /\ \A d \in DOMAIN old : d # c => g[d] = old[d]
  BY <1>4, <1>5
<1> HIDE DEF g
<1>7. /\ TopicTypes' /\ DOMAIN topics' = DOMAIN topics \cup {t} /\ topics'[t] = g
      /\ \A u \in DOMAIN topics : u # t => topics'[u] = topics[u]
  BY <1>1, <1>6, TopicPut DEF PushInv, PushTypes
<1>8. missed' \in [Topics -> [Conns -> Nat]] /\ missed'[t][c] = 0
      /\ \A u \in Topics, d \in Conns : u # t \/ d # c => missed'[u][d] = missed[u][d]
  BY <1>1 DEF PushInv, PushTypes
<1>9. PushTypes'
  BY <1>1, <1>2, <1>7, <1>8 DEF PushInv, PushTypes
<1>10. \A d \in Conns : Line(d)' = Line(d)
  BY <1>1 DEF Line
<1>11. ASSUME NEW d \in Conns, NEW u, NEW r, Unused(d, u, r)
       PROVE  Unused(d, u, r)'
  BY <1>1, <1>2, <1>11 DEF Unused
<1>12. FramesInv'
  <2> SUFFICES ASSUME NEW d \in Conns
               PROVE  /\ \A i \in 1..Len(Line(d)') : Unused(d, Line(d)[i].topic, Line(d)[i].seq)'
                      /\ multi'[d] # None /\ multi'[d].seq # None => multi'[d].seq <= asked'
    BY DEF FramesInv
  <2>1. ASSUME NEW i \in 1..Len(Line(d)')
        PROVE  Unused(d, Line(d)[i].topic, Line(d)[i].seq)'
    <3>1. i \in 1..Len(Line(d)) /\ Line(d)'[i] = Line(d)[i]
      BY <1>10
    <3>2. Line(d)[i].topic \in Topics /\ Line(d)[i].seq \in Nat
      BY <3>1, PushLineType, PushFrameTypes DEF PushInv
    <3>3. Unused(d, Line(d)[i].topic, Line(d)[i].seq)
      BY <3>1 DEF PushInv, FramesInv
    <3>4. PICK x \in Topics, r \in Nat : x = Line(d)[i].topic /\ r = Line(d)[i].seq
      BY <3>2
    <3>5. Unused(d, x, r)'
      BY <1>11, <3>3, <3>4
    <3>6. QED
      BY <3>1, <3>4, <3>5
  <2>2. multi'[d] # None /\ multi'[d].seq # None => multi'[d].seq <= asked'
    BY <1>1, <1>2 DEF PushInv, FramesInv
  <2>3. QED
    BY <2>1, <2>2
<1>13. TopicsInv'
  <2> SUFFICES ASSUME NEW u \in DOMAIN topics', NEW d \in DOMAIN topics'[u]
               PROVE  /\ Unused(d, u, topics[u][d].seq)'
                      /\ d \in live' => Exact(Line(d)', OfTopic(u, topics'[u][d].seq), topics'[u][d].next, missed'[u][d])
    BY DEF TopicsInv
  <2>1. CASE u = t /\ d = c
    <3>1. topics'[u][d].seq = multi[c].seq /\ topics'[u][d].next = 0 /\ missed'[u][d] = 0
      BY <1>4, <1>6, <1>7, <1>8, <2>1
    <3>2. Unused(d, u, topics[u][d].seq)'
      BY <1>1, <1>2, <1>3, <2>1, <3>1 DEF Unused
    <3>3. \A i \in 1..Len(Line(c)) : Line(c)[i] \notin OfTopic(t, multi[c].seq)
      BY <1>2 DEF PushInv, FramesInv, Unused, OfTopic
    <3>4. Exact(Line(c), OfTopic(t, multi[c].seq), 0, 0)
      BY <3>3, PushLineType, ExactFresh DEF PushInv
    <3>5. QED
      BY <1>10, <2>1, <3>1, <3>2, <3>4
  <2>2. CASE u # t \/ d # c
    <3>1. u \in DOMAIN topics /\ d \in DOMAIN topics[u] /\ topics'[u][d] = topics[u][d]
      BY <1>5, <1>6, <1>7, <2>2
    <3>2. d \in Conns /\ u \in Topics
      BY <3>1 DEF PushInv, PushTypes, TopicTypes
    <3>3. missed'[u][d] = missed[u][d] /\ Line(d)' = Line(d)
      BY <1>8, <1>10, <2>2, <3>2
    <3>4. PICK r : r = topics[u][d].seq
      OBVIOUS
    <3>5. Unused(d, u, r)'
      BY <1>11, <3>1, <3>2, <3>4 DEF PushInv, TopicsInv
    <3>6. d \in live => Exact(Line(d), OfTopic(u, topics[u][d].seq), topics[u][d].next, missed[u][d])
      BY <3>1 DEF PushInv, TopicsInv
    <3>7. QED
      BY <1>1, <3>1, <3>3, <3>4, <3>5, <3>6
  <2>3. QED
    BY <2>1, <2>2
<1>14. HeldInv'
  BY <1>1, <1>2, <1>7 DEF PushInv, HeldInv
<1>15. QED
  BY <1>1, <1>9, <1>12, <1>13, <1>14 DEF PushInv

\* A publish has dealt with one connection.
LEMMA PublishMoves ==
  ASSUME held \in [Topics -> Publishes \cup {None}], NEW t \in Topics, NEW c \in Conns, held[t] # None,
         held' = [held EXCEPT ![t].todo = @ \ {c}, ![t].dead = IF c \in live THEN @ ELSE @ \cup {c}]
  PROVE  /\ held' \in [Topics -> Publishes \cup {None}] /\ held'[t] \in Publishes
         /\ held'[t].todo = held[t].todo \ {c} /\ held'[t].lost = held[t].lost
         /\ held'[t].dead = held[t].dead \cup (IF c \in live THEN {} ELSE {c})
         /\ \A u \in Topics : u # t => held'[u] = held[u]
<1>1. PICK p \in Publishes : p = held[t]
  OBVIOUS
<1> DEFINE q == [[p EXCEPT !.todo = @ \ {c}] EXCEPT !.dead = IF c \in live THEN @ ELSE @ \cup {c}]
<1>2. q \in Publishes /\ q.todo = p.todo \ {c} /\ q.lost = p.lost
      /\ q.dead = p.dead \cup (IF c \in live THEN {} ELSE {c})
  BY DEF Publishes
<1>3. held' = [held EXCEPT ![t] = q]
  BY <1>1
<1> HIDE DEF q
<1>4. held' \in [Topics -> Publishes \cup {None}] /\ held'[t] = q /\ \A u \in Topics : u # t => held'[u] = held[u]
  BY <1>2, <1>3
<1>5. QED
  BY <1>1, <1>2, <1>4

\* The next number of one subscription of a topic is taken.
LEMMA TopicNumberTaken ==
  ASSUME TopicTypes, NEW t \in DOMAIN topics, NEW c \in DOMAIN topics[t],
         topics' = [topics EXCEPT ![t][c].next = @ + 1]
  PROVE  /\ TopicTypes' /\ DOMAIN topics' = DOMAIN topics
         /\ \A u \in DOMAIN topics : DOMAIN topics'[u] = DOMAIN topics[u]
         /\ topics'[t][c].seq = topics[t][c].seq /\ topics'[t][c].next = topics[t][c].next + 1
         /\ \A u \in DOMAIN topics : \A d \in DOMAIN topics[u] :
              u # t \/ d # c => topics'[u][d] = topics[u][d]
<1>1. PICK D, g : D = DOMAIN topics[t] /\ g = topics[t]
  OBVIOUS
<1>2. g \in [D -> [seq : Nat, next : Nat]] /\ c \in D /\ D \subseteq Conns
  BY <1>1 DEF TopicTypes, Contexts
<1>3. PICK h : h = [g EXCEPT ![c].next = @ + 1]
  OBVIOUS
<1>4. /\ h \in [D -> [seq : Nat, next : Nat]] /\ DOMAIN h = D
      /\ h[c].seq = g[c].seq /\ h[c].next = g[c].next + 1
      /\ \A d \in D : d # c => h[d] = g[d]
  BY <1>2, <1>3, NumberTaken
<1>5. topics' = [topics EXCEPT ![t] = h]
  BY <1>1, <1>3
<1>6. DOMAIN topics' = DOMAIN topics /\ topics'[t] = h /\ \A u \in DOMAIN topics : u # t => topics'[u] = topics[u]
  BY <1>5
<1>7. DOMAIN topics \subseteq Topics
      /\ \A u \in DOMAIN topics : topics[u] \in [DOMAIN topics[u] -> Contexts] /\ DOMAIN topics[u] \subseteq Conns
  BY DEF TopicTypes
<1>8. \A u \in DOMAIN topics' : topics'[u] \in [DOMAIN topics'[u] -> Contexts] /\ DOMAIN topics'[u] \subseteq Conns
  BY <1>2, <1>4, <1>6, <1>7 DEF Contexts
<1>9. topics' = [u \in DOMAIN topics' |-> topics'[u]]
  BY <1>5
<1>10. topics' \in [DOMAIN topics' -> {topics'[u] : u \in DOMAIN topics'}]
  BY <1>9
<1>11. TopicTypes'
  BY <1>6, <1>7, <1>8, <1>10 DEF TopicTypes
<1>12. QED
  BY <1>1, <1>4, <1>6, <1>11

\* A publish sends one frame, or loses it to a full queue and counts it, and
\* keeps its lock.
LEMMA PushSendKept ==
  ASSUME PushInv, NEW t \in Topics, NEW c \in Conns, H!Send(t, c)
  PROVE  PushInv' /\ \A u \in Topics : held[u] # None => held'[u] # None
<1> USE ServicesAssumption
<1> DEFINE f == [topic |-> t, seq |-> topics[t][c].seq, n |-> topics[t][c].next]
<1>1. held[t] # None /\ c \in held[t].todo
      /\ topics' = [topics EXCEPT ![t][c].next = @ + 1]
      /\ held' = [held EXCEPT ![t].todo = @ \ {c}, ![t].dead = IF c \in live THEN @ ELSE @ \cup {c}]
      /\ UNCHANGED <<live, heard, multi, asked>>
      /\ \/ queue' = [queue EXCEPT ![c] = Append(@, f)] /\ UNCHANGED missed
         \/ missed' = [missed EXCEPT ![t][c] = @ + 1] /\ UNCHANGED queue
  BY DEF H!Send, H!Frame
<1>2. t \in DOMAIN topics /\ c \in DOMAIN topics[t] /\ TopicTypes
  BY <1>1 DEF PushInv, PushTypes, HeldInv
<1>3. /\ TopicTypes' /\ DOMAIN topics' = DOMAIN topics
      /\ \A u \in DOMAIN topics : DOMAIN topics'[u] = DOMAIN topics[u]
      /\ topics'[t][c].seq = topics[t][c].seq /\ topics'[t][c].next = topics[t][c].next + 1
      /\ \A u \in DOMAIN topics : \A d \in DOMAIN topics[u] :
           u # t \/ d # c => topics'[u][d] = topics[u][d]
  BY <1>1, <1>2, TopicNumberTaken
<1>4. /\ held' \in [Topics -> Publishes \cup {None}] /\ held'[t] \in Publishes
      /\ held'[t].todo = held[t].todo \ {c} /\ held'[t].lost = held[t].lost
      /\ held'[t].dead = held[t].dead \cup (IF c \in live THEN {} ELSE {c})
      /\ \A u \in Topics : u # t => held'[u] = held[u]
  BY <1>1, PublishMoves DEF PushInv, PushTypes
<1>5. topics[t][c].seq \in Nat /\ topics[t][c].next \in Nat
  BY <1>2 DEF TopicTypes, Contexts
<1>6. f \in PushFrames /\ f.topic = t /\ f.seq = topics[t][c].seq /\ f.n = topics[t][c].next
  BY <1>5 DEF PushFrames
<1> HIDE DEF f
<1>7. heard[c] \in Seq(PushFrames) /\ queue[c] \in Seq(PushFrames) /\ missed[t][c] \in Nat
  BY DEF PushInv, PushTypes
<1>8. queue' \in [Conns -> Seq(PushFrames)] /\ missed' \in [Topics -> [Conns -> Nat]]
      /\ \A u \in Topics, d \in Conns : u # t \/ d # c => missed'[u][d] = missed[u][d]
  <2>1. CASE queue' = [queue EXCEPT ![c] = Append(@, f)] /\ UNCHANGED missed
    <3>1. Append(queue[c], f) \in Seq(PushFrames)
      BY <1>6, <1>7
    <3>2. QED
      BY <2>1, <3>1 DEF PushInv, PushTypes
  <2>2. CASE missed' = [missed EXCEPT ![t][c] = @ + 1] /\ UNCHANGED queue
    BY <1>7, <2>2 DEF PushInv, PushTypes
  <2>3. QED
    BY <1>1, <2>1, <2>2
<1>9. PushTypes'
  BY <1>1, <1>3, <1>4, <1>8 DEF PushInv, PushTypes
<1>10. \A d \in Conns : d # c => Line(d)' = Line(d)
  BY <1>1 DEF Line, PushInv, PushTypes
<1>11. \/ Line(c)' = Append(Line(c), f) /\ missed'[t][c] = missed[t][c]
       \/ Line(c)' = Line(c) /\ missed'[t][c] = missed[t][c] + 1
  <2>1. CASE queue' = [queue EXCEPT ![c] = Append(@, f)] /\ UNCHANGED missed
    <3>1. Line(c)' = heard[c] \o Append(queue[c], f)
      BY <1>1, <2>1 DEF Line, PushInv, PushTypes
    <3>2. heard[c] \o Append(queue[c], f) = Append(heard[c] \o queue[c], f)
      <4>1. \A h, q \in Seq(PushFrames) : \A g \in PushFrames : h \o Append(q, g) = Append(h \o q, g)
        BY LineQueued
      <4>2. QED
        BY <1>6, <1>7, <4>1
    <3>3. QED
      BY <2>1, <3>1, <3>2 DEF Line
  <2>2. CASE missed' = [missed EXCEPT ![t][c] = @ + 1] /\ UNCHANGED queue
    BY <1>1, <2>2 DEF Line, PushInv, PushTypes
  <2>3. QED
    BY <1>1, <2>1, <2>2
<1>12. Unused(c, t, f.seq)
  BY <1>2, <1>6 DEF PushInv, TopicsInv
<1>13. Line(c) \in Seq(PushFrames)
  BY PushLineType DEF PushInv
<1>14. FramesInv'
  <2> SUFFICES ASSUME NEW d \in Conns
               PROVE  \A i \in 1..Len(Line(d)') : Unused(d, Line(d)'[i].topic, Line(d)'[i].seq)
    BY <1>1 DEF FramesInv, PushInv, Unused
  <2>0. \A i \in 1..Len(Line(d)) : Unused(d, Line(d)[i].topic, Line(d)[i].seq)
    BY DEF PushInv, FramesInv
  <2>1. CASE Line(d)' = Line(d)
    BY <2>0, <2>1
  <2>2. CASE d = c /\ Line(c)' = Append(Line(c), f)
    <3>1. \A i \in 1..Len(Line(c)') :
            \/ i \in 1..Len(Line(c)) /\ Line(c)'[i] = Line(c)[i]
            \/ i = Len(Line(c)) + 1 /\ Line(c)'[i] = f
      BY <1>13, <2>2
    <3>2. QED
      BY <1>6, <1>12, <2>0, <2>2, <3>1
  <2>3. QED
    BY <1>10, <1>11, <2>1, <2>2
<1>15. TopicsInv'
  <2> SUFFICES ASSUME NEW u \in DOMAIN topics, NEW d \in DOMAIN topics[u]
               PROVE  /\ Unused(d, u, topics'[u][d].seq)
                      /\ d \in live => Exact(Line(d)', OfTopic(u, topics'[u][d].seq), topics'[u][d].next, missed'[u][d])
    BY <1>1, <1>3 DEF TopicsInv, Unused
  <2>1. /\ Unused(d, u, topics[u][d].seq) /\ u \in Topics /\ d \in Conns
        /\ d \in live => Exact(Line(d), OfTopic(u, topics[u][d].seq), topics[u][d].next, missed[u][d])
    BY DEF PushInv, TopicsInv, PushTypes, TopicTypes
  <2>2. CASE d # c
    BY <1>3, <1>8, <1>10, <2>1, <2>2
  <2>3. CASE d = c /\ u # t
    <3>1. topics'[u][d] = topics[u][d] /\ missed'[u][d] = missed[u][d]
      BY <1>3, <1>8, <2>1, <2>3
    <3>2. PICK S : S = OfTopic(u, topics[u][d].seq)
      OBVIOUS
    <3>3. f \notin S
      BY <1>6, <2>3, <3>2 DEF OfTopic
    <3>4. PICK next, losses : next = topics[u][d].next /\ losses = missed[u][d]
      OBVIOUS
    <3>5. d \in live => Exact(Line(c), S, next, losses)
      BY <2>1, <2>3, <3>2, <3>4
    <3>6. d \in live => Exact(Append(Line(c), f), S, next, losses)
      BY <1>6, <1>13, <3>3, <3>5, ExactOther
    <3>7. QED
      BY <1>11, <2>1, <2>3, <3>1, <3>2, <3>4, <3>5, <3>6
  <2>4. CASE d = c /\ u = t
    <3>1. PICK S : S = OfTopic(t, topics[t][c].seq)
      OBVIOUS
    <3>2. f \in S
      BY <1>6, <3>1 DEF OfTopic
    <3>3. PICK next \in Nat, losses \in Nat : next = topics[t][c].next /\ losses = missed[t][c]
      BY <1>5, <1>7
    <3>4. d \in live => Exact(Line(c), S, next, losses)
      BY <2>1, <2>4, <3>1, <3>3
    <3>5. d \in live => Exact(Append(Line(c), f), S, next + 1, losses)
      BY <1>6, <1>13, <3>2, <3>3, <3>4, ExactNext, PushFrameTypes
    <3>6. d \in live => Exact(Line(c), S, next + 1, losses + 1)
      BY <1>13, <3>3, <3>4, ExactLost, PushFrameTypes
    <3>7. QED
      BY <1>3, <1>11, <2>1, <2>4, <3>1, <3>3, <3>5, <3>6
  <2>5. QED
    BY <2>2, <2>3, <2>4
<1>16. HeldInv'
  <2> SUFFICES ASSUME NEW u \in Topics, held'[u] # None
               PROVE  /\ u \in DOMAIN topics' /\ held'[u].todo \subseteq DOMAIN topics'[u]
                      /\ held'[u].lost \cap live = {} /\ held'[u].lost \subseteq held'[u].todo \cup held'[u].dead
    BY <1>1 DEF HeldInv
  <2>1. CASE u # t
    BY <1>3, <1>4, <2>1 DEF PushInv, HeldInv
  <2>2. CASE u = t
    <3>1. t \in DOMAIN topics /\ held[t].todo \subseteq DOMAIN topics[t]
          /\ held[t].lost \cap live = {} /\ held[t].lost \subseteq held[t].todo \cup held[t].dead
      BY <1>1 DEF PushInv, HeldInv
    <3>2. t \in DOMAIN topics' /\ DOMAIN topics'[t] = DOMAIN topics[t]
      BY <1>3, <3>1
    <3>3. held'[t].lost \subseteq held'[t].todo \cup held'[t].dead
      BY <1>4, <3>1
    <3>4. QED
      BY <1>4, <2>2, <3>1, <3>2, <3>3
  <2>3. QED
    BY <2>1, <2>2
<1>17. \A u \in Topics : held[u] # None => held'[u] # None
  <2>1. held'[t] # None
    BY <1>4 DEF Publishes
  <2>2. QED
    BY <1>4, <2>1
<1>18. QED
  BY <1>9, <1>14, <1>15, <1>16, <1>17 DEF PushInv

\* A new manager has no topics.
LEMMA PushInvInit == AllInit => PushInv
<1> SUFFICES ASSUME AllInit PROVE PushInv
  OBVIOUS
<1>1. /\ live = Conns /\ queue = [c \in Conns |-> <<>>] /\ heard = [c \in Conns |-> <<>>]
      /\ topics = <<>> /\ held = [t \in Topics |-> None] /\ multi = [c \in Conns |-> None]
      /\ asked = 0 /\ missed = [t \in Topics |-> [c \in Conns |-> 0]]
  BY DEF AllInit, H!Init
<1>2. DOMAIN topics = {} /\ topics \in [{} -> {topics[t] : t \in {}}]
  BY <1>1
<1>3. PushTypes
  <2>1. queue \in [Conns -> Seq(PushFrames)] /\ heard \in [Conns -> Seq(PushFrames)]
    BY <1>1
  <2>2. TopicTypes
    BY <1>2 DEF TopicTypes
  <2>3. QED
    BY <1>1, <2>1, <2>2 DEF PushTypes
<1>4. \A c \in Conns : Len(Line(c)) = 0
  BY <1>1 DEF Line
<1>5. \A c \in Conns : 1..Len(Line(c)) = {}
  BY <1>4
<1>6. QED
  BY <1>1, <1>2, <1>3, <1>5 DEF PushInv, FramesInv, TopicsInv, HeldInv

\* Every step of SubscribeManager keeps its invariant, and the end of a publish
\* purges.
LEMMA PushInvKept ==
  ASSUME PushInv, H!Next \/ UNCHANGED <<table, push>>
  PROVE  PushInv' /\ H!TopicPurged
<1>1. ASSUME NEW t \in Topics, H!AddTopic(t)
      PROVE  PushInv' /\ H!TopicPurged
  BY <1>1, AddTopicKept DEF H!TopicPurged
<1>2. ASSUME NEW t \in Topics, H!Finish(t)
      PROVE  PushInv' /\ H!TopicPurged
  BY <1>2, PushFinishKept
<1>3. ASSUME NEW t \in Topics, NEW S \in SUBSET Conns, H!Publish(t, S)
      PROVE  PushInv' /\ H!TopicPurged
  BY <1>3, PublishKept DEF H!TopicPurged
<1>4. ASSUME NEW t \in Topics, NEW c \in Conns, H!Subscribe(c, t)
      PROVE  PushInv' /\ H!TopicPurged
  BY <1>4, PushSubscribeKept DEF H!TopicPurged
<1>5. ASSUME NEW t \in Topics, NEW c \in Conns, H!Unsubscribe(c, t)
      PROVE  PushInv' /\ H!TopicPurged
  BY <1>5, PushUnsubscribeKept DEF H!TopicPurged
<1>6. ASSUME NEW t \in Topics, NEW c \in Conns, H!Send(t, c)
      PROVE  PushInv' /\ H!TopicPurged
  BY <1>6, PushSendKept DEF H!TopicPurged
<1>7. ASSUME NEW c \in Conns, NEW T \in SUBSET Topics, H!BeginSubscribe(c, T) \/ H!BeginUnsubscribe(c, T)
      PROVE  PushInv' /\ H!TopicPurged
  BY <1>7, BeginKept DEF H!TopicPurged
<1>8. ASSUME NEW c \in Conns, H!Disconnect(c) \/ H!Receive(c)
      PROVE  PushInv' /\ H!TopicPurged
  BY <1>8, PushTableKept DEF H!TopicPurged
<1>9. ASSUME UNCHANGED <<table, push>>
      PROVE  PushInv' /\ H!TopicPurged
  BY <1>9 DEF table, push, H!TopicPurged, PushInv, PushTypes, TopicTypes, FramesInv, TopicsInv, HeldInv, Unused, Line
<1>10. \A T \in SUBSET Topics \ {{}} : T \in SUBSET Topics
  OBVIOUS
<1>11. QED
  BY <1>1, <1>2, <1>3, <1>4, <1>5, <1>6, <1>7, <1>8, <1>9, <1>10 DEF H!Next

\* The counting of the instance is that of this module.
LEMMA PushCardinality == \A S : H!Cardinality(S) = Cardinality(S)
  BY DEF H!Cardinality, Cardinality, H!IsFiniteSet, IsFiniteSet

\* The invariant says that gaps are losses.
LEMMA PushInvExact == PushInv => H!TopicGapsAreLosses
<1> SUFFICES ASSUME PushInv, NEW t \in DOMAIN topics, NEW c \in DOMAIN topics[t] \cap live
             PROVE  /\ \A i, j \in H!Mine(t, c) : i < j => H!Stream(c)[i].n < H!Stream(c)[j].n
                    /\ H!Cardinality(H!Mine(t, c)) + missed[t][c] = topics[t][c].next
  BY DEF H!TopicGapsAreLosses
<1>1. c \in Conns /\ Exact(Line(c), OfTopic(t, topics[t][c].seq), topics[t][c].next, missed[t][c])
  BY DEF PushInv, PushTypes, TopicTypes, TopicsInv
<1>2. H!Stream(c) = Line(c) /\ DOMAIN H!Stream(c) = 1..Len(Line(c))
  BY <1>1, PushLineType DEF PushInv, H!Stream, Line
<1>3. H!Mine(t, c) = Marked(Line(c), OfTopic(t, topics[t][c].seq))
  BY <1>1, <1>2, PushLineType DEF PushInv, H!Mine, Marked, OfTopic
<1>4. QED
  BY <1>1, <1>2, <1>3, PushCardinality DEF Exact
-----------------------------------------------------------------------------
(* Both publishers *)

PublisherInv == (service = "subs" => SubsInv) /\ (service = "push" => PushInv)

\* Every step of the composition keeps the invariant of the publisher that
\* moves.
LEMMA PublisherStep ==
  ASSUME PublisherInv, [AllNext]_all
  PROVE  PublisherInv' /\ U!PublishPurges /\ H!TopicPurged
<1>1. service' = service
  BY DEF AllNext, all
<1>2. CASE service = "subs"
  <2>1. (U!Next \/ UNCHANGED <<table, subs>>) /\ held' = held
    BY <1>2 DEF AllNext, all, push
  <2>2. SubsInv' /\ (job # None /\ job' = None => U!Finish)
    BY <1>2, <2>1, SubsInvKept DEF PublisherInv
  <2>3. U!PublishPurges
    BY <1>2, <2>2, SubsPurged DEF PublisherInv, U!PublishPurges
  <2>4. QED
    BY <1>1, <1>2, <2>1, <2>2, <2>3 DEF PublisherInv, H!TopicPurged
<1>3. CASE service = "push"
  <2>1. (H!Next \/ UNCHANGED <<table, push>>) /\ job' = job
    BY <1>3 DEF AllNext, all, subs
  <2>2. PushInv' /\ H!TopicPurged
    BY <1>3, <2>1, PushInvKept DEF PublisherInv
  <2>3. QED
    BY <1>1, <1>3, <2>1, <2>2 DEF PublisherInv, U!PublishPurges
<1>4. CASE service \notin {"subs", "push"}
  <2>1. job' = job /\ held' = held
    BY <1>4 DEF AllNext, all, subs, push
  <2>2. QED
    BY <1>1, <1>4, <2>1 DEF PublisherInv, U!PublishPurges, H!TopicPurged
<1>5. QED
  BY <1>2, <1>3, <1>4

\* SubscriptionManager and SubscribeManager: a key leads to subscribers,
\* and to connections the closure of an unsubscribe_with left astray in it; a
\* publish reaches a connection once, and the numbers a live subscription has
\* used are each on their way or received once and in order, or were lost to a
\* full queue, whatever connections, topics and capacities there are and however
\* publishes, calls, disconnections and deliveries interleave.
THEOREM GapsTellOfLosses == AllSafe => []SubscriptionsExact
<1>1. AllInit => PublisherInv
  BY SubsInvInit, PushInvInit DEF PublisherInv
<1>2. PublisherInv /\ [AllNext]_all => PublisherInv'
  BY PublisherStep
<1>3. PublisherInv => SubscriptionsExact
  BY SubsInvExact, PushInvExact DEF PublisherInv, SubscriptionsExact
<1>4. QED
  BY <1>1, <1>2, <1>3, PTL DEF AllSafe

\* publish_with_filter, publish_to and publish_to_keys: the step that ends a
\* publish leaves no subscription of a connection that was gone when it began
\* and that it sent to.
THEOREM PublishesPurge == AllSafe => DeadArePurged
<1>1. AllInit => PublisherInv
  BY SubsInvInit, PushInvInit DEF PublisherInv
<1>2. PublisherInv /\ [AllNext]_all => PublisherInv' /\ [U!PublishPurges /\ H!TopicPurged]_all
  BY PublisherStep
<1>3. QED
  BY <1>1, <1>2, PTL DEF AllSafe, DeadArePurged

================================================================================
