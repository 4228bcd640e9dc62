--------------------------- MODULE ErrorAggregation ---------------------------
(***************************************************************************)
(* src/libs/log/error_aggregation.rs: threads that log an ERROR event stamp*)
(* it and queue it without a bound; one background task folds the queue    *)
(* into a map from patterns to statistics that keeps at most limit of      *)
(* them.  Stamping and queueing are two steps, so entries of several       *)
(* threads arrive out of the order of their stamps.                        *)
(***************************************************************************)
EXTENDS Naturals, Sequences, FiniteSets, Functions

CONSTANTS Threads,   \* threads that log
          Texts,     \* (target, message) pairs of events
          Pattern,   \* Texts -> the key: the pair, its message normalised if configured
          Limit,     \* ErrorAggregationConfig::limit
          MaxTime,   \* bound: the clock
          MaxEvents, \* bound: events logged
          None

VARIABLES
  clock,    \* Utc::now
  stamped,  \* thread -> the entry it has stamped and not yet queued, or None
  channel,  \* the unbounded channel
  storage,  \* key -> count, first_seen, last_seen, message
  task,     \* the container and its background task exist
  \* history
  logged,   \* events stamped
  refused,  \* events whose send failed because the container was dropped
  forgotten \* occurrences that were evicted, cleared or dropped with the container

vars == <<clock, stamped, channel, storage, task, logged, refused, forgotten>>

Init == /\ clock = 0 /\ stamped = [t \in Threads |-> None] /\ channel = <<>>
        /\ storage = <<>> /\ task = TRUE
        /\ logged = 0 /\ refused = 0 /\ forgotten = 0

Stored == DOMAIN storage
\* What the counts add up to: each occurrence has its place under its key.
Sum(f) == Cardinality(UNION {{k} \X (1..f[k].count) : k \in DOMAIN f})
Less(f, k) == Restrict(f, DOMAIN f \ {k})
-----------------------------------------------------------------------------
TimePasses ==
  /\ clock < MaxTime
  /\ clock' = clock + 1
  /\ UNCHANGED <<stamped, channel, storage, task, logged, refused, forgotten>>

\* on_event of an ERROR event, up to the time stamp.
Stamp(t, text) ==
  /\ stamped[t] = None /\ logged < MaxEvents
  /\ stamped' = [stamped EXCEPT ![t] = [text |-> text, time |-> clock]]
  /\ logged' = logged + 1
  /\ UNCHANGED <<clock, channel, storage, task, refused, forgotten>>

\* unbounded_send; an error (the container is gone) is ignored.
Queue(t) ==
  /\ stamped[t] # None
  /\ stamped' = [stamped EXCEPT ![t] = None]
  /\ IF task THEN channel' = Append(channel, stamped[t]) /\ UNCHANGED refused
             ELSE refused' = refused + 1 /\ UNCHANGED channel
  /\ UNCHANGED <<clock, storage, task, logged, forgotten>>
-----------------------------------------------------------------------------
(* aggregation_task: one entry under the write lock *)

Entry == Head(channel)
Key == Pattern[Entry.text]
Stats(count, first) ==
  [count |-> count, first |-> first, last |-> Entry.time, text |-> Entry.text]
With(f, s) == [k \in DOMAIN f \cup {Key} |-> IF k = Key THEN s ELSE f[k]]

Full == Cardinality(Stored) >= Limit
Oldest == {k \in Stored : \A l \in Stored : storage[k].first <= storage[l].first}

\* Mutant of Repeat: the entry is replaced.
RepeatAfresh ==
  /\ task /\ channel # <<>> /\ Key \in Stored
  /\ storage' = With(storage, Stats(1, storage[Key].first))
  /\ channel' = Tail(channel)
  /\ UNCHANGED <<clock, stamped, task, logged, refused, forgotten>>

Repeat ==
  /\ task /\ channel # <<>> /\ Key \in Stored
  /\ storage' = With(storage, Stats(storage[Key].count + 1, storage[Key].first))
  /\ channel' = Tail(channel)
  /\ UNCHANGED <<clock, stamped, task, logged, refused, forgotten>>

\* Mutant of Insert: the new entry is there when the oldest is looked for.
InsertThenEvict(evicted) ==
  /\ task /\ channel # <<>> /\ Key \notin Stored
  /\ LET grown == With(storage, Stats(1, Entry.time))
         oldest == {k \in DOMAIN grown : \A l \in DOMAIN grown : grown[k].first <= grown[l].first}
     IN IF Full
        THEN \E k \in oldest : /\ storage' = Less(grown, k)
                               /\ forgotten' = forgotten + grown[k].count
        ELSE storage' = grown /\ UNCHANGED forgotten
  /\ channel' = Tail(channel)
  /\ UNCHANGED <<clock, stamped, task, logged, refused>>

\* A new key: a full map first gives up the entry that was first seen longest
\* ago (any of them on a tie); an empty map has none to give up.
Insert(evicted) ==
  /\ task /\ channel # <<>> /\ Key \notin Stored
  /\ IF Full /\ Stored # {}
     THEN /\ evicted \in Oldest
          /\ storage' = With(Less(storage, evicted), Stats(1, Entry.time))
          /\ forgotten' = forgotten + storage[evicted].count
     ELSE /\ evicted = None
          /\ storage' = With(storage, Stats(1, Entry.time))
          /\ UNCHANGED forgotten
  /\ channel' = Tail(channel)
  /\ UNCHANGED <<clock, stamped, task, logged, refused>>

Clear ==
  /\ task /\ Stored # {}
  /\ storage' = <<>>
  /\ forgotten' = forgotten + Sum(storage)
  /\ UNCHANGED <<clock, stamped, channel, task, logged, refused>>

\* The container is dropped: its task is cancelled, the layer lives on.
DropContainer ==
  /\ task
  /\ task' = FALSE
  /\ storage' = <<>> /\ channel' = <<>>
  /\ forgotten' = forgotten + Sum(storage) + Len(channel)
  /\ UNCHANGED <<clock, stamped, logged, refused>>
-----------------------------------------------------------------------------
Next == \/ TimePasses
        \/ \E t \in Threads : Queue(t) \/ \E text \in Texts : Stamp(t, text)
        \/ Repeat \/ \E k \in Stored \cup {None} : Insert(k)
        \/ Clear \/ DropContainer

Spec == Init /\ [][Next]_vars
-----------------------------------------------------------------------------
(* Properties *)

TypeOK ==
  /\ clock \in 0..MaxTime /\ task \in BOOLEAN
  /\ \A k \in Stored : /\ storage[k].count \in 1..MaxEvents
                       /\ storage[k].first \in 0..clock /\ storage[k].last \in 0..clock
  /\ logged \in 0..MaxEvents /\ refused \in 0..MaxEvents /\ forgotten \in 0..MaxEvents

\* The map is bounded by its limit (by one for a limit of zero: the entry that
\* does not fit is stored all the same).
StorageBounded == Cardinality(Stored) <= (IF Limit = 0 THEN 1 ELSE Limit)

\* No occurrence is lost or counted twice on its way through the threads, the
\* channel and the map: every event logged is still on its way, counted in the
\* map, or given up by an eviction, a clear or the end of the container.
EveryErrorCounted ==
  logged = Cardinality({t \in Threads : stamped[t] # None}) + Len(channel)
             + Sum(storage) + forgotten + refused

\* The map is bounded and nothing goes missing on the way to it.
StoreExact == TypeOK /\ StorageBounded /\ EveryErrorCounted

\* The error just handled can be read back, although the stamp of a slow thread
\* may make it the oldest entry of a full map.
NewestIsKept ==
  [][task' /\ channel # <<>> /\ channel' = Tail(channel) => Key \in DOMAIN storage']_vars
================================================================================
