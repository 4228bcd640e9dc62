-------------------------------- MODULE Limits --------------------------------
(***************************************************************************)
(* src/libs/ws/server.rs, ServerLimitState: the admission counters that    *)
(* every shard shares.  One instance of this module is one of the two      *)
(* counted limits, "connections" or "inflight_requests", with its cap and  *)
(* its warning threshold.  acquire() is four separate atomic operations    *)
(* (fetch_add, swap, compare, fetch_sub), so threads interleave inside it. *)
(***************************************************************************)
EXTENDS Naturals, FiniteSets

CONSTANTS Threads,   \* callers of acquire(): accept loops or sessions
          Cap,       \* max_connections or max_inflight_requests, or None
          Threshold, \* warn_connections or warn_inflight_requests, or None
          None

ASSUME LimitsAssumption ==
  /\ IsFiniteSet(Threads)
  /\ None \notin Nat
  /\ Cap \in Nat \cup {None}
  /\ Threshold \in Nat \cup {None}

VARIABLES
  counter,       \* the AtomicUsize
  warned,        \* the warned_* latch, 0 or 1
  tpc,           \* where each thread is: outside, in acquire(), or holding
  current,       \* the value fetch_add + 1 returned to each thread
  gauge_warned,  \* the latch of a limit that is only observed (message
                 \* bytes, request time)
  \* history
  warnings,      \* Warn events of the counted limit
  gauge_warnings \* Warn events of the observed limit

vars == <<counter, warned, tpc, current, gauge_warned, warnings, gauge_warnings>>

\* "added": after fetch_add; "warned": after the warning check; "in": holds a
\* LimitSlot.
Active == {t \in Threads : tpc[t] # "out"}
Holders == {t \in Threads : tpc[t] = "in"}

TypeOK ==
  /\ counter \in Nat
  /\ warned \in {0, 1}
  /\ tpc \in [Threads -> {"out", "added", "warned", "in"}]
  /\ current \in [Threads -> Nat]
  /\ gauge_warned \in {0, 1}
  /\ warnings \in Nat
  /\ gauge_warnings \in Nat

Init ==
  /\ counter = 0
  /\ warned = 0
  /\ tpc = [t \in Threads |-> "out"]
  /\ current = [t \in Threads |-> 0]
  /\ gauge_warned = 0
  /\ warnings = 0
  /\ gauge_warnings = 0
-----------------------------------------------------------------------------

\* current = counter.fetch_add(1) + 1
FetchAdd(t) ==
  /\ tpc[t] = "out"
  /\ current' = [current EXCEPT ![t] = counter + 1]
  /\ counter' = counter + 1
  /\ tpc' = [tpc EXCEPT ![t] = "added"]
  /\ UNCHANGED <<warned, gauge_warned, warnings, gauge_warnings>>

MustWarn(t) == Threshold # None /\ current[t] >= Threshold

\* Mutant of WarnOnce: the latch is set without looking at its old value.
WarnAlways(t) ==
  /\ tpc[t] = "added"
  /\ IF MustWarn(t)
     THEN /\ warned' = 1
          /\ warnings' = warnings + 1
     ELSE UNCHANGED <<warned, warnings>>
  /\ tpc' = [tpc EXCEPT ![t] = "warned"]
  /\ UNCHANGED <<counter, current, gauge_warned, gauge_warnings>>

\* The warning check: current >= threshold && warned.swap(1) == 0.
WarnOnce(t) ==
  /\ tpc[t] = "added"
  /\ IF MustWarn(t)
     THEN /\ warned' = 1
          /\ warnings' = IF warned = 0 THEN warnings + 1 ELSE warnings
     ELSE UNCHANGED <<warned, warnings>>
  /\ tpc' = [tpc EXCEPT ![t] = "warned"]
  /\ UNCHANGED <<counter, current, gauge_warned, gauge_warnings>>

\* Mutant of OverCap: off by one.
AtCap(t) == Cap # None /\ current[t] > Cap + 1
OverCap(t) == Cap # None /\ current[t] > Cap

\* acquire() returns true and the caller wraps the slot in a LimitSlot.
Admit(t) ==
  /\ tpc[t] = "warned" /\ ~OverCap(t)
  /\ tpc' = [tpc EXCEPT ![t] = "in"]
  /\ UNCHANGED <<counter, warned, current, gauge_warned, warnings, gauge_warnings>>

\* Mutant of Refuse: the increment is not taken back.
RefuseKeepsCount(t) ==
  /\ tpc[t] = "warned" /\ OverCap(t)
  /\ tpc' = [tpc EXCEPT ![t] = "out"]
  /\ UNCHANGED <<counter, warned, current, gauge_warned, warnings, gauge_warnings>>

\* acquire() takes its increment back, reports the refusal and returns false.
Refuse(t) ==
  /\ tpc[t] = "warned" /\ OverCap(t)
  /\ counter' = counter - 1
  /\ tpc' = [tpc EXCEPT ![t] = "out"]
  /\ UNCHANGED <<warned, current, gauge_warned, warnings, gauge_warnings>>

\* LimitSlot::drop, whatever ended the holder: completion, timeout, the
\* session or the whole shard being dropped.
Release(t) ==
  /\ tpc[t] = "in"
  /\ counter' = counter - 1
  /\ tpc' = [tpc EXCEPT ![t] = "out"]
  /\ UNCHANGED <<warned, current, gauge_warned, warnings, gauge_warnings>>

\* observe_message and observe_request_time with a value over the threshold.
Observe(t) ==
  /\ gauge_warned' = 1
  /\ gauge_warnings' = IF gauge_warned = 0 THEN gauge_warnings + 1 ELSE gauge_warnings
  /\ UNCHANGED <<counter, warned, tpc, current, warnings>>
-----------------------------------------------------------------------------
Next == \E t \in Threads :
          \/ FetchAdd(t) \/ WarnOnce(t) \/ Admit(t) \/ Refuse(t)
          \/ Release(t) \/ Observe(t)

Spec == Init /\ [][Next]_vars
-----------------------------------------------------------------------------
(* Properties *)

\* Of the threads that hold a slot or are inside acquire(), at most k were
\* told a count of k or less: the counts fetch_add hands out never fall behind
\* the slots in use, whatever was released or refused in between.
Tickets(k) == Cardinality({t \in Active : current[t] <= k}) <= k
TicketsNeverFallBehind == \A k \in 0..Cardinality(Threads) : Tickets(k)

\* Admission: never more holders than the cap, although the counter itself
\* overshoots the cap while refused threads have not yet taken their
\* increment back.
HoldersWithinCap == Cap # None => Cardinality(Holders) <= Cap

\* The counter is exact: it counts the threads that hold a slot or are inside
\* acquire(), so no slot leaks and the subtraction never wraps.
CounterExact == counter = Cardinality(Active)

\* The threshold is reported: as soon as that many slots are held, the one
\* warning has been raised, and never a second one.
WarnedExactlyOnce ==
  /\ warnings <= 1 /\ gauge_warnings <= 1
  /\ Threshold # None /\ Cardinality(Holders) >= Threshold /\ Holders # {}
       => warnings = 1
==============================================================================
