----------------------------- MODULE AtomicsProofs -----------------------------
(***************************************************************************)
(* The two pieces of state that every thread of the server shares: the     *)
(* admission counters (Limits), safe for any number of threads, any cap    *)
(* and any threshold, and the stop flag (Shutdown), of which no cancel is  *)
(* missed for any number of waiters and cancellers.                        *)
(***************************************************************************)
EXTENDS Limits, Shutdown, FiniteSetTheorems, TLAPS
-----------------------------------------------------------------------------
(* The admission counters *)

\* The limit state keeps its type: in particular the usize counter never goes
\* below zero.  CounterExact is what bounds it from below.
THEOREM CounterIsExact == Spec => [](TypeOK /\ CounterExact)
<1> USE LimitsAssumption
<1>1. Init => TypeOK /\ CounterExact
  <2> SUFFICES ASSUME Init PROVE TypeOK /\ CounterExact
    OBVIOUS
  <2>1. Active = {}
    BY DEF Init, Active
  <2>2. QED
    BY <2>1, FS_EmptySet DEF Init, TypeOK, CounterExact
<1>2. TypeOK /\ CounterExact /\ [Next]_vars => (TypeOK /\ CounterExact)'
  <2> SUFFICES ASSUME TypeOK, CounterExact, [Next]_vars
               PROVE  TypeOK' /\ CounterExact'
    OBVIOUS
  <2> USE DEF TypeOK, CounterExact
  <2>0. IsFiniteSet(Active)
    BY FS_Subset DEF Active
  <2>1. ASSUME NEW t \in Threads, FetchAdd(t)
        PROVE  TypeOK' /\ CounterExact'
    <3>1. Active' = Active \cup {t} /\ t \notin Active
      BY <2>1 DEF FetchAdd, Active
    <3>2. Cardinality(Active') = Cardinality(Active) + 1
      BY <2>0, <3>1, FS_AddElement
    <3>3. QED
      BY <2>1, <3>2 DEF FetchAdd
  <2>2. ASSUME NEW t \in Threads, WarnOnce(t)
        PROVE  TypeOK' /\ CounterExact'
    <3>1. Active' = Active
      BY <2>2 DEF WarnOnce, Active
    <3>2. QED
      BY <2>2, <3>1 DEF WarnOnce
  <2>3. ASSUME NEW t \in Threads, Admit(t)
        PROVE  TypeOK' /\ CounterExact'
    <3>1. Active' = Active
      BY <2>3 DEF Admit, Active
    <3>2. QED
      BY <2>3, <3>1 DEF Admit
  <2>4. ASSUME NEW t \in Threads, Refuse(t) \/ Release(t)
        PROVE  TypeOK' /\ CounterExact'
    <3>1. Active' = Active \ {t} /\ t \in Active
      BY <2>4 DEF Refuse, Release, Active
    <3>2. Cardinality(Active') = Cardinality(Active) - 1
      BY <2>0, <3>1, FS_RemoveElement
    <3>3. Cardinality(Active') \in Nat
      BY <2>0, <3>1, FS_RemoveElement, FS_CardinalityType
    <3>4. counter' = counter - 1
      BY <2>4 DEF Refuse, Release
    <3>5. QED
      BY <2>4, <3>2, <3>3, <3>4 DEF Refuse, Release
  <2>5. ASSUME NEW t \in Threads, Observe(t)
        PROVE  TypeOK' /\ CounterExact'
    BY <2>5 DEF Observe, Active
  <2>6. CASE UNCHANGED vars
    BY <2>6 DEF vars, Active
  <2>7. QED
    BY <2>1, <2>2, <2>3, <2>4, <2>5, <2>6 DEF Next
<1>3. QED
  BY <1>1, <1>2, PTL DEF Spec

\* The ticket argument, for every k: of the active threads at most k were told
\* a count of k or less.  A thread that is told c <= k saw the counter, hence
\* the number of active threads, at c - 1; every other step only removes
\* threads from the set.
LEMMA TicketsStep ==
  ASSUME NEW k \in Nat, TypeOK, CounterExact, Tickets(k), [Next]_vars
  PROVE  Tickets(k)'
<1> USE LimitsAssumption
<1> DEFINE S == {t \in Active : current[t] <= k}
<1>0. IsFiniteSet(Active) /\ IsFiniteSet(S)
  BY FS_Subset DEF Active
<1>1. ASSUME NEW t \in Threads, FetchAdd(t)
      PROVE  Tickets(k)'
  <2>1. t \notin Active
    BY <1>1 DEF FetchAdd, Active
  <2>2. CASE counter + 1 <= k
    <3>1. S' \subseteq Active \cup {t}
      BY <1>1 DEF FetchAdd, Active
    <3>2. IsFiniteSet(Active \cup {t}) /\ Cardinality(Active \cup {t}) = counter + 1
      BY <1>0, <2>1, FS_AddElement DEF CounterExact
    <3>3. Cardinality(S') <= counter + 1 /\ Cardinality(S') \in Nat
      BY <3>1, <3>2, FS_Subset, FS_CardinalityType
    <3>4. QED
      BY <2>2, <3>3 DEF Tickets, TypeOK
  <2>3. CASE ~(counter + 1 <= k)
    <3>1. S' = S
      BY <1>1, <2>1, <2>3 DEF FetchAdd, Active, TypeOK
    <3>2. QED
      BY <3>1 DEF Tickets
  <2>4. QED
    BY <2>2, <2>3
<1>2. ASSUME NEW t \in Threads,
             \/ WarnOnce(t) \/ Admit(t) \/ Refuse(t) \/ Release(t) \/ Observe(t)
      PROVE  Tickets(k)'
  <2>1. S' \subseteq S
    BY <1>2 DEF WarnOnce, Admit, Refuse, Release, Observe, Active, TypeOK
  <2>2. Cardinality(S') <= Cardinality(S) /\ Cardinality(S) \in Nat /\ Cardinality(S') \in Nat
    BY <1>0, <2>1, FS_Subset, FS_CardinalityType
  <2>3. QED
    BY <2>2 DEF Tickets
<1>3. CASE UNCHANGED vars
  BY <1>3 DEF vars, Tickets, Active
<1>4. QED
  BY <1>1, <1>2, <1>3 DEF Next

\* For every k, not only those up to the number of threads that TLC checks.
AllTickets == \A k \in Nat : Tickets(k)

\* The counts acquire() hands out never fall behind the slots in use.
THEOREM TicketsInvariant == Spec => []AllTickets
<1>1. Init => AllTickets
  <2> SUFFICES ASSUME Init, NEW k \in Nat PROVE Tickets(k)
    BY DEF AllTickets
  <2>1. {t \in Active : current[t] <= k} = {}
    BY DEF Init, Active
  <2>2. QED
    BY <2>1, FS_EmptySet DEF Tickets
<1>2. TypeOK /\ CounterExact /\ AllTickets /\ [Next]_vars => AllTickets'
  BY TicketsStep DEF AllTickets
<1>3. QED
  BY <1>1, <1>2, CounterIsExact, PTL DEF Spec

\* A thread that holds a slot was not over the cap when it was counted.
AdmittedUnderCap == \A t \in Threads : tpc[t] = "in" => ~OverCap(t)

\* A thread past the warning check has had the latch set if it had to.
LatchedIfDue ==
  /\ warnings = warned /\ gauge_warnings = gauge_warned
  /\ \A t \in Threads : tpc[t] \in {"warned", "in"} /\ MustWarn(t) => warned = 1

\* Both hold of every reachable state: a thread's count and the threshold tests
\* on it do not change between its fetch_add and its release.
LEMMA PerThreadInvariant == Spec => [](AdmittedUnderCap /\ LatchedIfDue)
<1> USE DEF AdmittedUnderCap, LatchedIfDue, OverCap, MustWarn
<1>1. Init => AdmittedUnderCap /\ LatchedIfDue
  BY DEF Init
<1>2. TypeOK /\ AdmittedUnderCap /\ LatchedIfDue /\ [Next]_vars
        => (AdmittedUnderCap /\ LatchedIfDue)'
  <2> SUFFICES ASSUME TypeOK, AdmittedUnderCap, LatchedIfDue, [Next]_vars
               PROVE  (AdmittedUnderCap /\ LatchedIfDue)'
    OBVIOUS
  <2> USE DEF TypeOK
  <2>1. ASSUME NEW t \in Threads, FetchAdd(t)
        PROVE  (AdmittedUnderCap /\ LatchedIfDue)'
    BY <2>1 DEF FetchAdd
  <2>2. ASSUME NEW t \in Threads, WarnOnce(t)
        PROVE  (AdmittedUnderCap /\ LatchedIfDue)'
    BY <2>2 DEF WarnOnce
  <2>3. ASSUME NEW t \in Threads, Admit(t)
        PROVE  (AdmittedUnderCap /\ LatchedIfDue)'
    BY <2>3 DEF Admit
  <2>4. ASSUME NEW t \in Threads, Refuse(t) \/ Release(t)
        PROVE  (AdmittedUnderCap /\ LatchedIfDue)'
    BY <2>4 DEF Refuse, Release
  <2>5. ASSUME NEW t \in Threads, Observe(t)
        PROVE  (AdmittedUnderCap /\ LatchedIfDue)'
    BY <2>5 DEF Observe
  <2>6. CASE UNCHANGED vars
    BY <2>6 DEF vars
  <2>7. QED
    BY <2>1, <2>2, <2>3, <2>4, <2>5, <2>6 DEF Next
<1>3. QED
  BY <1>1, <1>2, CounterIsExact, PTL DEF Spec

\* acquire() never lets more callers in than the configured cap, however many
\* shards and sessions run it at once.
THEOREM Admission == Spec => []HoldersWithinCap
<1>1. AdmittedUnderCap /\ TypeOK /\ AllTickets => HoldersWithinCap
  <2> SUFFICES ASSUME AdmittedUnderCap, TypeOK, AllTickets, Cap # None
               PROVE  Cardinality(Holders) <= Cap
    BY DEF HoldersWithinCap
  <2>1. Cap \in Nat
    BY LimitsAssumption
  <2> DEFINE S == {t \in Active : current[t] <= Cap}
  <2>2. Holders \subseteq S
    BY <2>1 DEF Holders, Active, AdmittedUnderCap, OverCap, TypeOK
  <2>3. IsFiniteSet(S)
    BY LimitsAssumption, FS_Subset DEF Active
  <2>4. /\ Cardinality(Holders) <= Cardinality(S)
        /\ Cardinality(Holders) \in Nat /\ Cardinality(S) \in Nat
    BY <2>2, <2>3, FS_Subset, FS_CardinalityType
  <2>5. Cardinality(S) <= Cap
    BY <2>1 DEF AllTickets, Tickets
  <2>6. QED
    BY <2>1, <2>4, <2>5
<1>2. QED
  BY <1>1, TicketsInvariant, PerThreadInvariant, CounterIsExact, PTL

\* The warning threshold is reported exactly once: by the time that many slots
\* are held the event has been raised, and no race of two threads raises two.
THEOREM Warning == Spec => []WarnedExactlyOnce
<1>1. LatchedIfDue /\ TypeOK /\ AllTickets => WarnedExactlyOnce
  <2> SUFFICES ASSUME LatchedIfDue, TypeOK, AllTickets
               PROVE  WarnedExactlyOnce
    OBVIOUS
  <2>1. warnings <= 1 /\ gauge_warnings <= 1
    BY DEF LatchedIfDue, TypeOK
  <2>2. ASSUME Threshold # None, Cardinality(Holders) >= Threshold, Holders # {},
               warned # 1
        PROVE  FALSE
    <3>1. \A t \in Holders : current[t] < Threshold /\ t \in Active
      BY <2>2, LimitsAssumption DEF LatchedIfDue, MustWarn, TypeOK, Holders, Active
    <3>2. Threshold \in Nat \ {0}
      BY <2>2, <3>1, LimitsAssumption DEF TypeOK, Holders
    <3> DEFINE S == {t \in Active : current[t] <= Threshold - 1}
    <3>3. Holders \subseteq S
      BY <3>1, <3>2 DEF TypeOK, Holders
    <3>4. IsFiniteSet(S)
      BY LimitsAssumption, FS_Subset DEF Active
    <3>5. /\ Cardinality(Holders) <= Cardinality(S)
          /\ Cardinality(Holders) \in Nat /\ Cardinality(S) \in Nat
      BY <3>3, <3>4, FS_Subset, FS_CardinalityType
    <3>6. Threshold - 1 \in Nat
      BY <3>2
    <3>7. Cardinality(S) <= Threshold - 1
      BY <3>6 DEF AllTickets, Tickets
    <3>8. QED
      BY <2>2, <3>2, <3>5, <3>7
  <2>3. QED
    BY <2>1, <2>2 DEF WarnedExactlyOnce, LatchedIfDue
<1>2. QED
  BY <1>1, TicketsInvariant, PerThreadInvariant, CounterIsExact, PTL
-----------------------------------------------------------------------------
(* The stop flag *)

\* A waiter's step, whichever of the five it is, stays within the types.
LEMMA WaiterTypes ==
  ASSUME FlagTypeOK, NEW w \in Waiters, Waiter(w) \/ Recreate(w)
  PROVE  FlagTypeOK'
<1>1. CASE Enable(w) \/ CheckReady(w)
  BY <1>1 DEF FlagTypeOK, Enable, CheckReady
<1>2. CASE Check(w)
  BY <1>2 DEF FlagTypeOK, Check
<1>3. CASE Await(w)
  BY <1>3 DEF FlagTypeOK, Await
<1>4. CASE Resume(w)
  BY <1>4 DEF FlagTypeOK, Resume
<1>5. CASE Recreate(w)
  BY <1>5 DEF FlagTypeOK, Recreate
<1>6. QED
  BY <1>1, <1>2, <1>3, <1>4, <1>5 DEF Waiter

\* So does a canceller's.
LEMMA CancellerTypes ==
  ASSUME FlagTypeOK, NEW c \in Cancellers, Store(c) \/ NotifyWaiters(c)
  PROVE  FlagTypeOK'
<1>1. CASE Store(c)
  BY <1>1 DEF FlagTypeOK, Store
<1>2. CASE NotifyWaiters(c)
  BY <1>2 DEF FlagTypeOK, NotifyWaiters, Woken
<1>3. QED
  BY <1>1, <1>2

\* The variables of Shutdown keep their types.
THEOREM FlagTypes == FlagSpec => []FlagTypeOK
<1>1. FlagInit => FlagTypeOK
  BY DEF FlagInit, FlagTypeOK
<1>2. ASSUME FlagTypeOK, UNCHANGED flag_vars PROVE FlagTypeOK'
  BY <1>2 DEF FlagTypeOK, flag_vars
<1>3. FlagTypeOK /\ [FlagNext]_flag_vars => FlagTypeOK'
  BY <1>2, WaiterTypes, CancellerTypes DEF FlagNext
<1>4. QED
  BY <1>1, <1>3, PTL DEF FlagSpec, FlagSafeSpec

\* From the moment the flag is about to be read the wait is registered or woken
\* (the first conjunct), so a cancel after the read finds it (the second).
WaitInv ==
  \A w \in Waiters :
    /\ wpc[w] \in {"check", "poll"} => notified[w] # "none"
    /\ wpc[w] \in {"poll", "await"} /\ notified[w] = "registered" /\ cancelled
         => \E c \in Cancellers : cpc[c] = "notify"

\* Registering before reading keeps WaitInv in every step of every thread.
THEOREM WaitInvariant == FlagSpec => []WaitInv
<1> USE DEF WaitInv
<1>1. FlagInit => WaitInv
  BY DEF FlagInit
<1>2. FlagTypeOK /\ WaitInv /\ [FlagNext]_flag_vars => WaitInv'
  <2> SUFFICES ASSUME FlagTypeOK, WaitInv, [FlagNext]_flag_vars PROVE WaitInv'
    OBVIOUS
  <2> USE DEF FlagTypeOK
  <2>1. ASSUME NEW c \in Cancellers, Store(c) PROVE WaitInv'
    BY <2>1 DEF Store
  <2>2. ASSUME NEW c \in Cancellers, NotifyWaiters(c) PROVE WaitInv'
    BY <2>2 DEF NotifyWaiters, Woken
  <2>3. ASSUME NEW w \in Waiters, Enable(w) PROVE WaitInv'
    BY <2>3 DEF Enable
  <2>4. ASSUME NEW w \in Waiters, CheckReady(w) PROVE WaitInv'
    BY <2>4 DEF CheckReady
  <2>5. ASSUME NEW w \in Waiters, Check(w) PROVE WaitInv'
    BY <2>5 DEF Check
  <2>6. ASSUME NEW w \in Waiters, Await(w) PROVE WaitInv'
    BY <2>6 DEF Await
  <2>7. ASSUME NEW w \in Waiters, Resume(w) \/ Recreate(w) PROVE WaitInv'
    BY <2>7 DEF Resume, Recreate
  <2> QED
    BY <2>1, <2>2, <2>3, <2>4, <2>5, <2>6, <2>7 DEF FlagNext, Waiter, flag_vars
<1>3. QED
  BY <1>1, <1>2, FlagTypes, PTL DEF FlagSpec, FlagSafeSpec

\* cancelled() never sleeps through a cancel: a waiter asleep under a set flag
\* has a thread about to broadcast to it.
THEOREM CancelIsNotMissed == FlagSpec => []NoMissedCancel
<1>1. WaitInv => NoMissedCancel
  BY DEF WaitInv, NoMissedCancel
<1>2. QED
  BY <1>1, WaitInvariant, PTL

\* cancelled() resolves only if cancel() has run: the flag is never cleared.
THEOREM ResolveMeansCancelled == FlagSpec => []NoFalseResolve
<1> USE DEF NoFalseResolve
<1>1. FlagInit => NoFalseResolve
  BY DEF FlagInit
<1>2. FlagTypeOK /\ NoFalseResolve /\ [FlagNext]_flag_vars => NoFalseResolve'
  BY DEF FlagTypeOK, FlagNext, flag_vars, Store, NotifyWaiters, Waiter, Enable, CheckReady,
         Check, Await, Resume, Recreate
<1>3. QED
  BY <1>1, <1>2, FlagTypes, PTL DEF FlagSpec, FlagSafeSpec
================================================================================
