------------------------------- MODULE Shutdown -------------------------------
(***************************************************************************)
(* src/libs/signal.rs, Shutdown: a sticky flag and a broadcast.  It is the *)
(* policy-close flag of a connection (WsStreamState::end), the stop flag   *)
(* of the shards and the process-wide CANCELLATION_TOKEN.  The atomic flag *)
(* and the Notify are two objects, so cancel() is two steps and            *)
(* cancelled() is several; threads interleave between all of them.         *)
(***************************************************************************)

CONSTANTS Waiters,    \* tasks that wait in cancelled()
          Cancellers  \* threads that call cancel(), once each

VARIABLES
  cancelled,  \* the AtomicBool
  notified,   \* Notify: what it knows of each waiter's current wait
  wpc,        \* where each waiter is in cancelled()
  cpc         \* where each canceller is in cancel()

flag_vars == <<cancelled, notified, wpc, cpc>>

FlagTypeOK ==
  /\ cancelled \in BOOLEAN
  /\ notified \in [Waiters -> {"none", "registered", "woken"}]
  /\ wpc \in [Waiters -> {"start", "ready", "check", "poll", "await", "returned"}]
  /\ cpc \in [Cancellers -> {"idle", "notify", "done"}]

FlagInit ==
  /\ cancelled = FALSE
  /\ notified = [w \in Waiters |-> "none"]
  /\ wpc = [w \in Waiters |-> "start"]
  /\ cpc = [c \in Cancellers |-> "idle"]
-----------------------------------------------------------------------------
(* cancel() *)

\* cancelled.store(true), the first half of cancel().
Store(c) ==
  /\ cpc[c] = "idle"
  /\ cancelled' = TRUE
  /\ cpc' = [cpc EXCEPT ![c] = "notify"]
  /\ UNCHANGED <<notified, wpc>>

\* What the broadcast does to a wait.  Mutant: only one waiter is woken, as
\* notify_one would do.
WokenOne == IF \E w \in Waiters : notified[w] = "registered"
            THEN LET w == CHOOSE w \in Waiters : notified[w] = "registered"
                 IN  [notified EXCEPT ![w] = "woken"]
            ELSE notified
Woken == [w \in Waiters |-> IF notified[w] = "registered" THEN "woken" ELSE notified[w]]

\* notify.notify_waiters(), the second half: every registered wait is woken,
\* no permit is left behind for one that registers later.
NotifyWaiters(c) ==
  /\ cpc[c] = "notify"
  /\ notified' = Woken
  /\ cpc' = [cpc EXCEPT ![c] = "done"]
  /\ UNCHANGED <<cancelled, wpc>>
-----------------------------------------------------------------------------
(* cancelled() *)

\* Mutant of Enable: the wait is not registered before the flag is read, only
\* when it is first polled.
EnableSkipped(w) ==
  /\ wpc[w] = "start"
  /\ wpc' = [wpc EXCEPT ![w] = "check"]
  /\ UNCHANGED <<cancelled, notified, cpc>>

\* notified().enable(): the wait is registered, or the library reports it as
\* complete already; the code is prepared for both and no more is assumed.
Enable(w) ==
  /\ wpc[w] = "start"
  /\ \/ /\ notified' = [notified EXCEPT ![w] = "registered"]
        /\ wpc' = [wpc EXCEPT ![w] = "check"]
     \/ /\ wpc' = [wpc EXCEPT ![w] = "ready"]
        /\ UNCHANGED notified
  /\ UNCHANGED <<cancelled, cpc>>

\* The wait was complete at once: return if the flag is set, else start over.
CheckReady(w) ==
  /\ wpc[w] = "ready"
  /\ wpc' = [wpc EXCEPT ![w] = IF cancelled THEN "returned" ELSE "start"]
  /\ UNCHANGED <<cancelled, notified, cpc>>

\* The flag is read once the wait is registered.  Returning drops the wait.
Check(w) ==
  /\ wpc[w] = "check"
  /\ wpc' = [wpc EXCEPT ![w] = IF cancelled THEN "returned" ELSE "poll"]
  /\ notified' = [notified EXCEPT ![w] = IF cancelled THEN "none" ELSE @]
  /\ UNCHANGED <<cancelled, cpc>>

\* notified.await polls the wait: one that nobody has registered is registered
\* now, one that was woken since stays so.
Await(w) ==
  /\ wpc[w] = "poll"
  /\ wpc' = [wpc EXCEPT ![w] = "await"]
  /\ notified' = [notified EXCEPT ![w] = IF @ = "none" THEN "registered" ELSE @]
  /\ UNCHANGED <<cancelled, cpc>>

\* notified.await completes and the loop starts over.
Resume(w) ==
  /\ wpc[w] = "await" /\ notified[w] = "woken"
  /\ notified' = [notified EXCEPT ![w] = "none"]
  /\ wpc' = [wpc EXCEPT ![w] = "start"]
  /\ UNCHANGED <<cancelled, cpc>>

\* The future is dropped while it waits, because another arm of the select it
\* is in completed, and cancelled() is called anew.
Recreate(w) ==
  /\ wpc[w] = "await"
  /\ notified' = [notified EXCEPT ![w] = "none"]
  /\ wpc' = [wpc EXCEPT ![w] = "start"]
  /\ UNCHANGED <<cancelled, cpc>>
-----------------------------------------------------------------------------
Waiter(w) == Enable(w) \/ CheckReady(w) \/ Check(w) \/ Await(w) \/ Resume(w)

FlagNext == \/ \E c \in Cancellers : Store(c) \/ NotifyWaiters(c)
            \/ \E w \in Waiters : Waiter(w) \/ Recreate(w)

\* A thread inside cancel() finishes it; a task whose wait is not pending is
\* polled.  Nobody has to call cancel().
FlagFairness == /\ \A c \in Cancellers : WF_flag_vars(NotifyWaiters(c))
                /\ \A w \in Waiters : WF_flag_vars(Waiter(w))

FlagSafeSpec == FlagInit /\ [][FlagNext]_flag_vars
FlagSpec == FlagSafeSpec /\ FlagFairness
-----------------------------------------------------------------------------
(* Properties *)

\* A waiter that sleeps on a wait nobody has woken although the flag is set
\* is about to be woken: some thread is between the store and the broadcast
\* of cancel().  This is what registering before reading the flag is for.
NoMissedCancel ==
  \A w \in Waiters :
    wpc[w] = "await" /\ notified[w] = "registered" /\ cancelled
      => \E c \in Cancellers : cpc[c] = "notify"

\* cancelled() resolves only after cancel() has run.
NoFalseResolve == (\E w \in Waiters : wpc[w] = "returned") => cancelled

\* Once the flag is set every waiter's cancelled() resolves, however often it
\* was dropped and rebuilt, and whenever it started.
AllResolve == cancelled ~> \A w \in Waiters : wpc[w] = "returned"
==============================================================================
