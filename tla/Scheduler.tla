------------------------------- MODULE Scheduler -------------------------------
(***************************************************************************)
(* src/libs/scheduler.rs: Scheduler, AdaptiveJob and JobTrigger.  A job    *)
(* reads its period, sleeps that long, starts its body as a task of its    *)
(* own and begins again; triggers change the period at any time.           *)
(***************************************************************************)
EXTENDS Naturals

CONSTANTS Jobs,
          Periods,  \* durations, in ticks
          MaxBodies \* bound: bodies of one job that are counted

VARIABLES
  phase,   \* job -> unknown, pending, ready (about to read), asleep
  period,  \* job -> the shared duration
  left,    \* job -> ticks until the sleep is over
  bodies,  \* job -> bodies still running, counted up to MaxBodies
  \* history
  slept,   \* job -> the duration this sleep was begun with
  stale    \* job -> bodies started after a sleep of another length than the
           \* period, since the period was last set

vars == <<phase, period, left, bodies, slept, stale>>

Init == /\ phase = [j \in Jobs |-> "unknown"]
        /\ period \in [Jobs -> Periods]
        /\ left = [j \in Jobs |-> 0]
        /\ bodies = [j \in Jobs |-> 0]
        /\ slept = [j \in Jobs |-> 0]
        /\ stale = [j \in Jobs |-> 0]
-----------------------------------------------------------------------------
\* add_job and add_adaptive_job.
AddJob(j) ==
  /\ phase[j] = "unknown" /\ \A k \in Jobs : phase[k] \in {"unknown", "pending"}
  /\ phase' = [phase EXCEPT ![j] = "pending"]
  /\ UNCHANGED <<period, left, bodies, slept, stale>>

\* spawn consumes the scheduler: every pending job starts.
Spawn ==
  /\ \E j \in Jobs : phase[j] = "pending"
  /\ phase' = [j \in Jobs |-> IF phase[j] = "pending" THEN "ready" ELSE phase[j]]
  /\ UNCHANGED <<period, left, bodies, slept, stale>>

\* AdaptiveJob::set_duration, JobTrigger::set_duration.
SetDuration(j, d) ==
  /\ d # period[j]
  /\ period' = [period EXCEPT ![j] = d]
  /\ stale' = [stale EXCEPT ![j] = 0]
  /\ UNCHANGED <<phase, left, bodies, slept>>

\* Mutant of ReadDuration: the period is read once, before the loop.
ReadDurationOnce(j) ==
  /\ phase[j] = "ready"
  /\ phase' = [phase EXCEPT ![j] = "asleep"]
  /\ LET d == IF slept[j] = 0 THEN period[j] ELSE slept[j] IN
     left' = [left EXCEPT ![j] = d] /\ slept' = [slept EXCEPT ![j] = d]
  /\ UNCHANGED <<period, bodies, stale>>

ReadDuration(j) ==
  /\ phase[j] = "ready"
  /\ phase' = [phase EXCEPT ![j] = "asleep"]
  /\ left' = [left EXCEPT ![j] = period[j]]
  /\ slept' = [slept EXCEPT ![j] = period[j]]
  /\ UNCHANGED <<period, bodies, stale>>

Tick ==
  /\ \E j \in Jobs : left[j] > 0
  /\ left' = [j \in Jobs |-> IF left[j] > 0 THEN left[j] - 1 ELSE 0]
  /\ UNCHANGED <<phase, period, bodies, slept, stale>>

CountUp(n) == IF n < MaxBodies THEN n + 1 ELSE n

\* Mutant of Fire: a tick waits for the body of the one before.
FireAlone(j) ==
  /\ phase[j] = "asleep" /\ left[j] = 0 /\ bodies[j] = 0
  /\ phase' = [phase EXCEPT ![j] = "ready"]
  /\ bodies' = [bodies EXCEPT ![j] = CountUp(@)]
  /\ stale' = [stale EXCEPT ![j] = IF slept[j] = period[j] THEN @ ELSE CountUp(@)]
  /\ UNCHANGED <<period, left, slept>>

\* The sleep is over: the body is spawned and left to itself.
Fire(j) ==
  /\ phase[j] = "asleep" /\ left[j] = 0
  /\ phase' = [phase EXCEPT ![j] = "ready"]
  /\ bodies' = [bodies EXCEPT ![j] = CountUp(@)]
  /\ stale' = [stale EXCEPT ![j] = IF slept[j] = period[j] THEN @ ELSE CountUp(@)]
  /\ UNCHANGED <<period, left, slept>>

BodyEnds(j) ==
  /\ bodies[j] > 0
  /\ bodies' = [bodies EXCEPT ![j] = @ - 1]
  /\ UNCHANGED <<phase, period, left, slept, stale>>
-----------------------------------------------------------------------------
Next == \/ Spawn \/ Tick
        \/ \E j \in Jobs : \/ AddJob(j) \/ ReadDuration(j) \/ Fire(j) \/ BodyEnds(j)
                           \/ \E d \in Periods : SetDuration(j, d)

\* Time passes and the runtime polls its tasks; bodies owe nothing.
Fairness == /\ WF_vars(Tick)
            /\ \A j \in Jobs : WF_vars(ReadDuration(j)) /\ WF_vars(Fire(j))
Spec == Init /\ [][Next]_vars /\ Fairness
-----------------------------------------------------------------------------
(* Properties *)

\* A new period is in force after at most one more body that was timed by the
\* old one.
ChangeTakesEffect == \A j \in Jobs : stale[j] <= 1

\* A job that was started goes on for ever, also when its bodies never end.
JobsGoOn == \A j \in Jobs : /\ phase[j] = "ready" ~> phase[j] = "asleep"
                           /\ phase[j] = "asleep" ~> phase[j] = "ready"
================================================================================
