------------------------------- MODULE MCAtomics -------------------------------
(***************************************************************************)
(* The two pieces of shared state that threads reach through atomics       *)
(* alone: the admission counters and the cancellation flag.  They share    *)
(* nothing; the initial state says which of them a behaviour is about.     *)
(***************************************************************************)
EXTENDS Limits, Shutdown

VARIABLE subject

AtomicsInit == subject \in {"limits", "flag"} /\ Init /\ FlagInit

AtomicsNext ==
  \/ subject = "limits" /\ Next /\ UNCHANGED <<subject, flag_vars>>
  \/ subject = "flag" /\ FlagNext /\ UNCHANGED <<subject, vars>>

\* The counters need no fairness: what is said of them is safety.
AtomicsSpec == AtomicsInit /\ [][AtomicsNext]_<<subject, vars, flag_vars>> /\ FlagFairness
================================================================================
