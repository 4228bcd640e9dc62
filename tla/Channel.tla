------------------------------- MODULE Channel -------------------------------
(***************************************************************************)
(* What the per-connection outbound queue promises its users, stated       *)
(* without mutexes, wakers or sender counts: a bounded FIFO channel that   *)
(* delivers every accepted message, in order and exactly once, for as long *)
(* as the receiver exists, and that reports the end only after the last    *)
(* accepted message.  Module Outbound is shown to implement it.            *)
(***************************************************************************)
EXTENDS Naturals, Sequences

CONSTANTS Values,    \* the messages that can be sent
          Capacity,  \* how many accepted messages may be undelivered
          MaxSends   \* bound: how many messages are ever accepted

VARIABLES accepted,  \* every message the channel took, oldest first
          delivered, \* every message the receiver got, oldest first
          open,      \* some sender still exists
          alive,     \* the receiver still exists
          eof        \* the receiver has been told that the channel ended

vars == <<accepted, delivered, open, alive, eof>>

Init == /\ accepted = <<>>
        /\ delivered = <<>>
        /\ open = TRUE
        /\ alive = TRUE
        /\ eof = FALSE

Accept(v) ==
  /\ open /\ alive
  /\ Len(accepted) < MaxSends
  /\ Len(accepted) - Len(delivered) < Capacity
  /\ accepted' = Append(accepted, v)
  /\ UNCHANGED <<delivered, open, alive, eof>>

Deliver ==
  /\ alive
  /\ Len(delivered) < Len(accepted)
  /\ delivered' = Append(delivered, accepted[Len(delivered) + 1])
  /\ UNCHANGED <<accepted, open, alive, eof>>

\* The last sender goes away; nothing can be accepted any more.
Close ==
  /\ open
  /\ open' = FALSE
  /\ UNCHANGED <<accepted, delivered, alive, eof>>

ReportEnd ==
  /\ alive /\ ~open
  /\ delivered = accepted
  /\ eof' = TRUE
  /\ UNCHANGED <<accepted, delivered, open, alive>>

Abandon ==
  /\ alive
  /\ alive' = FALSE
  /\ UNCHANGED <<accepted, delivered, open, eof>>

Next == \/ \E v \in Values : Accept(v)
        \/ Deliver
        \/ Close
        \/ ReportEnd
        \/ Abandon

SafeSpec == Init /\ [][Next]_vars

Spec == SafeSpec /\ WF_vars(Deliver) /\ WF_vars(ReportEnd)
==============================================================================
