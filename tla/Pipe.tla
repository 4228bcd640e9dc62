--------------------------------- MODULE Pipe ---------------------------------
(***************************************************************************)
(* What one direction of the framed transport promises its two ends,       *)
(* stated without bytes: items arrive unchanged, in order and exactly      *)
(* once; a writer that closes loses nothing; a connection that is cut may  *)
(* lose a tail of what was accepted, and only that; an item over the       *)
(* reader's limit ends the stream in an error.  Whatever ends it is final. *)
(***************************************************************************)
EXTENDS Naturals, Sequences

CONSTANTS Items,    \* what the writer can put in
          TooBig,   \* the items over the reader's limit
          MaxItems  \* bound: how many items are ever accepted

VARIABLES accepted,  \* items the writer was told are on their way
          delivered, \* items the reader got
          writer,    \* open, closed, cut
          seen       \* how the reader's stream ended: no, end, error

vars == <<accepted, delivered, writer, seen>>

Init == accepted = <<>> /\ delivered = <<>> /\ writer = "open" /\ seen = "no"

Accept(m) ==
  /\ writer = "open" /\ Len(accepted) < MaxItems
  /\ accepted' = Append(accepted, m)
  /\ UNCHANGED <<delivered, writer, seen>>

Pending == seen = "no" /\ Len(delivered) < Len(accepted)
NextItem == accepted[Len(delivered) + 1]

Deliver ==
  /\ Pending /\ NextItem \notin TooBig
  /\ delivered' = Append(delivered, NextItem)
  /\ UNCHANGED <<accepted, writer, seen>>

Close == /\ writer = "open"
         /\ writer' = "closed"
         /\ UNCHANGED <<accepted, delivered, seen>>

Cut == /\ writer = "open"
       /\ writer' = "cut"
       /\ UNCHANGED <<accepted, delivered, seen>>

ReportEnd ==
  /\ seen = "no"
  /\ writer = "cut" \/ (writer = "closed" /\ delivered = accepted)
  /\ seen' = "end"
  /\ UNCHANGED <<accepted, delivered, writer>>

ReportError ==
  /\ seen = "no"
  /\ writer = "cut" \/ (Pending /\ NextItem \in TooBig)
  /\ seen' = "error"
  /\ UNCHANGED <<accepted, delivered, writer>>

Progress == Deliver \/ ReportEnd \/ ReportError

Next == \/ \E m \in Items : Accept(m)
        \/ Progress \/ Close \/ Cut

SafeSpec == Init /\ [][Next]_vars
Spec == SafeSpec /\ WF_vars(Progress)
================================================================================
