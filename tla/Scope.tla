--------------------------------- MODULE Scope ---------------------------------
(***************************************************************************)
(* TOOLBOX.scope (toolbox.rs): the thread-local slot that holds the        *)
(* toolbox of the poll that is running.  A scope installs its toolbox for  *)
(* one poll and restores what was there when the poll returns, is pending  *)
(* or panics; the future it polls may hold scopes of other servers.        *)
(***************************************************************************)
EXTENDS Naturals, Sequences

CONSTANTS Toolboxes, MaxDepth, None

VARIABLES slot,  \* TOOLBOX_SLOT of the thread
          polls, \* the polls under way, the innermost last: toolbox and Restore
          seen   \* history: what the innermost poll read with try_with, if it did

scope == <<slot, polls, seen>>

Init == slot = None /\ polls = <<>> /\ seen = <<>>

\* ToolboxScope::poll, up to the poll of the inner future.
Poll(v) ==
  /\ Len(polls) < MaxDepth
  /\ polls' = Append(polls, [toolbox |-> v, restore |-> slot])
  /\ slot' = v /\ seen' = <<>>

\* Mutant of Return: the slot is cleared.
ReturnClearing ==
  /\ polls # <<>>
  /\ slot' = None
  /\ polls' = SubSeq(polls, 1, Len(polls) - 1) /\ seen' = <<>>

\* Ready, Pending or a panic: Restore is dropped.
Return ==
  /\ polls # <<>>
  /\ slot' = polls[Len(polls)].restore
  /\ polls' = SubSeq(polls, 1, Len(polls) - 1) /\ seen' = <<>>

\* try_with: take, put back, then read.
TryWith ==
  /\ polls # <<>>
  /\ seen' = <<slot>>
  /\ UNCHANGED <<slot, polls>>

Next == Return \/ TryWith \/ \E v \in Toolboxes : Poll(v)
Spec == Init /\ [][Next]_scope

\* A handler that looks for its toolbox finds the one of its own server, after
\* any polls of others inside or around it, and between polls the slot is empty.
OwnToolbox == /\ seen # <<>> => seen[1] = polls[Len(polls)].toolbox
              /\ polls = <<>> => slot = None
================================================================================
