------------------------------ MODULE MCSession ------------------------------
(* Session for TLC. *)
EXTENDS Session, TLC

CONSTANTS r1, r2, p1, p2

OneRequest == {r1}
TwoRequests == {r1, r2}
OnePusher == {p1}
TwoPushers == {p1, p2}
RequestSymmetry == Permutations(TwoRequests)
PusherSymmetry == Permutations(TwoPushers)
==============================================================================
