------------------------------- MODULE MCServer -------------------------------
(***************************************************************************)
(* Server for TLC.  Ids are alike and so are connections: the counter      *)
(* starts where it comes round after one connection, and of two ways to    *)
(* place the connections that differ by an exchange one is enough.         *)
(***************************************************************************)
EXTENDS Server, TLC

CONSTANTS s0, s1, c1, c2

TwoShards == {s0, s1}
TwoConns == {c1, c2}

MCInit == /\ next_id = IdSpace - 1
          /\ home \in [Conns -> Shards] /\ (home[c1] = s1 => home[c2] = s1)
          /\ Init

MCSpec == MCInit /\ [][Next]_vars /\ Fairness
================================================================================
