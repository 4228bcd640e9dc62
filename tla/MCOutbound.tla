----------------------------- MODULE MCOutbound -----------------------------
(* Outbound for TLC: two threads, two Sender values, two wakers. *)
EXTENDS Outbound, TLC

CONSTANTS t1, t2, h1, h2, w1, w2, a, b

MCThreads == {t1, t2}
MCHandles == {h1, h2}
MCWakers == {w1, w2}
MCValues == {a, b}
=============================================================================
