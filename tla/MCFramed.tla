------------------------------- MODULE MCFramed -------------------------------
(* Framed for TLC: one message of each shape, and the payloads that a decoder *)
(* has to refuse.                                                             *)
EXTENDS Framed

MCMessages == {Message("text", None, <<2, 3>>),
               Message("binary", None, <<7>>),
               Message("close", None, <<>>),
               Message("close", 9, <<6>>),
               Message("ping", None, <<1, 0, 5, 4>>)}

MCForeign == {<<>>, <<5>>, <<0, 7>>, <<4, 1>>, <<4, 1, 1, 7>>}
================================================================================
