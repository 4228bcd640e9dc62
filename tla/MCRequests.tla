------------------------------ MODULE MCRequests ------------------------------
(***************************************************************************)
(* The values of RequestParts for model checking, and the schema           *)
(* conversion, whose definition is recursive.                              *)
(***************************************************************************)
EXTENDS RequestParts, TLC

J == INSTANCE Schema

MCName == 1 :> "a" @@ 2 :> "b" @@ 3 :> "a"
MCAllowed == 1 :> {"r1"} @@ 2 :> {"r2"} @@ 3 :> {}
MCRoleSets == {{}, {"r1"}, {"r1", "r2"}}

\* Of DIRECTIVES: the first entry, the two for h2 and two of which one names more
\* of a target than the other, in their order.
MCCaps == <<[level |-> 4, target |-> <<"tungstenite", "::protocol">>],
            [level |-> 3, target |-> <<"h2">>],
            [level |-> 2, target |-> <<"opentelemetry">>],
            [level |-> 2, target |-> <<"opentelemetry", "_otlp">>],
            [level |-> 2, target |-> <<"h2">>]>>
MCTargets == {<<"app">>, <<"h2", "::codec">>, <<"opentelemetry", "_otlp">>,
              <<"tungstenite", "::protocol">>}
-----------------------------------------------------------------------------
(* Inputs of the functions *)

\* Every header of up to two parameters, and long ones of one type.
ValuesOf(i, type) ==
  {A!Value(i, c) : c \in IF type.base = "String"
                         THEN {"plain", "special", "quoted", "backslash"} ELSE {"plain"}}
    \cup (IF type.optional THEN {A!Null} ELSE {})
HeaderTypes == [base : {"String", "Int64", "Boolean", "Enum", "Float64"}, optional : BOOLEAN]
MCHeaders ==
  UNION {{[types |-> ts, values |-> <<>>] : ts \in {<<>>}},
         UNION {{[types |-> <<t>>, values |-> <<v>>] : v \in ValuesOf(1, t)} : t \in HeaderTypes},
         UNION {{[types |-> <<t, u>>, values |-> <<v, w>>] :
                   v \in ValuesOf(1, t), w \in ValuesOf(2, u)} : t, u \in HeaderTypes},
         {[types |-> [i \in 1..n |-> t], values |-> [i \in 1..n |-> A!Value(i, "plain")]] :
            n \in 3..11, t \in HeaderTypes}}

\* Two registered structs of up to two fields, which may refer to each other, and
\* enums and structs in place that may have the name of one of them.
FieldTypes == {<<"scalar">>, <<"struct", "A">>, <<"table", "B">>, <<"enum", "E", FALSE>>,
               <<"enum", "E", TRUE>>, <<"enum", "A", FALSE>>, <<"variants", "E", "own">>,
               <<"inline", "A", << <<"struct", "B">> >> >>,
               <<"optional", <<"struct", "B">> >>, <<"vec", <<"struct", "A">> >>}
FieldLists == {<<>>} \cup {<<t>> : t \in FieldTypes}
                \cup {<<t, <<"optional", <<"struct", "B">> >> >> : t \in FieldTypes}
Registries == [structs : UNION {[ns -> FieldLists] : ns \in SUBSET {"A", "B"}},
               enums : {{}, {"E"}, {"E", "A"}}]
MCDocuments ==
  [lists : {<<fs, << <<"struct", "B">> >> >> :
              fs \in {<<t>> : t \in FieldTypes} \cup {<<t, <<"struct", "A">> >> : t \in FieldTypes}},
   registry : Registries]
-----------------------------------------------------------------------------
\* Schema: conversions fail on unknown names, exactly on those where no two types
\* share a name, and what they produce refers to nothing that is not there.
SchemasClosed ==
  part = "schema" => /\ J!FailsIffUnresolved(input.lists[1], input.registry)
                     /\ J!SchemaIsClosed(input.lists[1], input.registry)
                     /\ J!DocumentIsClosed(input.lists, input.registry)
================================================================================
