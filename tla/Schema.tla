--------------------------------- MODULE Schema ---------------------------------
(***************************************************************************)
(* src/model/json_schema.rs and api_document.rs: from the types of an      *)
(* endpoint's fields to JSON Schema.  Structs and enums become definitions *)
(* that the schemas refer to by name, collected in a map that the          *)
(* recursion threads through; the types may refer to each other in cycles. *)
(*                                                                         *)
(* A type is a tuple of its kind and its parameters.  A schema is a        *)
(* scalar, an array or a nullable of a schema, a reference, an object of   *)
(* schemas, an enum or the placeholder of a definition being built.  Names *)
(* are in Pascal case already; different types may have the same one.      *)
(***************************************************************************)
EXTENDS Naturals, Sequences, FiniteSets, SequencesExt

CONSTANT None   \* an error

Scalar == <<"scalar">>
Placeholder == <<"null">>
Ref(prefix, def) == <<"ref", prefix, def>>
Defs == "defs"              \* DEFS_PREFIX
Components == "components"  \* COMPONENTS_SCHEMAS_PREFIX

\* struct_def_name and enum_def_name: the names of definitions.
DefName(name) == <<name>>
EnumDefName(name, prefixed) == IF prefixed THEN <<"Enum", name>> ELSE <<name>>

\* A conversion so far: the schema, or None after an error, and the definitions.
Result(schema, defs) == [schema |-> schema, defs |-> defs]
Define(defs, def, schema) ==
  [d \in DOMAIN defs \cup {def} |-> IF d = def THEN schema ELSE defs[d]]
Wrap(kind, r) == IF r.schema = None THEN r ELSE [r EXCEPT !.schema = <<kind, @>>]
-----------------------------------------------------------------------------
\* registry: the structs, name -> field types, and the names of the enums.
RECURSIVE ToJsonSchema(_, _, _), FieldsToObjectSchema(_, _, _)

\* Mutant of Struct: the reserved slot is taken for the definition.
StructLeftReserved(def, fields, registry, defs) ==
  IF def \in DOMAIN defs THEN Result(Ref(Defs, def), defs)
  ELSE LET r == FieldsToObjectSchema(fields, registry, Define(defs, def, Placeholder))
       IN IF r.schema = None THEN r ELSE Result(Ref(Defs, def), r.defs)

\* Type::Struct: the slot is reserved before the fields are converted.
Struct(def, fields, registry, defs) ==
  IF def \in DOMAIN defs THEN Result(Ref(Defs, def), defs)
  ELSE LET r == FieldsToObjectSchema(fields, registry, Define(defs, def, Placeholder))
       IN IF r.schema = None THEN r
          ELSE Result(Ref(Defs, def), Define(r.defs, def, r.schema))

\* Type::Enum, of the variants that come with it.
Enum(def, variants, defs) ==
  Result(Ref(Defs, def),
         IF def \in DOMAIN defs THEN defs ELSE Define(defs, def, <<"enum", variants>>))

\* "struct" is a StructRef and "enum" an EnumRef with its prefixed_name, looked up
\* in the registry; "inline" and "variants" are a struct and an enum in place.
ToJsonSchema(type, registry, defs) ==
  CASE type[1] = "scalar" -> Result(Scalar, defs)
    [] type[1] = "vec" -> Wrap("array", ToJsonSchema(type[2], registry, defs))
    [] type[1] = "optional" -> Wrap("nullable", ToJsonSchema(type[2], registry, defs))
    [] type[1] = "inline" -> Struct(DefName(type[2]), type[3], registry, defs)
    [] type[1] \in {"struct", "table"} ->
         IF type[2] \notin DOMAIN registry.structs THEN Result(None, defs)
         ELSE LET r == Struct(DefName(type[2]), registry.structs[type[2]], registry, defs)
              IN IF type[1] = "table" THEN Wrap("array", r) ELSE r
    [] type[1] = "variants" -> Enum(EnumDefName(type[2], FALSE), type[3], defs)
    [] type[1] = "enum" ->
         IF type[2] \notin registry.enums THEN Result(None, defs)
         ELSE Enum(EnumDefName(type[2], type[3]), "registered", defs)

\* fields_to_object_schema: an optional field is its inner type, not required.
FieldsToObjectSchema(fields, registry, defs) ==
  IF fields = <<>> THEN Result(<<"object", <<>>, {}>>, defs)
  ELSE LET before == FieldsToObjectSchema(Front(fields), registry, defs)
           field == Last(fields)
           inner == IF field[1] = "optional" THEN field[2] ELSE field
           r == ToJsonSchema(inner, registry, before.defs)
       IN IF before.schema = None \/ r.schema = None THEN Result(None, r.defs)
          ELSE Result(<<"object", Append(before.schema[2], r.schema),
                        IF field[1] = "optional" THEN before.schema[3]
                        ELSE before.schema[3] \cup {Len(fields)}>>, r.defs)

\* to_mcp_input_schema: an object with its own definitions.
McpSchema(fields, registry) == FieldsToObjectSchema(fields, registry, <<>>)
-----------------------------------------------------------------------------
(* api_document *)

RECURSIVE RelocateRefs(_), CollectRefs(_)

RelocateRefs(schema) ==
  CASE schema[1] = "ref" -> IF schema[2] = Defs THEN Ref(Components, schema[3]) ELSE schema
    [] schema[1] \in {"array", "nullable"} -> <<schema[1], RelocateRefs(schema[2])>>
    [] schema[1] = "object" ->
         <<"object", [i \in DOMAIN schema[2] |-> RelocateRefs(schema[2][i])], schema[3]>>
    [] schema[1] \in {"scalar", "null", "enum"} -> schema

CollectRefs(schema) ==
  CASE schema[1] = "ref" -> {schema}
    [] schema[1] \in {"array", "nullable"} -> CollectRefs(schema[2])
    [] schema[1] = "object" -> UNION {CollectRefs(schema[2][i]) : i \in DOMAIN schema[2]}
    [] schema[1] \in {"scalar", "null", "enum"} -> {}

\* SchemaComponents::collect over the field lists of the endpoints, in order:
\* one map for all of them, None if one cannot be converted.  A stream_response
\* is a list of one field here, which brings in the same definitions.
RECURSIVE CollectDefs(_, _, _)
CollectDefs(lists, registry, defs) ==
  IF lists = <<>> THEN defs
  ELSE LET r == FieldsToObjectSchema(Head(lists), registry, defs)
       IN IF r.schema = None THEN None ELSE CollectDefs(Tail(lists), registry, r.defs)

Collect(lists, registry) ==
  LET defs == CollectDefs(lists, registry, <<>>)
  IN IF defs = None THEN None ELSE [d \in DOMAIN defs |-> RelocateRefs(defs[d])]

\* request_schema and response_schema.
ObjectSchema(fields, registry) ==
  LET schema == FieldsToObjectSchema(fields, registry, <<>>).schema
  IN IF schema = None THEN None ELSE RelocateRefs(schema)
-----------------------------------------------------------------------------
(* Reference definitions: what the fields reach in the graph of types *)

Item(def, body) == [def |-> def, body |-> body]
Unresolved == <<"unresolved">>

RECURSIVE Items(_, _)
Items(type, registry) ==
  CASE type[1] = "scalar" -> {}
    [] type[1] \in {"vec", "optional"} -> Items(type[2], registry)
    [] type[1] = "inline" -> {Item(DefName(type[2]), <<"fields", type[3]>>)}
    [] type[1] \in {"struct", "table"} ->
         {Item(DefName(type[2]), IF type[2] \in DOMAIN registry.structs
                                 THEN <<"fields", registry.structs[type[2]]>> ELSE Unresolved)}
    [] type[1] = "variants" -> {Item(EnumDefName(type[2], FALSE), <<"enum", type[3]>>)}
    [] type[1] = "enum" ->
         {Item(EnumDefName(type[2], type[3]), IF type[2] \in registry.enums
                                              THEN <<"enum", "registered">> ELSE Unresolved)}
ItemsOf(fields, registry) == UNION {Items(fields[i], registry) : i \in DOMAIN fields}

RECURSIVE Closure(_, _)
Closure(items, registry) ==
  LET structs == {i \in items : i.body[1] = "fields"}
      more == items \cup UNION {ItemsOf(i.body[2], registry) : i \in structs}
  IN IF more = items THEN items ELSE Closure(more, registry)
Reached(fields, registry) == Closure(ItemsOf(fields, registry), registry)

\* No two of the types reached share the name of their definition: the first of
\* two keeps the slot of both, and the fields of the second are never visited.
Unambiguous(items) ==
  \A i, j \in {k \in items : k.body # Unresolved} : i.def = j.def => i = j
-----------------------------------------------------------------------------
(* Properties, of the field lists of a document and a registry *)

\* The conversion fails only when a name that the fields reach, at any depth and
\* through any cycle, is not registered; and always then, unless two of the types
\* reached share a name, which may hide the ones behind the second.
FailsIffUnresolved(fields, registry) ==
  LET fails == McpSchema(fields, registry).schema = None
      reached == Reached(fields, registry)
      unresolved == \E i \in reached : i.body = Unresolved
  IN /\ fails => unresolved
     /\ Unambiguous(reached) /\ unresolved => fails

\* A tool's schema stands alone: its definitions are finished, every reference
\* in it has one, and where no two types share a name they are exactly those its
\* fields reach, an enum under each of the two names it is referred to by.
SchemaIsClosed(fields, registry) ==
  LET r == McpSchema(fields, registry)
      reached == Reached(fields, registry)
      refs == CollectRefs(r.schema) \cup UNION {CollectRefs(r.defs[d]) : d \in DOMAIN r.defs}
  IN r.schema # None =>
       /\ Unambiguous(reached) => DOMAIN r.defs = {i.def : i \in reached}
       /\ \A d \in DOMAIN r.defs : r.defs[d] # Placeholder
       /\ \A ref \in refs : ref[3] \in DOMAIN r.defs

\* A document has no dangling reference and none left that points into a tool's
\* definitions, and where no two types share a name all its schemas can be
\* converted and a definition is the same whichever endpoint brought it in.
DocumentIsClosed(lists, registry) ==
  LET components == Collect(lists, registry)
      roots == {ObjectSchema(lists[i], registry) : i \in DOMAIN lists}
      refs == UNION {CollectRefs(s) : s \in (roots \ {None}) \cup Range(components)}
      reached == UNION {Reached(lists[i], registry) : i \in DOMAIN lists}
  IN components # None =>
       /\ \A ref \in refs : ref[2] = Components /\ ref[3] \in DOMAIN components
       /\ Unambiguous(reached) => /\ None \notin roots
                                  /\ components = Collect(Reverse(lists), registry)
================================================================================
