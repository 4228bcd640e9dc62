------------------------------ MODULE RequestParts ------------------------------
(***************************************************************************)
(* What happens to one request or one input: the two request protocols,    *)
(* the HTTP upgrade, the toolbox slot and the log filter as machines, and  *)
(* the auth header and the schema conversion as functions over their       *)
(* inputs.  The initial state says which of them a behaviour is about.     *)
(***************************************************************************)
EXTENDS Scope

CONSTANTS Endpoints, Name, Allowed, RoleSets, Unknown, MaxInflight, MaxMessages,
          HeadLengths, MaxHead, Chunk, Eager, Origins,
          Caps, Targets, MaxDirectives, MaxReloads,
          Headers,  \* inputs of the auth header: types and values
          Documents \* inputs of the schema conversion: field lists and a registry

\* The sizes of a request head and of the reads are byte counts, and None is
\* neither an origin nor the name of a tool.
ASSUME PartsAssumption ==
  /\ HeadLengths \subseteq Nat /\ MaxHead \in Nat /\ Chunk \in Nat /\ Eager \in Nat
  /\ None \notin Origins
  /\ \A e \in Endpoints : Name[e] # None

VARIABLES part, input,
          stage, mcp_only, handlers, tools, roles, got, task, replies,
          request, listed, coming, wire, eof, buffer, reply, step, told,
          env, level, filter, reloads, failed

R == INSTANCE Requests
P == INSTANCE Upgrade
L == INSTANCE Logging
A == INSTANCE AuthHeader

request_vars == <<stage, mcp_only, handlers, tools, roles, got, task, replies>>
upgrade_vars == <<request, listed, coming, wire, eof, buffer, reply, step, told>>
logging_vars == <<env, level, filter, reloads, failed>>
machines == <<request_vars, upgrade_vars, scope, logging_vars>>

\* DIRECTIVES: every cap names something, and of two caps for one target the one
\* that outranks the other, because it names more or comes later, is not weaker.
ASSUME CapsAssumption ==
  /\ Caps \in Seq([level : 1..5, target : Seq(STRING) \ {<<>>}])
  /\ Targets \subseteq Seq(STRING)
  /\ \A t \in Targets : \A i, j \in DOMAIN Caps :
       /\ L!Begins(Caps[i].target, t) /\ L!Begins(Caps[j].target, t)
       /\ \/ Len(Caps[i].target) < Len(Caps[j].target)
          \/ Caps[i].target = Caps[j].target /\ i <= j
       => Caps[j].level <= Caps[i].level

\* A request serialized for encode_header: a null only where a parameter is
\* optional, and nothing to escape or to strip in what is not a string.
ASSUME HeadersAssumption ==
  /\ None \notin A!Values
  /\ \A h \in Headers :
       /\ h.types \in Seq([base : STRING, optional : BOOLEAN]) /\ DOMAIN h.values = DOMAIN h.types
       /\ \A i \in DOMAIN h.types :
            \/ h.types[i].optional /\ h.values[i] = A!Null
            \/ /\ h.types[i].base = "String"
               /\ \E c \in {"plain", "special", "quoted", "backslash"} : h.values[i] = A!Value(i, c)
            \/ h.values[i] = A!Value(i, "plain")

Inputs(p) == IF p = "header" THEN Headers ELSE IF p = "schema" THEN Documents ELSE {None}
-----------------------------------------------------------------------------
\* A machine that is not the behaviour's part starts in one state of its own.
AllInit ==
  /\ part \in {"requests", "upgrade", "scope", "logging", "header", "schema"}
  /\ input \in Inputs(part)
  /\ IF part = "requests" THEN TRUE ELSE mcp_only = FALSE
  /\ IF part = "upgrade" THEN TRUE
     ELSE request = (CHOOSE r \in P!Requests : TRUE) /\ listed = None
  /\ IF part = "logging" THEN TRUE ELSE env = <<>> /\ level = "Off"
  /\ R!Init /\ P!Init /\ Init /\ L!Init

AllNext ==
  \/ /\ part = "requests" /\ R!Next
     /\ UNCHANGED <<part, input, upgrade_vars, scope, logging_vars>>
  \/ /\ part = "upgrade" /\ P!Next
     /\ UNCHANGED <<part, input, request_vars, scope, logging_vars>>
  \/ /\ part = "scope" /\ Next
     /\ UNCHANGED <<part, input, request_vars, upgrade_vars, logging_vars>>
  \/ /\ part = "logging" /\ L!Next
     /\ UNCHANGED <<part, input, request_vars, upgrade_vars, scope>>

AllSpec == AllInit /\ [][AllNext]_<<part, input, machines>>
-----------------------------------------------------------------------------
\* Requests: one answer each, of the right kind, and none left waiting.
AnswersExact == part = "requests" => R!AnsweredInKind /\ R!NoneLeftWaiting

\* Requests: tools/list, tools/call and the legacy protocol agree on who may
\* call what.
ProtocolsAgree == part = "requests" => R!ListIsWhatCanBeCalled /\ R!ProtocolsAgree

\* Upgrade: early frames survive, the segments do not change the answer, the
\* memory is bounded and the CORS policy is kept.
UpgradeExact ==
  part = "upgrade" => /\ P!FirstFramesKept /\ P!SegmentsDoNotMatter
                      /\ P!HeadBounded /\ P!CorsByPolicy

\* Logging: errors pass, noisy crates stay capped, a level bounds what passes.
FilterExact == part = "logging" => L!ErrorsPass /\ L!NoisyCratesCapped /\ L!LevelBounds

\* Logging: the level Off lets no DEBUG event pass.
OffIsQuiet == part = "logging" => L!OffIsQuiet

\* AuthHeader: what the client encodes arrives at the auth endpoint, unchanged
\* where JSON has nothing to escape in it.
HeaderRoundTrip == part = "header" => A!HeaderRoundTrip("login", input.types, input.values)
================================================================================
