-------------------------------- MODULE Logging --------------------------------
(***************************************************************************)
(* The log filter (log/level_filter.rs, log.rs).  It is built from         *)
(* RUST_LOG, the level and a list of caps for noisy crates, and replaced   *)
(* while events are emitted.  Events that pass it reach stdout and the     *)
(* error aggregation (module ErrorAggregation), and the file unless the    *)
(* rate limit of log_throttling, which is the file's own, drops them.      *)
(* A target is a sequence of the pieces its text is cut into wherever some *)
(* directive's text ends: h2::codec is <<"h2", "::codec">>.                *)
(***************************************************************************)
EXTENDS Naturals, Sequences, FiniteSets

CONSTANTS Caps,          \* DIRECTIVES: a sequence of [level, target]
          Targets,       \* targets of events
          MaxDirectives, \* bound: directives in RUST_LOG
          MaxReloads     \* bound: calls of set_log_level

\* Verbosity, as EnvFilter orders levels: an event passes a bound at least its own.
OFF == 0
ERROR == 1
WARN == 2
INFO == 3
DEBUG == 4
TRACE == 5
LogLevels == {"Off", "Error", "Warn", "Info", "Debug", "Trace", "Detail"}

\* A directive is for the targets whose text begins with what it names.
Begins(d, t) == Len(d) <= Len(t) /\ d = SubSeq(t, 1, Len(d))
Named == UNION {{SubSeq(t, 1, n) : n \in 0..Len(t)} : t \in Targets}

VARIABLES env,     \* RUST_LOG: what its directives name -> bound, <<>> naming everything
          level,   \* the LogLevel last set
          filter,  \* the EnvFilter in force: what its directives name -> bound
          reloads, \* history: calls of set_log_level
          failed   \* history: the last call failed

logging == <<env, level, filter, reloads, failed>>

\* From<LogLevel> for Level, which has no level for "Off".
ToLevel(l) ==
  CASE l = "Error" -> ERROR [] l = "Warn" -> WARN [] l = "Info" -> INFO [] l = "Debug" -> DEBUG
    [] l \in {"Trace", "Off", "Detail"} -> TRACE

\* is_more_restrictive: shows fewer events.
MoreRestrictive(a, b) == a < b

\* The caps a level asks for, by their places in the list: none at Info and
\* below, none at Detail.
Directives(l) ==
  {i \in DOMAIN Caps : l \in {"Debug", "Trace"} /\ MoreRestrictive(Caps[i].level, ToLevel(l))}
\* Mutant of DirectivesFor: the first directive that names d stays.
FirstDirectiveFor(l, d) ==
  {i \in Directives(l) : Caps[i].target = d /\ \A j \in Directives(l) : Caps[j].target = d => i <= j}
DirectivesFor(l, d) == {i \in Directives(l) : Caps[i].target = d}

Last(S) == CHOOSE i \in S : \A j \in S : j <= i

\* build_env_filter: add_directive replaces an earlier directive that names the
\* same.  The level is one that names everything; the caps come after it.
BuildEnvFilter(l) ==
  [d \in DOMAIN env \cup {<<>>} \cup {Caps[i].target : i \in Directives(l)} |->
     IF DirectivesFor(l, d) # {} THEN Caps[Last(DirectivesFor(l, d))].level
     ELSE IF d = <<>> THEN ToLevel(l) ELSE env[d]]

\* setup_logging.
Init ==
  /\ \E D \in SUBSET Named : Cardinality(D) <= MaxDirectives /\ env \in [D -> OFF..TRACE]
  /\ level \in LogLevels /\ filter = BuildEnvFilter(level)
  /\ reloads = 0 /\ failed = FALSE

\* LogReloadHandle::set_log_level: one swap of the filter, or an error and the
\* filter as it was.
SetLogLevel(l) ==
  /\ reloads < MaxReloads
  /\ level' = l /\ filter' = BuildEnvFilter(l)
  /\ reloads' = reloads + 1 /\ failed' = FALSE
  /\ UNCHANGED env

SetLogLevelFails ==
  /\ reloads < MaxReloads
  /\ reloads' = reloads + 1 /\ failed' = TRUE
  /\ UNCHANGED <<env, level, filter>>

Next == SetLogLevelFails \/ \E l \in LogLevels : SetLogLevel(l)
Spec == Init /\ [][Next]_logging

\* EnvFilter: of the directives for a target the one that names most decides.
Deciding(t) == LET named == {n \in 0..Len(t) : SubSeq(t, 1, n) \in DOMAIN filter}
               IN SubSeq(t, 1, Last(named))
Passes(t, e) == e <= filter[Deciding(t)]
-----------------------------------------------------------------------------
(* Properties *)

\* What RUST_LOG says of a target by name, rather than of everything.
EnvNames(t) == {d \in DOMAIN env : d # <<>> /\ Begins(d, t)}

\* At every level but Off, and however it was reached, an ERROR event passes, and
\* so reaches the error aggregation, unless a directive of RUST_LOG that names
\* its target says off: RUST_LOG=off alone, or the level before, does not count.
ErrorsPass ==
  level # "Off" =>
    \A t \in Targets : (\A d \in EnvNames(t) : env[d] # OFF) => Passes(t, ERROR)

\* At Debug and Trace every cap that restricts holds for all targets under its
\* own, although only the order of the list decides between two caps of one crate
\* (test_filter_string_format asks for h2=warn, which is the later one), unless
\* RUST_LOG names more of the target than the cap does.
NoisyCratesCapped ==
  level \in {"Debug", "Trace"} =>
    \A i \in DOMAIN Caps : \A t \in Targets :
      /\ Caps[i].level < ToLevel(level) /\ Begins(Caps[i].target, t)
      /\ \A d \in EnvNames(t) : Len(d) <= Len(Caps[i].target)
      => ~Passes(t, Caps[i].level + 1)

\* At Error, Warn and Info nothing more verbose passes from a target RUST_LOG
\* does not name: no cap raises a level, and RUST_LOG=trace is replaced.
LevelBounds ==
  level \in {"Error", "Warn", "Info"} =>
    \A t \in Targets : EnvNames(t) = {} => ~Passes(t, ToLevel(level) + 1)

\* build_env_filter says of the levels without caps, Off among them, that "the
\* global level already prevents excessive verbosity": at Off no DEBUG event
\* passes from a target RUST_LOG does not name.
OffIsQuiet ==
  level = "Off" => \A t \in Targets : EnvNames(t) = {} => ~Passes(t, DEBUG)
================================================================================
