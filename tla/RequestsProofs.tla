----------------------------- MODULE RequestsProofs -----------------------------
(***************************************************************************)
(* What RequestParts promises about one request or one input, for any      *)
(* endpoints, names, roles, messages, request heads, segments, origins,    *)
(* nesting of scopes and caps of the log filter.                           *)
(***************************************************************************)
EXTENDS RequestParts, SequenceTheorems, FiniteSetTheorems, WellFoundedInduction, TLAPS

everything == <<part, input, machines>>
-----------------------------------------------------------------------------
(* Induction: the least number that has a property *)

\* A set of numbers that is not empty has a least one.
LEMMA LeastNumber ==
  ASSUME NEW D, D \subseteq Nat, D # {}
  PROVE  \E m \in D : \A k \in D : m <= k
<1> DEFINE Less == OpToRel(<, Nat)
<1>1. \A x, y \in Nat : x < y => <<x, y>> \in Less
  BY DEF OpToRel
<1>2. IsWellFoundedOn(Less, Nat)
  BY NatLessThanWellFounded
<1> HIDE DEF Less
<1>3. PICK m \in D : \A k \in D : ~(<<k, m>> \in Less)
  BY <1>2, WFMin
<1>4. \A k \in D : m <= k
  <2>1. \A k \in D : k \in Nat /\ m \in Nat
    OBVIOUS
  <2>2. \A k \in D : ~(k < m)
    BY <1>1, <1>3, <2>1
  <2>3. QED
    BY <2>1, <2>2
<1>5. QED
  BY <1>4

\* So what holds of 0 and carries over from n - 1 to n holds up to any bound.
LEMMA UpTo ==
  ASSUME NEW n \in Nat, NEW T, 0 \in T, \A i \in 1..n : i - 1 \in T => i \in T
  PROVE  \A i \in 0..n : i \in T
<1> SUFFICES ASSUME NEW j \in 0..n, j \notin T PROVE FALSE
  OBVIOUS
<1> DEFINE D == {i \in 0..n : i \notin T}
<1>1. D \subseteq Nat /\ D # {}
  OBVIOUS
<1> HIDE DEF D
<1>2. PICK m \in D : \A k \in D : m <= k
  BY <1>1, LeastNumber
<1>3. m \in 0..n /\ m \notin T /\ m # 0
  BY DEF D
<1>4. m - 1 \in 0..n /\ m \in 1..n
  BY <1>3
<1>5. m - 1 \notin D
  BY <1>2, <1>3
<1>6. m - 1 \in T
  BY <1>4, <1>5 DEF D
<1>7. QED
  BY <1>3, <1>4, <1>6

\* A value built step by step: make[i] gives the i-th from the one before it.
Steps(n, S, make) == \A i \in 1..n : make[i] \in [S -> S]
Built(g, n, S, a, make) ==
  g \in [0..n -> S] /\ g[0] = a /\ \A i \in 1..n : g[i] = make[i][g[i - 1]]

\* It exists.
LEMMA Iterated ==
  ASSUME NEW S, NEW a \in S, NEW n \in Nat, NEW make, Steps(n, S, make)
  PROVE  \E g : Built(g, n, S, a, make)
<1> USE DEF Steps, Built
<1> DEFINE Good(j, g) == g \in [0..j -> S] /\ g[0] = a /\ \A i \in 1..j : g[i] = make[i][g[i - 1]]
           T == {j \in 0..n : \E g : Good(j, g)}
<1>1. 0 \in T
  <2>1. PICK g : g = [i \in 0..0 |-> a]
    OBVIOUS
  <2>2. Good(0, g)
    BY <2>1
  <2>3. QED
    BY <2>2
<1>2. ASSUME NEW j \in 1..n, j - 1 \in T PROVE j \in T
  <2>1. PICK g : Good(j - 1, g)
    BY <1>2
  <2>2. PICK h : h = [i \in 0..j |-> IF i = j THEN make[j][g[j - 1]] ELSE g[i]]
    OBVIOUS
  <2>3. g[j - 1] \in S
    BY <2>1
  <2>4. h \in [0..j -> S]
    <3>1. \A i \in 0..j : i = j \/ i \in 0..(j - 1)
      OBVIOUS
    <3>2. QED
      BY <2>1, <2>2, <2>3, <3>1
  <2>5. h[0] = a
    BY <2>1, <2>2
  <2>6. \A i \in 1..j : h[i] = make[i][h[i - 1]]
    <3> TAKE i \in 1..j
    <3>1. h[i - 1] = g[i - 1]
      BY <2>2
    <3>2. i # j => i \in 1..(j - 1) /\ h[i] = g[i]
      BY <2>2
    <3>3. QED
      BY <2>1, <2>2, <3>1, <3>2
  <2>7. QED
    BY <2>4, <2>5, <2>6
<1> HIDE DEF T
<1>3. \A i \in 0..n : i \in T
  BY <1>1, <1>2, UpTo
<1>4. n \in T
  BY <1>3
<1>5. QED
  BY <1>4 DEF T
-----------------------------------------------------------------------------
(* The toolbox slot *)

Guards == [toolbox : Toolboxes, restore : Toolboxes \cup {None}]

\* The polls under way form a chain: each restores the toolbox of the one
\* around it, the outermost restores the empty slot, and the slot holds the
\* toolbox of the innermost.
ChainInv ==
  /\ polls \in Seq(Guards)
  /\ slot = IF polls = <<>> THEN None ELSE polls[Len(polls)].toolbox
  /\ polls # <<>> => polls[1].restore = None
  /\ \A i \in 2..Len(polls) : polls[i].restore = polls[i - 1].toolbox
  /\ polls = <<>> => seen = <<>>
  /\ seen \in {<<>>, <<slot>>}

\* A poll adds a link to the chain and its return takes the last one off.
LEMMA ChainInvKept == ChainInv /\ [Next]_scope => ChainInv'
<1> SUFFICES ASSUME ChainInv, [Next]_scope PROVE ChainInv'
  OBVIOUS
<1> USE DEF ChainInv
<1>1. ASSUME NEW v \in Toolboxes, Poll(v)
      PROVE  ChainInv'
  <2> DEFINE g == [toolbox |-> v, restore |-> slot]
  <2>1. polls' = Append(polls, g) /\ slot' = v /\ seen' = <<>>
    BY <1>1 DEF Poll
  <2>2. slot \in Toolboxes \cup {None}
    <3>1. polls # <<>> => Len(polls) \in 1..Len(polls)
      OBVIOUS
    <3>2. polls # <<>> => polls[Len(polls)] \in Guards
      BY <3>1
    <3>3. QED
      BY <3>2 DEF Guards
  <2>3. g \in Guards /\ g.toolbox = v /\ g.restore = slot
    BY <2>2 DEF Guards
  <2> HIDE DEF g
  <2>4. /\ polls' \in Seq(Guards) /\ Len(polls') = Len(polls) + 1
        /\ polls'[Len(polls) + 1] = g /\ \A i \in 1..Len(polls) : polls'[i] = polls[i]
    BY <2>1, <2>3
  <2>5. polls'[1].restore = None
    BY <2>3, <2>4
  <2>6. \A i \in 2..Len(polls') : polls'[i].restore = polls'[i - 1].toolbox
    BY <2>3, <2>4
  <2>7. QED
    BY <2>1, <2>3, <2>4, <2>5, <2>6
<1>2. CASE Return
  <2> DEFINE n == Len(polls)
  <2>1. n \in Nat \ {0} /\ slot' = polls[n].restore /\ polls' = SubSeq(polls, 1, n - 1) /\ seen' = <<>>
    BY <1>2 DEF Return
  <2>2. polls' \in Seq(Guards) /\ Len(polls') = n - 1 /\ \A i \in 1..(n - 1) : polls'[i] = polls[i]
    <3>1. 1 \in 1..(n + 1) /\ n - 1 \in Nat /\ \A i \in 1..(n - 1) : i \in 1..n
      BY <2>1
    <3>2. \A i \in 1..(n - 1) : polls[i] \in Guards
      BY <3>1
    <3>3. n - 1 \in Int /\ 1 \in Int
      BY <2>1
    <3>4. /\ SubSeq(polls, 1, n - 1) \in Seq(Guards)
          /\ Len(SubSeq(polls, 1, n - 1)) = IF 1 <= n - 1 THEN (n - 1) - 1 + 1 ELSE 0
          /\ \A i \in 1..((n - 1) - 1 + 1) : SubSeq(polls, 1, n - 1)[i] = polls[1 + i - 1]
      <4> HIDE DEF n
      <4>1. QED
        BY <3>2, <3>3, SubSeqProperties
    <3> HIDE DEF n
    <3>5. Len(polls') = n - 1
      BY <2>1, <3>4
    <3>6. ASSUME NEW i \in 1..(n - 1) PROVE polls'[i] = polls[i]
      <4>1. i \in 1..((n - 1) - 1 + 1) /\ 1 + i - 1 = i
        BY <2>1
      <4>2. QED
        BY <2>1, <3>4, <4>1
    <3>7. QED
      BY <2>1, <3>4, <3>5, <3>6
  <2>3. polls' = <<>> <=> n = 1
    <3>1. polls' = <<>> <=> Len(polls') = 0
      BY <2>2
    <3>2. n - 1 = 0 <=> n = 1
      BY <2>1
    <3>3. Len(polls') = n - 1
      BY <2>2
    <3>4. QED
      BY <3>1, <3>2, <3>3
  <2>4. slot' = IF polls' = <<>> THEN None ELSE polls'[Len(polls')].toolbox
    BY <2>1, <2>2, <2>3
  <2>5. polls' # <<>> => polls'[1].restore = None
    BY <2>1, <2>2, <2>3
  <2>6. \A i \in 2..Len(polls') : polls'[i].restore = polls'[i - 1].toolbox
    BY <2>1, <2>2
  <2>7. QED
    BY <2>1, <2>2, <2>4, <2>5, <2>6
<1>3. CASE TryWith
  BY <1>3 DEF TryWith
<1>4. CASE UNCHANGED scope
  BY <1>4 DEF scope
<1>5. QED
  BY <1>1, <1>2, <1>3, <1>4 DEF Next

\* A step of the composition is a step of the scope or leaves it alone.
LEMMA ScopeStep == [AllNext]_everything => [Next]_scope
  BY DEF AllNext, everything, machines, scope

\* TOOLBOX.scope: whatever scopes were polled inside it, a poll that looks for
\* its toolbox finds its own, and no toolbox is left behind between polls.
THEOREM ToolboxIsOwn == AllSpec => []OwnToolbox
<1>1. AllInit => ChainInv
  BY DEF AllInit, Init, ChainInv
<1>2. ChainInv => OwnToolbox
  BY DEF ChainInv, OwnToolbox
<1>3. ChainInv /\ [AllNext]_everything => ChainInv'
  BY ChainInvKept, ScopeStep
<1>4. QED
  BY <1>1, <1>2, <1>3, PTL DEF AllSpec, everything
-----------------------------------------------------------------------------
(* The log filter *)

\* A set of places of a list has a last one.
LEMMA LastPlace ==
  ASSUME NEW n \in Nat, NEW S, S \subseteq 0..n, S # {}
  PROVE  \E m \in S : \A j \in S : j <= m
<1> DEFINE T == {n - i : i \in S}
<1>1. T \subseteq Nat /\ T # {}
  <2>1. \A i \in S : i \in 0..n
    OBVIOUS
  <2>2. \A i \in S : n - i \in Nat
    BY <2>1
  <2>3. QED
    BY <2>2
<1>2. PICK x \in T : \A y \in T : x <= y
  <2> HIDE DEF T
  <2>1. QED
    BY <1>1, LeastNumber
<1>3. PICK m \in S : x = n - m
  OBVIOUS
<1>4. \A j \in S : n - m <= n - j
  BY <1>2, <1>3
<1> HIDE DEF T
<1>5. \A j \in S : j \in 0..n
  OBVIOUS
<1>6. \A j \in S : j <= m
  <2> TAKE j \in S
  <2>1. PICK a \in 0..n, b \in 0..n : a = m /\ b = j /\ n - a <= n - b
    BY <1>4, <1>5
  <2>2. b <= a
    BY <2>1
  <2>3. QED
    BY <2>1, <2>2
<1>7. QED
  BY <1>6

\* The filter is the one its level and RUST_LOG ask for.
FilterInv ==
  /\ level \in L!LogLevels /\ filter = L!BuildEnvFilter(level)
  /\ \A d \in DOMAIN env : env[d] \in 0..5

\* A reload puts a filter of its level in force, or fails and keeps the old
\* one.
LEMMA FilterInvKept ==
  FilterInv /\ (L!Next \/ UNCHANGED logging_vars) => FilterInv'
<1>1. CASE UNCHANGED <<env, level, filter>>
  BY <1>1 DEF FilterInv, L!BuildEnvFilter
<1>2. ASSUME FilterInv, NEW l \in L!LogLevels, L!SetLogLevel(l)
      PROVE  FilterInv'
  BY <1>2 DEF FilterInv, L!SetLogLevel, L!BuildEnvFilter
<1>3. QED
  BY <1>1, <1>2 DEF L!Next, L!SetLogLevelFails, logging_vars

\* What CapsAssumption says of the caps.
LEMMA CapTypes ==
  /\ Len(Caps) \in Nat /\ DOMAIN Caps = 1..Len(Caps)
  /\ \A i \in DOMAIN Caps :
       Caps[i].level \in 1..5 /\ Caps[i].target \in Seq(STRING) /\ Caps[i].target # <<>>
<1> DEFINE T == [level : 1..5, target : Seq(STRING) \ {<<>>}]
<1>1. Caps \in Seq(T)
  BY CapsAssumption
<1>2. \A c \in T : c.level \in 1..5 /\ c.target \in Seq(STRING) /\ c.target # <<>>
  OBVIOUS
<1> HIDE DEF T
<1>3. Len(Caps) \in Nat /\ DOMAIN Caps = 1..Len(Caps) /\ \A i \in DOMAIN Caps : Caps[i] \in T
  BY <1>1
<1>4. QED
  BY <1>2, <1>3

\* Last is the greatest of a bounded set of numbers.
LEMMA LastIsGreatest ==
  ASSUME NEW n \in Nat, NEW S, S \subseteq 0..n, S # {}
  PROVE  L!Last(S) \in S /\ \A j \in S : j <= L!Last(S)
<1>1. \E m \in S : \A j \in S : j <= m
  BY LastPlace
<1>2. QED
  BY <1>1 DEF L!Last

\* The beginning of a target has the length it was cut to.
LEMMA BeginningLength ==
  ASSUME NEW t \in Seq(STRING), NEW n \in 0..Len(t)
  PROVE  Len(SubSeq(t, 1, n)) = n /\ SubSeq(t, 1, 0) = <<>>
<1>1. Len(t) \in Nat /\ n \in Int /\ 1 \in Int /\ \A i \in 1..n : t[i] \in STRING
  OBVIOUS
<1>2. Len(SubSeq(t, 1, n)) = IF 1 <= n THEN n - 1 + 1 ELSE 0
  BY <1>1, SubSeqProperties
<1>3. SubSeq(t, 1, 0) = <<>>
  OBVIOUS
<1>4. QED
  BY <1>1, <1>2, <1>3

\* The directive that decides is one for the target, and none for it names more.
LEMMA DecidingIsLongest ==
  ASSUME NEW t \in Targets, <<>> \in DOMAIN filter
  PROVE  LET d == L!Deciding(t)
         IN /\ d \in DOMAIN filter /\ L!Begins(d, t) /\ Len(d) \in Nat
            /\ \A e \in DOMAIN filter : L!Begins(e, t) => Len(e) <= Len(d)
<1> DEFINE S == {n \in 0..Len(t) : SubSeq(t, 1, n) \in DOMAIN filter}
           m == L!Last(S)
<1>1. t \in Seq(STRING) /\ Len(t) \in Nat
  BY CapsAssumption
<1>2. 0 \in S
  <2>1. 0 \in 0..Len(t)
    BY <1>1
  <2>2. SubSeq(t, 1, 0) = <<>>
    BY <1>1, <2>1, BeginningLength
  <2>3. QED
    BY <2>1, <2>2
<1>3. S \subseteq 0..Len(t)
  OBVIOUS
<1>4. m \in S /\ \A n \in S : n <= m
  <2> HIDE DEF S
  <2>1. QED
    BY <1>1, <1>2, <1>3, LastIsGreatest
<1>5. L!Deciding(t) = SubSeq(t, 1, m)
  BY DEF L!Deciding
<1>6. m \in 0..Len(t) /\ SubSeq(t, 1, m) \in DOMAIN filter
  BY <1>4
<1>7. \A n \in 0..Len(t) : SubSeq(t, 1, n) \in DOMAIN filter => n <= m
  BY <1>4
<1> HIDE DEF m, S
<1>8. Len(SubSeq(t, 1, m)) = m
  BY <1>1, <1>6, BeginningLength
<1>9. L!Begins(SubSeq(t, 1, m), t)
  BY <1>1, <1>6, <1>8 DEF L!Begins
<1>10. ASSUME NEW e \in DOMAIN filter, L!Begins(e, t)
       PROVE  Len(e) <= m
  <2>1. Len(e) <= Len(t) /\ e = SubSeq(t, 1, Len(e))
    BY <1>10 DEF L!Begins
  <2>2. Len(e) \in Nat
    <3>1. e \in Seq(STRING)
      BY <1>1, <2>1, <1>10 DEF L!Begins
    <3>2. QED
      BY <3>1
  <2>3. PICK n : n = Len(e)
    OBVIOUS
  <2>4. e = SubSeq(t, 1, n)
    BY <2>1, <2>3, Zenon
  <2>5. n \in 0..Len(t)
    BY <1>1, <2>1, <2>2, <2>3
  <2>6. n <= m
    BY <1>7, <1>10, <2>4, <2>5, Zenon
  <2>7. QED
    BY <2>3, <2>6
<1>11. QED
  BY <1>5, <1>6, <1>8, <1>9, <1>10

\* Every LogLevel is built as a tracing level, Off as well.
LEMMA LevelTypes == \A l \in L!LogLevels : L!ToLevel(l) \in 1..5
  BY DEF L!LogLevels, L!ToLevel, L!ERROR, L!WARN, L!INFO, L!DEBUG, L!TRACE

\* What the filter has under a name: the last cap for it, else the level for
\* everything, else what RUST_LOG says.
LEMMA FilterParts ==
  ASSUME FilterInv, NEW d \in DOMAIN filter
  PROVE  \/ /\ L!DirectivesFor(level, d) # {}
            /\ filter[d] = Caps[L!Last(L!DirectivesFor(level, d))].level
            /\ L!Last(L!DirectivesFor(level, d)) \in L!DirectivesFor(level, d)
            /\ \A j \in L!DirectivesFor(level, d) : j <= L!Last(L!DirectivesFor(level, d))
         \/ L!DirectivesFor(level, d) = {} /\ d = <<>> /\ filter[d] = L!ToLevel(level)
         \/ L!DirectivesFor(level, d) = {} /\ d # <<>> /\ d \in DOMAIN env /\ filter[d] = env[d]
<1> DEFINE S == L!DirectivesFor(level, d)
<1>1. filter = L!BuildEnvFilter(level)
  BY DEF FilterInv
<1>2. d \in DOMAIN env \cup {<<>>} \cup {Caps[i].target : i \in L!Directives(level)}
  BY <1>1 DEF L!BuildEnvFilter
<1>3. filter[d] = IF S # {} THEN Caps[L!Last(S)].level ELSE IF d = <<>> THEN L!ToLevel(level) ELSE env[d]
  BY <1>1, <1>2 DEF L!BuildEnvFilter
<1>4. S \subseteq 0..Len(Caps) /\ Len(Caps) \in Nat
  BY CapTypes DEF L!DirectivesFor, L!Directives
<1>5. S = {} => d \in DOMAIN env \cup {<<>>}
  BY <1>2 DEF L!DirectivesFor
<1> HIDE DEF S
<1>6. S # {} => L!Last(S) \in S /\ \A j \in S : j <= L!Last(S)
  BY <1>4, LastIsGreatest
<1>7. QED
  BY <1>3, <1>5, <1>6 DEF S

\* The level, and every cap it asks for, is in the filter.
LEMMA FilterHas ==
  ASSUME FilterInv
  PROVE  <<>> \in DOMAIN filter /\ \A i \in L!Directives(level) : Caps[i].target \in DOMAIN filter
  BY DEF FilterInv, L!BuildEnvFilter

\* Of the directives for a target the one that decides lets errors pass, keeps
\* what every cap asks for and is the level where there is no other.
LEMMA FilterInvExact == FilterInv => L!ErrorsPass /\ L!NoisyCratesCapped /\ L!LevelBounds
<1> SUFFICES ASSUME FilterInv PROVE L!ErrorsPass /\ L!NoisyCratesCapped /\ L!LevelBounds
  OBVIOUS
<1>1. L!ToLevel(level) \in 1..5
  BY LevelTypes DEF FilterInv
<1>2. ASSUME NEW t \in Targets
      PROVE  /\ L!Deciding(t) \in DOMAIN filter /\ L!Begins(L!Deciding(t), t)
             /\ Len(L!Deciding(t)) \in Nat
             /\ \A e \in DOMAIN filter : L!Begins(e, t) => Len(e) <= Len(L!Deciding(t))
             /\ L!Deciding(t) \in DOMAIN env /\ L!Deciding(t) # <<>> => L!Deciding(t) \in L!EnvNames(t)
  BY FilterHas, DecidingIsLongest DEF L!EnvNames
<1>3. \A d : \A i \in L!DirectivesFor(level, d) :
        i \in L!Directives(level) /\ i \in DOMAIN Caps /\ Caps[i].target = d /\ Caps[i].level \in 1..5
  BY CapTypes DEF L!DirectivesFor, L!Directives
<1>4. L!ErrorsPass
  <2> SUFFICES ASSUME NEW t \in Targets, \A d \in L!EnvNames(t) : env[d] # 0
               PROVE  1 <= filter[L!Deciding(t)]
    BY DEF L!ErrorsPass, L!Passes, L!ERROR, L!OFF
  <2>1. PICK d \in DOMAIN filter : d = L!Deciding(t) /\ (d \in DOMAIN env /\ d # <<>> => d \in L!EnvNames(t))
    BY <1>2
  <2>2. CASE L!DirectivesFor(level, d) # {}
    BY <1>3, <2>1, <2>2, FilterParts
  <2>3. CASE filter[d] = L!ToLevel(level)
    BY <1>1, <2>1, <2>3
  <2>4. CASE d # <<>> /\ d \in DOMAIN env /\ filter[d] = env[d]
    <3>1. env[d] \in 0..5 /\ env[d] # 0
      BY <2>1, <2>4 DEF FilterInv
    <3>2. QED
      BY <2>1, <2>4, <3>1
  <2>5. QED
    BY <2>2, <2>3, <2>4, FilterParts
<1>5. L!NoisyCratesCapped
  <2> SUFFICES ASSUME level \in {"Debug", "Trace"}, NEW i \in DOMAIN Caps, NEW t \in Targets,
                      Caps[i].level < L!ToLevel(level), L!Begins(Caps[i].target, t),
                      \A d \in L!EnvNames(t) : Len(d) <= Len(Caps[i].target)
               PROVE  ~(Caps[i].level + 1 <= filter[L!Deciding(t)])
    BY DEF L!NoisyCratesCapped, L!Passes
  <2>1. i \in L!Directives(level) /\ Caps[i].level \in 1..5 /\ Caps[i].target # <<>>
    BY CapTypes DEF L!Directives, L!MoreRestrictive
  <2>2. Caps[i].target \in DOMAIN filter
    BY <2>1, FilterHas
  <2>3. PICK d \in DOMAIN filter :
          /\ d = L!Deciding(t) /\ L!Begins(d, t) /\ (d \in DOMAIN env /\ d # <<>> => d \in L!EnvNames(t))
          /\ Len(d) \in Nat /\ Len(Caps[i].target) <= Len(d)
    BY <1>2, <2>2
  <2>4. Caps[i].target \in Seq(STRING)
    BY CapTypes
  <2>5. Len(d) = Len(Caps[i].target) => d = Caps[i].target
    BY <2>3 DEF L!Begins
  <2>6. Len(d) \in Nat /\ Len(Caps[i].target) \in Nat /\ Len(Caps[i].target) # 0
    BY <2>1, <2>3, <2>4
  <2>7. d = Caps[i].target => i \in L!DirectivesFor(level, d)
    BY <2>1 DEF L!DirectivesFor
  <2>8. L!DirectivesFor(level, d) # {}
    <3>1. CASE d = <<>>
      BY <2>3, <2>6, <3>1
    <3>2. CASE d # <<>> /\ d \in DOMAIN env
      <4>1. Len(d) = Len(Caps[i].target)
        BY <2>3, <2>6, <3>2
      <4>2. QED
        BY <2>5, <2>7, <4>1
    <3>3. QED
      BY <3>1, <3>2, FilterParts
  <2>9. PICK m \in L!DirectivesFor(level, d) :
          filter[d] = Caps[m].level /\ \A j \in L!DirectivesFor(level, d) : j <= m
    BY <2>8, FilterParts
  <2>10. m \in DOMAIN Caps /\ Caps[m].target = d /\ Caps[m].level \in 1..5
    BY <1>3
  <2>11. \/ Len(Caps[i].target) < Len(Caps[m].target)
         \/ Caps[i].target = Caps[m].target /\ i <= m
    BY <2>3, <2>5, <2>6, <2>7, <2>9, <2>10
  <2>12. Caps[m].level <= Caps[i].level
    BY <2>3, <2>10, <2>11, CapsAssumption
  <2>13. QED
    BY <2>1, <2>3, <2>9, <2>10, <2>12
<1>6. L!LevelBounds
  <2> SUFFICES ASSUME level \in {"Error", "Warn", "Info"}, NEW t \in Targets, L!EnvNames(t) = {}
               PROVE  ~(L!ToLevel(level) + 1 <= filter[L!Deciding(t)])
    BY DEF L!LevelBounds, L!Passes
  <2>1. L!Directives(level) = {}
    BY DEF L!Directives
  <2>2. \A d : L!DirectivesFor(level, d) = {}
    BY <2>1 DEF L!DirectivesFor
  <2>3. PICK d \in DOMAIN filter : d = L!Deciding(t) /\ ~(d \in DOMAIN env /\ d # <<>>)
    BY <1>2
  <2>4. filter[d] = L!ToLevel(level)
    BY <2>2, <2>3, FilterParts
  <2>5. QED
    BY <1>1, <2>3, <2>4
<1>7. QED
  BY <1>4, <1>5, <1>6

\* setup_logging and set_log_level: whatever the list of caps, RUST_LOG and the
\* levels set one after the other, errors pass at every level but Off unless
\* RUST_LOG turns their target off by name; every cap that restricts Debug or
\* Trace holds for the targets under it unless RUST_LOG names more of them; and
\* Error, Warn and Info bound what passes from targets RUST_LOG does not name.
THEOREM FilterHolds == AllSpec => []FilterExact
<1>1. AllInit => FilterInv
  <2> SUFFICES ASSUME L!Init PROVE FilterInv
    BY DEF AllInit
  <2>1. PICK D : env \in [D -> 0..5]
    BY DEF L!Init, L!OFF, L!TRACE
  <2>2. QED
    BY <2>1 DEF L!Init, FilterInv
<1>2. FilterInv /\ [AllNext]_everything => FilterInv'
  <2>1. [AllNext]_everything => L!Next \/ UNCHANGED logging_vars
    BY DEF AllNext, everything, machines
  <2>2. QED
    BY <2>1, FilterInvKept
<1>3. FilterInv => FilterExact
  BY FilterInvExact DEF FilterExact
<1>4. QED
  BY <1>1, <1>2, <1>3, PTL DEF AllSpec, everything
-----------------------------------------------------------------------------
(* The upgrade *)

\* A sequence is what is taken off its front, followed by the rest.
LEMMA CutAndJoined ==
  ASSUME NEW s \in Seq(Nat), NEW n \in 0..Len(s)
  PROVE  /\ SubSeq(s, 1, n) \in Seq(Nat) /\ Len(SubSeq(s, 1, n)) = n
         /\ SubSeq(s, n + 1, Len(s)) \in Seq(Nat) /\ Len(SubSeq(s, n + 1, Len(s))) = Len(s) - n
         /\ \A i \in 1..(Len(s) - n) : SubSeq(s, n + 1, Len(s))[i] = s[n + i]
         /\ SubSeq(s, 1, n) \o SubSeq(s, n + 1, Len(s)) = s
<1> DEFINE l == Len(s)
<1>0. l \in Nat /\ n \in Nat /\ n <= l /\ n \in Int /\ n + 1 \in Int /\ l \in Int /\ 1 \in Int
      /\ \A i \in 1..l : s[i] \in Nat
  OBVIOUS
<1>l. l = Len(s)
  OBVIOUS
<1> HIDE DEF l
<1>1. \A i \in 1..n : s[i] \in Nat
  BY <1>0
<1>2. \A i \in (n + 1)..l : s[i] \in Nat
  BY <1>0
<1>3. /\ SubSeq(s, 1, n) \in Seq(Nat)
      /\ Len(SubSeq(s, 1, n)) = IF 1 <= n THEN n - 1 + 1 ELSE 0
  BY <1>0, <1>1, SubSeqProperties
<1>4. PICK a \in Int : a = n + 1
  BY <1>0
<1>5. /\ SubSeq(s, a, l) \in Seq(Nat)
      /\ Len(SubSeq(s, a, l)) = IF a <= l THEN l - a + 1 ELSE 0
      /\ \A i \in 1..(l - a + 1) : SubSeq(s, a, l)[i] = s[a + i - 1]
  BY <1>0, <1>2, <1>4, SubSeqProperties
<1>6. Len(SubSeq(s, 1, n)) = n /\ Len(SubSeq(s, a, l)) = l - n
  BY <1>0, <1>3, <1>4, <1>5
<1>7. \A i \in 1..(l - n) : SubSeq(s, a, l)[i] = s[n + i]
  <2> TAKE i \in 1..(l - n)
  <2>1. i \in 1..(l - a + 1) /\ a + i - 1 = n + i
    BY <1>0, <1>4
  <2>2. QED
    BY <1>5, <2>1
<1>8. SubSeq(s, 1, n) \o SubSeq(s, n + 1, l) = SubSeq(s, 1, l)
  <2>1. 1 \in 1..(Len(s) + 1) /\ n \in (1 - 1)..Len(s) /\ Len(s) \in n..Len(s)
    BY <1>0, <1>l
  <2>2. QED
    BY <1>l, <2>1, ConcatAdjacentSubSeq
<1>9. SubSeq(s, 1, l) = s
  BY <1>l, SubSeqFull
<1>10. QED
  BY <1>l, <1>3, <1>4, <1>5, <1>6, <1>7, <1>8, <1>9

\* Which of three joined sequences a place belongs to.
LEMMA JoinedPlaces ==
  ASSUME NEW b \in Seq(Nat), NEW w \in Seq(Nat), NEW c \in Seq(Nat)
  PROVE  /\ (b \o w) \o c \in Seq(Nat) /\ Len((b \o w) \o c) = Len(b) + Len(w) + Len(c)
         /\ \A i \in 1..(Len(b) + Len(w) + Len(c)) :
              ((b \o w) \o c)[i] = IF i <= Len(b) THEN b[i]
                                   ELSE IF i <= Len(b) + Len(w) THEN w[i - Len(b)]
                                   ELSE c[i - (Len(b) + Len(w))]
<1>1. PICK u : u = b \o w
  OBVIOUS
<1>2. /\ u \in Seq(Nat) /\ Len(u) = Len(b) + Len(w)
      /\ \A i \in 1..(Len(b) + Len(w)) : u[i] = IF i <= Len(b) THEN b[i] ELSE w[i - Len(b)]
  BY <1>1, ConcatProperties
<1>3. /\ u \o c \in Seq(Nat) /\ Len(u \o c) = Len(u) + Len(c)
      /\ \A i \in 1..(Len(u) + Len(c)) : (u \o c)[i] = IF i <= Len(u) THEN u[i] ELSE c[i - Len(u)]
  <2>1. PICK v \in Seq(Nat) : v = u
    BY <1>2
  <2>2. /\ v \o c \in Seq(Nat) /\ Len(v \o c) = Len(v) + Len(c)
        /\ \A i \in 1..(Len(v) + Len(c)) : (v \o c)[i] = IF i <= Len(v) THEN v[i] ELSE c[i - Len(v)]
    BY ConcatProperties
  <2>3. QED
    BY <2>1, <2>2
<1>4. Len(b) \in Nat /\ Len(w) \in Nat /\ Len(c) \in Nat
  OBVIOUS
<1>5. ASSUME NEW i \in 1..(Len(b) + Len(w) + Len(c))
      PROVE  (u \o c)[i] = IF i <= Len(b) THEN b[i]
                            ELSE IF i <= Len(b) + Len(w) THEN w[i - Len(b)]
                            ELSE c[i - (Len(b) + Len(w))]
  <2>1. (u \o c)[i] = IF i <= Len(b) + Len(w) THEN u[i] ELSE c[i - (Len(b) + Len(w))]
    BY <1>2, <1>3, <1>4
  <2>2. i <= Len(b) + Len(w) => u[i] = IF i <= Len(b) THEN b[i] ELSE w[i - Len(b)]
    BY <1>2, <1>4
  <2>3. i <= Len(b) => i <= Len(b) + Len(w)
    BY <1>4
  <2>4. QED
    BY <2>1, <2>2, <2>3
<1>6. QED
  BY <1>1, <1>2, <1>3, <1>5

\* However the parts are grouped.
LEMMA JoinedGroups ==
  ASSUME NEW b \in Seq(Nat), NEW w \in Seq(Nat), NEW c \in Seq(Nat)
  PROVE  (b \o w) \o c = b \o (w \o c)
<1>1. PICK X, Y, u : X = (b \o w) \o c /\ u = w \o c /\ Y = b \o u
  OBVIOUS
<1>2. Len(b) \in Nat /\ Len(w) \in Nat /\ Len(c) \in Nat
  OBVIOUS
<1>3. /\ X \in Seq(Nat) /\ Len(X) = Len(b) + Len(w) + Len(c)
      /\ \A i \in 1..(Len(b) + Len(w) + Len(c)) :
           X[i] = IF i <= Len(b) THEN b[i]
                  ELSE IF i <= Len(b) + Len(w) THEN w[i - Len(b)] ELSE c[i - (Len(b) + Len(w))]
  BY <1>1, JoinedPlaces
<1>4. /\ u \in Seq(Nat) /\ Len(u) = Len(w) + Len(c)
      /\ \A i \in 1..(Len(w) + Len(c)) : u[i] = IF i <= Len(w) THEN w[i] ELSE c[i - Len(w)]
  BY <1>1, ConcatProperties
<1>5. /\ Y \in Seq(Nat) /\ Len(Y) = Len(b) + Len(u)
      /\ \A i \in 1..(Len(b) + Len(u)) : Y[i] = IF i <= Len(b) THEN b[i] ELSE u[i - Len(b)]
  <2>1. PICK v \in Seq(Nat) : v = u
    BY <1>4
  <2>2. /\ b \o v \in Seq(Nat) /\ Len(b \o v) = Len(b) + Len(v)
        /\ \A i \in 1..(Len(b) + Len(v)) : (b \o v)[i] = IF i <= Len(b) THEN b[i] ELSE v[i - Len(b)]
    BY ConcatProperties
  <2>3. QED
    BY <1>1, <2>1, <2>2
<1>6. Len(X) = Len(Y)
  BY <1>2, <1>3, <1>4, <1>5
<1>7. ASSUME NEW i \in 1..Len(X) PROVE X[i] = Y[i]
  <2>1. i \in 1..(Len(b) + Len(w) + Len(c)) /\ i \in 1..(Len(b) + Len(u))
    BY <1>3, <1>5, <1>6
  <2>2. CASE i <= Len(b)
    BY <1>3, <1>5, <2>1, <2>2
  <2>3. CASE ~(i <= Len(b))
    <3>1. i - Len(b) \in 1..(Len(w) + Len(c)) /\ (i - Len(b) <= Len(w) <=> i <= Len(b) + Len(w))
          /\ (i - Len(b)) - Len(w) = i - (Len(b) + Len(w))
      BY <1>2, <2>1, <2>3
    <3>2. QED
      BY <1>3, <1>4, <1>5, <2>1, <2>3, <3>1
  <2>4. QED
    BY <2>2, <2>3
<1>8. X = [i \in 1..Len(X) |-> X[i]] /\ Y = [i \in 1..Len(Y) |-> Y[i]]
  BY <1>3, <1>5
<1>9. X = Y
  BY <1>6, <1>7, <1>8
<1>10. QED
  BY <1>1, <1>9

\* The same as a formula, whose variables can be instantiated one by one.
LEMMA Regrouped == \A b, w, c \in Seq(Nat) : (b \o w) \o c = b \o (w \o c)
  BY JoinedGroups

\* The n numbers after k.
Counts(s, k, n) == s \in Seq(Nat) /\ Len(s) = n /\ \A i \in 1..n : s[i] = k + i

\* What follows the first h of three joined sequences.
LEMMA JoinedTail ==
  ASSUME NEW b \in Seq(Nat), NEW w \in Seq(Nat), NEW c \in Seq(Nat), NEW h \in Nat, h <= Len(b), NEW e \in Nat,
         Counts((b \o w) \o c, 0, h + e)
  PROVE  Counts((SubSeq(b, h + 1, Len(b)) \o w) \o c, h, e)
<1>0. h \in 0..Len(b)
  OBVIOUS
<1>1. PICK a : a = SubSeq(b, h + 1, Len(b))
  OBVIOUS
<1>2. a \in Seq(Nat) /\ Len(a) = Len(b) - h /\ \A i \in 1..(Len(b) - h) : a[i] = b[h + i]
  BY <1>0, <1>1, CutAndJoined
<1>3. Len(b) \in Nat /\ Len(w) \in Nat /\ Len(c) \in Nat /\ Len(a) \in Nat /\ h \in Nat
  BY <1>2
<1>4. PICK X, Y : X = (b \o w) \o c /\ Y = (a \o w) \o c
  OBVIOUS
<1>5. /\ X \in Seq(Nat) /\ Len(X) = Len(b) + Len(w) + Len(c)
      /\ \A i \in 1..(Len(b) + Len(w) + Len(c)) :
           X[i] = IF i <= Len(b) THEN b[i]
                  ELSE IF i <= Len(b) + Len(w) THEN w[i - Len(b)] ELSE c[i - (Len(b) + Len(w))]
  BY <1>4, JoinedPlaces
<1>y. /\ Y \in Seq(Nat) /\ Len(Y) = Len(a) + Len(w) + Len(c)
      /\ \A i \in 1..(Len(a) + Len(w) + Len(c)) :
           Y[i] = IF i <= Len(a) THEN a[i]
                  ELSE IF i <= Len(a) + Len(w) THEN w[i - Len(a)] ELSE c[i - (Len(a) + Len(w))]
  <2>1. PICK v \in Seq(Nat) : v = a
    BY <1>2
  <2>2. Y = (v \o w) \o c
    BY <1>4, <2>1
  <2>3. /\ Y \in Seq(Nat) /\ Len(Y) = Len(v) + Len(w) + Len(c)
        /\ \A i \in 1..(Len(v) + Len(w) + Len(c)) :
             Y[i] = IF i <= Len(v) THEN v[i]
                    ELSE IF i <= Len(v) + Len(w) THEN w[i - Len(v)] ELSE c[i - (Len(v) + Len(w))]
    BY <2>2, JoinedPlaces
  <2>4. QED
    BY <2>1, <2>3
<1>6. Len(X) = h + e /\ \A i \in 1..(h + e) : X[i] = i
  BY <1>3, <1>4 DEF Counts
<1>7. Len(Y) = e
  <2>1. Len(b) + Len(w) + Len(c) = h + e
    BY <1>5, <1>6
  <2>2. Len(Y) = (Len(b) - h) + Len(w) + Len(c)
    BY <1>2, <1>y
  <2>3. PICK p \in Nat, q \in Nat, r \in Nat : p = Len(b) /\ q = Len(w) /\ r = Len(c)
    BY <1>3
  <2>4. (p - h) + q + r = (p + q + r) - h /\ (h + e) - h = e
    OBVIOUS
  <2>5. QED
    BY <2>1, <2>2, <2>3, <2>4
<1>8. ASSUME NEW i \in 1..e PROVE Y[i] = h + i
  <2>1. X[h + i] = h + i
    <3>1. PICK k \in 1..(h + e) : k = h + i
      BY <1>3
    <3>2. X[k] = k
      BY <1>6
    <3>3. QED
      BY <3>1, <3>2
  <2>2. i \in 1..(Len(a) + Len(w) + Len(c)) /\ h + i \in 1..(Len(b) + Len(w) + Len(c))
        /\ (i <= Len(a) <=> h + i <= Len(b)) /\ (i <= Len(a) + Len(w) <=> h + i <= Len(b) + Len(w))
        /\ i - Len(a) = (h + i) - Len(b) /\ i - (Len(a) + Len(w)) = (h + i) - (Len(b) + Len(w))
    BY <1>2, <1>3, <1>5, <1>6
  <2>3. i <= Len(a) => a[i] = b[h + i]
    BY <1>2, <1>3
  <2>4. Y[i] = X[h + i]
    <3>1. CASE i <= Len(a)
      BY <1>5, <1>y, <2>2, <2>3, <3>1
    <3>2. CASE ~(i <= Len(a)) /\ i <= Len(a) + Len(w)
      BY <1>5, <1>y, <2>2, <3>2
    <3>3. CASE ~(i <= Len(a)) /\ ~(i <= Len(a) + Len(w))
      BY <1>5, <1>y, <2>2, <3>3
    <3>4. QED
      BY <3>1, <3>2, <3>3
  <2>5. QED
    BY <2>1, <2>4
<1>9. QED
  BY <1>1, <1>4, <1>y, <1>7, <1>8 DEF Counts

\* The status that answers the request, however it arrives.
Due == CASE request.head > MaxHead -> 431
         [] request.head <= MaxHead /\ request.kind = "unparsable" -> 400
         [] request.head <= MaxHead /\ request.kind = "upgrade" -> 101
         [] request.head <= MaxHead /\ request.kind = "POST" -> 405
         [] request.head <= MaxHead /\ request.kind \in {"GET", "HEAD", "OPTIONS"} -> 200

ReplyDue ==
  /\ reply.status = Due
  /\ reply.cors.credentials => reply.cors.origin = request.origin
  /\ listed # None /\ request.origin \notin listed => reply.cors = P!NoCors

\* The bytes read, on the wire and still to come are the client's, in order,
\* less the head once it is handed over; what is written is due to the request,
\* and an upgrade is granted only with the whole head in the buffer.
UpgradeInv ==
  /\ request \in P!Requests /\ (listed = None \/ listed \subseteq Origins)
  /\ step \in {"reading", "writing", "upgraded", "finished"}
  /\ buffer \in Seq(Nat) /\ wire \in Seq(Nat) /\ coming \in Seq(Nat)
  /\ step # "upgraded" => (buffer \o wire) \o coming = [i \in 1..(request.head + Eager) |-> i]
  /\ step = "upgraded" => (buffer \o wire) \o coming = [i \in 1..Eager |-> request.head + i]
  /\ step = "reading" => Len(buffer) <= MaxHead + Chunk
  /\ step = "writing" /\ reply.status = 101 => request.head <= Len(buffer)
  /\ (reply # None \/ step = "writing" \/ told) => ReplyDue

\* Which responses are due: one whose status is the request's, with its origin's
\* policy or, for a head that was not understood, with that of no origin.
LEMMA CorsIsDue ==
  ASSUME request \in P!Requests, listed = None \/ listed \subseteq Origins, NEW s, s = Due,
         NEW c, c \in {P!Cors(request.origin, request.asks), P!Cors(None, None)},
         reply' = P!Response(s, c), UNCHANGED <<request, listed>>
  PROVE  ReplyDue'
<1>1. reply'.status = s /\ reply'.cors = c
  BY DEF P!Response
<1>2. Due' = Due
  BY DEF Due
<1>3. /\ c.credentials => c.origin = request.origin
      /\ listed # None /\ request.origin \notin listed => c = P!NoCors
  <2>1. CASE c = P!Cors(request.origin, request.asks)
    <3>1. CASE listed = None
      BY <2>1, <3>1 DEF P!Cors
    <3>2. CASE listed # None /\ request.origin \in listed
      BY <2>1, <3>2 DEF P!Cors
    <3>3. CASE listed # None /\ request.origin \notin listed
      BY <2>1, <3>3 DEF P!Cors, P!NoCors
    <3>4. QED
      BY <3>1, <3>2, <3>3
  <2>2. CASE c = P!Cors(None, None)
    <3>1. listed # None => None \notin listed
      BY PartsAssumption
    <3>2. CASE listed = None
      BY <2>2, <3>2 DEF P!Cors
    <3>3. CASE listed # None
      BY <2>2, <3>1, <3>3 DEF P!Cors, P!NoCors
    <3>4. QED
      BY <3>2, <3>3
  <2>3. QED
    BY <2>1, <2>2
<1>4. QED
  BY <1>1, <1>2, <1>3 DEF ReplyDue, P!NoCors

\* Every step of the upgrade keeps its invariant.
LEMMA UpgradeInvKept ==
  UpgradeInv /\ (P!Next \/ UNCHANGED upgrade_vars) => UpgradeInv'
<1> SUFFICES ASSUME UpgradeInv, P!Next \/ UNCHANGED upgrade_vars PROVE UpgradeInv'
  OBVIOUS
<1> DEFINE Whole == [i \in 1..(request.head + Eager) |-> i]
           Rest == [i \in 1..Eager |-> request.head + i]
<1>0. /\ request.head \in Nat /\ request.kind \in P!Kinds
      /\ MaxHead \in Nat /\ Chunk \in Nat /\ Eager \in Nat
      /\ Len(buffer) \in Nat /\ Len(wire) \in Nat /\ Len(coming) \in Nat
  <2>1. request.head \in HeadLengths /\ request.kind \in P!Kinds
    BY DEF UpgradeInv, P!Requests
  <2>2. QED
    BY <2>1, PartsAssumption DEF UpgradeInv
<1>r. ASSUME UNCHANGED <<request, listed, reply>> PROVE ReplyDue' = ReplyDue
  <2>1. Due' = Due
    BY <1>r DEF Due
  <2>2. QED
    BY <1>r, <2>1 DEF ReplyDue, P!NoCors
<1>1. ASSUME UNCHANGED <<request, listed, reply>>, UNCHANGED step \/ step' = "finished",
             UNCHANGED told \/ ReplyDue
      PROVE  (reply' # None \/ step' = "writing" \/ told') => ReplyDue'
  BY <1>1, <1>r DEF UpgradeInv
<1>2. ASSUME UNCHANGED <<request, listed, coming, wire, buffer, reply, told>>,
             UNCHANGED step \/ (step' = "finished" /\ step # "upgraded")
      PROVE  UpgradeInv'
  BY <1>1, <1>2 DEF UpgradeInv
<1>3. ASSUME NEW n \in 1..Len(coming), P!ClientSends(n)
      PROVE  UpgradeInv'
  <2>1. PICK b \in Seq(Nat), w \in Seq(Nat), c \in Seq(Nat) : b = buffer /\ w = wire /\ c = coming
    BY DEF UpgradeInv
  <2>2. n \in 0..Len(c)
    BY <2>1
  <2>3. PICK x \in Seq(Nat), y \in Seq(Nat) : x = SubSeq(c, 1, n) /\ y = SubSeq(c, n + 1, Len(c))
    BY <2>2, CutAndJoined
  <2>4. x \o y = c
    BY <2>2, <2>3, CutAndJoined
  <2>5. wire' = w \o x /\ coming' = y /\ buffer' = b
    BY <1>3, <2>1, <2>3 DEF P!ClientSends, P!First, P!After
  <2>6. w \o x \in Seq(Nat)
    BY <2>4, ConcatProperties
  <2>7. (b \o (w \o x)) \o y = (b \o w) \o c
    <3>1. PICK z \in Seq(Nat) : z = b \o w
      BY ConcatProperties
    <3>2. (b \o w) \o x = b \o (w \o x)
      <4>1. \A q, r \in Seq(Nat) : (b \o q) \o r = b \o (q \o r)
        BY Regrouped, Zenon
      <4>2. \A r \in Seq(Nat) : (b \o w) \o r = b \o (w \o r)
        BY <4>1, Zenon
      <4>3. QED
        BY <4>2, Zenon
    <3>3. (z \o x) \o y = z \o (x \o y)
      <4>1. \A q, r \in Seq(Nat) : (z \o q) \o r = z \o (q \o r)
        BY Regrouped, Zenon
      <4>2. \A r \in Seq(Nat) : (z \o x) \o r = z \o (x \o r)
        BY <4>1, Zenon
      <4>3. QED
        BY <4>2, Zenon
    <3>4. QED
      BY <2>4, <3>1, <3>2, <3>3
  <2>8. (buffer' \o wire') \o coming' = (buffer \o wire) \o coming
    BY <2>1, <2>5, <2>7
  <2>9. UNCHANGED <<request, listed, buffer, reply, step, told>>
    BY <1>3 DEF P!ClientSends
  <2>10. QED
    BY <1>1, <2>4, <2>5, <2>6, <2>8, <2>9 DEF UpgradeInv
<1>4. ASSUME P!Read
      PROVE  UpgradeInv'
  <2>1. PICK b \in Seq(Nat), w \in Seq(Nat), c \in Seq(Nat) : b = buffer /\ w = wire /\ c = coming
    BY DEF UpgradeInv
  <2>2. PICK n : n = IF Len(w) < Chunk THEN Len(w) ELSE Chunk
    OBVIOUS
  <2>3. n \in 0..Len(w) /\ n <= Chunk /\ n \in Nat
    BY <1>0, <2>1, <2>2
  <2>4. PICK x \in Seq(Nat), y \in Seq(Nat) : x = SubSeq(w, 1, n) /\ y = SubSeq(w, n + 1, Len(w))
    BY <2>3, CutAndJoined
  <2>5. x \o y = w /\ Len(x) = n
    BY <2>3, <2>4, CutAndJoined
  <2>6. buffer' = b \o x /\ wire' = y /\ coming' = c
    BY <1>4, <2>1, <2>2, <2>4 DEF P!Read, P!First, P!After
  <2>7. b \o x \in Seq(Nat) /\ Len(b \o x) = Len(b) + Len(x)
    BY <2>5, ConcatProperties
  <2>8. ((b \o x) \o y) \o c = (b \o w) \o c
    <3>1. (b \o x) \o y = b \o (x \o y)
      <4>1. \A q, r \in Seq(Nat) : (b \o q) \o r = b \o (q \o r)
        BY Regrouped, Zenon
      <4>2. \A r \in Seq(Nat) : (b \o x) \o r = b \o (x \o r)
        BY <4>1, Zenon
      <4>3. QED
        BY <4>2, Zenon
    <3>2. QED
      BY <2>5, <3>1
  <2>9. (buffer' \o wire') \o coming' = (buffer \o wire) \o coming
    BY <2>1, <2>6, <2>8
  <2>10. UNCHANGED <<request, listed, coming, reply, step, told>> /\ step = "reading" /\ Len(buffer) <= MaxHead
    BY <1>4 DEF P!Read
  <2>11. Len(b \o x) <= MaxHead + Chunk
    BY <1>0, <2>1, <2>3, <2>5, <2>7, <2>10
  <2>12. QED
    BY <1>1, <2>1, <2>5, <2>6, <2>7, <2>9, <2>10, <2>11 DEF UpgradeInv
<1>5. ASSUME P!HeadTooLarge
      PROVE  UpgradeInv'
  <2>1. request.head > MaxHead
    BY <1>0, <1>5 DEF P!HeadTooLarge, P!HeadRead
  <2>2. Due = 431
    BY <1>0, <2>1 DEF Due
  <2>3. /\ reply' = P!Response(431, P!Cors(None, None)) /\ step' = "writing" /\ step = "reading"
        /\ UNCHANGED <<request, listed, coming, wire, buffer>>
    BY <1>5 DEF P!HeadTooLarge, P!Await
  <2>4. ReplyDue'
    BY <2>2, <2>3, CorsIsDue DEF UpgradeInv
  <2>5. reply'.status = 431
    BY <2>3 DEF P!Response
  <2>6. QED
    BY <2>3, <2>4, <2>5 DEF UpgradeInv
<1>6. ASSUME P!Answer
      PROVE  UpgradeInv'
  <2>1. PICK s \in {Due}, c \in {P!Cors(request.origin, request.asks), P!Cors(None, None)} :
          reply' = P!Response(s, c)
    <3> DEFINE own == P!Cors(request.origin, request.asks)
               no == P!Cors(None, None)
    <3>1. \/ P!ParseRequest # 0 /\ reply' = P!Response(P!ParseRequest, no)
          \/ P!ParseRequest = 0 /\ request.kind \in {"GET", "HEAD", "OPTIONS"} /\ reply' = P!Response(200, own)
          \/ P!ParseRequest = 0 /\ request.kind = "POST" /\ reply' = P!Response(405, own)
          \/ P!ParseRequest = 0 /\ request.kind = "upgrade" /\ reply' = P!Response(101, own)
      BY <1>6 DEF P!Answer, P!Await
    <3> HIDE DEF own, no
    <3>2. P!ParseRequest # 0 => P!ParseRequest = Due
      BY <1>0 DEF P!ParseRequest, Due
    <3>3. /\ P!ParseRequest = 0 /\ request.kind \in {"GET", "HEAD", "OPTIONS"} => Due = 200
          /\ P!ParseRequest = 0 /\ request.kind = "POST" => Due = 405
          /\ P!ParseRequest = 0 /\ request.kind = "upgrade" => Due = 101
      <4>1. P!ParseRequest = 0 => request.head <= MaxHead /\ ~(request.head > MaxHead)
        BY <1>0 DEF P!ParseRequest
      <4>2. QED
        BY <1>0, <4>1 DEF Due
    <3>4. \E s \in {Due}, c \in {own, no} : reply' = P!Response(s, c)
      BY <3>1, <3>2, <3>3
    <3>5. QED
      BY <3>4 DEF own, no
  <2>2. /\ step' = "writing" /\ step = "reading" /\ request.head <= Len(buffer)
        /\ UNCHANGED <<request, listed, coming, wire, buffer>>
    BY <1>0, <1>6 DEF P!Answer, P!Await, P!HeadRead
  <2>3. ReplyDue'
    BY <2>1, <2>2, CorsIsDue DEF UpgradeInv
  <2>4. QED
    BY <2>2, <2>3 DEF UpgradeInv
<1>7. ASSUME P!Written
      PROVE  UpgradeInv'
  <2>1. step = "writing" /\ ReplyDue /\ UNCHANGED <<request, listed, coming, wire, reply>>
    BY <1>7 DEF P!Written, UpgradeInv
  <2>2. ReplyDue'
    BY <1>r, <2>1
  <2>3. CASE reply.status = 101
    <3>1. step' = "upgraded" /\ buffer' = SubSeq(buffer, request.head + 1, Len(buffer))
      BY <1>7, <2>3 DEF P!Written, P!Connect, P!After
    <3>2. PICK b \in Seq(Nat), w \in Seq(Nat), c \in Seq(Nat) : b = buffer /\ w = wire /\ c = coming
      BY DEF UpgradeInv
    <3>3. PICK h \in Nat, e \in Nat : h = request.head /\ e = Eager
      BY <1>0
    <3>4. h <= Len(b) /\ h \in 0..Len(b)
      BY <1>0, <2>1, <2>3, <3>2, <3>3 DEF UpgradeInv
    <3>5. Counts((b \o w) \o c, 0, h + e)
      <4>1. PICK s : s = (b \o w) \o c
        OBVIOUS
      <4>2. s = [i \in 1..(h + e) |-> i]
        BY <2>1, <3>2, <3>3, <4>1 DEF UpgradeInv
      <4>3. Counts(s, 0, h + e)
        BY <4>2 DEF Counts
      <4>4. QED
        BY <4>1, <4>3
    <3>s. PICK r : r = (SubSeq(b, h + 1, Len(b)) \o w) \o c
      OBVIOUS
    <3>6. Counts(r, h, e)
      BY <3>4, <3>5, <3>s, JoinedTail
    <3>t. r = [i \in 1..e |-> h + i]
      BY <3>6 DEF Counts
    <3>7. SubSeq(b, h + 1, Len(b)) \in Seq(Nat)
      BY <3>4, CutAndJoined
    <3>8. (buffer' \o wire') \o coming' = [i \in 1..Eager |-> request.head + i]
      BY <2>1, <3>1, <3>2, <3>3, <3>s, <3>t
    <3>9. buffer' \in Seq(Nat)
      BY <3>1, <3>2, <3>3, <3>7
    <3>10. QED
      BY <2>1, <2>2, <3>1, <3>8, <3>9 DEF UpgradeInv
  <2>4. CASE reply.status # 101
    BY <1>7, <2>1, <2>2, <2>4 DEF P!Written, UpgradeInv
  <2>5. QED
    BY <2>3, <2>4
<1>8. ASSUME P!ClientCloses \/ P!ReadEof \/ P!Fails \/ UNCHANGED upgrade_vars
      PROVE  UpgradeInv'
  BY <1>2, <1>8 DEF P!ClientCloses, P!ReadEof, P!Fails, upgrade_vars
<1>9. QED
  BY <1>3, <1>4, <1>5, <1>6, <1>7, <1>8 DEF P!Next

\* upgrader.rs: however a request head is cut into segments, wherever the reads,
\* the close and the deadline fall, the WebSocket connection starts with exactly
\* the bytes after the head, the status depends on the request alone, no more
\* than one read past the limit is held and credentials go only with the origin
\* they were granted to.
THEOREM UpgradeIsExact == AllSpec => []UpgradeExact
<1>1. AllInit => UpgradeInv
  <2> SUFFICES ASSUME P!Init PROVE UpgradeInv
    BY DEF AllInit
  <2>1. request \in P!Requests /\ request.head \in Nat /\ Eager \in Nat /\ MaxHead + Chunk \in Nat
    <3>1. request.head \in HeadLengths
      BY DEF P!Init, P!Requests
    <3>2. QED
      BY <3>1, PartsAssumption DEF P!Init
  <2>2. PICK c : c = [i \in 1..(request.head + Eager) |-> i]
    OBVIOUS
  <2>3. c \in Seq(Nat)
    BY <2>1, <2>2
  <2>4. (<<>> \o <<>>) \o c = c
    BY <2>3, ConcatEmptySeq
  <2>5. QED
    BY <2>1, <2>2, <2>3, <2>4 DEF P!Init, UpgradeInv
<1>2. UpgradeInv /\ [AllNext]_everything => UpgradeInv'
  <2>1. [AllNext]_everything => P!Next \/ UNCHANGED upgrade_vars
    BY DEF AllNext, everything, machines
  <2>2. QED
    BY <2>1, UpgradeInvKept
<1>3. UpgradeInv => UpgradeExact
  <2>1. UpgradeInv => P!FirstFramesKept
    BY DEF UpgradeInv, P!FirstFramesKept
  <2>2. UpgradeInv => P!SegmentsDoNotMatter
    BY DEF UpgradeInv, ReplyDue, Due, P!SegmentsDoNotMatter
  <2>3. UpgradeInv => P!HeadBounded /\ P!CorsByPolicy
    BY DEF UpgradeInv, ReplyDue, P!HeadBounded, P!CorsByPolicy
  <2>4. QED
    BY <2>1, <2>2, <2>3 DEF UpgradeExact
<1>4. QED
  BY <1>1, <1>2, <1>3, PTL DEF AllSpec, everything
-----------------------------------------------------------------------------
(* The two request protocols *)

\* The tools are registered endpoints, no two of one name.
ToolsInv ==
  /\ handlers \subseteq Endpoints
  /\ tools # None => tools \subseteq Endpoints /\ R!Distinct(tools)

TaskStates == {"none", "before", "handler", "after", "done", "dropped"}

\* With o for mcp_only and ts for the tools, message m asks for an answer of
\* its own ...
Asks(m, o, ts) == \/ R!IsLegacy(m) /\ ~o
                  \/ ts # None /\ R!IsRpc(m) /\ m.rpc = "request" /\ m.id
\* ... or for none.
Silent(m, o, ts) == \/ R!IsControl(m) /\ ~o
                    \/ /\ ts # None /\ R!IsRpc(m) /\ m.rpc = "request"
                       /\ (~m.id \/ m.method = "notifications/x")
Protocol(m) == IF R!IsRpc(m) THEN "rpc" ELSE "legacy"

\* Reply r suits the one of the messages g it is due to.
Suits(r, g, o, ts) ==
  /\ r.by \in 1..Len(g)
  /\ Asks(g[r.by], o, ts) => r.envelope = Protocol(g[r.by]) /\ r.to = r.by

\* Messages g, their tasks k and the replies p: every reply is due to a message
\* and suits it, no two are due to one, a task that has not answered has no
\* reply, and what never became a task was answered unless it asked for silence.
Exact(g, k, p, o, ts) ==
  /\ \A i \in 1..Len(p) : Suits(p[i], g, o, ts)
  /\ \A i, j \in 1..Len(p) : p[i].by = p[j].by => i = j
  /\ \A i \in 1..Len(p) : k[p[i].by] \notin {"before", "handler"}
  /\ \A n \in 1..Len(g) :
       k[n] = "none" => (Silent(g[n], o, ts) <=> \A i \in 1..Len(p) : p[i].by # n)

AnswersInv ==
  /\ stage = "setup" => got = <<>>
  /\ got \in Seq(R!Messages) /\ task \in Seq(TaskStates) /\ Len(task) = Len(got)
  /\ \E S : replies \in Seq(S)
  /\ Exact(got, task, replies, mcp_only, tools)

\* The tools stay the snapshot that enable_mcp checked for doubled names.
LEMMA ToolsInvKept ==
  ToolsInv /\ (R!Next \/ UNCHANGED request_vars) => ToolsInv'
<1> SUFFICES ASSUME ToolsInv, R!Next \/ UNCHANGED request_vars PROVE ToolsInv'
  OBVIOUS
<1>1. CASE UNCHANGED <<handlers, tools>>
  BY <1>1 DEF ToolsInv, R!Distinct
<1>2. CASE R!EnableMcp
  BY <1>2 DEF ToolsInv, R!EnableMcp, R!Distinct
<1>3. ASSUME NEW e \in Endpoints, R!AddHandler(e) PROVE ToolsInv'
  BY <1>3 DEF ToolsInv, R!AddHandler, R!Distinct
<1>4. QED
  BY <1>1, <1>2, <1>3 DEF R!Next, R!Serve, R!Close, R!Receive, R!SetRoles, R!BeforePasses,
       R!BeforeRejects, R!AfterReturns, R!Expire, R!Handled, R!kept, request_vars

\* With distinct names, a call of a tool's name reaches that tool or none.
LEMMA CallableTool ==
  ASSUME ToolsInv, tools # None, NEW e \in Endpoints, NEW rs
  PROVE  R!Callable(Name[e], rs) = {e} <=> e \in R!ListedTools(rs)
<1>1. \A d \in tools : e \in tools /\ Name[d] = Name[e] => d = e
  BY DEF ToolsInv, R!Distinct
<1>2. QED
  BY <1>1 DEF R!Callable, R!ToolsNamed, R!ListedTools

\* With one tool per name, what is listed is what can be called, and by whom.
LEMMA ToolsInvAgrees ==
  ToolsInv => R!ListIsWhatCanBeCalled /\ R!ProtocolsAgree
<1> SUFFICES ASSUME ToolsInv, tools # None, NEW rs \in RoleSets
             PROVE  /\ \A e \in Endpoints :
                         e \in R!ListedTools(rs) <=>
                           R!Route([method |-> "tools/call", name |-> Name[e]], rs)
                             = [action |-> "call", endpoint |-> e]
                    /\ \A e \in tools : R!Refused(Name[e]) = [R!Refused(Unknown) EXCEPT !.about = Name[e]]
                    /\ \A e \in tools : R!Admits(e, rs) <=> R!Callable(Name[e], rs) = {e}
  BY DEF R!ListIsWhatCanBeCalled, R!ProtocolsAgree
<1>1. ASSUME NEW e \in Endpoints
      PROVE  e \in R!ListedTools(rs) <=>
               R!Route([method |-> "tools/call", name |-> Name[e]], rs)
                 = [action |-> "call", endpoint |-> e]
  <2> DEFINE m == [method |-> "tools/call", name |-> Name[e]]
  <2>1. m.method = "tools/call" /\ m.name = Name[e] /\ m.name # None
    BY PartsAssumption
  <2> HIDE DEF m
  <2>2. CASE R!Callable(Name[e], rs) = {}
    <3>1. R!Route(m, rs) = R!Respond(R!Refused(Name[e]))
      BY <2>1, <2>2 DEF R!Route
    <3>2. R!Route(m, rs).action = "respond"
      BY <3>1 DEF R!Respond
    <3>3. R!Route(m, rs) # [action |-> "call", endpoint |-> e]
      BY <3>2
    <3>4. e \notin R!ListedTools(rs)
      BY <2>2, CallableTool
    <3>5. QED
      BY <3>3, <3>4 DEF m
  <2>3. CASE R!Callable(Name[e], rs) # {}
    <3>1. R!Route(m, rs) = [action |-> "call", endpoint |-> CHOOSE d \in R!Callable(Name[e], rs) : TRUE]
      BY <2>1, <2>3 DEF R!Route
    <3>2. PICK c : c = CHOOSE d \in R!Callable(Name[e], rs) : TRUE
      OBVIOUS
    <3>3. c \in R!Callable(Name[e], rs)
      BY <2>3, <3>2
    <3>4. R!Route(m, rs) = [action |-> "call", endpoint |-> e] <=> c = e
      <4>1. PICK r : r = R!Route(m, rs)
        OBVIOUS
      <4>2. r = [action |-> "call", endpoint |-> c]
        BY <3>1, <3>2, <4>1
      <4>3. r = [action |-> "call", endpoint |-> e] <=> c = e
        BY <4>2
      <4>4. QED
        BY <4>1, <4>3
    <3>5. c = e <=> e \in R!ListedTools(rs)
      <4>1. e \in R!ListedTools(rs) => c = e
        BY <3>3, CallableTool
      <4>2. c = e => e \in R!ListedTools(rs)
        BY <3>3 DEF R!Callable, R!ToolsNamed, R!ListedTools
      <4>3. QED
        BY <4>1, <4>2
    <3>6. QED
      BY <3>4, <3>5 DEF m
  <2>4. QED
    BY <2>2, <2>3
<1>2. \A e \in tools : R!Refused(Name[e]) = [R!Refused(Unknown) EXCEPT !.about = Name[e]]
  BY DEF R!Refused
<1>3. ASSUME NEW e \in tools
      PROVE  R!Admits(e, rs) <=> R!Callable(Name[e], rs) = {e}
  <2>1. e \in Endpoints
    BY DEF ToolsInv
  <2>2. R!Admits(e, rs) <=> e \in R!ListedTools(rs)
    BY DEF R!Admits, R!ListedTools
  <2>3. QED
    BY <2>1, <2>2, CallableTool
<1>4. QED
  BY <1>1, <1>2, <1>3

\* enable_mcp, route, route_tool_call and check_roles: whatever handlers are
\* registered in whatever order around enable_mcp, and whatever roles a
\* connection has, tools/list shows exactly what tools/call dispatches, a refusal
\* does not tell an unknown tool from a forbidden one, and both protocols admit
\* the same callers.
THEOREM ProtocolsDoAgree == AllSpec => []ProtocolsAgree
<1>1. AllInit => ToolsInv
  BY DEF AllInit, R!Init, ToolsInv
<1>2. ToolsInv /\ [AllNext]_everything => ToolsInv'
  <2>1. [AllNext]_everything => R!Next \/ UNCHANGED request_vars
    BY DEF AllNext, everything, machines
  <2>2. QED
    BY <2>1, ToolsInvKept
<1>3. ToolsInv => ProtocolsAgree
  BY ToolsInvAgrees DEF ProtocolsAgree
<1>4. QED
  BY <1>1, <1>2, <1>3, PTL DEF AllSpec, everything

\* A message is of one protocol or a control frame.
LEMMA MessageKinds ==
  ASSUME NEW m \in R!Messages
  PROVE  /\ R!IsLegacy(m) => ~R!IsRpc(m) /\ ~R!IsControl(m)
         /\ R!IsRpc(m) => ~R!IsControl(m)
         /\ R!IsRpc(m) /\ m.rpc = "request" => m.method \in R!Lifecycle \cup {"tools/call"}
<1>1. R!IsLegacy(m) => DOMAIN m = {"method"}
  BY DEF R!IsLegacy, R!LegacyFrames
<1>2. R!IsRpc(m) => m \in R!RpcFrames
  BY DEF R!IsRpc, R!Messages, R!LegacyFrames
<1>3. m \in R!RpcFrames => "control" \notin DOMAIN m
  BY DEF R!RpcFrames
<1>4. m \in R!RpcFrames /\ m.rpc = "request" => m.method \in R!Lifecycle \cup {"tools/call"}
  BY DEF R!RpcFrames
<1>5. QED
  BY <1>1, <1>2, <1>3, <1>4 DEF R!IsRpc, R!IsControl

\* Only a notification is routed to no answer and no call.
LEMMA RouteKinds ==
  ASSUME NEW m, m.method \in R!Lifecycle \cup {"tools/call"}, NEW rs
  PROVE  R!Route(m, rs).action = "ignore" <=> m.method = "notifications/x"
<1>1. CASE m.method = "notifications/x"
  <2>1. R!Route(m, rs) = [action |-> "ignore"]
    BY <1>1 DEF R!Route
  <2>2. QED
    BY <1>1, <2>1
<1>2. CASE m.method \in {"initialize", "ping"}
  <2>1. R!Route(m, rs) = R!Respond([result |-> m.method])
    BY <1>2 DEF R!Route
  <2>2. QED
    BY <1>2, <2>1 DEF R!Respond
<1>3. CASE m.method = "tools/list"
  <2>1. R!Route(m, rs) = R!Respond([result |-> R!ListedTools(rs)])
    BY <1>3 DEF R!Route
  <2>2. QED
    BY <1>3, <2>1 DEF R!Respond
<1>4. CASE m.method = "other"
  <2>1. R!Route(m, rs) = R!Respond([error |-> "METHOD_NOT_FOUND"])
    BY <1>4 DEF R!Route
  <2>2. QED
    BY <1>4, <2>1 DEF R!Respond
<1>5. CASE m.method = "tools/call"
  <2>1. m.name = None => R!Route(m, rs).action = "respond"
    BY <1>5 DEF R!Route, R!Respond
  <2>2. m.name # None /\ R!Callable(m.name, rs) = {} => R!Route(m, rs).action = "respond"
    BY <1>5 DEF R!Route, R!Respond
  <2>3. m.name # None /\ R!Callable(m.name, rs) # {} => R!Route(m, rs).action = "call"
    BY <1>5 DEF R!Route, R!Respond
  <2>4. QED
    BY <1>5, <2>1, <2>2, <2>3
<1>6. QED
  BY <1>1, <1>2, <1>3, <1>4, <1>5 DEF R!Lifecycle

\* A message becomes a task with no reply yet, or is answered at once in kind,
\* or asked for silence and gets it.
Outcome(m, n) ==
  \/ task' = Append(task, "before") /\ UNCHANGED replies
  \/ /\ task' = Append(task, "none") /\ ~Silent(m, mcp_only, tools)
     /\ \E r : /\ replies' = Append(replies, r) /\ r.by = n
               /\ Asks(m, mcp_only, tools) => r.envelope = Protocol(m) /\ r.to = n
  \/ task' = Append(task, "none") /\ UNCHANGED replies /\ Silent(m, mcp_only, tools)

\* A reply is sent with the envelope, the id and the message it is given.
LEMMA SendGives ==
  ASSUME NEW n, NEW e, NEW to, NEW f, R!Send(n, e, to, f)
  PROVE  \E r : replies' = Append(replies, r) /\ r.by = n /\ r.envelope = e /\ r.to = to
<1>1. PICK r : r = [by |-> n, envelope |-> e, to |-> to, frame |-> f]
  OBVIOUS
<1>2. r.by = n /\ r.envelope = e /\ r.to = to
  BY <1>1
<1>3. replies' = Append(replies, r)
  BY <1>1 DEF R!Send, R!Reply
<1>4. QED
  BY <1>2, <1>3

\* handle_message answers a message at once, starts one task for it, or stays
\* silent.
LEMMA ReceiveGives ==
  ASSUME NEW m \in R!Messages, R!Receive(m)
  PROVE  Outcome(m, Len(got) + 1)
<1>1. PICK n : n = Len(got) + 1
  OBVIOUS
<1> SUFFICES Outcome(m, n)
  BY <1>1
<1>2. \/ R!McpFrame(m, n) \/ R!NotMcp(m, n) \/ R!Garbage(m, n) \/ R!Legacy(m, n) \/ R!PingPong(m, n)
  BY <1>1 DEF R!Receive
<1>3. ASSUME NEW e, NEW to, NEW f, R!Keep, R!Send(n, e, to, f), ~Silent(m, mcp_only, tools),
             Asks(m, mcp_only, tools) => e = Protocol(m) /\ to = n
      PROVE  Outcome(m, n)
  <2>1. PICK r : replies' = Append(replies, r) /\ r.by = n /\ r.envelope = e /\ r.to = to
    BY <1>3, SendGives
  <2>2. QED
    BY <1>3, <2>1 DEF Outcome, R!Keep
<1>4. ASSUME NEW e, NEW f, R!Start(n, e, f), ~Silent(m, mcp_only, tools), e = Protocol(m)
      PROVE  Outcome(m, n)
  <2>1. CASE R!Free
    BY <1>4, <2>1 DEF R!Start, Outcome
  <2>2. CASE ~R!Free
    <3>1. R!Keep /\ R!Send(n, e, n, [error |-> f])
      BY <1>4, <2>2 DEF R!Start, R!Keep
    <3>2. PICK g : g = [error |-> f]
      OBVIOUS
    <3>3. QED
      BY <1>3, <1>4, <3>1, <3>2
  <2>3. QED
    BY <2>1, <2>2
<1>5. CASE R!McpFrame(m, n)
  <2>1. tools # None /\ R!IsRpc(m) /\ ~R!IsControl(m) /\ ~R!IsLegacy(m) /\ Protocol(m) = "rpc"
    BY <1>5, MessageKinds DEF R!McpFrame, Protocol
  <2>2. CASE /\ m.rpc = "invalid" /\ R!Keep /\ R!Send(n, "rpc", None, [error |-> "INVALID_REQUEST"])
    <3>1. ~Silent(m, mcp_only, tools) /\ ~Asks(m, mcp_only, tools)
      BY <2>1, <2>2 DEF Silent, Asks
    <3>2. PICK e, g : e = "rpc" /\ g = [error |-> "INVALID_REQUEST"]
      OBVIOUS
    <3>3. R!Keep /\ R!Send(n, e, None, g)
      BY <2>2, <3>2
    <3>4. QED
      BY <1>3, <3>1, <3>3
  <2>3. CASE m.rpc = "request" /\ ~m.id /\ R!Keep /\ UNCHANGED replies
    BY <2>1, <2>3 DEF Outcome, Silent, R!Keep
  <2>4. CASE /\ m.rpc = "request" /\ m.id /\ R!Route(m, roles).action = "ignore"
             /\ R!Keep /\ UNCHANGED replies
    <3>1. m.method = "notifications/x"
      BY <2>1, <2>4, MessageKinds, RouteKinds
    <3>2. QED
      BY <2>1, <2>4, <3>1 DEF Outcome, Silent, R!Keep
  <2>5. CASE /\ m.rpc = "request" /\ m.id /\ R!Route(m, roles).action = "respond"
             /\ R!Keep /\ R!Send(n, "rpc", n, R!Route(m, roles).frame)
    <3>1. m.method # "notifications/x"
      BY <2>1, <2>5, MessageKinds, RouteKinds
    <3>2. ~Silent(m, mcp_only, tools)
      BY <2>1, <2>5, <3>1 DEF Silent
    <3>3. PICK e, g : e = "rpc" /\ g = R!Route(m, roles).frame
      OBVIOUS
    <3>4. R!Keep /\ R!Send(n, e, n, g) /\ e = Protocol(m)
      BY <2>1, <2>5, <3>3
    <3>5. QED
      BY <1>3, <3>2, <3>4
  <2>6. CASE /\ m.rpc = "request" /\ m.id /\ R!Route(m, roles).action = "call"
             /\ R!Start(n, "rpc", "server busy")
    <3>1. m.method # "notifications/x"
      BY <2>1, <2>6, MessageKinds, RouteKinds
    <3>2. ~Silent(m, mcp_only, tools)
      BY <2>1, <2>6, <3>1 DEF Silent
    <3>3. PICK e, g : e = "rpc" /\ g = "server busy"
      OBVIOUS
    <3>4. R!Start(n, e, g) /\ e = Protocol(m)
      BY <2>1, <2>6, <3>3
    <3>5. QED
      BY <1>4, <3>2, <3>4
  <2>7. QED
    BY <1>5, <2>2, <2>3, <2>4, <2>5, <2>6 DEF R!McpFrame
<1>6. CASE R!NotMcp(m, n)
  <2>1. ~Silent(m, mcp_only, tools) /\ ~Asks(m, mcp_only, tools)
    BY <1>6 DEF R!NotMcp, Silent, Asks
  <2>2. R!Keep /\ R!Send(n, "rpc", None, [error |-> "INVALID_REQUEST"])
    BY <1>6 DEF R!NotMcp
  <2>3. PICK e, to, g : e = "rpc" /\ to = None /\ g = [error |-> "INVALID_REQUEST"]
    OBVIOUS
  <2>4. R!Send(n, e, to, g)
    BY <2>2, <2>3
  <2>5. QED
    BY <1>3, <2>1, <2>2, <2>4
<1>7. CASE R!Garbage(m, n)
  <2>1. ~Silent(m, mcp_only, tools) /\ ~Asks(m, mcp_only, tools)
    BY <1>7 DEF R!Garbage, Silent, Asks
  <2>2. R!Keep /\ R!Send(n, "legacy", 0, [error |-> "BAD_REQUEST"])
    BY <1>7 DEF R!Garbage
  <2>3. PICK e, to, g : e = "legacy" /\ to = 0 /\ g = [error |-> "BAD_REQUEST"]
    OBVIOUS
  <2>4. R!Send(n, e, to, g)
    BY <2>2, <2>3
  <2>5. QED
    BY <1>3, <2>1, <2>2, <2>4
<1>8. CASE R!Legacy(m, n)
  <2>1. ~Silent(m, mcp_only, tools) /\ Protocol(m) = "legacy"
    BY <1>8, MessageKinds DEF R!Legacy, Silent, Protocol
  <2>2. \/ R!Keep /\ R!Send(n, "legacy", n, [error |-> "NOT_IMPLEMENTED"])
        \/ R!Keep /\ R!Send(n, "legacy", n, [error |-> "FORBIDDEN"])
        \/ R!Start(n, "legacy", "TOO_MANY_REQUESTS")
    BY <1>8 DEF R!Legacy
  <2>3. PICK e, f, g, h : /\ e = "legacy" /\ f = "TOO_MANY_REQUESTS"
                          /\ g = [error |-> "NOT_IMPLEMENTED"] /\ h = [error |-> "FORBIDDEN"]
    OBVIOUS
  <2>4. \/ R!Keep /\ R!Send(n, e, n, g)
        \/ R!Keep /\ R!Send(n, e, n, h)
        \/ R!Start(n, e, f)
    BY <2>2, <2>3
  <2>5. e = Protocol(m)
    BY <2>1, <2>3
  <2>6. QED
    BY <1>3, <1>4, <2>1, <2>4, <2>5
<1>9. CASE R!PingPong(m, n)
  BY <1>9 DEF R!PingPong, R!Keep, Outcome, Silent
<1>10. QED
  BY <1>2, <1>5, <1>6, <1>7, <1>8, <1>9

\* What a sequence with one more element holds, and where.
LEMMA Appended ==
  ASSUME NEW S, NEW s \in Seq(S), NEW x
  PROVE  /\ Append(s, x) \in Seq(S \cup {x}) /\ Len(Append(s, x)) = Len(s) + 1
         /\ Append(s, x)[Len(s) + 1] = x /\ \A i \in 1..Len(s) : Append(s, x)[i] = s[i]
<1>1. PICK T : T = S \cup {x}
  OBVIOUS
<1>2. s \in Seq(T) /\ x \in T
  BY <1>1
<1>3. QED
  BY <1>1, <1>2, AppendProperties

\* One more message, which becomes a task or asked for silence.
LEMMA ExactReceived ==
  ASSUME NEW M, NEW g \in Seq(M), NEW k \in Seq(TaskStates), Len(k) = Len(g), NEW T, NEW p \in Seq(T),
         NEW o, NEW ts, Exact(g, k, p, o, ts),
         NEW m, NEW x \in {"before", "none"}, x = "none" => Silent(m, o, ts)
  PROVE  Exact(Append(g, m), Append(k, x), p, o, ts)
<1>1. PICK g2, k2 : g2 = Append(g, m) /\ k2 = Append(k, x)
  OBVIOUS
<1>2. PICK n \in Nat, l \in Nat : n = Len(g) /\ l = Len(p)
  OBVIOUS
<1>3. Len(g2) = n + 1 /\ g2[n + 1] = m /\ \A i \in 1..n : g2[i] = g[i]
  BY <1>1, <1>2, Appended
<1>4. k2[n + 1] = x /\ \A i \in 1..n : k2[i] = k[i]
  BY <1>1, <1>2, Appended
<1>5. \A i \in 1..l : p[i].by \in 1..n /\ p[i].by \in 1..(n + 1) /\ p[i].by # n + 1
  BY <1>2 DEF Exact, Suits
<1>6. \A i \in 1..l : Suits(p[i], g2, o, ts)
  BY <1>2, <1>3, <1>5 DEF Exact, Suits
<1>7. \A i \in 1..l : k2[p[i].by] \notin {"before", "handler"}
  BY <1>2, <1>4, <1>5 DEF Exact
<1>8. ASSUME NEW j \in 1..(n + 1), k2[j] = "none"
      PROVE  Silent(g2[j], o, ts) <=> \A i \in 1..l : p[i].by # j
  <2>1. CASE j \in 1..n
    BY <1>2, <1>3, <1>4, <1>8, <2>1 DEF Exact
  <2>2. CASE j = n + 1
    BY <1>3, <1>4, <1>5, <1>8, <2>2
  <2>3. QED
    BY <2>1, <2>2
<1>9. Exact(g2, k2, p, o, ts)
  BY <1>2, <1>3, <1>6, <1>7, <1>8 DEF Exact
<1>10. QED
  BY <1>1, <1>9

\* One more reply to a message that has none.
LEMMA ExactReplied ==
  ASSUME NEW g, NEW k, NEW T, NEW p \in Seq(T), NEW o, NEW ts, Exact(g, k, p, o, ts),
         NEW r, Suits(r, g, o, ts), \A i \in 1..Len(p) : p[i].by # r.by, k[r.by] \notin {"none", "before", "handler"}
  PROVE  Exact(g, k, Append(p, r), o, ts)
<1>1. PICK p2 : p2 = Append(p, r)
  OBVIOUS
<1>2. PICK l \in Nat : l = Len(p)
  OBVIOUS
<1>3. Len(p2) = l + 1 /\ p2[l + 1] = r /\ \A i \in 1..l : p2[i] = p[i]
  BY <1>1, <1>2, Appended
<1>4. \A i \in 1..(l + 1) : i \in 1..l \/ i = l + 1
  OBVIOUS
<1>5. \A i \in 1..(l + 1) : Suits(p2[i], g, o, ts)
  BY <1>2, <1>3, <1>4 DEF Exact
<1>6. ASSUME NEW i \in 1..(l + 1), NEW j \in 1..(l + 1), p2[i].by = p2[j].by
      PROVE  i = j
  <2>1. CASE i \in 1..l /\ j \in 1..l
    BY <1>2, <1>3, <1>6, <2>1 DEF Exact
  <2>2. CASE i \in 1..l /\ j = l + 1
    BY <1>2, <1>3, <1>6, <2>2
  <2>3. CASE j \in 1..l /\ i = l + 1
    BY <1>2, <1>3, <1>6, <2>3
  <2>4. QED
    BY <1>4, <2>1, <2>2, <2>3
<1>7. \A i \in 1..(l + 1) : k[p2[i].by] \notin {"before", "handler"}
  BY <1>2, <1>3, <1>4 DEF Exact
<1>8. ASSUME NEW n \in 1..Len(g), k[n] = "none"
      PROVE  Silent(g[n], o, ts) <=> \A i \in 1..(l + 1) : p2[i].by # n
  <2>1. r.by # n
    BY <1>8
  <2>2. (\A i \in 1..(l + 1) : p2[i].by # n) <=> \A i \in 1..l : p[i].by # n
    BY <1>2, <1>3, <1>4, <2>1
  <2>3. QED
    BY <1>2, <1>8, <2>2 DEF Exact
<1>9. Exact(g, k, p2, o, ts)
  BY <1>3, <1>5, <1>6, <1>7, <1>8 DEF Exact
<1>10. QED
  BY <1>1, <1>9

\* Tasks that move on, none back to where it has not answered.
LEMMA ExactMoved ==
  ASSUME NEW g, NEW k, NEW p, NEW o, NEW ts, Exact(g, k, p, o, ts), NEW k2,
         \A j \in 1..Len(g) : \/ k2[j] = k[j]
                              \/ /\ k[j] # "none" /\ k2[j] # "none"
                                 /\ k2[j] \in {"before", "handler"} => k[j] \in {"before", "handler"}
  PROVE  Exact(g, k2, p, o, ts)
<1>1. \A i \in 1..Len(p) : p[i].by \in 1..Len(g)
  BY DEF Exact, Suits
<1>2. QED
  BY <1>1 DEF Exact

\* One more message, answered at once.
LEMMA ExactAnswered ==
  ASSUME NEW M, NEW g \in Seq(M), NEW k \in Seq(TaskStates), Len(k) = Len(g), NEW T, NEW p \in Seq(T),
         NEW o, NEW ts, Exact(g, k, p, o, ts), NEW m, ~Silent(m, o, ts),
         NEW r, r.by = Len(g) + 1, Asks(m, o, ts) => r.envelope = Protocol(m) /\ r.to = Len(g) + 1
  PROVE  Exact(Append(g, m), Append(k, "none"), Append(p, r), o, ts)
<1>1. PICK g2, kb, kd, kn, p2 : /\ g2 = Append(g, m) /\ p2 = Append(p, r) /\ kn = Append(k, "none")
                                /\ kb = Append(k, "before") /\ kd = Append(k, "done")
  OBVIOUS
<1>2. PICK n \in Nat, l \in Nat : n = Len(g) /\ l = Len(p)
  OBVIOUS
<1>3. Len(g2) = n + 1 /\ g2[n + 1] = m /\ \A i \in 1..n : g2[i] = g[i]
  BY <1>1, <1>2, Appended
<1>4. /\ kb[n + 1] = "before" /\ kd[n + 1] = "done" /\ kn[n + 1] = "none"
      /\ \A i \in 1..n : kb[i] = k[i] /\ kd[i] = k[i] /\ kn[i] = k[i]
  BY <1>1, <1>2, Appended
<1>5. Len(p2) = l + 1 /\ p2[l + 1] = r
  BY <1>1, <1>2, Appended
<1>6. \A i \in 1..(n + 1) : i \in 1..n \/ i = n + 1
  OBVIOUS
<1>7. Exact(g2, kb, p, o, ts)
  <2>1. PICK x \in {"before", "none"} : x = "before"
    OBVIOUS
  <2>2. Exact(Append(g, m), Append(k, x), p, o, ts)
    BY <2>1, ExactReceived
  <2>3. QED
    BY <1>1, <2>1, <2>2
<1>8. Exact(g2, kd, p, o, ts)
  <2>1. \A j \in 1..Len(g2) : \/ kd[j] = kb[j]
                              \/ /\ kb[j] # "none" /\ kd[j] # "none"
                                 /\ kd[j] \in {"before", "handler"} => kb[j] \in {"before", "handler"}
    BY <1>3, <1>4, <1>6
  <2>2. QED
    BY <1>7, <2>1, ExactMoved
<1>9. Exact(g2, kd, p2, o, ts)
  <2>1. Suits(r, g2, o, ts)
    BY <1>2, <1>3 DEF Suits
  <2>2. \A i \in 1..Len(p) : p[i].by # r.by
    <3>1. \A i \in 1..Len(p) : p[i].by \in 1..n
      BY <1>2 DEF Exact, Suits
    <3>2. QED
      BY <1>2, <3>1
  <2>3. kd[r.by] \notin {"none", "before", "handler"}
    BY <1>2, <1>4
  <2>4. Exact(g2, kd, Append(p, r), o, ts)
    BY <1>8, <2>1, <2>2, <2>3, ExactReplied
  <2>5. QED
    BY <1>1, <2>4
<1>10. Exact(g2, kn, p2, o, ts)
  <2>1. \A i \in 1..Len(p2) : p2[i].by \in 1..(n + 1)
    BY <1>3, <1>9 DEF Exact, Suits
  <2>2. \A i \in 1..Len(p2) : kn[p2[i].by] \notin {"before", "handler"}
    <3> TAKE i \in 1..Len(p2)
    <3>1. PICK b \in 1..(n + 1) : b = p2[i].by
      BY <2>1
    <3>2. kd[b] \notin {"before", "handler"}
      BY <1>9, <3>1 DEF Exact
    <3>3. kn[b] = kd[b] \/ kn[b] = "none"
      BY <1>4, <1>6
    <3>4. QED
      BY <3>1, <3>2, <3>3
  <2>3. ASSUME NEW j \in 1..(n + 1), kn[j] = "none"
        PROVE  Silent(g2[j], o, ts) <=> \A i \in 1..Len(p2) : p2[i].by # j
    <3>1. CASE j \in 1..n
      BY <1>3, <1>4, <1>9, <2>3, <3>1 DEF Exact
    <3>2. CASE j = n + 1
      <4>1. ~Silent(g2[j], o, ts)
        BY <1>3, <3>2
      <4>2. l + 1 \in 1..Len(p2) /\ p2[l + 1].by = j
        BY <1>2, <1>5, <3>2
      <4>3. QED
        BY <4>1, <4>2
    <3>3. QED
      BY <1>6, <3>1, <3>2
  <2>4. QED
    BY <1>3, <1>9, <2>2, <2>3 DEF Exact
<1>11. QED
  BY <1>1, <1>10

\* A message gets its place among the messages and the tasks.
LEMMA ReceiveKeeps ==
  ASSUME AnswersInv, NEW m \in R!Messages, R!Receive(m)
  PROVE  AnswersInv'
<1>1. PICK g \in Seq(R!Messages), k \in Seq(TaskStates) : g = got /\ k = task
  BY DEF AnswersInv
<1>2. PICK T : replies \in Seq(T)
  BY DEF AnswersInv
<1>3. PICK p \in Seq(T) : p = replies
  BY <1>2
<1>3a. PICK o, ts : o = mcp_only /\ ts = tools
  OBVIOUS
<1>4. Len(k) = Len(g) /\ Exact(g, k, p, o, ts)
  BY <1>1, <1>3, <1>3a DEF AnswersInv
<1>5. got' = Append(g, m) /\ stage' = "serving" /\ mcp_only' = o /\ tools' = ts
  BY <1>1, <1>3, <1>3a DEF R!Receive
<1>6. Append(g, m) \in Seq(R!Messages) /\ Len(Append(g, m)) = Len(g) + 1
  OBVIOUS
<1>7. ASSUME NEW x \in TaskStates, task' = Append(k, x), NEW q, replies' = q, \E S : q \in Seq(S),
             Exact(Append(g, m), Append(k, x), q, o, ts)
      PROVE  AnswersInv'
  <2>1. Append(k, x) \in Seq(TaskStates) /\ Len(Append(k, x)) = Len(k) + 1
    BY <1>7
  <2>2. QED
    BY <1>4, <1>5, <1>6, <1>7, <2>1 DEF AnswersInv
<1>8. PICK n : n = Len(g) + 1
  OBVIOUS
<1>9. Outcome(m, n)
  BY <1>1, <1>8, ReceiveGives
<1>10. ASSUME NEW x \in {"before", "none"}, task' = Append(k, x), replies' = p, x = "none" => Silent(m, o, ts)
       PROVE  AnswersInv'
  <2>1. Exact(Append(g, m), Append(k, x), p, o, ts)
    BY <1>4, <1>10, ExactReceived
  <2>2. x \in TaskStates /\ \E S : p \in Seq(S)
    BY DEF TaskStates
  <2>3. QED
    BY <1>7, <1>10, <2>1, <2>2
<1>11. ASSUME NEW r, task' = Append(k, "none"), replies' = Append(p, r), ~Silent(m, o, ts), r.by = n,
              Asks(m, o, ts) => r.envelope = Protocol(m) /\ r.to = n
       PROVE  AnswersInv'
  <2>1. Exact(Append(g, m), Append(k, "none"), Append(p, r), o, ts)
    BY <1>4, <1>8, <1>11, ExactAnswered
  <2>2. \E S : Append(p, r) \in Seq(S)
    BY Appended
  <2>3. PICK x \in TaskStates : x = "none"
    BY DEF TaskStates
  <2>4. PICK q : q = Append(p, r)
    OBVIOUS
  <2>5. QED
    BY <1>7, <1>11, <2>1, <2>2, <2>3, <2>4
<1>12. \/ task' = Append(k, "before") /\ replies' = p
       \/ /\ task' = Append(k, "none") /\ ~Silent(m, o, ts)
          /\ \E r : /\ replies' = Append(p, r) /\ r.by = n
                    /\ Asks(m, o, ts) => r.envelope = Protocol(m) /\ r.to = n
       \/ task' = Append(k, "none") /\ replies' = p /\ Silent(m, o, ts)
  BY <1>1, <1>3, <1>3a, <1>9 DEF Outcome
<1>13. QED
  BY <1>10, <1>11, <1>12

\* A task moves on, with a reply or without.
LEMMA MoveKeeps ==
  ASSUME AnswersInv, NEW n \in DOMAIN task, task[n] # "none", NEW to \in {"handler", "after", "done"},
         R!Move(n, to), to = "handler" => task[n] = "before", UNCHANGED R!kept,
         \/ UNCHANGED replies
         \/ /\ task[n] \in {"before", "handler"} /\ to # "handler"
            /\ \E f : R!Send(n, R!Envelope(n), n, f)
  PROVE  AnswersInv'
<1>1. PICK g \in Seq(R!Messages), k \in Seq(TaskStates) : g = got /\ k = task
  BY DEF AnswersInv
<1>2. PICK T : replies \in Seq(T)
  BY DEF AnswersInv
<1>3. PICK p \in Seq(T) : p = replies
  BY <1>2
<1>3a. PICK o, ts : o = mcp_only /\ ts = tools
  OBVIOUS
<1>4. Len(k) = Len(g) /\ Exact(g, k, p, o, ts) /\ n \in 1..Len(g) /\ n \in DOMAIN k
  BY <1>1, <1>3, <1>3a DEF AnswersInv
<1>5. UNCHANGED <<stage, got>> /\ got' = g /\ mcp_only' = o /\ tools' = ts
  BY <1>1, <1>3, <1>3a DEF R!kept
<1>6. PICK k2 : k2 = [k EXCEPT ![n] = to]
  OBVIOUS
<1>7. /\ task' = k2 /\ k2 \in Seq(TaskStates) /\ Len(k2) = Len(k)
      /\ k2[n] = to /\ \A j \in 1..Len(k) : j # n => k2[j] = k[j]
  BY <1>1, <1>4, <1>6 DEF R!Move, TaskStates
<1>8. Exact(g, k2, p, o, ts)
  <2>1. \A j \in 1..Len(g) : \/ k2[j] = k[j]
                             \/ /\ k[j] # "none" /\ k2[j] # "none"
                                /\ k2[j] \in {"before", "handler"} => k[j] \in {"before", "handler"}
    BY <1>1, <1>4, <1>7
  <2>2. QED
    BY <1>4, <2>1, ExactMoved
<1>9. CASE UNCHANGED replies
  BY <1>3, <1>3a, <1>4, <1>5, <1>7, <1>8, <1>9 DEF AnswersInv
<1>10. CASE task[n] \in {"before", "handler"} /\ to # "handler" /\ \E f : R!Send(n, R!Envelope(n), n, f)
  <2>1. PICK e : e = R!Envelope(n)
    OBVIOUS
  <2>2. PICK r : replies' = Append(replies, r) /\ r.by = n /\ r.envelope = e /\ r.to = n
    BY <1>10, <2>1, SendGives
  <2>3. e = Protocol(g[n])
    BY <1>1, <2>1 DEF R!Envelope, Protocol
  <2>4. Suits(r, g, o, ts)
    BY <1>4, <2>2, <2>3 DEF Suits
  <2>5. \A i \in 1..Len(p) : p[i].by # r.by
    <3>1. \A i \in 1..Len(p) : k[p[i].by] \notin {"before", "handler"}
      BY <1>4 DEF Exact
    <3>2. QED
      BY <1>1, <1>10, <2>2, <3>1
  <2>6. k2[r.by] \notin {"none", "before", "handler"}
    BY <1>7, <1>10, <2>2
  <2>7. Exact(g, k2, Append(p, r), o, ts)
    BY <1>8, <2>4, <2>5, <2>6, ExactReplied
  <2>8. \E S : Append(p, r) \in Seq(S)
    BY Appended
  <2>9. QED
    BY <1>3, <1>3a, <1>4, <1>5, <1>7, <2>2, <2>7, <2>8 DEF AnswersInv
<1>11. QED
  BY <1>9, <1>10

\* Every step keeps what each message has been told.
LEMMA AnswersInvKept ==
  AnswersInv /\ (R!Next \/ UNCHANGED request_vars) => AnswersInv'
<1> SUFFICES ASSUME AnswersInv, R!Next \/ UNCHANGED request_vars PROVE AnswersInv'
  OBVIOUS
<1>1. CASE UNCHANGED <<mcp_only, tools, got, task, replies>> /\ stage' \in {stage, "serving"}
  BY <1>1 DEF AnswersInv
<1>2. CASE R!EnableMcp
  <2>1. stage = "setup" /\ UNCHANGED <<stage, mcp_only, got, task, replies>> /\ got = <<>>
    BY <1>2 DEF R!EnableMcp, AnswersInv
  <2>2. Len(got) = 0 /\ 1..Len(got) = {}
    BY <2>1
  <2>3. PICK T : replies \in Seq(T)
    BY DEF AnswersInv
  <2>4. PICK l \in Nat : l = Len(replies)
    BY <2>3
  <2>5. \A i \in 1..l : FALSE
    BY <2>2, <2>4 DEF AnswersInv, Exact, Suits
  <2>6. PICK g, k, p, o, ts : g = got /\ k = task /\ p = replies /\ o = mcp_only /\ ts = tools'
    OBVIOUS
  <2>7. Exact(g, k, p, o, ts)
    BY <2>2, <2>4, <2>5, <2>6 DEF Exact
  <2>8. QED
    BY <2>1, <2>6, <2>7 DEF AnswersInv
<1>3. CASE R!Close
  <2>1. PICK k \in Seq(TaskStates) : k = task
    BY DEF AnswersInv
  <2>1a. PICK k2, g, p, o, ts :
           k2 = task' /\ g = got /\ p = replies /\ o = mcp_only /\ ts = tools
    OBVIOUS
  <2>2. k2 = [n \in DOMAIN k |-> IF k[n] \in {"before", "handler", "after"} THEN "dropped" ELSE k[n]]
    BY <1>3, <2>1, <2>1a DEF R!Close, R!Live
  <2>3. k2 \in Seq(TaskStates) /\ Len(k2) = Len(k)
    BY <2>2 DEF TaskStates
  <2>4. Len(k) = Len(g) /\ Exact(g, k, p, o, ts)
    BY <2>1, <2>1a DEF AnswersInv
  <2>5. \A j \in 1..Len(g) : \/ k2[j] = k[j]
                             \/ /\ k[j] # "none" /\ k2[j] # "none"
                                /\ k2[j] \in {"before", "handler"} => k[j] \in {"before", "handler"}
    BY <2>2, <2>4
  <2>6. Exact(g, k2, p, o, ts)
    BY <2>4, <2>5, ExactMoved
  <2>7. stage' = "ended" /\ UNCHANGED <<mcp_only, tools, got, replies>>
    BY <1>3 DEF R!Close
  <2>8. QED
    BY <2>1, <2>1a, <2>3, <2>4, <2>6, <2>7 DEF AnswersInv
<1>4. ASSUME NEW n \in DOMAIN task,
             R!BeforePasses(n) \/ R!BeforeRejects(n) \/ R!AfterReturns(n) \/ R!Expire(n)
               \/ \E o \in R!Outcomes : R!Handled(n, o)
      PROVE  AnswersInv'
  <2>1. CASE R!BeforePasses(n)
    <3>1. task[n] = "before" /\ R!Move(n, "handler") /\ UNCHANGED replies /\ UNCHANGED R!kept
      BY <2>1 DEF R!BeforePasses, R!kept
    <3>2. PICK to \in {"handler", "after", "done"} : to = "handler"
      OBVIOUS
    <3>3. QED
      BY <3>1, <3>2, MoveKeeps
  <2>2. CASE R!BeforeRejects(n)
    <3>1. /\ task[n] = "before" /\ R!Move(n, "after") /\ UNCHANGED R!kept
          /\ \E f : R!Send(n, R!Envelope(n), n, f)
      BY <2>2 DEF R!BeforeRejects
    <3>2. PICK to \in {"handler", "after", "done"} : to = "after"
      OBVIOUS
    <3>3. QED
      BY <3>1, <3>2, MoveKeeps
  <2>3. CASE R!AfterReturns(n)
    <3>1. task[n] = "after" /\ R!Move(n, "done") /\ UNCHANGED replies /\ UNCHANGED R!kept
      BY <2>3 DEF R!AfterReturns, R!kept
    <3>2. PICK to \in {"handler", "after", "done"} : to = "done"
      OBVIOUS
    <3>3. QED
      BY <3>1, <3>2, MoveKeeps
  <2>4. CASE R!Expire(n)
    <3>1. /\ task[n] \in {"before", "handler", "after"} /\ R!Move(n, "done") /\ UNCHANGED R!kept
          /\ \/ UNCHANGED replies
             \/ task[n] # "after" /\ \E f : R!Send(n, R!Envelope(n), n, f)
      BY <2>4 DEF R!Expire, R!Live
    <3>2. PICK to \in {"handler", "after", "done"} : to = "done"
      OBVIOUS
    <3>3. QED
      BY <3>1, <3>2, MoveKeeps
  <2>5. ASSUME NEW o \in R!Outcomes, R!Handled(n, o) PROVE AnswersInv'
    <3>1. /\ task[n] = "handler" /\ R!Move(n, "after") /\ UNCHANGED R!kept
          /\ UNCHANGED replies \/ \E f : R!Send(n, R!Envelope(n), n, f)
      BY <2>5 DEF R!Handled
    <3>2. PICK to \in {"handler", "after", "done"} : to = "after"
      OBVIOUS
    <3>3. QED
      BY <3>1, <3>2, MoveKeeps
  <2>6. QED
    BY <1>4, <2>1, <2>2, <2>3, <2>4, <2>5
<1>5. QED
  <2>1. R!Serve \/ (\E e \in Endpoints : R!AddHandler(e)) \/ (\E rs \in RoleSets : R!SetRoles(rs))
          \/ UNCHANGED request_vars => AnswersInv'
    BY <1>1 DEF R!Serve, R!AddHandler, R!SetRoles, request_vars
  <2>2. \A m \in R!Messages : R!Receive(m) => AnswersInv'
    BY ReceiveKeeps
  <2>3. QED
    BY <1>2, <1>3, <1>4, <2>1, <2>2 DEF R!Next

\* The counting of the instance is that of this module.
LEMMA SameCount == \A S : R!Cardinality(S) = Cardinality(S)
  BY DEF R!Cardinality, Cardinality, R!IsFiniteSet, IsFiniteSet

\* The invariant says that every message is answered in kind and none waits.
LEMMA AnswersInvExact == AnswersInv => R!AnsweredInKind /\ R!NoneLeftWaiting
<1> SUFFICES ASSUME AnswersInv PROVE R!AnsweredInKind /\ R!NoneLeftWaiting
  OBVIOUS
<1>1. PICK T : replies \in Seq(T)
  BY DEF AnswersInv
<1>2. DOMAIN replies = 1..Len(replies) /\ DOMAIN got = 1..Len(got)
  BY <1>1 DEF AnswersInv
<1>3. ASSUME NEW n \in DOMAIN got PROVE R!Cardinality(R!RepliesTo(n)) <= 1
  <2>1. \A i, j \in R!RepliesTo(n) : i = j
    BY <1>2 DEF AnswersInv, Exact, R!RepliesTo
  <2>2. CASE R!RepliesTo(n) = {}
    BY <2>2, SameCount, FS_EmptySet
  <2>3. CASE R!RepliesTo(n) # {}
    <3>1. PICK i : R!RepliesTo(n) = {i}
      BY <2>1, <2>3
    <3>2. Cardinality({i}) = 1
      BY FS_Singleton
    <3>3. QED
      BY <3>1, <3>2, SameCount
  <2>4. QED
    BY <2>2, <2>3
<1>4. ASSUME NEW n \in DOMAIN got, R!Addressed(n), NEW i \in R!RepliesTo(n)
      PROVE  replies[i].envelope = R!Envelope(n) /\ replies[i].to = n
  <2>1. i \in 1..Len(replies) /\ replies[i].by = n
    BY <1>2 DEF R!RepliesTo
  <2>2. Suits(replies[i], got, mcp_only, tools)
    BY <2>1 DEF AnswersInv, Exact
  <2>3. Asks(got[n], mcp_only, tools)
    BY <1>4 DEF R!Addressed, Asks
  <2>4. QED
    BY <2>1, <2>2, <2>3 DEF Suits, Protocol, R!Envelope
<1>5. ASSUME NEW n \in DOMAIN got, task[n] = "none"
      PROVE  R!RepliesTo(n) = {} <=> Silent(got[n], mcp_only, tools)
  <2>1. Silent(got[n], mcp_only, tools) <=> \A i \in 1..Len(replies) : replies[i].by # n
    BY <1>2, <1>5 DEF AnswersInv, Exact
  <2>2. QED
    BY <1>2, <2>1 DEF R!RepliesTo
<1>6. R!AnsweredInKind
  BY <1>3, <1>4 DEF R!AnsweredInKind
<1>7. R!NoneLeftWaiting
  BY <1>5 DEF R!NoneLeftWaiting, Silent
<1>8. QED
  BY <1>6, <1>7

\* handle_message, handle_mcp_frame, the hooks, the handlers and request_timeout:
\* however many messages of whatever kinds and however many tasks race, a message
\* is answered at most once, a request in its own protocol under its own id, and
\* what never became a task is answered exactly unless it asked for silence.
THEOREM AnswersAreExact == AllSpec => []AnswersExact
<1>1. AllInit => AnswersInv
  <2> SUFFICES ASSUME R!Init PROVE AnswersInv
    BY DEF AllInit
  <2>1. got = <<>> /\ task = <<>> /\ replies = <<>>
    BY DEF R!Init
  <2>2. PICK g, k, p, o, ts : g = <<>> /\ k = <<>> /\ p = <<>> /\ o = mcp_only /\ ts = tools
    OBVIOUS
  <2>3. Exact(g, k, p, o, ts)
    BY <2>2 DEF Exact
  <2>4. QED
    BY <2>1, <2>2, <2>3 DEF AnswersInv
<1>2. AnswersInv /\ [AllNext]_everything => AnswersInv'
  <2>1. [AllNext]_everything => R!Next \/ UNCHANGED request_vars
    BY DEF AllNext, everything, machines
  <2>2. QED
    BY <2>1, AnswersInvKept
<1>3. AnswersInv => AnswersExact
  BY AnswersInvExact DEF AnswersExact
<1>4. QED
  BY <1>1, <1>2, <1>3, PTL DEF AllSpec, everything
-----------------------------------------------------------------------------
(* The auth header *)

\* The token of parameter k, the method being parameter 0, and whether it is sent.
Token(name, values, k) == IF k = 0 THEN <<0, [lower |-> name]>> ELSE <<k, A!EncodeValue(values[k])>>
Sent(values, k) == k = 0 \/ values[k] # A!Null

\* s holds the tokens of the parameters up to i that are sent, and no other.
Encoded(s, name, values, i) ==
  /\ \A a \in 1..Len(s) : \E k \in 0..i : Sent(values, k) /\ s[a] = Token(name, values, k)
  /\ \A k \in 0..i : Sent(values, k) => \E a \in 1..Len(s) : s[a] = Token(name, values, k)

Added(values, i) == IF values[i] = A!Null THEN <<>>
                    ELSE <<A!Digits(i) \o <<A!EncodeValue(values[i])>> >>

\* What encode_header has after each parameter.
Partial(name, values) ==
  CHOOSE t : t = [i \in 0..Len(values) |->
                    IF i = 0 THEN << <<0, [lower |-> name]>> >> ELSE t[i - 1] \o Added(values, i)]

\* Two sequences of one element make a pair.
LEMMA PairJoined ==
  ASSUME NEW x, NEW y
  PROVE  <<x>> \o <<y>> = <<x, y>>
<1>1. PICK S : x \in S /\ y \in S
  <2>1. x \in {x, y} /\ y \in {x, y}
    OBVIOUS
  <2>2. QED
    BY <2>1
<1>2. <<x>> \in Seq(S) /\ <<y>> \in Seq(S) /\ <<x, y>> \in Seq(S)
  BY <1>1
<1>3. PICK u : u = <<x>> \o <<y>>
  OBVIOUS
<1>4. u \in Seq(S) /\ Len(u) = 2 /\ u[1] = x /\ u[2] = y
  BY <1>2, <1>3
<1>5. PICK v : v = <<x, y>>
  OBVIOUS
<1>6. v \in Seq(S) /\ Len(v) = 2 /\ v[1] = x /\ v[2] = y
  BY <1>2, <1>5
<1>7. \A i \in 1..2 : i = 1 \/ i = 2
  OBVIOUS
<1>8. u = v
  BY <1>4, <1>6, <1>7, SeqEqual
<1>9. QED
  BY <1>3, <1>5, <1>8

\* One digit is enough for nine parameters.
LEMMA AddedIs ==
  ASSUME NEW values, NEW i \in 1..9, NEW name
  PROVE  Added(values, i) = IF Sent(values, i) THEN <<Token(name, values, i)>> ELSE <<>>
<1>1. A!Digits(i) = <<i>>
  BY DEF A!Digits
<1>2. PICK u : u = A!EncodeValue(values[i])
  OBVIOUS
<1>3. <<i>> \o <<u>> = <<i, u>>
  BY PairJoined
<1>4. QED
  BY <1>1, <1>2, <1>3 DEF Added, Sent, Token

\* encode_header gives the name and then one token per parameter, in order.
LEMMA EncodeHeaderIs ==
  ASSUME NEW name, NEW values, Len(values) \in 0..9
  PROVE  \E s, T : /\ s = A!EncodeHeader(name, values) /\ s \in Seq(T)
                  /\ Encoded(s, name, values, Len(values))
<1>1. PICK n \in Nat : n = Len(values) /\ n <= 9
  <2>1. PICK l : l = Len(values)
    OBVIOUS
  <2>2. l \in 0..9
    BY <2>1
  <2>3. QED
    BY <2>1, <2>2
<1>2. PICK T : T = {Token(name, values, k) : k \in 0..n}
  OBVIOUS
<1>3. \A k \in 0..n : Token(name, values, k) \in T
  BY <1>2
<1>4. PICK add : add = [i \in 1..n |-> [x \in Seq(T) |-> x \o Added(values, i)]]
  OBVIOUS
<1>5. \A i \in 1..n : i \in 1..9 /\ Added(values, i) \in Seq(T)
  <2> TAKE i \in 1..n
  <2>1. i \in 1..9 /\ i \in 0..n
    BY <1>1
  <2>2. PICK t \in T : t = Token(name, values, i)
    BY <1>3, <2>1
  <2>3. <<t>> \in Seq(T) /\ <<>> \in Seq(T)
    OBVIOUS
  <2>4. QED
    BY <2>1, <2>2, <2>3, AddedIs
<1>6. \A i \in 1..n : add[i] \in [Seq(T) -> Seq(T)]
  <2> TAKE i \in 1..n
  <2>1. PICK y \in Seq(T) : y = Added(values, i)
    BY <1>5
  <2>2. add[i] = [x \in Seq(T) |-> x \o y]
    BY <1>4, <2>1
  <2>3. \A x \in Seq(T) : x \o y \in Seq(T)
    OBVIOUS
  <2>4. QED
    BY <2>2, <2>3
<1>7. PICK m \in T : m = <<0, [lower |-> name]>>
  <2>1. 0 \in 0..n
    OBVIOUS
  <2>2. Token(name, values, 0) \in T
    BY <1>3, <2>1
  <2>3. Token(name, values, 0) = <<0, [lower |-> name]>>
    BY DEF Token
  <2>4. QED
    BY <2>2, <2>3
<1>8. PICK g : g \in [0..n -> Seq(T)] /\ g[0] = <<m>> /\ \A i \in 1..n : g[i] = add[i][g[i - 1]]
  <2>1. PICK S, a : S = Seq(T) /\ a = <<m>>
    OBVIOUS
  <2>2. a \in S /\ Steps(n, S, add)
    BY <1>6, <2>1 DEF Steps
  <2>3. \E g : Built(g, n, S, a, add)
    BY <2>2, Iterated
  <2>4. QED
    BY <2>1, <2>3 DEF Built
<1>9. \A i \in 1..n : g[i] = g[i - 1] \o Added(values, i)
  <2> TAKE i \in 1..n
  <2>1. i - 1 \in 0..n
    OBVIOUS
  <2>2. PICK x \in Seq(T) : x = g[i - 1]
    BY <1>8, <2>1
  <2>3. add[i] = [z \in Seq(T) |-> z \o Added(values, i)]
    BY <1>4
  <2>4. add[i][x] = x \o Added(values, i)
    BY <2>3
  <2>5. QED
    BY <1>8, <2>2, <2>4
<1>10. g = [i \in 0..n |-> IF i = 0 THEN << <<0, [lower |-> name]>> >> ELSE g[i - 1] \o Added(values, i)]
  <2>1. PICK e : e = << <<0, [lower |-> name]>> >>
    OBVIOUS
  <2>2. g[0] = e
    BY <1>7, <1>8, <2>1
  <2>3. PICK q : q = [i \in 0..n |-> IF i = 0 THEN e ELSE g[i - 1] \o Added(values, i)]
    OBVIOUS
  <2>4. \A i \in 0..n : q[i] = g[i]
    <3> TAKE i \in 0..n
    <3>1. CASE i = 0
      BY <2>2, <2>3, <3>1
    <3>2. CASE i # 0
      <4>1. i \in 1..n
        BY <3>2
      <4>2. q[i] = g[i - 1] \o Added(values, i)
        BY <2>3, <3>2
      <4>3. QED
        BY <1>9, <4>1, <4>2
    <3>3. QED
      BY <3>1, <3>2
  <2>5. q = g
    <3>1. DOMAIN q = 0..n /\ DOMAIN g = 0..n /\ q = [i \in 0..n |-> q[i]] /\ g = [i \in 0..n |-> g[i]]
      BY <1>8, <2>3
    <3>2. QED
      BY <2>4, <3>1
  <2>6. QED
    BY <2>1, <2>3, <2>5
<1>11. PICK t : t = Partial(name, values)
  OBVIOUS
<1>12. t = [i \in 0..n |-> IF i = 0 THEN << <<0, [lower |-> name]>> >> ELSE t[i - 1] \o Added(values, i)]
  BY <1>1, <1>10, <1>11 DEF Partial
<1>13. t[0] = <<m>> /\ \A i \in 1..n : t[i] = t[i - 1] \o Added(values, i)
  <2>1. PICK e : e = << <<0, [lower |-> name]>> >>
    OBVIOUS
  <2>2. t = [i \in 0..n |-> IF i = 0 THEN e ELSE t[i - 1] \o Added(values, i)]
    BY <1>12, <2>1
  <2>3. t[0] = e
    BY <2>2
  <2>4. \A i \in 1..n : t[i] = t[i - 1] \o Added(values, i)
    <3> TAKE i \in 1..n
    <3>1. i \in 0..n /\ i # 0
      OBVIOUS
    <3>2. t[i] = IF i = 0 THEN e ELSE t[i - 1] \o Added(values, i)
      BY <2>2, <3>1, Zenon
    <3>3. QED
      BY <3>1, <3>2
  <2>5. QED
    BY <1>7, <2>1, <2>3, <2>4
<1> DEFINE D == {i \in 0..n : t[i] \in Seq(T) /\ Encoded(t[i], name, values, i)}
<1>14. 0 \in D
  <2>1. PICK s \in Seq(T) : s = t[0] /\ Len(s) = 1 /\ s[1] = m
    <3>1. <<m>> \in Seq(T) /\ Len(<<m>>) = 1 /\ <<m>>[1] = m
      OBVIOUS
    <3>2. QED
      BY <1>13, <3>1
  <2>2. Sent(values, 0) /\ m = Token(name, values, 0)
    BY <1>7 DEF Sent, Token
  <2>3. Encoded(s, name, values, 0)
    BY <2>1, <2>2 DEF Encoded
  <2>4. QED
    BY <2>1, <2>3
<1>15. ASSUME NEW i \in 1..n, i - 1 \in D PROVE i \in D
  <2>1. PICK s \in Seq(T) : s = t[i - 1] /\ Encoded(s, name, values, i - 1)
    BY <1>15
  <2>2. PICK y \in Seq(T) : y = Added(values, i)
    BY <1>5
  <2>3. t[i] = s \o y
    BY <1>13, <2>1, <2>2
  <2>4. Encoded(s \o y, name, values, i)
    <3>1. CASE ~Sent(values, i)
      <4>1. y = <<>>
        BY <1>5, <2>2, <3>1, AddedIs
      <4>2. s \o y = s
        BY <4>1
      <4>3. \A k \in 0..i : Sent(values, k) => k \in 0..(i - 1)
        BY <3>1
      <4>4. Encoded(s, name, values, i)
        BY <2>1, <4>3 DEF Encoded
      <4>5. QED
        BY <4>2, <4>4
    <3>2. CASE Sent(values, i)
      <4>1. PICK z \in T : z = Token(name, values, i)
        BY <1>3
      <4>2. y = <<z>>
        BY <1>5, <2>2, <3>2, <4>1, AddedIs
      <4>3. PICK u \in Seq(T), l \in Nat :
               /\ u = s \o y /\ l = Len(s) /\ Len(u) = l + 1 /\ u[l + 1] = z
               /\ \A a \in 1..l : u[a] = s[a]
        <5>1. PICK l \in Nat : l = Len(s)
          OBVIOUS
        <5>2. PICK u : u = s \o <<z>>
          OBVIOUS
        <5>3. u \in Seq(T) /\ Len(u) = l + 1 /\ u[l + 1] = z /\ \A a \in 1..l : u[a] = s[a]
          BY <5>1, <5>2
        <5>4. QED
          BY <4>2, <5>1, <5>2, <5>3
      <4>4. \A a \in 1..(l + 1) : \E k \in 0..i : Sent(values, k) /\ u[a] = Token(name, values, k)
        <5> TAKE a \in 1..(l + 1)
        <5>1. CASE a = l + 1
          BY <3>2, <4>1, <4>3, <5>1
        <5>2. CASE a # l + 1
          <6>1. a \in 1..Len(s) /\ u[a] = s[a]
            BY <4>3, <5>2
          <6>2. PICK k \in 0..(i - 1) : Sent(values, k) /\ s[a] = Token(name, values, k)
            BY <2>1, <6>1 DEF Encoded
          <6>3. k \in 0..i
            OBVIOUS
          <6>4. QED
            BY <6>1, <6>2, <6>3
        <5>3. QED
          BY <5>1, <5>2
      <4>5. \A k \in 0..i : Sent(values, k) => \E a \in 1..(l + 1) : u[a] = Token(name, values, k)
        <5> SUFFICES ASSUME NEW k \in 0..i, Sent(values, k)
                     PROVE  \E a \in 1..(l + 1) : u[a] = Token(name, values, k)
          OBVIOUS
        <5>1. CASE k = i
          BY <4>1, <4>3, <5>1
        <5>2. CASE k # i
          <6>1. k \in 0..(i - 1)
            BY <5>2
          <6>2. PICK a \in 1..Len(s) : s[a] = Token(name, values, k)
            BY <2>1, <6>1 DEF Encoded
          <6>3. a \in 1..(l + 1) /\ u[a] = s[a]
            BY <4>3
          <6>4. QED
            BY <6>2, <6>3
        <5>3. QED
          BY <5>1, <5>2
      <4>6. QED
        BY <4>3, <4>4, <4>5 DEF Encoded
    <3>3. QED
      BY <3>1, <3>2
  <2>5. s \o y \in Seq(T)
    OBVIOUS
  <2>6. t[i] \in Seq(T) /\ Encoded(t[i], name, values, i)
    BY <2>3, <2>4, <2>5
  <2>7. QED
    BY <2>6
<1> HIDE DEF D
<1>16. \A i \in 0..n : i \in D
  BY <1>14, <1>15, UpTo
<1>17. n \in D
  BY <1>16
<1>18. A!EncodeHeader(name, values) = t[n]
  BY <1>1, <1>11 DEF A!EncodeHeader, Partial, Added
<1>19. QED
  BY <1>1, <1>17, <1>18 DEF D

\* The key and the value parse_protocol_header finds in a token.
LEMMA TokenIs ==
  ASSUME NEW name, NEW values, NEW k \in Nat
  PROVE  /\ A!Key(Token(name, values, k)) = k
         /\ Tail(Token(name, values, k)) = IF k = 0 THEN << [lower |-> name] >> ELSE <<A!EncodeValue(values[k])>>
<1>1. PICK x : x = IF k = 0 THEN [lower |-> name] ELSE A!EncodeValue(values[k])
  OBVIOUS
<1>2. Token(name, values, k) = <<k, x>>
  BY <1>1 DEF Token
<1>3. \A a, b : Head(<<a, b>>) = a /\ Tail(<<a, b>>) = <<b>>
  OBVIOUS
<1>4. Head(<<k, x>>) = k /\ Tail(<<k, x>>) = <<x>>
  BY <1>3, Zenon
<1>5. QED
  BY <1>1, <1>2, <1>4 DEF A!Key

ParsedAs(splits, name, values, n) ==
  /\ DOMAIN splits = {k \in 0..n : Sent(values, k)}
  /\ \A k \in 0..n : Sent(values, k) => splits[k] = Tail(Token(name, values, k))

\* What parse_protocol_header makes of the tokens of encode_header.
LEMMA ParsedIs ==
  ASSUME NEW name, NEW values, NEW n \in Nat, NEW T, NEW s \in Seq(T), Encoded(s, name, values, n)
  PROVE  ParsedAs(A!ParseProtocolHeader(s), name, values, n)
<1>1. PICK l \in Nat : l = Len(s) /\ DOMAIN s = 1..l
  OBVIOUS
<1>2. \A a \in 1..l : \E k \in 0..n : Sent(values, k) /\ s[a] = Token(name, values, k) /\ A!Key(s[a]) = k
  <2> TAKE a \in 1..l
  <2>1. PICK k \in 0..n : Sent(values, k) /\ s[a] = Token(name, values, k)
    BY <1>1 DEF Encoded
  <2>2. A!Key(s[a]) = k
    BY <2>1, TokenIs
  <2>3. QED
    BY <2>1, <2>2
<1>3. \A k \in 0..n : Sent(values, k) => \E a \in 1..l : A!Key(s[a]) = k
  <2> SUFFICES ASSUME NEW k \in 0..n, Sent(values, k) PROVE \E a \in 1..l : A!Key(s[a]) = k
    OBVIOUS
  <2>1. PICK a \in 1..l : s[a] = Token(name, values, k)
    BY <1>1 DEF Encoded
  <2>2. A!Key(s[a]) = k
    BY <2>1, TokenIs
  <2>3. QED
    BY <2>2
<1> DEFINE last(k) == CHOOSE i \in DOMAIN s : /\ A!Key(s[i]) = k
                                              /\ \A j \in DOMAIN s : A!Key(s[j]) = k => j <= i
           keys == {A!Key(s[i]) : i \in DOMAIN s}
<1>4. A!ParseProtocolHeader(s) = [k \in keys |-> Tail(s[last(k)])]
  BY DEF A!ParseProtocolHeader
<1>5. keys = {k \in 0..n : Sent(values, k)}
  BY <1>1, <1>2, <1>3
<1>6. ASSUME NEW k \in 0..n, Sent(values, k)
      PROVE  Tail(s[last(k)]) = Tail(Token(name, values, k))
  <2> DEFINE S == {a \in 1..l : A!Key(s[a]) = k}
  <2>1. S \subseteq 0..l /\ S # {}
    BY <1>3, <1>6
  <2>2. PICK m \in S : \A j \in S : j <= m
    <3> HIDE DEF S
    <3>1. QED
      BY <2>1, LastPlace
  <2>3. \E i \in DOMAIN s : A!Key(s[i]) = k /\ \A j \in DOMAIN s : A!Key(s[j]) = k => j <= i
    BY <1>1, <2>2
  <2>4. last(k) \in DOMAIN s /\ A!Key(s[last(k)]) = k
    BY <2>3
  <2>5. PICK a \in 1..l : a = last(k) /\ A!Key(s[a]) = k
    BY <1>1, <2>4
  <2>6. PICK i \in 0..n : s[a] = Token(name, values, i) /\ A!Key(s[a]) = i
    BY <1>2
  <2>7. QED
    BY <2>5, <2>6
<1> HIDE DEF last, keys
<1>7. QED
  BY <1>4, <1>5, <1>6 DEF ParsedAs

\* A value that is sent arrives as one of its parameter, and as it was exactly
\* when JSON has nothing to escape in it.
LEMMA ValueRoundTrip ==
  ASSUME NEW h \in Headers, NEW i \in DOMAIN h.types, i \in Nat, h.types[i].base \in A!Supported,
         h.values[i] # A!Null
  PROVE  LET p == A!ParseTy(h.types[i], <<A!EncodeValue(h.values[i])>>)
         IN /\ p \in A!Values /\ p # None /\ p.of = i
            /\ h.values[i].class \in {"plain", "special"} <=> p = h.values[i]
<1>1. PICK c : /\ h.values[i] = A!Value(i, c)
               /\ c \in {"plain", "special", "quoted", "backslash"}
               /\ h.types[i].base # "String" => c = "plain"
  BY HeadersAssumption
<1>2. PICK v, b : v = A!Value(i, c) /\ v = h.values[i] /\ b = h.types[i].base
  BY <1>1
<1>3. v = [of |-> i, class |-> c, escaped |-> FALSE]
  BY <1>2 DEF A!Value
<1>4. PICK k : /\ A!JsonText(v) = [of |-> i, class |-> k, escaped |-> FALSE]
               /\ k \in A!Classes /\ (c \in {"plain", "special"} => k = c)
               /\ c \notin {"plain", "special"} => k # c
  <2>1. PICK k : k = IF c = "quoted" THEN "stripped" ELSE IF c = "backslash" THEN "doubled" ELSE c
    OBVIOUS
  <2>2. k \in A!Classes /\ (c \in {"plain", "special"} => k = c) /\ (c \notin {"plain", "special"} => k # c)
    <3>1. CASE c \in {"plain", "special"}
      BY <2>1, <3>1 DEF A!Classes
    <3>2. CASE c = "quoted"
      BY <2>1, <3>2 DEF A!Classes
    <3>3. CASE c = "backslash"
      BY <2>1, <3>3 DEF A!Classes
    <3>4. QED
      BY <1>1, <3>1, <3>2, <3>3
  <2>3. A!JsonText(v) = [v EXCEPT !.class = k]
    BY <1>3, <2>1 DEF A!JsonText
  <2>4. QED
    BY <1>3, <2>2, <2>3
<1>5. PICK u, e : /\ u = A!EncodeValue(v) /\ u = [of |-> i, class |-> k, escaped |-> e]
                  /\ e \in BOOLEAN /\ (c = "plain" => e = FALSE)
  <2>1. PICK e \in BOOLEAN : e = (k # "plain")
    OBVIOUS
  <2>2. A!EncodeValue(v) = [of |-> i, class |-> k, escaped |-> e]
    BY <1>4, <2>1 DEF A!EncodeValue, A!UrlEncode
  <2>3. QED
    BY <1>4, <2>1, <2>2
<1>6. A!UrlDecode(u) = [of |-> i, class |-> k, escaped |-> FALSE]
  <2>1. \A x, y, z, f : [[of |-> x, class |-> y, escaped |-> z] EXCEPT !.escaped = f]
                        = [of |-> x, class |-> y, escaped |-> f]
    OBVIOUS
  <2>2. u = [of |-> i, class |-> k, escaped |-> e]
    BY <1>5
  <2>3. A!UrlDecode(u) = [u EXCEPT !.escaped = FALSE]
    BY DEF A!UrlDecode
  <2>4. QED
    BY <2>1, <2>2, <2>3, Zenon
<1>7. Len(<<u>>) = 1 /\ <<u>>[1] = u
  OBVIOUS
<1>8. A!ParseTy(h.types[i], <<u>>) = [of |-> i, class |-> k, escaped |-> FALSE]
  <2>1. CASE b = "String"
    BY <1>2, <1>6, <1>7, <2>1 DEF A!ParseTy, A!Supported
  <2>2. CASE b # "String"
    <3>1. c = "plain" /\ e = FALSE /\ b \in {"Int64", "Boolean", "Enum"}
      BY <1>1, <1>2, <1>5, <2>2 DEF A!Supported
    <3>2. A!ParseTy(h.types[i], <<u>>) = u
      BY <1>2, <1>7, <3>1 DEF A!ParseTy, A!Supported
    <3>3. QED
      BY <1>5, <3>1, <3>2
  <2>3. QED
    BY <2>1, <2>2
<1>9. PICK p : p = [of |-> i, class |-> k, escaped |-> FALSE]
  OBVIOUS
<1>10. p \in A!Values /\ p.of = i /\ p.class = k
  BY <1>4, <1>9 DEF A!Values
<1>11. v.class = c /\ (p = v => k = c) /\ (k = c => p = v)
  BY <1>3, <1>9, <1>10
<1>12. p # None
  BY <1>10, HeadersAssumption
<1>13. h.values[i].class \in {"plain", "special"} <=> p = h.values[i]
  BY <1>2, <1>4, <1>11
<1>14. A!ParseTy(h.types[i], <<A!EncodeValue(h.values[i])>>) = p
  BY <1>2, <1>5, <1>8, <1>9
<1>15. QED
  BY <1>10, <1>12, <1>13, <1>14

\* Every header of the assumption arrives.
LEMMA HeaderHolds ==
  ASSUME NEW h \in Headers, NEW name
  PROVE  A!HeaderRoundTrip(name, h.types, h.values)
<1> DEFINE Arrives(i, p) == /\ p \in A!Values /\ p # None /\ p.of = i
                            /\ h.values[i].class \in {"plain", "special"} <=> p = h.values[i]
<1> SUFFICES ASSUME Len(h.types) <= 9,
                    \A i \in DOMAIN h.types : h.types[i].base \in A!Supported
             PROVE  LET taken == A!Auth({name}, h.types, A!EncodeHeader(name, h.values))
                    IN /\ taken \in [{i \in DOMAIN h.types : h.values[i] # A!Null} -> A!Values]
                       /\ \A i \in DOMAIN taken : Arrives(i, taken[i])
  BY DEF A!HeaderRoundTrip
<1> HIDE DEF Arrives
<1>0. PICK Ty : h.types \in Seq(Ty)
  BY HeadersAssumption
<1>1. PICK ts \in Seq(Ty) : ts = h.types
  BY <1>0
<1>1a. PICK vs : vs = h.values /\ DOMAIN vs = DOMAIN ts
  BY <1>1, HeadersAssumption
<1>2. PICK n \in Nat : n = Len(ts) /\ DOMAIN ts = 1..n /\ Len(vs) = n /\ n <= 9
  BY <1>1, <1>1a
<1>3. PICK s, T : s = A!EncodeHeader(name, vs) /\ s \in Seq(T) /\ Encoded(s, name, vs, n)
  <2>1. Len(vs) \in 0..9
    <3>1. n <= 9 /\ Len(vs) = n
      BY <1>2
    <3>2. n \in 0..9
      BY <3>1
    <3>3. QED
      BY <3>1, <3>2, Zenon
  <2>2. PICK s, T : s = A!EncodeHeader(name, vs) /\ s \in Seq(T) /\ Encoded(s, name, vs, Len(vs))
    BY <2>1, EncodeHeaderIs
  <2>3. QED
    BY <1>2, <2>2
<1>4. PICK splits : splits = A!ParseProtocolHeader(s) /\ ParsedAs(splits, name, vs, n)
  <2>1. s \in Seq(T) /\ Encoded(s, name, vs, n)
    BY <1>3
  <2>2. ParsedAs(A!ParseProtocolHeader(s), name, vs, n)
    BY <2>1, ParsedIs
  <2>3. QED
    BY <2>2
<1>5. /\ DOMAIN splits = {k \in 0..n : Sent(vs, k)}
      /\ \A k \in 0..n : Sent(vs, k) => splits[k] = Tail(Token(name, vs, k))
  BY <1>4 DEF ParsedAs
<1>6. 0 \in DOMAIN splits /\ splits[0][1].lower = name
  <2>1. 0 \in 0..n /\ Sent(vs, 0)
    BY DEF Sent
  <2>2. splits[0] = << [lower |-> name] >>
    BY <1>5, <2>1, TokenIs
  <2>3. QED
    BY <1>5, <2>1, <2>2
<1>7. PICK G : G = {j \in 1..n : vs[j] # A!Null}
  OBVIOUS
<1>8. {i \in DOMAIN ts : i \in DOMAIN splits} = G
  <2>1. \A i \in 1..n : i \in 0..n /\ i # 0
    OBVIOUS
  <2>2. QED
    BY <1>2, <1>5, <1>7, <2>1 DEF Sent
<1>9. \A i \in G : Arrives(i, A!ParseTy(ts[i], splits[i]))
  <2> TAKE i \in G
  <2>1. i \in 1..n /\ i \in 0..n /\ i # 0 /\ vs[i] # A!Null
    BY <1>7
  <2>2. splits[i] = <<A!EncodeValue(vs[i])>>
    <3>1. splits[i] = Tail(Token(name, vs, i))
      BY <1>5, <2>1 DEF Sent
    <3>2. QED
      BY <2>1, <3>1, TokenIs
  <2>3. i \in DOMAIN h.types
    BY <1>1, <1>1a, <1>2, <2>1
  <2>4. Arrives(i, A!ParseTy(h.types[i], <<A!EncodeValue(h.values[i])>>))
    <3>1. i \in Nat /\ h.types[i].base \in A!Supported /\ h.values[i] # A!Null
      BY <1>1, <1>1a, <2>1, <2>3
    <3>2. QED
      BY <2>3, <3>1, ValueRoundTrip DEF Arrives
  <2>5. QED
    BY <1>1, <1>1a, <2>2, <2>4
<1>10. \A i \in DOMAIN ts : i \notin G => ts[i].optional
  <2> SUFFICES ASSUME NEW i \in DOMAIN h.types, h.values[i] = A!Null PROVE h.types[i].optional
    BY <1>1, <1>1a, <1>2, <1>7
  <2>1. \A c : h.values[i] # A!Value(i, c) \/ c = "null"
    BY DEF A!Null, A!Value
  <2>2. QED
    BY <2>1, HeadersAssumption
<1>11. PICK parsed : parsed = [i \in G |-> A!ParseTy(ts[i], splits[i])]
  OBVIOUS
<1>12. /\ \A i \in G : parsed[i] \in A!Values /\ parsed[i] # None /\ Arrives(i, parsed[i])
       /\ DOMAIN parsed = G /\ parsed = [i \in G |-> parsed[i]]
  <2>1. DOMAIN parsed = G /\ \A i \in G : parsed[i] = A!ParseTy(ts[i], splits[i])
    BY <1>11
  <2>2. \A i \in G : Arrives(i, parsed[i])
    BY <1>9, <2>1
  <2>3. QED
    BY <1>11, <2>1, <2>2 DEF Arrives
<1>13. A!Auth({name}, ts, s) = parsed
  <2>1. A!Auth({name}, ts, s) =
          IF \/ 0 \notin DOMAIN splits
             \/ splits[0][1].lower \notin {name}
             \/ \E i \in DOMAIN ts : i \notin G /\ ~ts[i].optional
             \/ \E i \in G : parsed[i] = None
          THEN None ELSE parsed
    BY <1>4, <1>8, <1>11 DEF A!Auth
  <2>2. QED
    BY <1>6, <1>10, <1>12, <2>1
<1>14. QED
  <2>1. G = {i \in DOMAIN h.types : h.values[i] # A!Null}
    BY <1>1, <1>1a, <1>2, <1>7
  <2>2. A!Auth({name}, h.types, A!EncodeHeader(name, h.values)) = parsed
    BY <1>1, <1>1a, <1>3, <1>13
  <2>3. parsed \in [G -> A!Values]
    BY <1>12
  <2>4. QED
    BY <1>12, <2>1, <2>2, <2>3

\* What a client puts in the Sec-WebSocket-Protocol header arrives at the auth
\* endpoint: whatever up to nine parameters of supported types hold, none is lost,
\* moved to another or taken for the method, and those arrive unchanged in which
\* JSON has no quote, backslash or control character to escape.
THEOREM HeadersRoundTrip == AllSpec => []HeaderRoundTrip
<1>1. AllInit => (part = "header" => input \in Headers)
  BY DEF AllInit, Inputs
<1>2. (part = "header" => input \in Headers) /\ [AllNext]_everything
        => (part = "header" => input \in Headers)'
  BY DEF AllNext, everything
<1>3. (part = "header" => input \in Headers) => HeaderRoundTrip
  BY HeaderHolds DEF HeaderRoundTrip
<1>4. QED
  BY <1>1, <1>2, <1>3, PTL DEF AllSpec, everything
================================================================================
