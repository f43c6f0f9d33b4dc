----------------------------- MODULE CallGraph -----------------------------
(***************************************************************************)
(* The code graph over GDScript (Graph in graph.py, the body scans and     *)
(* scene wiring of extractors/gdscript.py): classes that extend each       *)
(* other, a scan that turns call sites into edges, roots and names kept    *)
(* alive, the reachability walk from the entry points, the dead rows it    *)
(* leaves, and the impact walk over the same edges.                        *)
(*                                                                         *)
(* A file is one class with a class_name; it extends another file or the   *)
(* engine.  A site names a method: bare, on a receiver of known class, on  *)
(* a receiver of unknown class, as a handler to connect (by reference or   *)
(* as a string), as a handler a scene connects to its script, or as the    *)
(* load of a whole script; or it accesses a member of a known class, which *)
(* an emitted signal of one's own class is, too.                           *)
(***************************************************************************)
EXTENDS Integers, FiniteSets

CONSTANTS Files,
          Methods,   \* names of ordinary methods
          Members,   \* names of member variables and signals
          MaxSites,  \* bound: sites of a program
          MaxEntries,\* bound: classes with an entry point
          MaxDepth,  \* IMPACT_MAX_DEPTH (8)
          MaxHits,   \* seeds a symbol resolves to at most (10)
          NULL

Entry  == "_ready"                  \* one of VIRTUALS, which the engine calls
Engine == "Node"                    \* a base outside the project
Names  == Methods \cup {Entry}
Key    == Files \X Names
Scene  == <<"scene", "tscn">>       \* a scene's pseudo-key
Star   == "*"                       \* the file of a wildcard handler reference
N      == Cardinality(Files)

\* What the edges end in and the walk enters: methods, the VAR: and SIGNAL:
\* pseudo-keys of members, wildcards.
Node   == Key \cup (Files \X Members) \cup ({Star} \X Methods)

ASSUME CallGraphAssumption ==
  /\ IsFiniteSet(Files) /\ IsFiniteSet(Methods) /\ IsFiniteSet(Members)
  /\ {Engine, Star, "scene", NULL} \cap Files = {}
  /\ Entry \notin Methods /\ Members \cap (Methods \cup {Entry}) = {}
  /\ {MaxSites, MaxEntries} \subseteq Nat /\ {MaxDepth, MaxHits} \subseteq Nat \ {0}

VARIABLES
  extends,    \* the program: each class's base,
  funcs,      \* its methods,
  spelt,      \* how their names are spelt: _on_..., three letters or fewer, or neither
  sites,      \* and its sites, those scanned so far
  phase,      \* scan, reach, built
  edges,      \* Graph.edges (Graph.reverse is its inverse)
  roots,      \* Graph.roots
  referenced, \* Graph.referenced
  names,      \* Graph.referenced_names
  queue, seen \* _reachable

program == <<extends, funcs, spelt, sites>>
graph   == <<edges, roots, referenced, names>>
vars    == <<program, phase, graph, queue, seen>>

Defined == {k \in Key : k[2] \in funcs[k[1]]}

Site(kind, at, cls, name) == [kind |-> kind, at |-> at, cls |-> cls, name |-> name]
Sites ==
  {Site(kind, k, NULL, m) : kind \in {"bare", "unknown", "connect", "string"},
                            k \in Defined, m \in Methods}
  \cup {Site("member", k, c, v) : k \in Defined, c \in Files, v \in Members}
  \cup {Site("typed", k, c, m) : k \in Defined, c \in Files, m \in Methods}
  \cup {Site("load", k, c, NULL) : k \in Defined, c \in Files}
  \cup {Site("scene", Scene, c, m) : c \in Files, m \in Methods}

TypeOK ==
  /\ extends \in [Files -> Files \cup {Engine}] /\ funcs \in [Files -> SUBSET Names]
  /\ spelt \in [Methods -> {"handler", "short", "plain"}]
  /\ sites \subseteq Sites /\ phase \in {"scan", "reach", "built"}
  /\ edges \subseteq (Key \cup {Scene}) \X Node
  /\ roots \subseteq Key /\ referenced \subseteq Node /\ names \subseteq Methods
  /\ queue \subseteq seen /\ seen \subseteq Node

-----------------------------------------------------------------------------
\* The i-th class up the extends chain of each file.
Up[i \in 0..N] ==
  [f \in Files |-> IF i = 0 THEN f
                   ELSE LET u == Up[i - 1][f] IN IF u = Engine THEN Engine ELSE extends[u]]

\* _ancestor_def: the nearest class above f that declares n, if any.
AncestorDef(f, n) ==
  LET Declares(i) == Up[i][f] # Engine /\ n \in funcs[Up[i][f]]
  IN  {Up[i][f] : i \in {j \in 1..N : Declares(j) /\ \A h \in 1..(j - 1) : ~Declares(h)}}

\* Mutant of Subclasses: the map is not transitive.
SubclassesDirect(b) == {f \in Files : extends[f] = b}

\* build_inheritance: the classes at any distance below b.
Subclasses(b) == {f \in Files : \E i \in 1..N : Up[i][f] = b}

\* _emit_call: the method and every override below it.
Overrides(b, n) == {<<s, n>> : s \in {f \in Subclasses(b) : n \in funcs[f]}}
EmitCall(dst, n) == {<<dst, n>>} \cup Overrides(dst, n)

\* The edges of one site (_scan_calls, _scan_chains, _scan_signals,
\* wire_tscn).
Handler(s) == LET f == s.at[1]
              IN IF s.name \in funcs[f] THEN {<<f, s.name>>}
                 ELSE {<<a, s.name>> : a \in AncestorDef(f, s.name)}

Targets(s) ==
  CASE s.kind = "bare" ->
         IF s.name \in funcs[s.at[1]] THEN EmitCall(s.at[1], s.name)
         ELSE (UNION {EmitCall(a, s.name) : a \in AncestorDef(s.at[1], s.name)})
              \cup Overrides(s.at[1], s.name)
    [] s.kind = "typed" ->
         IF s.name \in funcs[s.cls] THEN EmitCall(s.cls, s.name) ELSE {}
    [] s.kind = "connect" -> Handler(s)
    [] s.kind = "string" -> {<<s.at[1], s.name>>} \cap Defined
    [] s.kind = "member" -> {<<s.cls, s.name>>}
    [] s.kind = "scene" -> {<<s.cls, s.name>>} \cap Defined
    [] OTHER -> {}

\* The names a site keeps alive wherever they are declared (_scan_calls,
\* _scan_liveness): the method of an unknown receiver, a bare _on_ name, and
\* every string of more than three letters, since a file that connects
\* dispatches dynamically.
KeptAlive(s) ==
  IF \/ s.kind = "unknown"
     \/ s.kind \in {"bare", "connect"} /\ spelt[s.name] = "handler"
     \/ s.kind = "string" /\ spelt[s.name] # "short"
  THEN {s.name} ELSE {}

\* What it keeps without an edge: the methods of a loaded script, and any
\* handler of the name when a connected string names none of its own class.
Refers(s) ==
  IF s.kind = "load" THEN {s.cls} \X funcs[s.cls]
  ELSE IF s.kind = "string" /\ spelt[s.name] = "handler" /\ Targets(s) = {}
       THEN {<<Star, s.name>>} ELSE {}

-----------------------------------------------------------------------------
\* scan_file and wire_tscn: the next site, whatever the author wrote.
Scan(s) ==
  /\ phase = "scan" /\ Cardinality(sites) < MaxSites
  /\ sites' = sites \cup {s}
  /\ edges' = edges \cup {<<s.at, t>> : t \in Targets(s) \ {s.at}}
  /\ roots' = IF s.kind \in {"connect", "string", "scene"} THEN roots \cup Targets(s)
              ELSE roots
  /\ names' = names \cup KeptAlive(s)
  /\ referenced' = referenced \cup Refers(s)
  /\ UNCHANGED <<extends, funcs, spelt, phase, queue, seen>>

\* _find_roots: the engine's virtuals; _reachable roots the names it must
\* keep alive, too.
EntryKeys == {k \in Defined : k[2] = Entry}
NamedKeys == {k \in Defined : k[2] \in names}

\* What the walk starts from.
Start == roots \cup EntryKeys \cup NamedKeys \cup referenced

FindRoots ==
  /\ phase = "scan"
  /\ roots' = roots \cup EntryKeys \cup NamedKeys
  /\ seen' = Start \cup referenced /\ queue' = Start
  /\ phase' = "reach"
  /\ UNCHANGED <<program, edges, referenced, names>>

Callees(k) == {t \in Node : <<k, t>> \in edges}

\* One turn of the worklist; a scene's pseudo-key is not entered.
Pop(k) ==
  /\ phase = "reach" /\ k \in queue
  /\ seen' = seen \cup Callees(k)
  /\ queue' = (queue \ {k}) \cup (Callees(k) \ seen)
  /\ UNCHANGED <<program, phase, graph>>

Reached ==
  /\ phase = "reach" /\ queue = {}
  /\ phase' = "built"
  /\ UNCHANGED <<program, graph, queue, seen>>

\* _dead_rows, of either tier.
DeadRows == {k \in Defined : /\ k \notin seen /\ k[2] \notin names
                             /\ <<Star, k[2]>> \notin referenced}

-----------------------------------------------------------------------------
(***************************************************************************)
(* impact: from the seeds a symbol resolves to, hop by hop against or      *)
(* along the edges, up to a depth.  The pseudo-keys of members count like  *)
(* methods.  (Left out: which of the answer are entry points.)             *)
(***************************************************************************)
\* _resolve: the methods of a name or of classes of that name, or else those
\* that have the symbol in their name; of too many, some.
Matches == {{k \in Defined : k[2] \in n} : n \in SUBSET Names}
           \cup {{k \in Defined : k[1] \in c \/ k[2] = n} :
                   c \in SUBSET Files, n \in Names \cup {NULL}}
Seeds == {H \in Matches : H # {} /\ Cardinality(H) <= MaxHits}
         \cup {S \in UNION {SUBSET H : H \in Matches} : Cardinality(S) = MaxHits}

\* A scene's pseudo-key is neither counted nor entered.
Hop(S, towards) ==
  Node \cap (IF towards = "callers" THEN {e[1] : e \in {x \in edges : x[2] \in S}}
                                    ELSE {e[2] : e \in {x \in edges : x[1] \in S}})

\* Mutant of Fresh: only the hop before counts as visited.
FreshSinceLast(visited, level, towards) == Hop(level, towards) \ level

\* The keys of the next hop.
Fresh(visited, level, towards) == Hop(level, towards) \ visited

\* The loop, to the depth the caller asked for or the first empty hop, and the
\* sum of the hops' sizes.
Loop(seeds, towards, depth) ==
  LET L[i \in 0..depth] ==
        IF i = 0 THEN [visited |-> seeds, level |-> seeds, total |-> 0]
        ELSE LET p == L[i - 1]
                 f == Fresh(p.visited, p.level, towards)
             IN  [visited |-> p.visited \cup f, level |-> f,
                  total |-> p.total + Cardinality(f)]
  IN  L

\* The answer: the hops, and what lies one further when the depth ran out.
Impact(seeds, towards, depth) ==
  LET L == Loop(seeds, towards, depth)
  IN  [byDepth |-> [i \in 1..depth |-> L[i].level],
       total   |-> L[depth].total,
       beyond  |-> IF L[depth].level = {} THEN 0
                   ELSE Cardinality(Hop(L[depth].level, towards) \ L[depth].visited)]

-----------------------------------------------------------------------------
Init ==
  /\ extends \in [Files -> Files \cup {Engine}]
  /\ \A f \in Files : Up[N][f] = Engine             \* no class extends itself
  /\ \E E \in SUBSET Files, d \in [Files -> SUBSET Methods] :
       /\ Cardinality(E) <= MaxEntries
       /\ funcs = [f \in Files |-> IF f \in E THEN d[f] \cup {Entry} ELSE d[f]]
  /\ spelt \in [Methods -> {"handler", "short", "plain"}]
  /\ sites = {} /\ phase = "scan"
  /\ edges = {} /\ roots = {} /\ referenced = {} /\ names = {}
  /\ queue = {} /\ seen = {}

Next ==
  \/ (\E s \in Sites : Scan(s)) \/ FindRoots
  \/ (\E k \in queue : Pop(k)) \/ Reached

Spec == Init /\ [][Next]_vars

-----------------------------------------------------------------------------
(***************************************************************************)
(* What GDScript does with a site: the runtime class of self, or of the    *)
(* receiver, is the static one or any below it, and the nearest definition *)
(* upwards from there runs.                                                *)
(***************************************************************************)
Lookup(d, n) ==
  LET Declares(i) == Up[i][d] # Engine /\ n \in funcs[Up[i][d]]
  IN  {<<Up[i][d], n>> : i \in {j \in 0..N : Declares(j) /\ \A h \in 0..(j - 1) : ~Declares(h)}}
Dispatch(c, n) == UNION {Lookup(d, n) : d \in {f \in Files : \E i \in 0..N : Up[i][f] = c}}

Runs(s) ==
  CASE s.kind \in {"bare", "connect", "string"} -> Dispatch(s.at[1], s.name)
    [] s.kind = "typed"   -> Dispatch(s.cls, s.name)
    [] s.kind = "scene"   -> {<<s.cls, s.name>>} \cap Defined
    [] s.kind = "unknown" -> {k \in Defined : k[2] = s.name}
    [] s.kind = "load"    -> {s.cls} \X funcs[s.cls]
    [] s.kind = "member"  -> {}

\* The sites the scan resolves: a receiver's class declares the method
\* itself; a connected handler has no override below, and its own class
\* declares one that is named by a string; or the name is kept alive.
Resolved(s) ==
  /\ s.kind = "typed" => s.name \in funcs[s.cls]
  /\ s.kind \in {"connect", "string"} /\ KeptAlive(s) = {} =>
       /\ Overrides(s.at[1], s.name) = {}
       /\ s.kind = "string" => s.name \in funcs[s.at[1]]

\* What the entry points and the scenes run, through a set S of sites.
RunBy(S) ==
  LET R[i \in 0..(2 * N)] ==
        IF i = 0 THEN EntryKeys \cup UNION {Runs(s) : s \in {t \in S : t.kind = "scene"}}
        ELSE LET p == R[i - 1]
             IN  p \cup UNION {Runs(s) : s \in {t \in S : t.at \in p}}
  IN  R[2 * N]

\* The keys i hops or fewer from the seeds.
Ball(seeds, towards) ==
  LET B[i \in 0..(MaxDepth + 1)] ==
        IF i = 0 THEN seeds ELSE LET p == B[i - 1] IN p \cup Hop(p, towards)
  IN  B

(***************************************************************************)
(* Properties.                                                             *)
(***************************************************************************)
\* _emit_call, _ancestor_def, build_inheritance, _reachable, _dead_rows: once
\* built, no method that the program runs through sites the scan resolves
\* is offered for deletion, however the classes extend and override.
RunsIsNotDead ==
  phase = "built" =>
    DeadRows \cap RunBy({s \in sites : Resolved(s)}) = {}

\* impact: the answer's hops are the exact distances from the seeds, however
\* many a symbol has, nobody is counted twice, a cut says how many the next
\* hop would add, and no cut is announced of a closure that is complete.
ImpactExact ==
  phase = "built" =>
    \A S \in Seeds, towards \in {"callers", "callees"}, depth \in 1..MaxDepth :
      LET B == Ball(S, towards)
          A == Impact(S, towards, depth)
      IN  /\ \A i \in 1..depth : A.byDepth[i] = B[i] \ B[i - 1]
          /\ A.total = Cardinality(B[depth]) - Cardinality(S)
          /\ A.beyond = Cardinality(B[depth + 1] \ B[depth])

-----------------------------------------------------------------------------
(***************************************************************************)
(* What the repository says and the code does not keep.                    *)
(***************************************************************************)
\* server.py: dead_code lists functions unreachable from any entry point.
DeadIsUnreachable == phase = "built" => DeadRows \cap RunBy(sites) = {}

\* Graph.impact: the answer is fn-level.
ImpactIsFnLevel ==
  phase = "built" =>
    \A S \in Seeds : \A i \in 1..MaxDepth :
      Impact(S, "callees", MaxDepth).byDepth[i] \subseteq Key
=============================================================================
