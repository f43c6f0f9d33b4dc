--------------------------- MODULE SnapshotProofs ---------------------------
(***************************************************************************)
(* Proofs about what is made of a snapshot: the code graph with its        *)
(* reachability and impact walks, the page that draws it, and the passes   *)
(* that make its clusters.  They share no state; each has its own part     *)
(* below.                                                                  *)
(***************************************************************************)
EXTENDS CallGraph, Page, Clusters, FiniteSetTheorems, SequenceTheorems,
        WellFoundedInduction, TLAPS

(***************************************************************************)
(* Induction over the naturals, stated over sets: a property of numbers is *)
(* the set of those that have it, so no step needs an operator for a       *)
(* parameter.  Well-foundedness of < gives a least number outside the set. *)
(***************************************************************************)
LEMMA LeastNatural ==
  ASSUME NEW T, T \subseteq Nat, T # {}
  PROVE  \E x \in T : \A y \in T : ~(y < x)
<1>1. PICK x \in T : \A y \in T : ~(<<y, x>> \in OpToRel(<, Nat))
  BY WFMin, NatLessThanWellFounded, Zenon
<1>2. \A y \in T : <<y, x>> \in OpToRel(<, Nat) <=> y < x
  BY DEF OpToRel
<1> QED
  BY <1>1, <1>2

\* The induction principle.
LEMMA Inductively ==
  ASSUME NEW T, 0 \in T, \A n \in Nat : n \in T => n + 1 \in T
  PROVE  Nat \subseteq T
<1> SUFFICES ASSUME Nat \ T # {} PROVE FALSE
  OBVIOUS
<1>1. PICK x \in Nat \ T : \A y \in Nat \ T : ~(y < x)
  BY LeastNatural
<1>2. x # 0 /\ x - 1 \in Nat /\ x - 1 < x
  OBVIOUS
<1> QED
  BY <1>1, <1>2

\* g is a row of values of D, the first s, each made from the one before by F.
Chain(g, D, s, F, m) ==
  /\ g \in [0..m -> D]
  /\ g[0] = s
  /\ \A i \in 1..m : g[i] = F[g[i - 1]]

LEMMA Chains ==
  ASSUME NEW D, NEW s \in D, NEW F \in [D -> D], NEW m \in Nat
  PROVE  \E g : Chain(g, D, s, F, m)
<1> DEFINE T == {n \in Nat : \E g : Chain(g, D, s, F, n)}
<1>1. 0 \in T
  <2>1. Chain([i \in 0..0 |-> s], D, s, F, 0)
    BY DEF Chain
  <2> QED  BY <2>1
<1>2. ASSUME NEW n \in Nat, n \in T PROVE n + 1 \in T
  <2>1. PICK g : Chain(g, D, s, F, n)
    BY <1>2
  <2> DEFINE h == [i \in 0..(n + 1) |-> IF i = n + 1 THEN F[g[n]] ELSE g[i]]
  <2>2. g[n] \in D /\ F[g[n]] \in D
    BY <2>1 DEF Chain
  <2>3. h \in [0..(n + 1) -> D]
    BY <2>1, <2>2 DEF Chain
  <2>4. h[0] = s
    BY <2>1 DEF Chain
  <2>5. ASSUME NEW i \in 1..(n + 1) PROVE h[i] = F[h[i - 1]]
    <3>1. CASE i = n + 1
      BY <3>1
    <3>2. CASE i # n + 1
      <4>1. i \in 1..n /\ h[i] = g[i] /\ h[i - 1] = g[i - 1]
        BY <3>2
      <4> QED  BY <2>1, <4>1 DEF Chain
    <3> QED  BY <3>1, <3>2
  <2> HIDE DEF h
  <2>6. Chain(h, D, s, F, n + 1)
    BY <2>3, <2>4, <2>5 DEF Chain
  <2> QED  BY <2>6
<1>3. m \in T
  <2> HIDE DEF T
  <2> QED  BY <1>1, <1>2, Inductively
<1> QED  BY <1>3

\* What holds of the first value and of each one after it holds of all.
LEMMA Along ==
  ASSUME NEW D, NEW U, NEW m \in Nat, U[0] \in D, \A i \in 1..m : U[i - 1] \in D => U[i] \in D
  PROVE  \A i \in 0..m : U[i] \in D
<1> DEFINE T == {n \in Nat : n <= m => U[n] \in D}
<1>1. 0 \in T
  OBVIOUS
<1>2. ASSUME NEW n \in Nat, n \in T PROVE n + 1 \in T
  <2> SUFFICES ASSUME n + 1 <= m PROVE U[n + 1] \in D
    OBVIOUS
  <2>1. U[n] \in D /\ n + 1 \in 1..m /\ (n + 1) - 1 = n
    BY <1>2
  <2> QED  BY <2>1
<1>3. Nat \subseteq T
  <2> HIDE DEF T
  <2> QED  BY <1>1, <1>2, Inductively
<1> QED  BY <1>3


-----------------------------------------------------------------------------
(***************************************************************************)
(* The code graph, for any program, any methods and any depth.  A call     *)
(* that dispatches upwards or downwards is found by walking the chain of   *)
(* bases (UpAdds); the invariant says what the scan made of each site      *)
(* (Scanned) and what the walk has entered (Walked).                       *)
(***************************************************************************)
LEMMA NNat == N \in Nat
BY CallGraphAssumption, FS_CardinalityType DEF N

LEMMA EngineOutside == Engine \notin Files
BY CallGraphAssumption

\* What the chain of bases is made of.
LEMMA UpUnfolds ==
  ASSUME extends \in [Files -> Files \cup {Engine}]
  PROVE  /\ Up \in [0..N -> [Files -> Files \cup {Engine}]]
         /\ \A f \in Files : Up[0][f] = f
         /\ \A i \in 1..N, f \in Files :
              Up[i][f] = IF Up[i - 1][f] = Engine THEN Engine ELSE extends[Up[i - 1][f]]
<1> DEFINE D == [Files -> Files \cup {Engine}]
           s == [f \in Files |-> f]
           F == [u \in D |-> [f \in Files |-> IF u[f] = Engine THEN Engine ELSE extends[u[f]]]]
           G(g) == g = [i \in 0..N |->
                          [f \in Files |-> IF i = 0 THEN f
                                           ELSE IF g[i - 1][f] = Engine THEN Engine
                                           ELSE extends[g[i - 1][f]]]]
<1>1. s \in D /\ F \in [D -> D]
  OBVIOUS
<1>2. PICK g : Chain(g, D, s, F, N)
  <2> HIDE DEF D, s, F, G
  <2> QED  BY <1>1, NNat, Chains
<1>3. ASSUME NEW i \in 0..N
      PROVE  g[i] = [f \in Files |-> IF i = 0 THEN f
                                     ELSE IF g[i - 1][f] = Engine THEN Engine
                                     ELSE extends[g[i - 1][f]]]
  <2>1. CASE i = 0
    BY <1>2, <2>1 DEF Chain
  <2>2. CASE i # 0
    <3>1. i \in 1..N /\ i - 1 \in 0..N
      BY <2>2, NNat
    <3>2. g[i - 1] \in D /\ g[i] = F[g[i - 1]]
      BY <1>2, <3>1 DEF Chain
    <3> QED  BY <2>2, <3>2
  <2> QED  BY <2>1, <2>2
<1>4. G(g)
  <2> HIDE DEF D, s, F
  <2> QED BY <1>2, <1>3 DEF Chain
<1>5. G(Up)
  BY <1>4 DEF Up
<1> HIDE DEF s, F, G
<1>6. Up[0] = [f \in Files |-> f]
  BY <1>5, NNat DEF G
<1>7. \A i \in 1..N : Up[i] = [f \in Files |-> IF Up[i - 1][f] = Engine THEN Engine
                                               ELSE extends[Up[i - 1][f]]]
  <2> SUFFICES ASSUME NEW i \in 1..N
               PROVE  Up[i] = [f \in Files |-> IF Up[i - 1][f] = Engine THEN Engine
                                               ELSE extends[Up[i - 1][f]]]
    OBVIOUS
  <2>1. i \in 0..N /\ i # 0
    BY NNat
  <2> QED  BY <1>5, <2>1 DEF G
<1>8. \A i \in 0..N : Up[i] \in D
  <2>1. ASSUME NEW i \in 1..N, Up[i - 1] \in D PROVE Up[i] \in D
    <3> DEFINE u == Up[i - 1]
    <3>1. Up[i] = [f \in Files |-> IF u[f] = Engine THEN Engine ELSE extends[u[f]]]
      BY <1>7
    <3>2. u \in D
      BY <2>1
    <3> HIDE DEF u
    <3> QED  BY <3>1, <3>2
  <2>2. Up[0] \in D
    BY <1>6
  <2> HIDE DEF D
  <2> QED  BY <2>1, <2>2, NNat, Along
<1>9. Up \in [0..N -> D]
  BY <1>5, <1>8 DEF G
<1>10. \A f \in Files : Up[0][f] = f
  BY <1>6
<1>11. ASSUME NEW i \in 1..N, NEW f \in Files
       PROVE  Up[i][f] = IF Up[i - 1][f] = Engine THEN Engine ELSE extends[Up[i - 1][f]]
  <2> DEFINE u == Up[i - 1]
  <2>1. Up[i] = [e \in Files |-> IF u[e] = Engine THEN Engine ELSE extends[u[e]]]
    BY <1>7
  <2> HIDE DEF u
  <2>2. Up[i][f] = IF u[f] = Engine THEN Engine ELSE extends[u[f]]
    BY <2>1
  <2> QED  BY <2>2 DEF u
<1> QED  BY <1>9, <1>10, <1>11

\* i classes up from the class b up from d are i + b up from d.
LEMMA UpAdds ==
  ASSUME extends \in [Files -> Files \cup {Engine}],
         NEW d \in Files, NEW b \in 0..N, Up[b][d] \in Files
  PROVE  \A a \in 0..(N - b) : Up[a + b][d] = Up[a][Up[b][d]]
<1> DEFINE y == Up[b][d]
           T == {a \in Nat : a <= N - b => Up[a + b][d] = Up[a][y]}
<1>1. y \in Files /\ N \in Nat /\ b \in Nat
  BY NNat
<1>2. 0 \in T
  BY <1>1, UpUnfolds
<1>3. ASSUME NEW a \in Nat, a \in T PROVE a + 1 \in T
  <2> SUFFICES ASSUME a + 1 <= N - b PROVE Up[(a + 1) + b][d] = Up[a + 1][y]
    OBVIOUS
  <2>1. Up[a + b][d] = Up[a][y]
    BY <1>1, <1>3
  <2>2. a + 1 \in 1..N /\ (a + 1) + b \in 1..N /\ ((a + 1) + b) - 1 = a + b /\ (a + 1) - 1 = a
    BY <1>1
  <2>3. Up[(a + 1) + b][d] = IF Up[a + b][d] = Engine THEN Engine ELSE extends[Up[a + b][d]]
    BY <2>2, UpUnfolds
  <2>4. Up[a + 1][y] = IF Up[a][y] = Engine THEN Engine ELSE extends[Up[a][y]]
    BY <1>1, <2>2, UpUnfolds
  <2> QED  BY <2>1, <2>3, <2>4
<1>4. Nat \subseteq T
  <2> HIDE DEF T
  <2> QED  BY <1>2, <1>3, Inductively
<1> QED  BY <1>1, <1>4

\* Dispatch from a class c finds c's own definition, an override below it, or,
\* where c has none, the nearest definition above it.
LEMMA DispatchIsEmitted ==
  ASSUME extends \in [Files -> Files \cup {Engine}],
         NEW c \in Files, NEW n, NEW k \in Dispatch(c, n)
  PROVE  \/ n \in funcs[c] /\ k = <<c, n>>
         \/ k \in Overrides(c, n)
         \/ n \notin funcs[c] /\ \E a \in AncestorDef(c, n) : k = <<a, n>>
<1>1. PICK d \in Files : (\E i \in 0..N : Up[i][d] = c) /\ k \in Lookup(d, n)
  BY DEF Dispatch
<1>2. PICK i \in 0..N : Up[i][d] = c
  BY <1>1
<1>3. PICK j \in 0..N :
        /\ k = <<Up[j][d], n>>
        /\ Up[j][d] # Engine /\ n \in funcs[Up[j][d]]
        /\ \A h \in 0..(j - 1) : ~(Up[h][d] # Engine /\ n \in funcs[Up[h][d]])
  BY <1>1 DEF Lookup
<1> DEFINE x == Up[j][d]
<1>4. x \in Files /\ N \in Nat
  BY <1>3, NNat, UpUnfolds
<1>5. CASE j = i
  BY <1>2, <1>3, <1>5
<1>6. CASE j < i
  <2>1. i - j \in 0..(N - j) /\ i - j \in 1..N /\ (i - j) + j = i
    BY <1>4, <1>6
  <2>2. Up[i - j][x] = c
    BY <1>2, <1>4, <2>1, UpAdds
  <2>3. x \in Subclasses(c)
    BY <1>4, <2>1, <2>2 DEF Subclasses
  <2> QED  BY <1>3, <2>3 DEF Overrides
<1>7. CASE i < j
  <2>1. n \notin funcs[c]
    BY <1>2, <1>3, <1>7, EngineOutside
  <2>2. \A a \in 0..(N - i) : Up[a + i][d] = Up[a][c]
    BY <1>2, UpAdds
  <2>3. j - i \in 1..N /\ j - i \in 0..(N - i) /\ (j - i) + i = j
    BY <1>4, <1>7
  <2>4. Up[j - i][c] = x
    BY <2>2, <2>3
  <2>5. ASSUME NEW h \in 1..((j - i) - 1)
        PROVE  ~(Up[h][c] # Engine /\ n \in funcs[Up[h][c]])
    <3>1. h \in 0..(N - i) /\ h + i \in 0..(j - 1)
      BY <1>4, <1>7
    <3> QED  BY <1>3, <2>2, <3>1
  <2>6. x \in AncestorDef(c, n)
    BY <1>3, <2>3, <2>4, <2>5 DEF AncestorDef
  <2> QED  BY <1>3, <2>1, <2>6
<1> QED  BY <1>4, <1>5, <1>6, <1>7

LEMMA AncestorsAreFiles ==
  ASSUME extends \in [Files -> Files \cup {Engine}], NEW f \in Files, NEW n,
         NEW a \in AncestorDef(f, n)
  PROVE  a \in Files /\ n \in funcs[a]
<1>1. PICK i \in 1..N : a = Up[i][f] /\ Up[i][f] # Engine /\ n \in funcs[Up[i][f]]
  BY DEF AncestorDef
<1> QED  BY <1>1, NNat, UpUnfolds

\* What a site can be.
LEMMA SiteFields ==
  ASSUME NEW s \in Sites
  PROVE  /\ s.kind \in {"bare", "unknown", "connect", "string", "member", "typed", "load",
                        "scene"}
         /\ s.kind # "scene" => s.at \in Defined /\ s.at \in Key /\ s.at[1] \in Files
         /\ s.kind = "scene" => s.at = Scene
         /\ s.kind \notin {"load", "member"} => s.name \in Methods
         /\ s.kind = "member" => s.name \in Members
         /\ s.kind \in {"typed", "load", "scene", "member"} => s.cls \in Files
<1>1. \A k \in Defined : k \in Key /\ k[1] \in Files
  BY DEF Defined, Key
<1> QED  BY <1>1 DEF Sites, Site

LEMMA TargetsAreKeys ==
  ASSUME extends \in [Files -> Files \cup {Engine}], NEW s \in Sites, s.kind # "member"
  PROVE  Targets(s) \subseteq Key
<1>1. \A f \in Files, n \in Methods : <<f, n>> \in Key
  BY DEF Key, Names
<1>2. \A f \in Files, n \in Methods : Overrides(f, n) \subseteq Key
  BY <1>1 DEF Overrides, Subclasses
<1>3. \A f \in Files, n \in Methods : EmitCall(f, n) \subseteq Key
  BY <1>1, <1>2 DEF EmitCall
<1>4. \A f \in Files, n \in Methods : \A a \in AncestorDef(f, n) : a \in Files
  BY AncestorsAreFiles
<1>5. Defined \subseteq Key
  BY DEF Defined
<1>6. CASE s.kind = "bare"
  <2>1. s.at[1] \in Files /\ s.name \in Methods
    BY <1>6, SiteFields
  <2>2. CASE s.name \in funcs[s.at[1]]
    BY <1>3, <1>6, <2>1, <2>2 DEF Targets
  <2>3. CASE s.name \notin funcs[s.at[1]]
    <3>1. Targets(s) = (UNION {EmitCall(a, s.name) : a \in AncestorDef(s.at[1], s.name)})
                       \cup Overrides(s.at[1], s.name)
      BY <1>6, <2>3 DEF Targets
    <3>2. \A a \in AncestorDef(s.at[1], s.name) : EmitCall(a, s.name) \subseteq Key
      BY <1>3, <1>4, <2>1
    <3>3. Overrides(s.at[1], s.name) \subseteq Key
      BY <1>2, <2>1
    <3>4. UNION {EmitCall(a, s.name) : a \in AncestorDef(s.at[1], s.name)} \subseteq Key
      BY <3>2, Zenon
    <3> QED  BY <3>1, <3>3, <3>4
  <2> QED  BY <2>2, <2>3
<1>7. CASE s.kind = "typed"
  <2>1. s.cls \in Files /\ s.name \in Methods
    BY <1>7, SiteFields
  <2> QED  BY <1>3, <1>7, <2>1 DEF Targets
<1>8. CASE s.kind = "connect"
  <2>1. s.at[1] \in Files /\ s.name \in Methods
    BY <1>8, SiteFields
  <2> QED  BY <1>1, <1>4, <1>8, <2>1 DEF Targets, Handler
<1>9. CASE s.kind \notin {"bare", "typed", "connect", "member"}
  BY <1>5, <1>9 DEF Targets
<1> QED  BY <1>6, <1>7, <1>8, <1>9

LEMMA TargetsAreNodes ==
  ASSUME extends \in [Files -> Files \cup {Engine}], NEW s \in Sites
  PROVE  Targets(s) \subseteq Node
<1>1. CASE s.kind = "member"
  <2>1. s.cls \in Files /\ s.name \in Members
    BY <1>1, SiteFields
  <2>2. Targets(s) = {<<s.cls, s.name>>}
    BY <1>1 DEF Targets
  <2> QED  BY <2>1, <2>2 DEF Node
<1>2. CASE s.kind # "member"
  BY <1>2, TargetsAreKeys DEF Node
<1> QED  BY <1>1, <1>2

\* What a name kept alive, and what a file referred to, can be.
LEMMA KeptAreNodes ==
  ASSUME TypeOK, NEW s \in Sites
  PROVE  KeptAlive(s) \subseteq Methods /\ Refers(s) \subseteq Node
<1>1. KeptAlive(s) \subseteq Methods
  BY SiteFields DEF KeptAlive
<1>2. CASE s.kind = "load"
  <2>1. s.cls \in Files /\ funcs[s.cls] \subseteq Names
    BY <1>2, SiteFields DEF TypeOK
  <2> QED  BY <1>1, <1>2, <2>1 DEF Refers, Node, Key
<1>3. CASE s.kind = "string"
  <2>1. s.name \in Methods
    BY <1>3, SiteFields
  <2> QED  BY <1>1, <1>3, <2>1 DEF Refers, Node
<1>4. CASE s.kind \notin {"load", "string"}
  BY <1>1, <1>4 DEF Refers
<1> QED  BY <1>2, <1>3, <1>4

\* What a call dispatches to is declared, and of its name.
LEMMA DispatchDefined ==
  ASSUME TypeOK, NEW c \in Files, NEW n \in Methods
  PROVE  Dispatch(c, n) \subseteq {k \in Defined : k[2] = n}
<1> SUFFICES ASSUME NEW d \in Files, NEW k \in Lookup(d, n)
             PROVE  k \in Defined /\ k[2] = n
  BY DEF Dispatch
<1>1. PICK i \in 0..N : k = <<Up[i][d], n>> /\ Up[i][d] # Engine /\ n \in funcs[Up[i][d]]
  BY DEF Lookup
<1>2. Up[i][d] \in Files
  <2>1. extends \in [Files -> Files \cup {Engine}]
    BY DEF TypeOK
  <2> QED  BY <1>1, <2>1, NNat, UpUnfolds
<1> QED  BY <1>1, <1>2 DEF Defined, Key, Names

\* What runs at a resolved call is a target of the scan.
LEMMA RunsIsTarget ==
  ASSUME extends \in [Files -> Files \cup {Engine}], NEW s \in Sites, Resolved(s),
         \/ s.kind \in {"bare", "typed", "scene"}
         \/ s.kind \in {"connect", "string"} /\ KeptAlive(s) = {}
  PROVE  Runs(s) \subseteq Targets(s)
<1>1. CASE s.kind = "bare"
  <2>1. s.at[1] \in Files
    BY <1>1, SiteFields
  <2>2. Runs(s) = Dispatch(s.at[1], s.name)
    BY <1>1 DEF Runs
  <2>3. CASE s.name \in funcs[s.at[1]]
    <3>1. Targets(s) = EmitCall(s.at[1], s.name)
      BY <1>1, <2>3 DEF Targets
    <3> QED  BY <2>1, <2>2, <2>3, <3>1, DispatchIsEmitted DEF EmitCall
  <2>4. CASE s.name \notin funcs[s.at[1]]
    <3>1. Targets(s) = (UNION {EmitCall(a, s.name) : a \in AncestorDef(s.at[1], s.name)})
                       \cup Overrides(s.at[1], s.name)
      BY <1>1, <2>4 DEF Targets
    <3>2. \A a \in AncestorDef(s.at[1], s.name) : <<a, s.name>> \in EmitCall(a, s.name)
      BY DEF EmitCall
    <3>3. ASSUME NEW k \in Runs(s) PROVE k \in Targets(s)
      <4>1. \/ k \in Overrides(s.at[1], s.name)
            \/ \E a \in AncestorDef(s.at[1], s.name) : k = <<a, s.name>>
        BY <2>1, <2>2, <2>4, DispatchIsEmitted
      <4>2. \A a \in AncestorDef(s.at[1], s.name) :
              <<a, s.name>> \in UNION {EmitCall(b, s.name) :
                                         b \in AncestorDef(s.at[1], s.name)}
        BY <3>2, Zenon
      <4> QED  BY <3>1, <4>1, <4>2
    <3> QED  BY <3>3
  <2> QED  BY <2>3, <2>4
<1>2. CASE s.kind = "typed"
  <2>1. s.cls \in Files /\ s.name \in funcs[s.cls]
    BY <1>2, SiteFields DEF Resolved
  <2>2. Runs(s) = Dispatch(s.cls, s.name)
    BY <1>2 DEF Runs
  <2> QED  BY <1>2, <2>1, <2>2, DispatchIsEmitted DEF Targets, EmitCall
<1>3. CASE s.kind = "connect"
  <2>1. s.at[1] \in Files /\ Overrides(s.at[1], s.name) = {}
    BY <1>3, SiteFields DEF Resolved
  <2>2. Runs(s) = Dispatch(s.at[1], s.name)
    BY <1>3 DEF Runs
  <2> QED  BY <1>3, <2>1, <2>2, DispatchIsEmitted DEF Targets, Handler
<1>4. CASE s.kind = "string"
  <2>1. /\ s.at[1] \in Files /\ Overrides(s.at[1], s.name) = {}
        /\ s.name \in funcs[s.at[1]] /\ s.name \in Methods
    BY <1>4, SiteFields DEF Resolved
  <2>2. Runs(s) = Dispatch(s.at[1], s.name)
    BY <1>4 DEF Runs
  <2>3. <<s.at[1], s.name>> \in Defined
    BY <2>1 DEF Defined, Key, Names
  <2> QED  BY <1>4, <2>1, <2>2, <2>3, DispatchIsEmitted DEF Targets
<1>5. CASE s.kind = "scene"
  BY <1>5 DEF Runs, Targets
<1> QED  BY <1>1, <1>2, <1>3, <1>4, <1>5

\* The program stands still once it is chosen, and so does what it says.
LEMMA UpFrame ==
  ASSUME extends' = extends
  PROVE  Up' = Up
BY DEF Up

LEMMA TargetsFrame ==
  ASSUME extends' = extends, funcs' = funcs, spelt' = spelt, NEW s
  PROVE  /\ Targets(s)' = Targets(s) /\ Defined' = Defined
         /\ KeptAlive(s)' = KeptAlive(s) /\ Refers(s)' = Refers(s)
<1>1. Targets(s)' = Targets(s) /\ Defined' = Defined
  BY UpFrame DEF Targets, Handler, EmitCall, Overrides, Subclasses, AncestorDef, Defined
<1>2. KeptAlive(s)' = KeptAlive(s)
  BY DEF KeptAlive
<1>3. Refers(s)' = Refers(s)
  BY <1>1 DEF Refers
<1> QED  BY <1>1, <1>2, <1>3

\* What the scan made of the sites so far.
Scanned ==
  \A s \in sites :
    /\ \A t \in Targets(s) : t = s.at \/ <<s.at, t>> \in edges
    /\ s.kind \in {"connect", "string", "scene"} => Targets(s) \subseteq roots
    /\ KeptAlive(s) \subseteq names
    /\ Refers(s) \subseteq referenced

\* What the walk has entered, but for its queue, it has walked.
Walked ==
  /\ phase # "scan" => /\ Start \subseteq seen
                       /\ \A k \in seen \ queue : Callees(k) \subseteq seen
  /\ phase = "built" => queue = {}

GraphInv == TypeOK /\ Scanned /\ Walked

LEMMA GraphStart == Init => GraphInv
BY DEF Init, GraphInv, TypeOK, Scanned, Walked, Names

LEMMA ScanKeepsGraph ==
  ASSUME GraphInv, NEW s \in Sites, Scan(s)
  PROVE  GraphInv'
<1> USE DEF Scan
<1>1. /\ TypeOK /\ Scanned /\ phase = "scan"
      /\ extends' = extends /\ funcs' = funcs /\ spelt' = spelt /\ phase' = phase
  BY DEF GraphInv
<1>2. extends \in [Files -> Files \cup {Engine}] /\ funcs \in [Files -> SUBSET Names]
  BY <1>1 DEF TypeOK
<1>3. Targets(s) \subseteq Node /\ (s.kind # "member" => Targets(s) \subseteq Key)
  BY <1>2, TargetsAreKeys, TargetsAreNodes
<1>4. s.at \in Key \cup {Scene}
  BY SiteFields
<1>5. KeptAlive(s) \subseteq Methods /\ Refers(s) \subseteq Node
  BY <1>1, KeptAreNodes
<1>7. Sites' = Sites
  BY <1>1, TargetsFrame DEF Sites
<1>8. TypeOK'
  <2>1. edges' \subseteq (Key \cup {Scene}) \X Node
    BY <1>1, <1>3, <1>4 DEF TypeOK
  <2>2. roots' \subseteq Key /\ referenced' \subseteq Node /\ names' \subseteq Methods
    BY <1>1, <1>3, <1>5 DEF TypeOK
  <2>3. sites' \subseteq Sites
    BY <1>1 DEF TypeOK
  <2> QED  BY <1>1, <1>7, <2>1, <2>2, <2>3 DEF TypeOK
<1>9. Scanned'
  <2> SUFFICES ASSUME NEW z \in sites'
               PROVE  /\ \A t \in Targets(z) : t = z.at \/ <<z.at, t>> \in edges'
                      /\ z.kind \in {"connect", "string", "scene"} => Targets(z) \subseteq roots'
                      /\ KeptAlive(z) \subseteq names'
                      /\ Refers(z) \subseteq referenced'
    BY <1>1, TargetsFrame DEF Scanned
  <2>1. CASE z = s
    BY <2>1
  <2>2. CASE z \in sites
    BY <1>1, <2>2 DEF Scanned
  <2> QED  BY <2>1, <2>2
<1>10. Walked'
  BY <1>1 DEF Walked
<1> QED  BY <1>8, <1>9, <1>10 DEF GraphInv

LEMMA FindRootsKeepsGraph ==
  ASSUME GraphInv, FindRoots
  PROVE  GraphInv'
<1> USE DEF FindRoots, program
<1>1. /\ TypeOK /\ Scanned /\ phase' = "reach" /\ extends' = extends /\ funcs' = funcs /\ spelt' = spelt
      /\ sites' = sites /\ edges' = edges /\ names' = names /\ referenced' = referenced
      /\ roots' = roots \cup EntryKeys \cup NamedKeys /\ seen' = Start /\ queue' = Start
  BY DEF GraphInv, Start
<1> HIDE DEF FindRoots
<1>2. Defined' = Defined /\ \A s : /\ Targets(s)' = Targets(s)
                                 /\ KeptAlive(s)' = KeptAlive(s) /\ Refers(s)' = Refers(s)
  BY <1>1, TargetsFrame
<1>3. EntryKeys' = EntryKeys /\ NamedKeys' = NamedKeys
  BY <1>1, <1>2 DEF EntryKeys, NamedKeys
<1>4. Sites' = Sites
  BY <1>2 DEF Sites
<1>5. /\ EntryKeys \subseteq Key /\ NamedKeys \subseteq Key
      /\ Key \subseteq Node
  BY DEF EntryKeys, NamedKeys, Defined, Node
<1>6. TypeOK'
  <2>1. Start \subseteq Node
    BY <1>1, <1>5 DEF TypeOK, Start
  <2> QED  BY <1>1, <1>4, <1>5, <2>1 DEF TypeOK
<1>7. Scanned'
  BY <1>1, <1>2 DEF Scanned
<1>8. Walked'
  BY <1>1, <1>3 DEF Walked, Start
<1> QED  BY <1>6, <1>7, <1>8 DEF GraphInv

LEMMA PopKeepsGraph ==
  ASSUME GraphInv, NEW k \in queue, Pop(k)
  PROVE  GraphInv'
<1> USE DEF Pop, program, graph
<1>1. /\ TypeOK /\ Scanned /\ Walked /\ phase = "reach" /\ phase' = "reach"
      /\ extends' = extends /\ funcs' = funcs /\ spelt' = spelt
      /\ sites' = sites /\ edges' = edges /\ names' = names /\ referenced' = referenced
      /\ roots' = roots
      /\ seen' = seen \cup Callees(k) /\ queue' = (queue \ {k}) \cup (Callees(k) \ seen)
  BY DEF GraphInv
<1> HIDE DEF Pop
<1>2. Defined' = Defined /\ \A s : /\ Targets(s)' = Targets(s)
                                 /\ KeptAlive(s)' = KeptAlive(s) /\ Refers(s)' = Refers(s)
  BY <1>1, TargetsFrame
<1>3. Start' = Start /\ \A q : Callees(q)' = Callees(q)
  BY <1>1, <1>2 DEF Start, EntryKeys, NamedKeys, Callees
<1>4. Sites' = Sites
  BY <1>2 DEF Sites
<1>5. TypeOK'
  BY <1>1, <1>4 DEF TypeOK, Callees
<1>6. Scanned'
  BY <1>1, <1>2 DEF Scanned
<1>7. Walked'
  BY <1>1, <1>3 DEF Walked
<1> QED  BY <1>5, <1>6, <1>7 DEF GraphInv

LEMMA RestKeepsGraph ==
  ASSUME GraphInv, Reached \/ UNCHANGED vars
  PROVE  GraphInv'
<1> USE DEF Reached, vars, program, graph
<1>1. /\ TypeOK /\ Scanned /\ Walked
      /\ extends' = extends /\ funcs' = funcs /\ spelt' = spelt
      /\ sites' = sites /\ edges' = edges /\ names' = names /\ referenced' = referenced
      /\ roots' = roots /\ seen' = seen /\ queue' = queue
  BY DEF GraphInv
<1>2. phase' = phase \/ (phase = "reach" /\ phase' = "built" /\ queue = {})
  OBVIOUS
<1> HIDE DEF Reached, vars
<1>3. Defined' = Defined /\ \A s : /\ Targets(s)' = Targets(s)
                                 /\ KeptAlive(s)' = KeptAlive(s) /\ Refers(s)' = Refers(s)
  BY <1>1, TargetsFrame
<1>4. Start' = Start /\ \A q : Callees(q)' = Callees(q)
  BY <1>1, <1>3 DEF Start, EntryKeys, NamedKeys, Callees
<1>5. Sites' = Sites
  BY <1>3 DEF Sites
<1>6. TypeOK'
  BY <1>1, <1>2, <1>5 DEF TypeOK
<1>7. Scanned'
  BY <1>1, <1>3 DEF Scanned
<1>8. Walked'
  BY <1>1, <1>2, <1>4 DEF Walked
<1> QED  BY <1>6, <1>7, <1>8 DEF GraphInv

LEMMA GraphInductive == Spec => []GraphInv
<1>1. GraphInv /\ [Next]_vars => GraphInv'
  BY ScanKeepsGraph, FindRootsKeepsGraph, PopKeepsGraph, RestKeepsGraph DEF Next
<1> QED  BY GraphStart, <1>1, PTL DEF Spec

\* What the entry points run: a first round, then what its sites run, and
\* so on.
FirstRun(S)  == EntryKeys \cup (UNION {Runs(s) : s \in {t \in S : t.kind = "scene"}})
NextRun(S, X) == X \cup (UNION {Runs(s) : s \in {t \in S : t.at \in X}})

LEMMA RunByUnfolds ==
  ASSUME NEW S
  PROVE  \E R : /\ RunBy(S) = R[2 * N]
                /\ R[0] = FirstRun(S)
                /\ \A i \in 1..(2 * N) : R[i] = NextRun(S, R[i - 1])
<1> DEFINE D == SUBSET (EntryKeys \cup (UNION {Runs(s) : s \in S}))
           F == [X \in D |-> NextRun(S, X)]
           G(g) == g = [i \in 0..(2 * N) |->
                          IF i = 0 THEN FirstRun(S) ELSE NextRun(S, g[i - 1])]
<1>1. FirstRun(S) \in D /\ 2 * N \in Nat
  BY NNat DEF FirstRun
<1>2. F \in [D -> D]
  <2>1. ASSUME NEW X \in D PROVE NextRun(S, X) \in D
    BY DEF NextRun
  <2> HIDE DEF D
  <2> QED  BY <2>1
<1>3. PICK g : Chain(g, D, FirstRun(S), F, 2 * N)
  <2> HIDE DEF D, F, G
  <2> QED  BY <1>1, <1>2, Chains
<1>4. G(g)
  <2> HIDE DEF D
  <2>1. ASSUME NEW i \in 0..(2 * N)
        PROVE  g[i] = IF i = 0 THEN FirstRun(S) ELSE NextRun(S, g[i - 1])
    <3>1. CASE i = 0
      BY <1>3, <3>1 DEF Chain
    <3>2. CASE i # 0
      <4>1. i \in 1..(2 * N) /\ i - 1 \in 0..(2 * N)
        BY <3>2, <1>1
      <4> QED  BY <1>3, <3>2, <4>1 DEF Chain
    <3> QED  BY <3>1, <3>2
  <2> HIDE DEF F
  <2> QED  BY <2>1, <1>3 DEF Chain
<1> DEFINE R == CHOOSE h : G(h)
<1>5. G(R)
  <2> HIDE DEF G
  <2> QED  BY <1>4
<1>6. RunBy(S) = R[2 * N]
  BY DEF RunBy, FirstRun, NextRun
<1> HIDE DEF R
<1>7. ASSUME NEW i \in 0..(2 * N)
      PROVE  R[i] = IF i = 0 THEN FirstRun(S) ELSE NextRun(S, R[i - 1])
  BY <1>5
<1>8. R[0] = FirstRun(S)
  <2>1. 0 \in 0..(2 * N)
    BY <1>1
  <2> QED  BY <1>7, <2>1
<1>9. ASSUME NEW i \in 1..(2 * N) PROVE R[i] = NextRun(S, R[i - 1])
  <2>1. i \in 0..(2 * N) /\ i # 0
    BY <1>1
  <2> QED  BY <1>7, <2>1
<1> QED  BY <1>6, <1>8, <1>9

\* What runs at a resolved site of a method in seen is in seen.
LEMMA RunsIsSeen ==
  ASSUME GraphInv, phase = "built", NEW s \in sites, Resolved(s),
         s.kind = "scene" \/ s.at \in seen
  PROVE  Runs(s) \subseteq seen
<1>1. /\ extends \in [Files -> Files \cup {Engine}] /\ s \in Sites
      /\ Start \subseteq seen /\ \A k \in seen : Callees(k) \subseteq seen
      /\ \A t \in Targets(s) : t = s.at \/ <<s.at, t>> \in edges
      /\ s.kind \in {"connect", "string", "scene"} => Targets(s) \subseteq roots
      /\ KeptAlive(s) \subseteq names /\ Refers(s) \subseteq referenced
  BY DEF GraphInv, TypeOK, Scanned, Walked
<1>2. roots \subseteq seen /\ NamedKeys \subseteq seen /\ referenced \subseteq seen
  BY <1>1 DEF Start
<1>3. CASE s.kind = "scene" \/ (s.kind \in {"connect", "string"} /\ KeptAlive(s) = {})
  BY <1>1, <1>2, <1>3, RunsIsTarget
<1>4. CASE s.kind \in {"bare", "typed"}
  <2>1. Targets(s) \subseteq Node
    BY <1>1, TargetsAreNodes
  <2>2. Targets(s) \subseteq seen
    BY <1>1, <1>4, <2>1 DEF Callees
  <2> QED  BY <1>1, <1>4, <2>2, RunsIsTarget
<1>5. CASE s.kind \in {"unknown", "connect", "string"} /\ KeptAlive(s) # {}
  <2>1. s.name \in names
    BY <1>1, <1>5 DEF KeptAlive
  <2>2. s.kind # "unknown" =>
          Runs(s) = Dispatch(s.at[1], s.name) /\ s.at[1] \in Files /\ s.name \in Methods
    BY <1>1, <1>5, SiteFields DEF Runs
  <2>3. s.kind = "unknown" => Runs(s) = {k \in Defined : k[2] = s.name}
    BY DEF Runs
  <2>4. TypeOK
    BY DEF GraphInv
  <2>5. Runs(s) \subseteq {k \in Defined : k[2] = s.name}
    BY <1>5, <2>2, <2>3, <2>4, DispatchDefined
  <2> QED  BY <1>2, <2>1, <2>5 DEF NamedKeys
<1>6. CASE s.kind = "load"
  BY <1>1, <1>2, <1>6 DEF Runs, Refers
<1>7. CASE s.kind = "member"
  BY <1>7 DEF Runs
<1>8. s.kind = "unknown" => KeptAlive(s) # {}
  BY DEF KeptAlive
<1> QED  BY <1>1, <1>3, <1>4, <1>5, <1>6, <1>7, <1>8, SiteFields

\* By induction on the rounds: all that runs is seen.
LEMMA RunIsSeen ==
  ASSUME GraphInv, phase = "built"
  PROVE  RunBy({s \in sites : Resolved(s)}) \subseteq seen
<1> DEFINE S == {s \in sites : Resolved(s)}
<1>1. PICK R : /\ RunBy(S) = R[2 * N]
               /\ R[0] = FirstRun(S)
               /\ \A i \in 1..(2 * N) : R[i] = NextRun(S, R[i - 1])
  <2> HIDE DEF S
  <2> QED  BY RunByUnfolds
<1>2. R[0] \in SUBSET seen
  <2>1. EntryKeys \subseteq seen
    BY DEF GraphInv, Walked, Start
  <2> QED  BY <1>1, <2>1, RunsIsSeen DEF FirstRun
<1>3. ASSUME NEW i \in 1..(2 * N), R[i - 1] \in SUBSET seen
      PROVE  R[i] \in SUBSET seen
  <2>1. \A s \in {t \in S : t.at \in R[i - 1]} : Runs(s) \subseteq seen
    BY <1>3, RunsIsSeen
  <2>2. R[i] = NextRun(S, R[i - 1])
    BY <1>1
  <2> QED  BY <1>3, <2>1, <2>2 DEF NextRun
<1>4. 2 * N \in Nat /\ 2 * N \in 0..(2 * N)
  BY NNat
<1>5. R[2 * N] \in SUBSET seen
  BY <1>2, <1>3, <1>4, Along
<1> QED  BY <1>1, <1>5

\* Once built, no method that the program runs through resolved sites is
\* offered for deletion, however its classes extend and override
\* (build_inheritance, _emit_call, _ancestor_def, _reachable, _dead_rows).
THEOREM RunIsKept == Spec => []RunsIsNotDead
<1>1. GraphInv => RunsIsNotDead
  BY RunIsSeen DEF RunsIsNotDead, DeadRows
<1> QED  BY <1>1, GraphInductive, PTL

\* The type invariant of the code graph.
THEOREM GraphTyped == Spec => []TypeOK
<1>1. GraphInv => TypeOK
  BY DEF GraphInv
<1> QED  BY <1>1, GraphInductive, PTL

-----------------------------------------------------------------------------
(***************************************************************************)
(* impact.  The functions its definitions recurse through, unfolded.       *)
(***************************************************************************)
IsBall(B, S, towards) ==
  /\ B[0] = S
  /\ \A i \in 1..(MaxDepth + 1) : B[i] = B[i - 1] \cup Hop(B[i - 1], towards)

IsLoop(L, S, towards, depth) ==
  /\ L[0] = [visited |-> S, level |-> S, total |-> 0]
  /\ \A i \in 1..depth :
       L[i] = [visited |-> L[i - 1].visited
                             \cup Fresh(L[i - 1].visited, L[i - 1].level, towards),
               level |-> Fresh(L[i - 1].visited, L[i - 1].level, towards),
               total |-> L[i - 1].total
                           + Cardinality(Fresh(L[i - 1].visited, L[i - 1].level, towards))]

\* The keys are finitely many.
LEMMA NodeFinite == IsFiniteSet(Node)
<1>1. IsFiniteSet(Files) /\ IsFiniteSet(Methods) /\ IsFiniteSet(Members)
  BY CallGraphAssumption
<1>2. IsFiniteSet(Names) /\ IsFiniteSet({Star})
  BY <1>1, FS_AddElement, FS_Singleton DEF Names
<1>3. IsFiniteSet(Files \X Names) /\ IsFiniteSet(Files \X Members)
  BY <1>1, <1>2, FS_Product
<1>4. IsFiniteSet({Star} \X Methods)
  BY <1>1, <1>2, FS_Product
<1>5. IsFiniteSet((Files \X Names) \cup (Files \X Members))
  BY <1>3, FS_Union
<1> QED  BY <1>4, <1>5, FS_Union DEF Node, Key

LEMMA BallUnfolds ==
  ASSUME NEW S \in SUBSET Node, NEW towards, NEW B, B = Ball(S, towards)
  PROVE  IsBall(B, S, towards)
<1> DEFINE D == SUBSET Node
           One(X) == X \cup Hop(X, towards)
           F == [X \in D |-> One(X)]
           m == MaxDepth + 1
           G(g) == g = [i \in 0..(MaxDepth + 1) |->
                          IF i = 0 THEN S ELSE g[i - 1] \cup Hop(g[i - 1], towards)]
<1>1. F \in [D -> D] /\ m \in Nat
  <2>1. \A X \in D : One(X) \in D
    BY DEF Hop
  <2> HIDE DEF One, D
  <2> QED  BY <2>1, CallGraphAssumption
<1>2. PICK g : Chain(g, D, S, F, m)
  <2> HIDE DEF F, G, m
  <2> QED  BY <1>1, Chains
<1>3. G(g)
  <2>1. ASSUME NEW i \in 0..m
        PROVE  g[i] = IF i = 0 THEN S ELSE One(g[i - 1])
    <3> HIDE DEF One, D, m
    <3>1. CASE i = 0
      BY <1>2, <3>1 DEF Chain
    <3>2. CASE i # 0
      <4>1. i \in 1..m /\ i - 1 \in 0..m
        BY <3>2, <1>1
      <4> QED  BY <1>2, <3>2, <4>1 DEF Chain
    <3> QED  BY <3>1, <3>2
  <2>2. g = [i \in 0..m |-> IF i = 0 THEN S ELSE One(g[i - 1])]
    <3> HIDE DEF One, D, F, m
    <3> QED  BY <2>1, <1>2 DEF Chain
  <2> QED  BY <2>2
<1>4. B = CHOOSE h : G(h)
  BY DEF Ball
<1>5. G(B)
  <2> HIDE DEF G
  <2> QED  BY <1>3, <1>4
<1>6. ASSUME NEW i \in 0..m
      PROVE  B[i] = IF i = 0 THEN S ELSE One(B[i - 1])
  BY <1>5
<1>7. B[0] = S
  <2>1. 0 \in 0..m
    BY <1>1
  <2> HIDE DEF One
  <2> QED  BY <1>6, <2>1
<1>8. ASSUME NEW i \in 1..m PROVE B[i] = One(B[i - 1])
  <2>1. i \in 0..m /\ i # 0
    BY <1>1
  <2> HIDE DEF One
  <2> QED  BY <1>6, <2>1
<1> QED  BY <1>7, <1>8 DEF IsBall

LEMMA LoopUnfolds ==
  ASSUME NEW S \in SUBSET Node, NEW towards, NEW depth \in Nat,
         NEW L, L = Loop(S, towards, depth)
  PROVE  IsLoop(L, S, towards, depth)
<1> DEFINE D == [visited : SUBSET Node, level : SUBSET Node, total : Nat]
           r == [visited |-> S, level |-> S, total |-> 0]
           One(X) == LET f == Fresh(X.visited, X.level, towards)
                     IN  [visited |-> X.visited \cup f, level |-> f,
                          total |-> X.total + Cardinality(f)]
           F == [X \in D |-> One(X)]
           G(g) == g = [i \in 0..depth |->
                          IF i = 0 THEN [visited |-> S, level |-> S, total |-> 0]
                          ELSE LET p == g[i - 1]
                                   f == Fresh(p.visited, p.level, towards)
                               IN  [visited |-> p.visited \cup f, level |-> f,
                                    total |-> p.total + Cardinality(f)]]
<1>1. F \in [D -> D] /\ r \in D
  <2>1. ASSUME NEW X \in D PROVE One(X) \in D
    <3> DEFINE f == Fresh(X.visited, X.level, towards)
    <3>1. f \in SUBSET Node
      BY DEF Fresh, Hop
    <3>2. Cardinality(f) \in Nat
      BY <3>1, NodeFinite, FS_Subset, FS_CardinalityType
    <3>3. One(X) = [visited |-> X.visited \cup f, level |-> f, total |-> X.total + Cardinality(f)]
      OBVIOUS
    <3> HIDE DEF f, One
    <3>4. X.visited \cup f \in SUBSET Node /\ X.total + Cardinality(f) \in Nat
      BY <3>1, <3>2
    <3> QED  BY <3>1, <3>3, <3>4
  <2>2. r \in D
    OBVIOUS
  <2> HIDE DEF One, D
  <2> QED  BY <2>1, <2>2
<1>2. PICK g : Chain(g, D, r, F, depth)
  <2> HIDE DEF F, G, r, D
  <2> QED  BY <1>1, Chains
<1>3. G(g)
  <2>1. ASSUME NEW i \in 0..depth
        PROVE  g[i] = IF i = 0 THEN r ELSE One(g[i - 1])
    <3> HIDE DEF One, D, r
    <3>1. CASE i = 0
      BY <1>2, <3>1 DEF Chain
    <3>2. CASE i # 0
      <4>1. i \in 1..depth /\ i - 1 \in 0..depth
        BY <3>2
      <4> QED  BY <1>2, <3>2, <4>1 DEF Chain
    <3> QED  BY <3>1, <3>2
  <2>2. g = [i \in 0..depth |-> IF i = 0 THEN r ELSE One(g[i - 1])]
    <3> HIDE DEF One, D, F, r
    <3> QED  BY <2>1, <1>2 DEF Chain
  <2> QED  BY <2>2
<1>4. L = CHOOSE h : G(h)
  BY DEF Loop
<1>5. G(L)
  <2> HIDE DEF G
  <2> QED  BY <1>3, <1>4
<1>6. ASSUME NEW i \in 0..depth
      PROVE  L[i] = IF i = 0 THEN r ELSE One(L[i - 1])
  BY <1>5
<1>7. L[0] = r
  <2>1. 0 \in 0..depth
    OBVIOUS
  <2> HIDE DEF One, r
  <2> QED  BY <1>6, <2>1
<1>8. ASSUME NEW i \in 1..depth PROVE L[i] = One(L[i - 1])
  <2>1. i \in 0..depth /\ i # 0
    OBVIOUS
  <2> HIDE DEF One
  <2> QED  BY <1>6, <2>1
<1> QED  BY <1>7, <1>8 DEF IsLoop

\* Hop is the union of what its keys reach.
LEMMA HopOf ==
  ASSUME NEW S, NEW T, NEW towards
  PROVE  /\ Hop(S \cup T, towards) = Hop(S, towards) \cup Hop(T, towards)
         /\ Hop(S, towards) \subseteq Node
BY DEF Hop

\* The loop has visited the ball, and its level is the last ring of it.
InStep(L, B, S, towards, i) ==
  /\ L[i].visited = B[i]
  /\ L[i].level = IF i = 0 THEN S ELSE B[i] \ B[i - 1]
  /\ Hop(B[i], towards) \subseteq B[i] \cup Hop(L[i].level, towards)
  /\ B[i] \subseteq Node /\ S \subseteq B[i]
  /\ L[i].total = Cardinality(B[i]) - Cardinality(S)

LEMMA LoopIsBall ==
  ASSUME NEW S \in SUBSET Node, NEW towards, NEW depth \in 1..MaxDepth,
         NEW L, L = Loop(S, towards, depth), NEW B, B = Ball(S, towards)
  PROVE  \A i \in 0..depth : InStep(L, B, S, towards, i)
<1> DEFINE Upheld == {i \in Nat : i <= depth => InStep(L, B, S, towards, i)}
<1>1. depth \in Nat /\ depth <= MaxDepth /\ MaxDepth \in Nat
  BY CallGraphAssumption
<1>2. /\ B[0] = S
      /\ \A i \in 1..(MaxDepth + 1) : B[i] = B[i - 1] \cup Hop(B[i - 1], towards)
  <2>1. IsBall(B, S, towards)
    BY BallUnfolds
  <2> QED  BY <2>1 DEF IsBall
<1>3. /\ L[0] = [visited |-> S, level |-> S, total |-> 0]
      /\ \A i \in 1..depth :
           /\ L[i].level = Hop(L[i - 1].level, towards) \ L[i - 1].visited
           /\ L[i].visited = L[i - 1].visited \cup L[i].level
           /\ L[i].total = L[i - 1].total + Cardinality(L[i].level)
  <2>1. IsLoop(L, S, towards, depth)
    BY <1>1, LoopUnfolds
  <2>2. \A i \in 1..depth :
          L[i] = [visited |-> L[i - 1].visited
                                \cup (Hop(L[i - 1].level, towards) \ L[i - 1].visited),
                  level |-> Hop(L[i - 1].level, towards) \ L[i - 1].visited,
                  total |-> L[i - 1].total
                              + Cardinality(Hop(L[i - 1].level, towards) \ L[i - 1].visited)]
    BY <2>1 DEF IsLoop, Fresh
  <2>3. L[0] = [visited |-> S, level |-> S, total |-> 0]
    BY <2>1 DEF IsLoop
  <2>4. ASSUME NEW i \in 1..depth
        PROVE  /\ L[i].level = Hop(L[i - 1].level, towards) \ L[i - 1].visited
               /\ L[i].visited = L[i - 1].visited \cup L[i].level
               /\ L[i].total = L[i - 1].total + Cardinality(L[i].level)
    <3> DEFINE v == L[i - 1].visited
               t == L[i - 1].total
               f == Hop(L[i - 1].level, towards) \ v
    <3>1. L[i] = [visited |-> v \cup f, level |-> f, total |-> t + Cardinality(f)]
      BY <2>2
    <3> HIDE DEF v, t, f
    <3>2. L[i].level = f /\ L[i].visited = v \cup f /\ L[i].total = t + Cardinality(f)
      BY <3>1
    <3> QED  BY <3>2 DEF v, t, f
  <2> QED  BY <2>3, <2>4
<1>4. 0 \in Upheld
  <2>1. Cardinality(S) \in Nat
    BY NodeFinite, FS_Subset, FS_CardinalityType
  <2> QED  BY <1>2, <1>3, <2>1 DEF InStep
<1>5. ASSUME NEW n \in Nat, n \in Upheld PROVE n + 1 \in Upheld
  <2> SUFFICES ASSUME n + 1 <= depth
               PROVE  /\ L[n + 1].visited = B[n + 1]
                      /\ L[n + 1].level = B[n + 1] \ B[n]
                      /\ Hop(B[n + 1], towards)
                           \subseteq B[n + 1] \cup Hop(L[n + 1].level, towards)
                      /\ B[n + 1] \subseteq Node /\ S \subseteq B[n + 1]
                      /\ L[n + 1].total = Cardinality(B[n + 1]) - Cardinality(S)
    <3>1. n + 1 # 0 /\ (n + 1) - 1 = n /\ n + 1 \in Nat
      OBVIOUS
    <3> QED  BY <3>1 DEF InStep
  <2>1. /\ L[n].visited = B[n]
        /\ Hop(B[n], towards) \subseteq B[n] \cup Hop(L[n].level, towards)
        /\ B[n] \subseteq Node /\ S \subseteq B[n]
        /\ L[n].total = Cardinality(B[n]) - Cardinality(S)
        /\ n = 0 => L[n].level = B[n]
        /\ n # 0 => L[n].level = B[n] \ B[n - 1]
    BY <1>1, <1>2, <1>5 DEF InStep
  <2>2. n + 1 \in 1..depth /\ n + 1 \in 1..(MaxDepth + 1) /\ (n + 1) - 1 = n
    BY <1>1
  <2>3. B[n + 1] = B[n] \cup Hop(B[n], towards)
    BY <1>2, <2>2
  <2>4. /\ L[n + 1].level = Hop(L[n].level, towards) \ B[n]
        /\ L[n + 1].visited = B[n] \cup L[n + 1].level
        /\ L[n + 1].total = L[n].total + Cardinality(L[n + 1].level)
    BY <1>3, <2>1, <2>2
  <2>5. Hop(L[n].level, towards) \subseteq Hop(B[n], towards)
    <3>1. L[n].level \cup B[n] = B[n]
      BY <2>1
    <3> QED  BY <3>1, HopOf
  <2>6. L[n + 1].level = B[n + 1] \ B[n] /\ L[n + 1].visited = B[n + 1]
    BY <2>1, <2>3, <2>4, <2>5
  <2>7. Hop(B[n + 1], towards) = Hop(B[n], towards) \cup Hop(L[n + 1].level, towards)
    <3>1. B[n + 1] = B[n] \cup L[n + 1].level
      BY <2>3, <2>6
    <3> QED  BY <3>1, HopOf
  <2>8. B[n + 1] \subseteq Node
    BY <2>1, <2>3, HopOf
  <2>9. L[n + 1].total = Cardinality(B[n + 1]) - Cardinality(S)
    <3> DEFINE f == L[n + 1].level
    <3>1. B[n + 1] = B[n] \cup f /\ B[n] \cap f = {}
      BY <2>3, <2>6
    <3>2. IsFiniteSet(B[n]) /\ IsFiniteSet(f) /\ IsFiniteSet(S)
      BY <2>1, <2>6, <2>8, NodeFinite, FS_Subset
    <3>3. Cardinality(B[n + 1]) = Cardinality(B[n]) + Cardinality(f)
      <4>1. Cardinality(B[n] \cup f)
              = Cardinality(B[n]) + Cardinality(f) - Cardinality(B[n] \cap f)
        BY <3>2, FS_Union
      <4>2. Cardinality(B[n] \cap f) = 0
        BY <3>1, FS_EmptySet
      <4>3. Cardinality(B[n]) \in Nat /\ Cardinality(f) \in Nat
        BY <3>2, FS_CardinalityType
      <4> QED  BY <3>1, <4>1, <4>2, <4>3
    <3>4. Cardinality(B[n]) \in Nat /\ Cardinality(f) \in Nat /\ Cardinality(S) \in Nat
      BY <3>2, FS_CardinalityType
    <3>5. L[n + 1].total = (Cardinality(B[n]) - Cardinality(S)) + Cardinality(f)
      BY <2>1, <2>4
    <3> HIDE DEF f
    <3> QED  BY <3>3, <3>4, <3>5
  <2> QED  BY <2>1, <2>3, <2>6, <2>7, <2>8, <2>9
<1>6. Nat \subseteq Upheld
  <2> HIDE DEF Upheld
  <2> QED  BY <1>4, <1>5, Inductively
<1> QED  BY <1>1, <1>6

\* The answer A to the depth, judged by the ball around S.
Exact(A, B, S, depth) ==
  /\ \A i \in 1..depth : A.byDepth[i] = B[i] \ B[i - 1]
  /\ A.total = Cardinality(B[depth]) - Cardinality(S)
  /\ A.beyond = Cardinality(B[depth + 1] \ B[depth])

LEMMA ImpactIsExact ==
  ASSUME NEW S \in SUBSET Node, NEW towards, NEW depth \in 1..MaxDepth,
         NEW B, B = Ball(S, towards), NEW A, A = Impact(S, towards, depth)
  PROVE  Exact(A, B, S, depth)
<1> DEFINE L == Loop(S, towards, depth)
<1>1. S \in SUBSET Node
  OBVIOUS
<1>2. \A i \in 0..depth :
        /\ L[i].visited = B[i]
        /\ L[i].level = IF i = 0 THEN S ELSE B[i] \ B[i - 1]
        /\ Hop(B[i], towards) \subseteq B[i] \cup Hop(L[i].level, towards)
        /\ B[i] \subseteq Node /\ S \subseteq B[i]
        /\ L[i].total = Cardinality(B[i]) - Cardinality(S)
  <2>1. L = Loop(S, towards, depth)
    OBVIOUS
  <2> HIDE DEF L
  <2>2. \A i \in 0..depth : InStep(L, B, S, towards, i)
    BY <1>1, <2>1, LoopIsBall
  <2> QED  BY <2>2 DEF InStep
<1>3. \A i \in 1..(MaxDepth + 1) : B[i] = B[i - 1] \cup Hop(B[i - 1], towards)
  <2>1. IsBall(B, S, towards)
    BY <1>1, BallUnfolds
  <2> QED  BY <2>1 DEF IsBall
<1>4. /\ A.byDepth = [i \in 1..depth |-> L[i].level]
      /\ A.total   = L[depth].total
      /\ A.beyond  = IF L[depth].level = {} THEN 0
                     ELSE Cardinality(Hop(L[depth].level, towards) \ L[depth].visited)
  BY DEF Impact
<1> HIDE DEF L
<1>5. depth \in 0..depth /\ depth \in 1..depth /\ depth + 1 \in 1..(MaxDepth + 1)
      /\ (depth + 1) - 1 = depth /\ \A i \in 1..depth : i \in 0..depth /\ i # 0
  BY CallGraphAssumption
<1>6. ASSUME NEW i \in 1..depth PROVE A.byDepth[i] = B[i] \ B[i - 1]
  BY <1>2, <1>4, <1>5
<1>7. A.total = Cardinality(B[depth]) - Cardinality(S)
  BY <1>2, <1>4, <1>5
<1>8. A.beyond = Cardinality(B[depth + 1] \ B[depth])
  <2>1. B[depth + 1] = B[depth] \cup Hop(B[depth], towards)
    BY <1>3, <1>5
  <2>2. L[depth].visited = B[depth] /\ L[depth].level \subseteq B[depth]
        /\ Hop(B[depth], towards) \subseteq B[depth] \cup Hop(L[depth].level, towards)
    BY <1>2, <1>5
  <2>3. Hop(L[depth].level, towards) \subseteq Hop(B[depth], towards)
    <3>1. L[depth].level \cup B[depth] = B[depth]
      BY <2>2
    <3>2. Hop(L[depth].level \cup B[depth], towards)
            = Hop(L[depth].level, towards) \cup Hop(B[depth], towards)
      BY DEF Hop
    <3> QED  BY <3>1, <3>2
  <2>4. Hop(L[depth].level, towards) \ B[depth] = B[depth + 1] \ B[depth]
    BY <2>1, <2>2, <2>3
  <2>5. CASE L[depth].level = {}
    <3>1. Hop(L[depth].level, towards) = {}
      BY <2>5 DEF Hop
    <3> QED  BY <1>4, <2>4, <2>5, <3>1, FS_EmptySet
  <2>6. CASE L[depth].level # {}
    BY <1>4, <2>2, <2>4, <2>6
  <2> QED  BY <2>5, <2>6
<1> QED  BY <1>6, <1>7, <1>8 DEF Exact

\* The hops that impact reports are the exact distances from the seeds, its
\* total and its cut count every function once (impact, IMPACT_MAX_DEPTH).
THEOREM ImpactIsTheBall == Spec => []ImpactExact
<1>1. ImpactExact
  <2> SUFFICES ASSUME NEW S \in Seeds, NEW towards \in {"callers", "callees"},
                      NEW depth \in 1..MaxDepth
               PROVE  LET B == Ball(S, towards)
                          A == Impact(S, towards, depth)
                      IN  /\ \A i \in 1..depth : A.byDepth[i] = B[i] \ B[i - 1]
                          /\ A.total = Cardinality(B[depth]) - Cardinality(S)
                          /\ A.beyond = Cardinality(B[depth + 1] \ B[depth])
    BY DEF ImpactExact
  <2> DEFINE B == Ball(S, towards)
             A == Impact(S, towards, depth)
  <2>1. B = Ball(S, towards) /\ A = Impact(S, towards, depth)
    OBVIOUS
  <2> HIDE DEF B, A
  <2>2. S \in SUBSET Node
    <3>1. Defined \subseteq Node
      BY DEF Defined, Node
    <3>2. \A H \in Matches : H \subseteq Defined
      BY DEF Matches
    <3> QED  BY <3>1, <3>2 DEF Seeds
  <2>3. Exact(A, B, S, depth)
    BY <2>1, <2>2, ImpactIsExact
  <2> QED  BY <2>3 DEF A, B, Exact
<1> QED  BY <1>1, PTL

-----------------------------------------------------------------------------
(***************************************************************************)
(* Proofs about the page, for any files, links, clusters and sliders.      *)
(*                                                                         *)
(* Every handler first writes its own fields and then runs                 *)
(* applyVisibility.  Ready is what the fields satisfy in between, Good     *)
(* what the pass makes of a ready page whatever was written; the frames    *)
(* of the ease keep Good.                                                  *)
(***************************************************************************)
IsWhole(pos) == \E s \in Spreads : pos = Whole(s)

Fields == {"focusSeeds", "focusWasOn", "focusStack", "depth", "dirMode",
           "activeClusters", "showInst", "collapsed", "supMem", "spread", "pos",
           "posSaved", "compactTgt", "compactAnim"}

Shape(p) == DOMAIN p = Fields /\ p = [f \in Fields |-> p[f]]

Ready(p) ==
  /\ Shape(p)
  /\ p.posSaved = NONE => IsWhole(p.pos) /\ ~p.compactAnim
  /\ p.posSaved # NONE => IsWhole(p.posSaved)
  /\ p.focusSeeds \subseteq Nodes
  /\ p.focusStack \in Seq((SUBSET Nodes) \ {{}})
  /\ p.focusSeeds = {} => p.focusStack = <<>>
  /\ p.compactAnim \in BOOLEAN /\ p.showInst \in BOOLEAN

Rested(p) ==
  p.focusSeeds # {} /\ ~p.compactAnim =>
    /\ p.compactTgt = CompactBall(p, p.compactTgt.merged)
    /\ \A n \in p.compactTgt.lit : p.pos[n] = InBall

Good(p) ==
  /\ Ready(p)
  /\ p.posSaved = NONE <=> p.focusSeeds = {}
  /\ p.focusWasOn = (p.focusSeeds # {})
  /\ Rested(p)
-----------------------------------------------------------------------------
(***************************************************************************)
(* The pass.                                                               *)
(***************************************************************************)
\* A ball is a function of the seeds, the filters, the sliders, the inst tier
\* and the saved layout.
LEMMA BallDepends ==
  ASSUME NEW p, NEW q, NEW m,
         p.focusSeeds = q.focusSeeds, p.dirMode = q.dirMode,
         p.activeClusters = q.activeClusters, p.spread = q.spread,
         p.showInst = q.showInst, p.posSaved = q.posSaved
  PROVE  CompactBall(p, m) = CompactBall(q, m)
<1>1. UpTo(p, 1) = UpTo(q, 1)
  BY DEF UpTo
<1>2. nodeVisible(p) = nodeVisible(q)
  BY DEF nodeVisible
<1> QED
  BY <1>1, <1>2 DEF CompactBall

LEMMA BallFields ==
  ASSUME NEW p, NEW m
  PROVE  /\ CompactBall(p, m).merged = m
         /\ CompactBall(p, m).lit \subseteq Nodes
BY DEF CompactBall, nodeVisible

\* What was placed stands in the ball.
LEMMA PlacedInBall ==
  ASSUME NEW pos, NEW ball, ball.lit \subseteq Nodes
  PROVE  \A n \in ball.lit : Placed(pos, ball)[n] = InBall
BY DEF Placed

LEMMA SeedReady ==
  ASSUME NEW p, Ready(p)
  PROVE  /\ Ready(SeedInst(p))
         /\ SeedInst(p).focusWasOn = (p.focusSeeds # {})
         /\ SeedInst(p).focusSeeds = p.focusSeeds
         /\ p.focusSeeds # {} /\ p.focusWasOn => SeedInst(p).showInst = p.showInst
<1> DEFINE q == SeedInst(p)
<1>1. Shape(q)
  BY DEF Ready, Shape, Fields, SeedInst
<1>2. /\ q.focusWasOn = (p.focusSeeds # {}) /\ q.focusSeeds = p.focusSeeds
      /\ q.pos = p.pos /\ q.posSaved = p.posSaved
      /\ q.focusStack = p.focusStack /\ q.compactAnim = p.compactAnim
      /\ q.showInst \in BOOLEAN
      /\ p.focusSeeds # {} /\ p.focusWasOn => q.showInst = p.showInst
  BY DEF Ready, Entering, Shape, Fields, SeedInst
<1> HIDE DEF q
<1>3. Ready(q)
  BY <1>1, <1>2 DEF Ready
<1> QED
  BY <1>2, <1>3 DEF q

LEMMA CollapseKeeps ==
  ASSUME NEW p, Good(p)
  PROVE  /\ Good(refreshCollapse(p))
         /\ refreshCollapse(p).focusSeeds = p.focusSeeds
         /\ refreshCollapse(p).showInst = p.showInst
<1> DEFINE q == refreshCollapse(p)
<1>1. PICK m : q = [p EXCEPT !.supMem = m]
  BY DEF refreshCollapse
<1>2. Ready(q)
  BY <1>1 DEF Good, Ready, Shape, Fields
<1>3. \A k : CompactBall(p, k) = CompactBall(q, k)
  BY <1>1, BallDepends DEF Good, Ready, Shape, Fields
<1>4. Rested(q)
  BY <1>1, <1>3 DEF Good, Ready, Shape, Fields, Rested
<1> QED
  BY <1>1, <1>2, <1>4 DEF Good, Ready, Shape, Fields

LEMMA CompactGood ==
  ASSUME NEW p, Ready(p), p.focusWasOn = (p.focusSeeds # {})
  PROVE  /\ Good(Compact(p))
         /\ Compact(p).focusSeeds = p.focusSeeds
         /\ Compact(p).showInst = p.showInst
<1>1. CASE p.focusSeeds # {} /\ p.posSaved = NONE
  <2> DEFINE q == [p EXCEPT !.posSaved = p.pos]
             b == CompactBall(q, p.supMem)
             r == [q EXCEPT !.compactTgt = b, !.compactAnim = b.lit # {}]
  <2>1. Compact(p) = r
    BY <1>1 DEF Compact, EaseIn
  <2>2. /\ Shape(q) /\ q.posSaved = p.pos
        /\ q.focusSeeds = p.focusSeeds /\ q.focusWasOn = p.focusWasOn
        /\ q.pos = p.pos /\ q.focusStack = p.focusStack
        /\ q.showInst = p.showInst
    BY DEF Ready, Shape, Fields
  <2> HIDE DEF q
  <2>3. /\ Shape(r) /\ r.compactTgt = b /\ r.compactAnim = (b.lit # {})
        /\ r.posSaved = q.posSaved /\ r.focusSeeds = q.focusSeeds
        /\ r.focusWasOn = q.focusWasOn /\ r.pos = q.pos
        /\ r.focusStack = q.focusStack
    BY <2>2 DEF Shape, Fields
  <2>4. /\ r.dirMode = q.dirMode /\ r.activeClusters = q.activeClusters
        /\ r.spread = q.spread /\ r.showInst = q.showInst
    BY <2>2 DEF Shape, Fields
  <2> HIDE DEF r
  <2>5. CompactBall(r, p.supMem) = b /\ b.merged = p.supMem
    BY <2>3, <2>4, BallDepends, BallFields
  <2> HIDE DEF b
  <2>6. IsWhole(r.posSaved) /\ r.posSaved # NONE
    BY <1>1, <2>2, <2>3, PageAssumption DEF Ready, IsWhole
  <2>7. r.compactAnim \in BOOLEAN
    BY <2>3
  <2>8. Ready(r)
    BY <1>1, <2>2, <2>3, <2>4, <2>6, <2>7 DEF Ready
  <2>9. Rested(r)
    BY <2>3, <2>5 DEF Rested
  <2> QED
    BY <1>1, <2>1, <2>2, <2>3, <2>4, <2>6, <2>8, <2>9 DEF Good
<1>2. CASE p.focusSeeds # {} /\ p.posSaved # NONE /\ ~p.compactAnim
  <2> DEFINE b == CompactBall(p, p.supMem)
             r == [p EXCEPT !.compactTgt = b, !.pos = Placed(p.pos, b)]
  <2>1. Compact(p) = r
    BY <1>2 DEF Compact, Recompute
  <2>2. /\ Shape(r) /\ r.compactTgt = b /\ r.pos = Placed(p.pos, b)
        /\ r.compactAnim = p.compactAnim
        /\ r.posSaved = p.posSaved /\ r.focusSeeds = p.focusSeeds
        /\ r.focusWasOn = p.focusWasOn /\ r.focusStack = p.focusStack
    BY DEF Ready, Shape, Fields
  <2>3. /\ r.dirMode = p.dirMode /\ r.activeClusters = p.activeClusters
        /\ r.spread = p.spread /\ r.showInst = p.showInst
    BY DEF Ready, Shape, Fields
  <2> HIDE DEF r
  <2>4. /\ CompactBall(r, p.supMem) = b /\ b.merged = p.supMem
        /\ b.lit \subseteq Nodes
    BY <2>2, <2>3, BallDepends, BallFields
  <2> HIDE DEF b
  <2>5. Ready(r)
    BY <1>2, <2>2, <2>3 DEF Ready
  <2>6. Rested(r)
    <3>1. r.compactTgt = CompactBall(r, r.compactTgt.merged)
      BY <2>2, <2>4
    <3>2. \A n \in b.lit : r.pos[n] = InBall
      BY <2>2, <2>4, PlacedInBall
    <3> QED
      BY <2>2, <3>1, <3>2 DEF Rested
  <2> QED
    BY <1>2, <2>1, <2>2, <2>3, <2>5, <2>6 DEF Good
<1>3. CASE p.focusSeeds # {} /\ p.posSaved # NONE /\ p.compactAnim
  BY <1>3 DEF Compact, Good, Rested
<1>4. CASE p.focusSeeds = {} /\ p.posSaved # NONE
  <2> DEFINE r == PutBack(p)
  <2>1. Compact(p) = r
    BY <1>4 DEF Compact
  <2>2. /\ Shape(r) /\ r.pos = p.posSaved /\ r.posSaved = NONE
        /\ r.compactAnim = FALSE /\ r.focusSeeds = p.focusSeeds
        /\ r.focusWasOn = p.focusWasOn /\ r.focusStack = p.focusStack
        /\ r.showInst = p.showInst
    BY DEF PutBack, Ready, Shape, Fields
  <2> HIDE DEF r
  <2> QED
    BY <1>4, <2>1, <2>2 DEF Good, Ready, Rested
<1>5. CASE p.focusSeeds = {} /\ p.posSaved = NONE
  BY <1>5 DEF Compact, Good, Rested
<1> QED
  BY <1>1, <1>2, <1>3, <1>4, <1>5 DEF Ready

LEMMA PassGood ==
  ASSUME NEW p, Ready(p)
  PROVE  /\ Good(applyVisibility(p))
         /\ applyVisibility(p).focusSeeds = p.focusSeeds
         /\ p.focusSeeds # {} /\ p.focusWasOn =>
              applyVisibility(p).showInst = p.showInst
<1> DEFINE q == SeedInst(p)
           r == Compact(q)
<1>1. /\ Ready(q) /\ q.focusWasOn = (q.focusSeeds # {})
      /\ q.focusSeeds = p.focusSeeds
      /\ p.focusSeeds # {} /\ p.focusWasOn => q.showInst = p.showInst
  BY SeedReady
<1>2. Good(r) /\ r.focusSeeds = q.focusSeeds /\ r.showInst = q.showInst
  <2> HIDE DEF q
  <2> QED
    BY <1>1, CompactGood
<1>3. applyVisibility(p) = refreshCollapse(r)
  BY DEF applyVisibility
<1> HIDE DEF q, r
<1> QED
  BY <1>1, <1>2, <1>3, CollapseKeeps

LEMMA SpreadReady ==
  ASSUME NEW p, Ready(p), NEW s \in Spreads
  PROVE  /\ Ready(applySpread(p, s))
         /\ applySpread(p, s).focusSeeds = p.focusSeeds
<1>1. CASE s = p.spread
  BY <1>1 DEF applySpread
<1>2. CASE s # p.spread
  <2> DEFINE q == [p EXCEPT !.spread = s, !.pos = Whole(s)]
  <2>1. /\ Shape(q) /\ q.pos = Whole(s)
        /\ q.posSaved = p.posSaved /\ q.compactAnim = p.compactAnim
        /\ q.focusSeeds = p.focusSeeds /\ q.focusStack = p.focusStack
        /\ q.showInst = p.showInst
    BY DEF Ready, Shape, Fields
  <2>2. applySpread(p, s) = applyVisibility(q)
    BY <1>2 DEF applySpread
  <2> HIDE DEF q
  <2>3. Ready(q)
    BY <2>1 DEF Ready, IsWhole
  <2> QED
    BY <2>1, <2>2, <2>3, PassGood DEF Good
<1> QED
  BY <1>1, <1>2

LEMMA SpreadGood ==
  ASSUME NEW p, Good(p), NEW s \in Spreads
  PROVE  /\ Good(applySpread(p, s))
         /\ p.focusSeeds # {} => applySpread(p, s).showInst = p.showInst
<1>1. CASE s = p.spread
  BY <1>1 DEF applySpread
<1>2. CASE s # p.spread
  <2> DEFINE q == [p EXCEPT !.spread = s, !.pos = Whole(s)]
  <2>1. /\ Shape(q) /\ q.pos = Whole(s)
        /\ q.posSaved = p.posSaved /\ q.compactAnim = p.compactAnim
        /\ q.focusSeeds = p.focusSeeds /\ q.focusStack = p.focusStack
        /\ q.showInst = p.showInst /\ q.focusWasOn = p.focusWasOn
    BY DEF Good, Ready, Shape, Fields
  <2>2. applySpread(p, s) = applyVisibility(q)
    BY <1>2 DEF applySpread
  <2> HIDE DEF q
  <2>3. Ready(q)
    BY <2>1 DEF Good, Ready, IsWhole
  <2>4. p.focusSeeds # {} => p.focusWasOn
    BY DEF Good
  <2>5. /\ Good(applyVisibility(q))
        /\ q.focusSeeds # {} /\ q.focusWasOn =>
             applyVisibility(q).showInst = q.showInst
    BY <2>3, PassGood
  <2> QED
    BY <2>1, <2>2, <2>4, <2>5
<1> QED
  BY <1>1, <1>2

-----------------------------------------------------------------------------
(***************************************************************************)
(* The handlers: what each writes before its pass.                         *)
(***************************************************************************)
Writes(q) ==
  /\ Ready(q)
  /\ page' = applyVisibility(q)
  /\ \/ q.focusSeeds = {}
     \/ ToggleInst
     \/ q.focusWasOn = page.focusWasOn /\ q.showInst = page.showInst

\* A handler that leaves the places alone keeps the page ready.
LEMMA WriteReady ==
  ASSUME NEW p, NEW q, Ready(p), Shape(q), q.pos = p.pos,
         q.posSaved = p.posSaved, q.compactAnim = p.compactAnim,
         q.focusSeeds \subseteq Nodes, q.showInst \in BOOLEAN,
         q.focusStack \in Seq((SUBSET Nodes) \ {{}}),
         q.focusSeeds = {} => q.focusStack = <<>>
  PROVE  Ready(q)
BY DEF Ready

\* The focuses pushed are never empty.
LEMMA PushedStack ==
  ASSUME NEW p, Ready(p)
  PROVE  /\ Pushed(p) \in Seq((SUBSET Nodes) \ {{}})
         /\ p.focusSeeds = {} => Pushed(p) = <<>>
<1> DEFINE Focuses == (SUBSET Nodes) \ {{}}
           s == Append(p.focusStack, p.focusSeeds)
<1>1. CASE p.focusSeeds = {}
  BY <1>1 DEF Ready, Pushed
<1>2. CASE p.focusSeeds # {}
  <2>1. p.focusSeeds \in Focuses /\ p.focusStack \in Seq(Focuses)
    BY <1>2 DEF Ready
  <2> HIDE DEF Focuses
  <2>2. s \in Seq(Focuses) /\ s # <<>>
    BY <2>1
  <2> HIDE DEF s
  <2>3. Tail(s) \in Seq(Focuses)
    BY <2>2
  <2> QED
    BY <1>2, <2>2, <2>3 DEF Pushed, s, Focuses
<1> QED
  BY <1>1, <1>2

LEMMA ClearedWrites ==
  ASSUME Good(page), page' = Cleared(page)
  PROVE  \E q : Writes(q)
<1> DEFINE q == [page EXCEPT !.focusSeeds = {}, !.focusStack = <<>>, !.depth = 1,
                             !.showInst = FALSE]
<1>1. /\ Shape(q) /\ q.pos = page.pos /\ q.posSaved = page.posSaved
      /\ q.compactAnim = page.compactAnim /\ q.focusSeeds = {}
      /\ q.showInst = FALSE /\ q.focusStack = <<>>
  BY DEF Good, Ready, Shape, Fields
<1>2. page' = applyVisibility(q)
  BY DEF Cleared
<1> HIDE DEF q
<1>3. q.focusStack \in Seq((SUBSET Nodes) \ {{}})
  BY <1>1
<1>4. Ready(q)
  BY <1>1, <1>3, WriteReady DEF Good
<1> QED
  BY <1>1, <1>2, <1>4 DEF Writes

LEMMA FocusWrites ==
  ASSUME Good(page), NEW n \in Nodes, Focus(n)
  PROVE  \E q : Writes(q)
<1> DEFINE q == [page EXCEPT !.focusStack = Pushed(page), !.focusSeeds = {n}]
<1>1. /\ Shape(q) /\ q.pos = page.pos /\ q.posSaved = page.posSaved
      /\ q.compactAnim = page.compactAnim /\ q.focusSeeds = {n}
      /\ q.focusStack = Pushed(page) /\ q.showInst = page.showInst
      /\ q.focusWasOn = page.focusWasOn /\ page.showInst \in BOOLEAN
  BY DEF Good, Ready, Shape, Fields
<1>2. page' = applyVisibility(q)
  BY DEF Focus, Refocused
<1> HIDE DEF q
<1>3. q.focusStack \in Seq((SUBSET Nodes) \ {{}})
  BY <1>1, PushedStack DEF Good
<1>4. Ready(q)
  BY <1>1, <1>3, WriteReady DEF Good
<1> QED
  BY <1>1, <1>2, <1>4 DEF Writes

LEMMA StackRootWrites ==
  ASSUME Good(page), NEW n \in Nodes, StackRoot(n)
  PROVE  \E q : Writes(q)
<1>1. CASE n \notin page.focusSeeds
  <2> DEFINE q == [page EXCEPT !.focusStack = Pushed(page),
                               !.focusSeeds = page.focusSeeds \cup {n}]
  <2>1. /\ Shape(q) /\ q.pos = page.pos /\ q.posSaved = page.posSaved
        /\ q.compactAnim = page.compactAnim /\ q.focusSeeds = page.focusSeeds \cup {n}
        /\ q.focusStack = Pushed(page) /\ q.showInst = page.showInst
        /\ q.focusWasOn = page.focusWasOn /\ page.showInst \in BOOLEAN
        /\ page.focusSeeds \subseteq Nodes
    BY DEF Good, Ready, Shape, Fields
  <2>2. page' = applyVisibility(q)
    BY <1>1 DEF StackRoot
  <2> HIDE DEF q
  <2>3. q.focusStack \in Seq((SUBSET Nodes) \ {{}})
    BY <2>1, PushedStack DEF Good
  <2>4. Ready(q)
    BY <2>1, <2>3, WriteReady DEF Good
  <2> QED
    BY <2>1, <2>2, <2>4 DEF Writes
<1>2. CASE n \in page.focusSeeds /\ page.focusSeeds = {n}
  BY <1>2, ClearedWrites DEF StackRoot
<1>3. CASE n \in page.focusSeeds /\ page.focusSeeds # {n}
  <2> DEFINE q == [page EXCEPT !.focusSeeds = page.focusSeeds \ {n}]
  <2>1. /\ Shape(q) /\ q.pos = page.pos /\ q.posSaved = page.posSaved
        /\ q.compactAnim = page.compactAnim /\ q.focusSeeds = page.focusSeeds \ {n}
        /\ q.focusStack = page.focusStack /\ q.showInst = page.showInst
        /\ q.focusWasOn = page.focusWasOn /\ page.showInst \in BOOLEAN
        /\ page.focusSeeds \subseteq Nodes
        /\ page.focusStack \in Seq((SUBSET Nodes) \ {{}})
    BY DEF Good, Ready, Shape, Fields
  <2>2. page' = applyVisibility(q)
    BY <1>3 DEF StackRoot
  <2> HIDE DEF q
  <2>3. q.focusSeeds # {}
    BY <1>3, <2>1
  <2>4. Ready(q)
    BY <2>1, <2>3, WriteReady DEF Good
  <2> QED
    BY <2>1, <2>2, <2>4 DEF Writes
<1> QED
  BY <1>1, <1>2, <1>3

LEMMA BackWrites ==
  ASSUME Good(page), Back
  PROVE  \E q : Writes(q)
<1> DEFINE Focuses == (SUBSET Nodes) \ {{}}
           top == Len(page.focusStack)
           rest == SubSeq(page.focusStack, 1, top - 1)
           q == [page EXCEPT !.focusSeeds = page.focusStack[top],
                             !.focusStack = rest]
<1>1. /\ Shape(q) /\ q.pos = page.pos /\ q.posSaved = page.posSaved
      /\ q.compactAnim = page.compactAnim
      /\ q.focusSeeds = page.focusStack[top]
      /\ q.focusStack = rest /\ q.showInst = page.showInst
      /\ q.focusWasOn = page.focusWasOn /\ page.showInst \in BOOLEAN
  BY DEF Good, Ready, Shape, Fields
<1>2. page' = applyVisibility(q)
  BY DEF Back
<1>3. page.focusStack \in Seq(Focuses) /\ page.focusStack # <<>>
  BY DEF Good, Ready, Back
<1> HIDE DEF q, Focuses
<1>4. page.focusStack[top] \in Focuses /\ rest \in Seq(Focuses)
  <2>1. top \in Nat /\ top > 0
    BY <1>3
  <2>2. \A i \in 1..(top - 1) : page.focusStack[i] \in Focuses
    BY <1>3, <2>1
  <2> QED
    BY <1>3, <2>1, <2>2
<1>5. Ready(q)
  BY <1>1, <1>4, WriteReady DEF Good, Focuses
<1> QED
  BY <1>1, <1>2, <1>5 DEF Writes

\* What the sliders, chips and toggles write has no part in the focus.
Unfocused(q) ==
  /\ Shape(q)
  /\ q.pos = page.pos /\ q.posSaved = page.posSaved
  /\ q.compactAnim = page.compactAnim /\ q.focusSeeds = page.focusSeeds
  /\ q.focusStack = page.focusStack /\ q.focusWasOn = page.focusWasOn

LEMMA FilterWrites ==
  ASSUME Good(page), NEW q, Unfocused(q), page' = applyVisibility(q),
         q.showInst \in BOOLEAN, q.showInst = page.showInst \/ ToggleInst
  PROVE  \E r : Writes(r)
<1>1. Ready(q)
  BY WriteReady DEF Good, Ready, Unfocused
<1> QED
  BY <1>1 DEF Writes, Unfocused

LEMMA SlidersWrite ==
  ASSUME Good(page),
         \/ \E d \in Depths : SetDepth(d)
         \/ \E m \in DirModes : SetDir(m)
         \/ \E c \in ClusterIds : ToggleCluster(c)
         \/ ToggleInst \/ ToggleGroups \/ ToggleCollapse \/ Reapply
  PROVE  \E r : Writes(r)
<1> page.showInst \in BOOLEAN
  BY DEF Good, Ready
<1>1. CASE \E d \in Depths : SetDepth(d)
  <2>0. PICK d \in Depths : SetDepth(d)
    BY <1>1
  <2> DEFINE q == [page EXCEPT !.depth = d]
  <2>1. Unfocused(q) /\ q.showInst = page.showInst
    BY DEF Good, Ready, Shape, Fields, Unfocused
  <2>2. page' = applyVisibility(q)
    BY <2>0 DEF SetDepth
  <2> HIDE DEF q
  <2> QED
    BY <2>1, <2>2, FilterWrites
<1>2. CASE \E m \in DirModes : SetDir(m)
  <2>0. PICK m \in DirModes : SetDir(m)
    BY <1>2
  <2> DEFINE q == [page EXCEPT !.dirMode = m]
  <2>1. Unfocused(q) /\ q.showInst = page.showInst
    BY DEF Good, Ready, Shape, Fields, Unfocused
  <2>2. page' = applyVisibility(q)
    BY <2>0 DEF SetDir
  <2> HIDE DEF q
  <2> QED
    BY <2>1, <2>2, FilterWrites
<1>3. CASE \E c \in ClusterIds : ToggleCluster(c)
  <2>0. PICK c \in ClusterIds : ToggleCluster(c)
    BY <1>3
  <2> DEFINE q == [page EXCEPT !.activeClusters =
                               IF c \in page.activeClusters THEN page.activeClusters \ {c}
                               ELSE page.activeClusters \cup {c}]
  <2>1. Unfocused(q) /\ q.showInst = page.showInst
    BY DEF Good, Ready, Shape, Fields, Unfocused
  <2>2. page' = applyVisibility(q)
    BY <2>0 DEF ToggleCluster
  <2> HIDE DEF q
  <2> QED
    BY <2>1, <2>2, FilterWrites
<1>4. CASE ToggleInst
  <2> DEFINE q == [page EXCEPT !.showInst = ~page.showInst]
  <2>1. Unfocused(q) /\ q.showInst \in BOOLEAN
    BY DEF Good, Ready, Shape, Fields, Unfocused
  <2>2. page' = applyVisibility(q)
    BY <1>4 DEF ToggleInst
  <2> HIDE DEF q
  <2> QED
    BY <2>1, <2>2, FilterWrites, <1>4
<1>5. CASE ToggleGroups
  <2> DEFINE q == [page EXCEPT !.activeClusters = {}]
  <2>1. Unfocused(q) /\ q.showInst = page.showInst
    BY DEF Good, Ready, Shape, Fields, Unfocused
  <2>2. page' = applyVisibility(q)
    BY <1>5 DEF ToggleGroups
  <2> HIDE DEF q
  <2> QED
    BY <2>1, <2>2, FilterWrites
<1>6. CASE ToggleCollapse
  <2> DEFINE q == [page EXCEPT !.collapsed = ~page.collapsed]
  <2>1. Unfocused(q) /\ q.showInst = page.showInst
    BY DEF Good, Ready, Shape, Fields, Unfocused
  <2>2. page' = applyVisibility(q)
    BY <1>6 DEF ToggleCollapse
  <2> HIDE DEF q
  <2> QED
    BY <2>1, <2>2, FilterWrites
<1>7. CASE Reapply
  <2>1. Unfocused(page)
    BY DEF Good, Ready, Unfocused
  <2> QED
    BY <1>7, <2>1, FilterWrites DEF Reapply
<1> QED
  BY <1>1, <1>2, <1>3, <1>4, <1>5, <1>6, <1>7

LEMMA ResetWrites ==
  ASSUME Good(page), Reset
  PROVE  \E r : Writes(r)
<1> DEFINE q == [Boot EXCEPT !.focusWasOn = page.focusWasOn, !.supMem = page.supMem,
                             !.spread = page.spread, !.pos = page.pos,
                             !.posSaved = page.posSaved,
                             !.compactTgt = page.compactTgt,
                             !.compactAnim = page.compactAnim]
           r == applySpread(q, 1)
<1>1. /\ Shape(q) /\ q.pos = page.pos /\ q.posSaved = page.posSaved
      /\ q.compactAnim = page.compactAnim /\ q.focusSeeds = {}
      /\ q.showInst = FALSE /\ q.focusStack = <<>>
  BY DEF Boot, Shape, Fields
<1>2. page' = applyVisibility(r)
  BY DEF Reset
<1> HIDE DEF q
<1>3. q.focusStack \in Seq((SUBSET Nodes) \ {{}})
  BY <1>1
<1>4. Ready(q)
  BY <1>1, <1>3, WriteReady DEF Good
<1>5. Ready(r) /\ r.focusSeeds = {}
  BY <1>1, <1>4, SpreadReady, PageAssumption
<1> HIDE DEF r
<1> QED
  BY <1>2, <1>5 DEF Writes

LEMMA EaseEndWrites ==
  ASSUME Good(page), EaseEnd
  PROVE  \E r : Writes(r)
<1> DEFINE q == [page EXCEPT !.compactAnim = FALSE,
                             !.pos = Placed(page.pos, page.compactTgt)]
<1>1. /\ Shape(q) /\ q.posSaved = page.posSaved /\ q.compactAnim = FALSE
      /\ q.focusSeeds = page.focusSeeds /\ q.focusStack = page.focusStack
      /\ q.showInst = page.showInst /\ q.focusWasOn = page.focusWasOn
      /\ page.showInst \in BOOLEAN
  BY DEF Good, Ready, Shape, Fields
<1>2. page' = applyVisibility(q)
  BY DEF EaseEnd, Landed
<1>3. page.posSaved # NONE
  BY DEF EaseEnd, Good, Ready
<1> HIDE DEF q
<1>4. Ready(q)
  BY <1>1, <1>3 DEF Good, Ready
<1> QED
  BY <1>1, <1>2, <1>4 DEF Writes

-----------------------------------------------------------------------------
(***************************************************************************)
(* The invariant.                                                          *)
(***************************************************************************)
LEMMA BootGood ==
  ASSUME PageInit
  PROVE  Good(page)
<1>1. /\ Shape(page) /\ page.pos = Whole(1) /\ page.posSaved = NONE
      /\ page.compactAnim = FALSE /\ page.focusSeeds = {}
      /\ page.showInst = FALSE /\ page.focusStack = <<>>
      /\ page.focusWasOn = FALSE
  BY DEF PageInit, Boot, Shape, Fields
<1>2. page.focusStack \in Seq((SUBSET Nodes) \ {{}})
  BY <1>1
<1> QED
  BY <1>1, <1>2, PageAssumption DEF Good, Ready, Rested, IsWhole

\* A frame moves files that are on their way, in a focus.
LEMMA FrameGood ==
  ASSUME Good(page), EaseFrame
  PROVE  /\ Good(page')
         /\ page'.showInst = page.showInst
<1> DEFINE at == [n \in Nodes |-> IF n \in page.compactTgt.lit THEN Easing ELSE page.pos[n]]
<1>1. page' = [page EXCEPT !.pos = at] /\ page.compactAnim
  BY DEF EaseFrame
<1> HIDE DEF at
<1>2. /\ Shape(page') /\ page'.posSaved = page.posSaved
      /\ page'.compactAnim = page.compactAnim
      /\ page'.focusSeeds = page.focusSeeds /\ page'.focusStack = page.focusStack
      /\ page'.showInst = page.showInst /\ page'.focusWasOn = page.focusWasOn
  BY <1>1 DEF Good, Ready, Shape, Fields
<1>3. page.posSaved # NONE
  BY <1>1 DEF Good, Ready
<1> QED
  BY <1>1, <1>2, <1>3 DEF Good, Ready, Rested

LEMMA StepWrites ==
  ASSUME Good(page), PageNext
  PROVE  \/ \E q : Writes(q)
         \/ \E s \in Spreads : SetSpread(s)
         \/ EaseFrame
<1>1. CASE \E n \in Nodes : Focus(n) \/ StackRoot(n)
  BY <1>1, FocusWrites, StackRootWrites
<1>2. CASE Clear
  BY <1>2, ClearedWrites DEF Clear
<1>3. CASE Back
  BY <1>3, BackWrites
<1>4. CASE \/ \E d \in Depths : SetDepth(d)
           \/ \E m \in DirModes : SetDir(m)
           \/ \E c \in ClusterIds : ToggleCluster(c)
           \/ ToggleInst \/ ToggleGroups \/ ToggleCollapse \/ Reapply
  BY <1>4, SlidersWrite
<1>5. CASE Reset
  BY <1>5, ResetWrites
<1>6. CASE EaseEnd
  BY <1>6, EaseEndWrites
<1> QED
  BY <1>1, <1>2, <1>3, <1>4, <1>5, <1>6 DEF PageNext, Handlers

LEMMA GoodStep ==
  ASSUME Good(page), [PageNext]_page
  PROVE  /\ Good(page')
         /\ page.focusSeeds # {} /\ page'.focusSeeds # {} =>
              page'.showInst = page.showInst \/ ToggleInst
<1>1. CASE \E q : Writes(q)
  <2>1. PICK q : Writes(q)
    BY <1>1
  <2>2. /\ Good(page') /\ page'.focusSeeds = q.focusSeeds
        /\ q.focusSeeds # {} /\ q.focusWasOn => page'.showInst = q.showInst
    BY <2>1, PassGood DEF Writes
  <2>3. page.focusSeeds # {} => page.focusWasOn
    BY DEF Good
  <2> QED
    BY <2>1, <2>2, <2>3 DEF Writes
<1>2. CASE \E s \in Spreads : SetSpread(s)
  <2>1. PICK s \in Spreads : page' = applySpread(page, s)
    BY <1>2 DEF SetSpread
  <2> QED
    BY <2>1, SpreadGood
<1>3. CASE EaseFrame
  BY <1>3, FrameGood
<1>4. CASE UNCHANGED page
  BY <1>4
<1> QED
  BY <1>1, <1>2, <1>3, <1>4, StepWrites

\* The strengthening: what the pass makes of a page holds of every state.
THEOREM PageGood == PageSpec => []Good(page)
<1>1. PageInit => Good(page)
  BY BootGood
<1>2. Good(page) /\ [PageNext]_page => Good(page)'
  BY GoodStep
<1> QED
  BY <1>1, <1>2, PTL DEF PageSpec

\* Out of focus the files stand in one frozen layout and nothing of a focus
\* is left, for any files, links and clusters.
THEOREM AlwaysOverviewClean == PageSpec => []OverviewClean
<1>1. Good(page) => OverviewClean
  BY DEF Good, Ready, IsWhole, OverviewClean
<1> QED
  BY <1>1, PageGood, PTL

\* With no ease running, the lit files stand in the ball of the present state.
THEOREM AlwaysSettledExact == PageSpec => []SettledExact
<1>1. Good(page) => SettledExact
  <2> SUFFICES ASSUME Good(page), page.focusSeeds # {}, ~page.compactAnim
               PROVE  SettledExact
    BY DEF SettledExact
  <2> DEFINE ball == CompactBall(page, page.compactTgt.merged)
  <2>1. page.compactTgt = ball /\ \A n \in page.compactTgt.lit : page.pos[n] = InBall
    BY DEF Good, Rested
  <2>2. ball.base = page.posSaved
    BY DEF CompactBall
  <2>3. \E s \in Spreads : page.posSaved = Whole(s)
    BY DEF Good, Ready, IsWhole
  <2>4. /\ page.compactTgt = ball
        /\ \A n \in ball.lit : page.pos[n] = InBall
        /\ \E s \in Spreads : ball.base = Whole(s)
    <3> HIDE DEF ball
    <3> QED
      BY <2>1, <2>2, <2>3
  <2> QED
    BY <2>4 DEF SettledExact
<1> QED
  BY <1>1, PageGood, PTL

\* While a focus lasts, only its button changes the inst tier.
THEOREM InstIsSeededOnce == PageSpec => InstSeededOnce
<1>1. Good(page) /\ [PageNext]_page =>
        [page.focusSeeds # {} /\ page'.focusSeeds # {}
           /\ page'.showInst # page.showInst => ToggleInst]_page
  BY GoodStep
<1> QED
  BY <1>1, PageGood, PTL DEF PageSpec, InstSeededOnce

-----------------------------------------------------------------------------
(***************************************************************************)
(* The operators the passes are written with.  A bag is counted by a       *)
(* recursion over the subsets of its domain (Adds): nothing about the      *)
(* order it takes is used.                                                 *)
(***************************************************************************)
\* g is what the recursion of BagCardinality computes on the sets of P.
Adds(g, f, P) ==
  /\ g \in [P -> Nat]
  /\ \A S \in P : g[S] = IF S = {} THEN 0
                         ELSE f[CHOOSE e \in S : TRUE] + g[S \ {CHOOSE e \in S : TRUE}]

Sized(S, n) == {T \in SUBSET S : Cardinality(T) <= n}

LEMMA ChosenGone ==
  ASSUME NEW S, IsFiniteSet(S), NEW n \in Nat, NEW T \in Sized(S, n), T # {}
  PROVE  /\ n > 0 /\ (CHOOSE e \in T : TRUE) \in T
         /\ T \ {CHOOSE e \in T : TRUE} \in Sized(S, n - 1)
         /\ T \ {CHOOSE e \in T : TRUE} \in Sized(S, n)
         /\ Cardinality(T) \in Nat /\ Cardinality(T \ {CHOOSE e \in T : TRUE}) \in Nat
         /\ Cardinality(T) = Cardinality(T \ {CHOOSE e \in T : TRUE}) + 1
<1> DEFINE e == CHOOSE x \in T : TRUE
<1>1. e \in T
  OBVIOUS
<1> HIDE DEF e
<1>2. T \subseteq S /\ IsFiniteSet(T) /\ Cardinality(T) <= n /\ Cardinality(T) \in Nat
  BY FS_Subset, FS_CardinalityType DEF Sized
<1>3. Cardinality(T \ {e}) = Cardinality(T) - 1
  BY <1>1, <1>2, FS_RemoveElement
<1>4. IsFiniteSet(T \ {e}) /\ Cardinality(T \ {e}) \in Nat
  BY <1>2, FS_RemoveElement, FS_CardinalityType
<1>5. n > 0 /\ e \in T /\ T \ {e} \in Sized(S, n - 1) /\ T \ {e} \in Sized(S, n)
      /\ Cardinality(T) \in Nat /\ Cardinality(T \ {e}) \in Nat
      /\ Cardinality(T) = Cardinality(T \ {e}) + 1
  BY <1>1, <1>2, <1>3, <1>4 DEF Sized
<1> QED
  BY <1>5 DEF e

LEMMA AddsExist ==
  ASSUME NEW S, IsFiniteSet(S), NEW f \in [S -> Nat]
  PROVE  \E g : Adds(g, f, SUBSET S)
<1> DEFINE W == {n \in Nat : \E g : Adds(g, f, Sized(S, n))}
<1>1. 0 \in W
  <2>1. \A T \in Sized(S, 0) : T = {}
    <3> TAKE T \in Sized(S, 0)
    <3>1. IsFiniteSet(T) /\ Cardinality(T) = 0
      BY FS_Subset, FS_CardinalityType DEF Sized
    <3> QED  BY <3>1, FS_EmptySet
  <2>2. Adds([T \in Sized(S, 0) |-> 0], f, Sized(S, 0))
    BY <2>1 DEF Adds
  <2> QED  BY <2>2
<1>2. ASSUME NEW n \in Nat, n \in W PROVE n + 1 \in W
  <2>1. PICK g : Adds(g, f, Sized(S, n))
    BY <1>2
  <2> DEFINE e(T) == CHOOSE x \in T : TRUE
             h == [T \in Sized(S, n + 1) |-> IF T = {} THEN 0 ELSE f[e(T)] + g[T \ {e(T)}]]
  <2>2. \A T \in Sized(S, n) : h[T] = g[T]
    <3> SUFFICES ASSUME NEW T \in Sized(S, n) PROVE h[T] = g[T]
      OBVIOUS
    <3>1. T \in Sized(S, n + 1)
      BY FS_Subset, FS_CardinalityType DEF Sized
    <3> QED  BY <2>1, <3>1 DEF Adds
  <2>3. ASSUME NEW T \in Sized(S, n + 1), T # {}
        PROVE  T \ {e(T)} \in Sized(S, n) /\ e(T) \in S
    <3>1. T \ {e(T)} \in Sized(S, (n + 1) - 1) /\ e(T) \in T
      BY <2>3, ChosenGone, n + 1 \in Nat
    <3>2. (n + 1) - 1 = n
      OBVIOUS
    <3>3. T \subseteq S
      BY DEF Sized
    <3> QED  BY <3>1, <3>2, <3>3
  <2>4. h \in [Sized(S, n + 1) -> Nat]
    <3> SUFFICES ASSUME NEW T \in Sized(S, n + 1) PROVE h[T] \in Nat
      OBVIOUS
    <3>1. CASE T = {}
      BY <3>1
    <3>2. CASE T # {}
      <4>1. g[T \ {e(T)}] \in Nat /\ f[e(T)] \in Nat
        BY <2>1, <2>3, <3>2 DEF Adds
      <4> QED  BY <4>1
    <3> QED  BY <3>1, <3>2
  <2>5. ASSUME NEW T \in Sized(S, n + 1)
        PROVE  h[T] = IF T = {} THEN 0 ELSE f[e(T)] + h[T \ {e(T)}]
    <3>1. CASE T = {}
      BY <3>1
    <3>2. CASE T # {}
      <4>1. h[T \ {e(T)}] = g[T \ {e(T)}]
        BY <2>2, <2>3, <3>2
      <4>2. h[T] = f[e(T)] + g[T \ {e(T)}]
        BY <3>2
      <4> HIDE DEF h
      <4> QED  BY <3>2, <4>1, <4>2
    <3> QED  BY <3>1, <3>2
  <2> HIDE DEF h
  <2>6. Adds(h, f, Sized(S, n + 1))
    BY <2>4, <2>5 DEF Adds
  <2> QED  BY <2>6
<1>3. Cardinality(S) \in Nat /\ Sized(S, Cardinality(S)) = SUBSET S
  BY FS_CardinalityType, FS_Subset DEF Sized
<1>4. Nat \subseteq W
  <2> HIDE DEF W
  <2> QED  BY <1>1, <1>2, Inductively
<1>5. PICK g : Adds(g, f, Sized(S, Cardinality(S)))
  BY <1>3, <1>4
<1> QED  BY <1>3, <1>5

\* The count of a bag is the recursion's value at its domain.
LEMMA BagCount ==
  ASSUME NEW S, IsFiniteSet(S), NEW f \in [S -> Nat]
  PROVE  \E g : Adds(g, f, SUBSET S) /\ BagCardinality(f) = g[S]
<1> DEFINE Rec(g) == g = [T \in SUBSET DOMAIN f |->
                            LET e == CHOOSE x \in T : TRUE
                            IN  IF T = {} THEN 0 ELSE f[e] + g[T \ {e}]]
<1>0. DOMAIN f = S
  OBVIOUS
<1>1. PICK g : Adds(g, f, SUBSET S)
  BY AddsExist
<1>2. Rec(g)
  BY <1>0, <1>1 DEF Adds
<1>3. Rec(CHOOSE h : Rec(h))
  <2> HIDE DEF Rec
  <2> QED  BY <1>2
<1> DEFINE h == CHOOSE x : Rec(x)
<1>4. BagCardinality(f) = h[DOMAIN f]
  BY DEF BagCardinality
<1>5. Rec(h)
  BY <1>3
<1> HIDE DEF h
<1>6. h = g
  <2> DEFINE W == {n \in Nat : \A T \in Sized(S, n) : h[T] = g[T]}
  <2>0. \A T \in SUBSET S : h[T] = IF T = {} THEN 0
                         ELSE f[CHOOSE x \in T : TRUE] + h[T \ {CHOOSE x \in T : TRUE}]
    BY <1>0, <1>5
  <2>1. 0 \in W
    <3> SUFFICES ASSUME NEW T \in Sized(S, 0) PROVE h[T] = g[T]
      OBVIOUS
    <3>1. T \subseteq S /\ IsFiniteSet(T) /\ Cardinality(T) = 0
      BY FS_Subset, FS_CardinalityType DEF Sized
    <3>2. T = {}
      BY <3>1, FS_EmptySet
    <3> QED  BY <1>1, <2>0, <3>2 DEF Adds
  <2>2. ASSUME NEW n \in Nat, n \in W PROVE n + 1 \in W
    <3> SUFFICES ASSUME NEW T \in Sized(S, n + 1) PROVE h[T] = g[T]
      OBVIOUS
    <3>1. CASE T = {}
      BY <1>1, <2>0, <3>1 DEF Adds
    <3>2. CASE T # {}
      <4>1. T \ {CHOOSE x \in T : TRUE} \in Sized(S, (n + 1) - 1)
        BY <3>2, ChosenGone, n + 1 \in Nat
      <4>2. (n + 1) - 1 = n /\ T \in SUBSET S
        BY DEF Sized
      <4>3. h[T \ {CHOOSE x \in T : TRUE}] = g[T \ {CHOOSE x \in T : TRUE}]
        BY <2>2, <4>1, <4>2
      <4> QED  BY <1>1, <2>0, <3>2, <4>2, <4>3 DEF Adds
    <3> QED  BY <3>1, <3>2
  <2>3. Cardinality(S) \in Nat /\ Sized(S, Cardinality(S)) = SUBSET S
    BY FS_CardinalityType, FS_Subset DEF Sized
  <2>4. Nat \subseteq W
    <3> HIDE DEF W
    <3> QED  BY <2>1, <2>2, Inductively
  <2>5. \A T \in SUBSET S : h[T] = g[T]
    BY <2>3, <2>4
  <2>6. h = [T \in SUBSET S |-> h[T]] /\ g = [T \in SUBSET S |-> g[T]]
    BY <1>0, <1>1, <1>5 DEF Adds
  <2> QED  BY <2>5, <2>6
<1> QED  BY <1>0, <1>1, <1>4, <1>6

\* A bag of something counts at least its elements, and those exactly when
\* each is there once.
LEMMA BagBounds ==
  ASSUME NEW S, IsFiniteSet(S), NEW f \in [S -> Nat \ {0}]
  PROVE  /\ BagCardinality(f) \in Nat
         /\ BagCardinality(f) >= Cardinality(S)
         /\ (\A x \in S : f[x] = 1) => BagCardinality(f) = Cardinality(S)
<1>1. PICK g : Adds(g, f, SUBSET S) /\ BagCardinality(f) = g[S]
  BY f \in [S -> Nat], BagCount
<1> DEFINE Fits(T) == /\ g[T] \in Nat /\ g[T] >= Cardinality(T)
                      /\ (\A x \in S : f[x] = 1) => g[T] = Cardinality(T)
           W == {n \in Nat : \A T \in Sized(S, n) : Fits(T)}
<1>2. 0 \in W
  <2> SUFFICES ASSUME NEW T \in Sized(S, 0) PROVE Fits(T)
    OBVIOUS
  <2>1. T \subseteq S /\ IsFiniteSet(T) /\ Cardinality(T) = 0
    BY FS_Subset, FS_CardinalityType DEF Sized
  <2>2. T = {}
    BY <2>1, FS_EmptySet
  <2> QED  BY <1>1, <2>1, <2>2 DEF Adds
<1>3. ASSUME NEW n \in Nat, n \in W PROVE n + 1 \in W
  <2> SUFFICES ASSUME NEW T \in Sized(S, n + 1) PROVE Fits(T)
    OBVIOUS
  <2>1. CASE T = {}
    BY <1>1, <2>1, FS_EmptySet DEF Adds
  <2>2. CASE T # {}
    <3> DEFINE e == CHOOSE x \in T : TRUE
    <3>1. /\ T \ {e} \in Sized(S, (n + 1) - 1) /\ e \in T /\ Cardinality(T) \in Nat
          /\ Cardinality(T \ {e}) \in Nat /\ Cardinality(T) = Cardinality(T \ {e}) + 1
      BY <2>2, ChosenGone, n + 1 \in Nat
    <3>2. (n + 1) - 1 = n /\ T \in SUBSET S
      BY DEF Sized
    <3>3. Fits(T \ {e})
      BY <1>3, <3>1, <3>2
    <3>4. g[T] = f[e] + g[T \ {e}]
      BY <1>1, <2>2, <3>2 DEF Adds
    <3> HIDE DEF e
    <3>5. f[e] \in Nat /\ f[e] >= 1
      BY <3>1, <3>2
    <3>6. g[T] \in Nat /\ g[T] >= Cardinality(T)
      BY <3>1, <3>3, <3>4, <3>5
    <3>7. (\A x \in S : f[x] = 1) => g[T] = Cardinality(T)
      <4>1. e \in S
        BY <3>1, <3>2
      <4> QED  BY <3>1, <3>3, <3>4, <4>1
    <3> QED  BY <3>6, <3>7
  <2> QED  BY <2>1, <2>2
<1>4. Nat \subseteq W
  <2> HIDE DEF W
  <2> QED  BY <1>2, <1>3, Inductively
<1>5. Cardinality(S) \in Nat /\ S \in Sized(S, Cardinality(S))
  BY FS_CardinalityType DEF Sized
<1>6. Fits(S)
  BY <1>4, <1>5
<1> QED  BY <1>1, <1>6

LEMMA BagOfOne ==
  ASSUME NEW x, NEW f \in [{x} -> Nat \ {0}]
  PROVE  BagCardinality(f) = f[x]
<1>1. IsFiniteSet({x}) /\ f \in [{x} -> Nat]
  BY FS_Singleton
<1>2. PICK g : Adds(g, f, SUBSET {x}) /\ BagCardinality(f) = g[{x}]
  BY <1>1, BagCount
<1>3. (CHOOSE e \in {x} : TRUE) = x /\ {x} \ {x} = {}
  OBVIOUS
<1>4. g[{x}] = f[x] + g[{}] /\ g[{}] = 0
  BY <1>2, <1>3 DEF Adds
<1> QED  BY <1>2, <1>4

\* Sets listed one by one.
LEMMA Listing ==
  ASSUME NEW S, IsFiniteSet(S)
  PROVE  /\ SetToSeq(S) \in Seq(S)
         /\ \A x \in S : \E i \in DOMAIN SetToSeq(S) : SetToSeq(S)[i] = x
<1>1. PICK b : b \in Bijection(1..Cardinality(S), S)
  BY FS_CardinalityType DEF ExistsBijection
<1>2. b \in [1..Cardinality(S) -> S] /\ IsInjective(b)
  BY <1>1 DEF IsInjective, Bijection, Injection, IsInjective
<1> DEFINE s == SetToSeq(S)
<1>3. s \in [1..Cardinality(S) -> S] /\ IsInjective(s)
  BY <1>2 DEF SetToSeq
<1> HIDE DEF s
<1>4. s \in Injection(1..Cardinality(S), S)
  BY <1>3 DEF IsInjective, Injection
<1>5. Cardinality(S) \in Nat
  BY FS_CardinalityType
<1>6. Cardinality(1..Cardinality(S)) = Cardinality(S)
  BY <1>5, FS_Interval
<1>7. s \in Surjection(1..Cardinality(S), S)
  BY <1>4, <1>6, FS_Injection
<1>8. s \in Seq(S) /\ DOMAIN s = 1..Cardinality(S)
  BY <1>3, <1>5
<1>9. \A x \in S : \E i \in DOMAIN s : s[i] = x
  BY <1>7, <1>8 DEF Surjection
<1> QED  BY <1>8, <1>9 DEF s

\* The places of a set, counted off in their order.
Rank(K, i) == Cardinality({k \in K : k <= i})

LEMMA Ranks ==
  ASSUME NEW K, K \subseteq Nat, IsFiniteSet(K)
  PROVE  /\ \A i \in K : Rank(K, i) \in 1..Cardinality(K)
         /\ \A i, j \in K : Rank(K, i) = Rank(K, j) => i = j
         /\ \A n \in 1..Cardinality(K) : \E i \in K : Rank(K, i) = n
<1>0. Cardinality(K) \in Nat
  BY FS_CardinalityType
<1> DEFINE U(i) == {k \in K : k <= i}
           r == [i \in K |-> Rank(K, i)]
<1>1. ASSUME NEW i \in K
      PROVE  /\ IsFiniteSet(U(i)) /\ Cardinality(U(i)) \in Nat
             /\ Cardinality(U(i)) <= Cardinality(K) /\ Cardinality(U(i)) # 0
  <2>1. IsFiniteSet(U(i)) /\ Cardinality(U(i)) <= Cardinality(K)
    BY FS_Subset
  <2>2. i \in U(i)
    OBVIOUS
  <2> HIDE DEF U
  <2> QED  BY <2>1, <2>2, FS_CardinalityType, FS_EmptySet
<1>2. \A i \in K : Rank(K, i) \in 1..Cardinality(K)
  BY <1>0, <1>1 DEF Rank
<1>3. ASSUME NEW i \in K, NEW j \in K, i < j
      PROVE  Rank(K, i) # Rank(K, j)
  <2>0. i \in Nat /\ j \in Nat /\ \A k \in K : k \in Nat
    OBVIOUS
  <2>1. /\ \A k \in K : k <= i => k <= j
        /\ j <= j /\ ~(j <= i)
    BY <1>3, <2>0
  <2>2. U(i) \subseteq U(j) /\ j \in U(j) /\ j \notin U(i)
    BY <2>1, Zenon
  <2>3. IsFiniteSet(U(j))
    BY <1>1
  <2> HIDE DEF U
  <2>4. Cardinality(U(j)) # Cardinality(U(i))
    BY <2>2, <2>3, FS_Subset
  <2> QED  BY <2>4 DEF Rank, U
<1>4. \A i, j \in K : Rank(K, i) = Rank(K, j) => i = j
  <2> SUFFICES ASSUME NEW i \in K, NEW j \in K, Rank(K, i) = Rank(K, j), i # j PROVE FALSE
    OBVIOUS
  <2>1. i < j \/ j < i
    OBVIOUS
  <2> QED  BY <1>3, <2>1
<1>5. r \in Injection(K, 1..Cardinality(K))
  BY <1>2, <1>4 DEF Injection, IsInjective
<1>6. IsFiniteSet(1..Cardinality(K)) /\ Cardinality(1..Cardinality(K)) = Cardinality(K)
  BY <1>0, FS_Interval
<1>7. r \in Surjection(K, 1..Cardinality(K))
  <2> HIDE DEF r
  <2> QED  BY <1>5, <1>6, FS_Injection
<1>8. \A n \in 1..Cardinality(K) : \E i \in K : r[i] = n
  BY <1>7 DEF Surjection
<1> QED  BY <1>2, <1>4, <1>8

\* The parts taken from a sequence, by a map of their new places to the old.
LEMMA Taken ==
  ASSUME NEW X, NEW ps \in Seq(X), NEW K \in SUBSET DOMAIN ps
  PROVE  /\ At(ps, K) \in Seq(X)
         /\ \E pi \in [DOMAIN At(ps, K) -> K] :
              /\ \A n \in DOMAIN At(ps, K) : At(ps, K)[n] = ps[pi[n]]
              /\ \A m, n \in DOMAIN At(ps, K) : pi[m] = pi[n] => m = n
              /\ \A i \in K : \E n \in DOMAIN At(ps, K) : pi[n] = i
<1>1. K \subseteq Nat /\ IsFiniteSet(K) /\ Cardinality(K) \in Nat
  <2>1. DOMAIN ps = 1..Len(ps) /\ Len(ps) \in Nat
    OBVIOUS
  <2>2. IsFiniteSet(1..Len(ps)) /\ K \in SUBSET (1..Len(ps))
    BY <2>1, FS_Interval
  <2>3. IsFiniteSet(K) /\ K \subseteq Nat
    BY <2>2, FS_Subset
  <2> QED  BY <2>3, FS_CardinalityType
<1> DEFINE pi == [n \in 1..Cardinality(K) |-> CHOOSE i \in K : Rank(K, i) = n]
<1>2. ASSUME NEW n \in 1..Cardinality(K)
      PROVE  pi[n] \in K /\ Rank(K, pi[n]) = n
  BY <1>1, Ranks
<1>3. DOMAIN At(ps, K) = 1..Cardinality(K)
  BY DEF At
<1>4. \A n \in 1..Cardinality(K) : At(ps, K)[n] = ps[pi[n]]
  BY DEF At, Rank
<1> HIDE DEF pi
<1>5. pi \in [1..Cardinality(K) -> K]
  BY <1>2 DEF pi
<1>6. \A m, n \in 1..Cardinality(K) : pi[m] = pi[n] => m = n
  BY <1>2
<1>7. ASSUME NEW i \in K PROVE \E n \in 1..Cardinality(K) : pi[n] = i
  <2>1. Rank(K, i) \in 1..Cardinality(K)
    BY <1>1, Ranks
  <2>2. pi[Rank(K, i)] \in K /\ Rank(K, pi[Rank(K, i)]) = Rank(K, i)
    BY <1>2, <2>1
  <2>3. pi[Rank(K, i)] = i
    BY <1>1, <2>2, Ranks
  <2> QED  BY <2>1, <2>3
<1>8. At(ps, K) \in Seq(X)
  <2>1. \A n \in 1..Cardinality(K) : ps[pi[n]] \in X
    BY <1>2
  <2>2. At(ps, K) \in [1..Cardinality(K) -> X]
    BY <1>4, <2>1 DEF At
  <2> QED  BY <1>1, <2>2
<1>9. /\ pi \in [DOMAIN At(ps, K) -> K]
      /\ \A n \in DOMAIN At(ps, K) : At(ps, K)[n] = ps[pi[n]]
      /\ \A m, n \in DOMAIN At(ps, K) : pi[m] = pi[n] => m = n
      /\ \A i \in K : \E n \in DOMAIN At(ps, K) : pi[n] = i
  BY <1>3, <1>4, <1>5, <1>6, <1>7
<1> QED  BY <1>8, <1>9

-----------------------------------------------------------------------------
(***************************************************************************)
(* The invariant of the passes.                                            *)
(***************************************************************************)
BagOfPaths == UNION {[S -> Nat \ {0}] : S \in SUBSET Paths}
PartType   == [paths : BagOfPaths, size : Nat]

\* A file is in some part; in one part only, and there once.
Listed(ps, q) == \E i \in DOMAIN ps : q \in In(ps[i])
Once(ps, q) ==
  \E i \in DOMAIN ps : /\ CopiesOf(q, ps[i].paths) = 1
                       /\ \A j \in DOMAIN ps \ {i} : q \notin In(ps[j])

ClusterTypeOK ==
  /\ units \in SUBSET SUBSET Paths /\ \A u \in units : Cardinality(u) <= WeldCap
  /\ pass \in {"split", "packs", "small", "consolidate", "usage", "majority", "enforce",
               "sweep", "tiny", "partition", "label"}
  /\ parts \in Seq(PartType) /\ todo \in Seq(PartType)
  /\ round \in Nat

\* What is under way belongs to the pass.
Underway ==
  /\ pass \notin {"split", "packs", "enforce"} => todo = <<>>
  /\ gather # None => /\ Gathering /\ round > 0
                      /\ gather \in [pack : Packs, home : DOMAIN parts, from : SUBSET DOMAIN parts]
  /\ Gathering => /\ left \subseteq Packs /\ (round = 0 => left = {})
                  /\ \A k \in left : DOMAIN counts[k] = DOMAIN parts
  /\ pass = "tiny" => \A i \in left : i \in DOMAIN parts /\ Count(parts[i]) <= TinyMax
  /\ pass = "partition" => left \subseteq Paths
  /\ ~Gathering /\ pass \notin {"tiny", "partition"} => left = {}

AllListed == \A q \in Paths : Listed(parts, q) \/ Listed(todo, q)

\* The cap pass trusts the size field, and what it has seen is under the cap.
Capped ==
  /\ pass = "enforce" => \A i \in DOMAIN parts : /\ parts[i].size = Count(parts[i])
                                                 /\ round > 0 => Count(parts[i]) <= PartCap
  /\ pass = "sweep" /\ round = 0 => \A i \in DOMAIN parts : Count(parts[i]) <= PartCap
  /\ pass \in {"sweep", "tiny", "partition", "label"} =>
       \A i \in DOMAIN parts : Cardinality(In(parts[i])) <= PartCap + WeldCap - 1

\* The last pass is done with every file it has not to look at.
Settling ==
  /\ pass = "partition" /\ left # {} => \A q \in Paths \ left : Once(parts, q)
  /\ pass = "label" => \A q \in Paths : Once(parts, q)

ClusterInv == ClusterTypeOK /\ Underway /\ AllListed /\ Capped /\ Settling

-----------------------------------------------------------------------------
(***************************************************************************)
(* What the operators make of parts.                                       *)
(***************************************************************************)
LEMMA PathsFinite == ASSUME NEW S \in SUBSET Paths
                     PROVE  IsFiniteSet(S) /\ Cardinality(S) \in Nat
BY ClustersAssumption, FS_Subset, FS_CardinalityType

LEMMA PartFacts ==
  ASSUME NEW p \in PartType
  PROVE  /\ p.paths \in BagOfPaths /\ p.size \in Nat
         /\ In(p) \subseteq Paths /\ p.paths \in [In(p) -> Nat \ {0}]
         /\ IsFiniteSet(In(p)) /\ Cardinality(In(p)) \in Nat
         /\ Count(p) \in Nat /\ Cardinality(In(p)) <= Count(p)
         /\ (\A q \in In(p) : CopiesOf(q, p.paths) = 1) => Count(p) = Cardinality(In(p))
<1>1. p.paths \in BagOfPaths /\ p.size \in Nat
  BY DEF PartType
<1>2. PICK S \in SUBSET Paths : p.paths \in [S -> Nat \ {0}]
  BY <1>1 DEF BagOfPaths
<1>3. In(p) = S
  BY <1>2 DEF In, BagToSet
<1>4. IsFiniteSet(S) /\ Cardinality(S) \in Nat
  BY PathsFinite
<1>5. /\ BagCardinality(p.paths) \in Nat /\ BagCardinality(p.paths) >= Cardinality(S)
      /\ (\A x \in S : p.paths[x] = 1) => BagCardinality(p.paths) = Cardinality(S)
  BY <1>2, <1>4, BagBounds
<1>6. \A q \in S : CopiesOf(q, p.paths) = p.paths[q]
  BY <1>2 DEF CopiesOf
<1> QED  BY <1>1, <1>2, <1>3, <1>4, <1>5, <1>6 DEF Count

LEMMA OfFacts ==
  ASSUME NEW S \in SUBSET Paths
  PROVE  /\ Of(S) \in PartType /\ In(Of(S)) = S
         /\ Of(S).size = Count(Of(S)) /\ Count(Of(S)) = Cardinality(S)
<1>1. IsFiniteSet(S) /\ Cardinality(S) \in Nat
  BY PathsFinite
<1>2. SetToBag(S) \in [S -> Nat \ {0}] /\ \A x \in S : SetToBag(S)[x] = 1
  BY DEF SetToBag
<1>3. BagCardinality(SetToBag(S)) = Cardinality(S)
  <2> HIDE DEF SetToBag
  <2> QED  BY <1>1, <1>2, BagBounds
<1>4. DOMAIN SetToBag(S) = S
  BY DEF SetToBag
<1> QED  BY <1>1, <1>2, <1>3, <1>4 DEF Of, PartType, BagOfPaths, In, BagToSet, Count

\* Adding to a bag and taking from it.
LEMMA PlusFacts ==
  ASSUME NEW a \in BagOfPaths, NEW b \in BagOfPaths
  PROVE  a (+) b \in BagOfPaths /\ DOMAIN (a (+) b) = DOMAIN a \cup DOMAIN b
<1>1. PICK S \in SUBSET Paths : a \in [S -> Nat \ {0}]
  BY DEF BagOfPaths
<1>2. PICK T \in SUBSET Paths : b \in [T -> Nat \ {0}]
  BY DEF BagOfPaths
<1> DEFINE c == a (+) b
<1>3. c = [e \in S \cup T |-> (IF e \in S THEN a[e] ELSE 0) + (IF e \in T THEN b[e] ELSE 0)]
  BY <1>1, <1>2 DEF (+)
<1>4. ASSUME NEW e \in S \cup T
      PROVE  (IF e \in S THEN a[e] ELSE 0) + (IF e \in T THEN b[e] ELSE 0) \in Nat \ {0}
  BY <1>1, <1>2
<1> HIDE DEF c
<1>5. c \in [S \cup T -> Nat \ {0}]
  BY <1>3, <1>4
<1>6. c \in BagOfPaths /\ DOMAIN c = DOMAIN a \cup DOMAIN b
  BY <1>1, <1>2, <1>5 DEF BagOfPaths
<1> QED  BY <1>6 DEF c

LEMMA MinusFacts ==
  ASSUME NEW a \in BagOfPaths, NEW D, NEW b \in [D -> Nat]
  PROVE  /\ a (-) b \in BagOfPaths
         /\ \A q : CopiesOf(q, a (-) b) =
                     IF q \in DOMAIN a \cap D
                       THEN IF a[q] > b[q] THEN a[q] - b[q] ELSE 0
                       ELSE CopiesOf(q, a)
         /\ \A q : q \in DOMAIN (a (-) b) <=> q \in DOMAIN a /\ (q \in D => a[q] > b[q])
<1>1. PICK S \in SUBSET Paths : a \in [S -> Nat \ {0}]
  BY DEF BagOfPaths
<1> DEFINE B == [e \in S |-> IF e \in D THEN a[e] - b[e] ELSE a[e]]
           T == {d \in S : B[d] > 0}
           c == a (-) b
<1>2. c = [e \in T |-> B[e]]
  BY <1>1 DEF (-)
<1>3. ASSUME NEW e \in S PROVE B[e] \in Int /\ (e \notin D => B[e] > 0)
  BY <1>1
<1>4. ASSUME NEW e \in T PROVE B[e] \in Nat \ {0}
  <2>1. e \in S /\ B[e] > 0
    OBVIOUS
  <2> HIDE DEF B
  <2> QED  BY <1>3, <2>1
<1>5. c \in [T -> Nat \ {0}]
  <2> HIDE DEF c, B, T
  <2> QED  BY <1>2, <1>4
<1>6. T \in SUBSET Paths
  OBVIOUS
<1>7. ASSUME NEW q PROVE q \in T <=> q \in S /\ (q \in D => a[q] > b[q])
  <2>1. CASE q \in S /\ q \in D
    <3>1. a[q] \in Nat /\ b[q] \in Nat /\ B[q] = a[q] - b[q]
      BY <1>1, <2>1
    <3>2. (B[q] > 0) <=> (a[q] > b[q])
      <4> HIDE DEF B
      <4> QED  BY <3>1
    <3> QED  BY <2>1, <3>2
  <2>2. CASE q \in S /\ q \notin D
    BY <1>3, <2>2
  <2>3. CASE q \notin S
    BY <2>3
  <2> QED  BY <2>1, <2>2, <2>3
<1>8. \A q \in T : c[q] = IF q \in D THEN a[q] - b[q] ELSE a[q]
  <2> HIDE DEF c
  <2> QED  BY <1>2
<1>9. DOMAIN c = T /\ DOMAIN a = S
  <2> HIDE DEF c, T
  <2> QED  BY <1>1, <1>5
<1> HIDE DEF c, T, B
<1>10. c \in BagOfPaths
  BY <1>5, <1>6 DEF BagOfPaths
<1>11. \A q : CopiesOf(q, c) = IF q \in DOMAIN a \cap D
                       THEN IF a[q] > b[q] THEN a[q] - b[q] ELSE 0
                       ELSE CopiesOf(q, a)
  BY <1>7, <1>8, <1>9 DEF CopiesOf
<1> QED  BY <1>7, <1>9, <1>10, <1>11 DEF c

LEMMA SetBag ==
  ASSUME NEW S \in SUBSET Paths
  PROVE  SetToBag(S) \in BagOfPaths /\ DOMAIN SetToBag(S) = S /\ SetToBag(S) \in [S -> Nat]
BY DEF SetToBag, BagOfPaths

\* A part with other paths.
LEMMA WithPaths ==
  ASSUME NEW p \in PartType, NEW b \in BagOfPaths
  PROVE  /\ [p EXCEPT !.paths = b] \in PartType
         /\ [p EXCEPT !.paths = b].paths = b
         /\ In([p EXCEPT !.paths = b]) = DOMAIN b
BY DEF PartType, In, BagToSet

LEMMA PartitionFacts ==
  ASSUME NEW S, IsFiniteSet(S), NEW P \in Partitions(S)
  PROVE  IsFiniteSet(P) /\ UNION P = S
<1>1. Cardinality(S) \in Nat
  BY FS_CardinalityType
<1>2. PICK f \in [S -> 1..Cardinality(S)] :
         P = {{x \in S : f[x] = i} : i \in {f[x] : x \in S}}
  BY DEF Partitions
<1> DEFINE b == [x \in S |-> {y \in S : f[y] = f[x]}]
<1>3. b \in Surjection(S, P)
  <2>1. \A x \in S : b[x] \in P
    BY <1>2
  <2>2. b \in [S -> P]
    <3> HIDE DEF b
    <3> QED  BY <2>1 DEF b
  <2>3. ASSUME NEW c \in P PROVE \E x \in S : b[x] = c
    BY <1>2
  <2> QED  BY <2>2, <2>3 DEF Surjection
<1>4. IsFiniteSet(P)
  <2> HIDE DEF b
  <2> QED  BY <1>3, FS_Surjection
<1>5. \A x \in S : x \in b[x] /\ b[x] \in P
  BY <1>3 DEF Surjection
<1>6. \A c \in P : c \subseteq S
  BY <1>2
<1> QED  BY <1>4, <1>5, <1>6

LEMMA UnitFacts ==
  ASSUME ClusterTypeOK, NEW q \in Paths
  PROVE  /\ q \in UnitOf(q) /\ UnitOf(q) \in SUBSET Paths
         /\ IsFiniteSet(UnitOf(q)) /\ Cardinality(UnitOf(q)) \in Nat
         /\ Cardinality(UnitOf(q)) <= WeldCap
<1>1. WeldCap \in Nat /\ WeldCap > 0
  BY ClustersAssumption
<1>2. CASE q \in UNION units
  <2>1. UnitOf(q) \in units /\ q \in UnitOf(q)
    BY <1>2 DEF UnitOf
  <2> QED  BY <2>1, PathsFinite DEF ClusterTypeOK
<1>3. CASE q \notin UNION units
  <2>1. UnitOf(q) = {q}
    BY <1>3 DEF UnitOf
  <2>2. IsFiniteSet({q}) /\ Cardinality({q}) = 1
    BY FS_Singleton
  <2>3. 1 <= WeldCap /\ {q} \in SUBSET Paths
    BY <1>1
  <2> QED  BY <2>1, <2>2, <2>3
<1> QED  BY <1>2, <1>3

\* What a round leaves, by a map of the places it keeps.
KeptBy(ps, qs, pi) ==
  /\ pi \in [DOMAIN qs -> DOMAIN ps]
  /\ \A n \in DOMAIN qs : qs[n].paths = ps[pi[n]].paths
  /\ \A m, n \in DOMAIN qs : pi[m] = pi[n] => m = n
  /\ \A i \in DOMAIN ps : In(ps[i]) # {} => \E n \in DOMAIN qs : pi[n] = i

LEMMA KeptFacts ==
  ASSUME NEW ps, NEW qs, NEW pi, KeptBy(ps, qs, pi)
  PROVE  /\ \A q : Listed(ps, q) => Listed(qs, q)
         /\ \A q : Once(ps, q) => Once(qs, q)
<1>1. \A n \in DOMAIN qs : pi[n] \in DOMAIN ps /\ In(qs[n]) = In(ps[pi[n]])
  BY DEF KeptBy, In
<1>2. ASSUME NEW q, NEW i \in DOMAIN ps, q \in In(ps[i])
      PROVE  \E n \in DOMAIN qs : pi[n] = i /\ q \in In(qs[n])
  <2>1. PICK n \in DOMAIN qs : pi[n] = i
    BY <1>2 DEF KeptBy
  <2> QED  BY <1>1, <1>2, <2>1
<1>3. ASSUME NEW q, Once(ps, q) PROVE Once(qs, q)
  <2>1. PICK i \in DOMAIN ps : /\ CopiesOf(q, ps[i].paths) = 1
                               /\ \A j \in DOMAIN ps \ {i} : q \notin In(ps[j])
    BY <1>3 DEF Once
  <2>2. q \in In(ps[i])
    BY <2>1 DEF CopiesOf, In, BagToSet
  <2>3. PICK n \in DOMAIN qs : pi[n] = i /\ q \in In(qs[n])
    BY <1>2, <2>2
  <2>4. CopiesOf(q, qs[n].paths) = 1
    BY <2>1, <2>3 DEF KeptBy
  <2>5. ASSUME NEW m \in DOMAIN qs \ {n} PROVE q \notin In(qs[m])
    <3>1. pi[m] \in DOMAIN ps \ {i}
      BY <1>1, <2>3 DEF KeptBy
    <3> QED  BY <1>1, <2>1, <3>1
  <2> QED  BY <2>4, <2>5 DEF Once
<1>4. \A q : Listed(ps, q) => Listed(qs, q)
  BY <1>2 DEF Listed
<1> QED  BY <1>3, <1>4

LEMMA SettledFacts ==
  ASSUME NEW ps \in Seq(PartType)
  PROVE  /\ Settled(ps) \in Seq(PartType)
         /\ \A n \in DOMAIN Settled(ps) : Settled(ps)[n].size = Count(Settled(ps)[n])
         /\ \E pi : KeptBy(ps, Settled(ps), pi)
<1> DEFINE rs == [i \in DOMAIN ps |-> [ps[i] EXCEPT !.size = Count(ps[i])]]
           K  == {i \in DOMAIN ps : Count(ps[i]) > 0}
           qs == At(rs, K)
<1>1. ASSUME NEW i \in DOMAIN ps
      PROVE  /\ rs[i] \in PartType /\ rs[i].paths = ps[i].paths
             /\ rs[i].size = Count(rs[i]) /\ In(rs[i]) = In(ps[i])
             /\ In(ps[i]) # {} => i \in K
  <2>1. ps[i] \in PartType
    OBVIOUS
  <2>2. /\ Count(ps[i]) \in Nat /\ Cardinality(In(ps[i])) \in Nat /\ IsFiniteSet(In(ps[i]))
        /\ Cardinality(In(ps[i])) <= Count(ps[i])
    BY <2>1, PartFacts
  <2>3. /\ rs[i] \in PartType /\ rs[i].paths = ps[i].paths /\ rs[i].size = Count(ps[i])
    BY <2>1, <2>2 DEF PartType
  <2>4. In(ps[i]) # {} => Cardinality(In(ps[i])) # 0
    BY <2>2, FS_EmptySet
  <2> HIDE DEF rs
  <2> QED  BY <2>2, <2>3, <2>4 DEF Count, In
<1>2. rs \in Seq(PartType) /\ DOMAIN rs = DOMAIN ps
  <2>1. DOMAIN ps = 1..Len(ps) /\ Len(ps) \in Nat
    OBVIOUS
  <2>2. rs \in [1..Len(ps) -> PartType]
    BY <1>1, <2>1
  <2> HIDE DEF rs
  <2> QED  BY <2>1, <2>2
<1> HIDE DEF rs
<1>3. K \in SUBSET DOMAIN rs
  BY <1>2
<1> HIDE DEF K
<1>4. qs \in Seq(PartType)
  BY <1>2, <1>3, Taken
<1>5. PICK pi \in [DOMAIN qs -> K] :
         /\ \A n \in DOMAIN qs : qs[n] = rs[pi[n]]
         /\ \A m, n \in DOMAIN qs : pi[m] = pi[n] => m = n
         /\ \A i \in K : \E n \in DOMAIN qs : pi[n] = i
  BY <1>2, <1>3, Taken
<1>6. Settled(ps) = qs
  BY DEF Settled, rs, K
<1> HIDE DEF qs
<1>7. \A n \in DOMAIN qs : pi[n] \in DOMAIN ps
  BY <1>2, <1>3, <1>5
<1>8. \A n \in DOMAIN qs : qs[n].size = Count(qs[n]) /\ qs[n].paths = ps[pi[n]].paths
  BY <1>1, <1>5, <1>7
<1>9. KeptBy(ps, qs, pi)
  BY <1>1, <1>5, <1>7, <1>8 DEF KeptBy
<1> QED  BY <1>4, <1>6, <1>8, <1>9

\* Settling a list keeps every bound on its parts.
LEMMA SettledBounds ==
  ASSUME NEW ps \in Seq(PartType), NEW n \in Int,
         \A i \in DOMAIN ps : Cardinality(In(ps[i])) <= n
  PROVE  \A i \in DOMAIN Settled(ps) : Cardinality(In(Settled(ps)[i])) <= n
<1>1. PICK pi : KeptBy(ps, Settled(ps), pi)
  BY SettledFacts
<1>2. \A i \in DOMAIN Settled(ps) : pi[i] \in DOMAIN ps /\ In(Settled(ps)[i]) = In(ps[pi[i]])
  BY <1>1 DEF KeptBy, In
<1> QED  BY <1>2

LEMMA MoveFacts ==
  ASSUME NEW ps \in Seq(PartType), NEW U \in SUBSET Paths, NEW h \in DOMAIN ps
  PROVE  /\ MoveTo(ps, U, h) \in Seq(PartType) /\ DOMAIN MoveTo(ps, U, h) = DOMAIN ps
         /\ \A q : Listed(ps, q) => Listed(MoveTo(ps, U, h), q)
         /\ \A i \in DOMAIN ps \ {h} : In(MoveTo(ps, U, h)[i]) \subseteq In(ps[i])
         /\ In(MoveTo(ps, U, h)[h]) \subseteq In(ps[h]) \cup U
<1> DEFINE Others(q) == {j \in DOMAIN ps \ {h} : q \in In(ps[j])}
           V   == {r \in U : Others(r) # {}}
           got == [q \in V |-> Cardinality(Others(q))]
           qs  == [i \in DOMAIN ps |->
                     [ps[i] EXCEPT !.paths = IF i = h THEN @ (+) got ELSE @ (-) SetToBag(U)]]
<1>1. DOMAIN ps = 1..Len(ps) /\ Len(ps) \in Nat
  OBVIOUS
<1>2. got \in BagOfPaths /\ DOMAIN got = V
  <2>1. ASSUME NEW q \in V PROVE Cardinality(Others(q)) \in Nat \ {0}
    <3>1. Others(q) \in SUBSET (1..Len(ps)) /\ IsFiniteSet(1..Len(ps))
      BY <1>1, FS_Interval
    <3>2. Others(q) # {}
      OBVIOUS
    <3> HIDE DEF Others
    <3>3. IsFiniteSet(Others(q))
      BY <3>1, FS_Subset
    <3> QED  BY <3>2, <3>3, FS_EmptySet, FS_CardinalityType
  <2>2. V \in SUBSET Paths
    OBVIOUS
  <2> HIDE DEF V, Others
  <2>3. got \in [V -> Nat \ {0}]
    BY <2>1
  <2> HIDE DEF got
  <2> QED  BY <2>2, <2>3 DEF BagOfPaths
<1>3. \A i \in DOMAIN ps : ps[i] \in PartType /\ ps[i].paths \in BagOfPaths
                           /\ In(ps[i]) = DOMAIN ps[i].paths
  BY PartFacts DEF In, BagToSet
<1> HIDE DEF got, V
<1>4. /\ qs[h] \in PartType
      /\ In(qs[h]) = In(ps[h]) \cup V
  <2>1. ps[h].paths (+) got \in BagOfPaths
        /\ DOMAIN (ps[h].paths (+) got) = In(ps[h]) \cup V
    BY <1>2, <1>3, PlusFacts
  <2>2. qs[h] = [ps[h] EXCEPT !.paths = ps[h].paths (+) got]
    OBVIOUS
  <2> HIDE DEF qs
  <2> QED  BY <1>3, <2>1, <2>2, WithPaths
<1>5. ASSUME NEW i \in DOMAIN ps \ {h}
      PROVE  /\ qs[i] \in PartType /\ In(qs[i]) \subseteq In(ps[i])
             /\ In(ps[i]) \ U \subseteq In(qs[i])
  <2> DEFINE b == ps[i].paths (-) SetToBag(U)
  <2>1. SetToBag(U) \in [U -> Nat] /\ ps[i].paths \in BagOfPaths
    BY <1>3, SetBag
  <2>a. /\ b \in BagOfPaths
        /\ \A q : q \in DOMAIN b <=> /\ q \in DOMAIN ps[i].paths
                                   /\ (q \in U => ps[i].paths[q] > SetToBag(U)[q])
    BY <2>1, MinusFacts
  <2>2. qs[i] = [ps[i] EXCEPT !.paths = b]
    OBVIOUS
  <2> HIDE DEF qs, b
  <2>3. qs[i] \in PartType /\ In(qs[i]) = DOMAIN b
    BY <1>3, <2>a, <2>2, WithPaths
  <2> QED  BY <1>3, <2>a, <2>3
<1>6. MoveTo(ps, U, h) = qs
  BY DEF MoveTo, qs, got, V
<1>7. qs \in Seq(PartType) /\ DOMAIN qs = DOMAIN ps
  <2>1. \A i \in DOMAIN ps : qs[i] \in PartType
    BY <1>4, <1>5
  <2>2. DOMAIN qs = DOMAIN ps /\ qs = [i \in DOMAIN ps |-> qs[i]]
    OBVIOUS
  <2> HIDE DEF qs
  <2>3. qs \in [1..Len(ps) -> PartType]
    BY <1>1, <2>1, <2>2
  <2> QED  BY <1>1, <2>2, <2>3
<1> HIDE DEF qs
<1>8. ASSUME NEW q, Listed(ps, q) PROVE Listed(qs, q)
  <2>1. PICK i \in DOMAIN ps : q \in In(ps[i])
    BY <1>8 DEF Listed
  <2>2. CASE i = h
    BY <1>4, <1>7, <2>1, <2>2 DEF Listed
  <2>3. CASE i # h /\ q \in U
    <3>1. q \in V
      BY <2>1, <2>3 DEF V
    <3> QED  BY <1>4, <1>7, <3>1 DEF Listed
  <2>4. CASE i # h /\ q \notin U
    BY <1>5, <1>7, <2>1, <2>4 DEF Listed
  <2> QED  BY <2>2, <2>3, <2>4
<1>9. In(qs[h]) \subseteq In(ps[h]) \cup U
  BY <1>4 DEF V
<1> QED  BY <1>5, <1>6, <1>7, <1>8, <1>9

LEMMA AllFinite == ASSUME NEW S \in SUBSET SUBSET Paths PROVE IsFiniteSet(S)
BY ClustersAssumption, FS_SUBSET, FS_Subset

LEMMA OfsFinite ==
  ASSUME NEW X, X \subseteq {Of(S) : S \in SUBSET Paths}
  PROVE  IsFiniteSet(X)
<1> DEFINE Y == {Of(S) : S \in SUBSET Paths}
           f == [S \in SUBSET Paths |-> Of(S)]
<1>1. IsFiniteSet(SUBSET Paths)
  BY AllFinite
<1>2. f \in Surjection(SUBSET Paths, Y)
  BY DEF Surjection
<1>3. IsFiniteSet(Y)
  <2> HIDE DEF f, Y
  <2> QED  BY <1>1, <1>2, FS_Surjection
<1> QED  BY <1>3, FS_Subset

\* The parts ps and behind them those of the blocks.
With(ps, blocks) == ps \o PartsOf(blocks)

LEMMA OfsListed ==
  ASSUME NEW blocks \in SUBSET SUBSET Paths
  PROVE  /\ PartsOf(blocks) \in Seq(PartType)
         /\ \A q \in UNION blocks : Listed(PartsOf(blocks), q)
         /\ \A i \in DOMAIN PartsOf(blocks) :
              \E c \in blocks : PartsOf(blocks)[i] = Of(c)
<1> DEFINE X == {Of(b) : b \in blocks}
           s == SetToSeq(X)
<1>1. IsFiniteSet(X)
  BY OfsFinite
<1>2. X \subseteq PartType
  BY OfFacts
<1>3. s \in Seq(X) /\ \A x \in X : \E i \in DOMAIN s : s[i] = x
  <2> HIDE DEF X
  <2> QED  BY <1>1, Listing
<1>4. \A b \in blocks : Of(b) \in X /\ In(Of(b)) = b
  BY OfFacts
<1>5. \A x \in X : \E b \in blocks : x = Of(b)
  OBVIOUS
<1> HIDE DEF s, X
<1>6. s \in Seq(PartType)
  BY <1>2, <1>3
<1>7. ASSUME NEW q \in UNION blocks PROVE Listed(s, q)
  <2>1. PICK b \in blocks : q \in b
    OBVIOUS
  <2>2. PICK i \in DOMAIN s : s[i] = Of(b)
    BY <1>3, <1>4
  <2> QED  BY <1>4, <2>1, <2>2 DEF Listed
<1>8. \A i \in DOMAIN s : \E b \in blocks : s[i] = Of(b)
  <2> TAKE i \in DOMAIN s
  <2>1. s[i] \in X
    BY <1>3
  <2> QED  BY <1>5, <2>1
<1> QED  BY <1>6, <1>7, <1>8 DEF s, X, PartsOf

LEMMA Joins ==
  ASSUME NEW s \in Seq(PartType), NEW t \in Seq(PartType)
  PROVE  /\ s \o t \in Seq(PartType)
         /\ \A q : Listed(s \o t, q) <=> Listed(s, q) \/ Listed(t, q)
         /\ \A i \in DOMAIN (s \o t) : \/ \E j \in DOMAIN s : (s \o t)[i] = s[j]
                                       \/ \E j \in DOMAIN t : (s \o t)[i] = t[j]
<1>1. /\ s \o t \in Seq(PartType) /\ Len(s \o t) = Len(s) + Len(t)
      /\ DOMAIN s = 1..Len(s) /\ DOMAIN t = 1..Len(t) /\ DOMAIN (s \o t) = 1..(Len(s) + Len(t))
      /\ Len(s) \in Nat /\ Len(t) \in Nat
  OBVIOUS
<1>2. \A i \in DOMAIN s : i \in DOMAIN (s \o t) /\ (s \o t)[i] = s[i]
  BY <1>1
<1>3. \A i \in DOMAIN t : i + Len(s) \in DOMAIN (s \o t) /\ (s \o t)[i + Len(s)] = t[i]
  BY <1>1
<1>4. ASSUME NEW i \in DOMAIN (s \o t), i \notin DOMAIN s
      PROVE  i - Len(s) \in DOMAIN t /\ (s \o t)[i] = t[i - Len(s)]
  BY <1>1, <1>4
<1>5. \A i \in DOMAIN (s \o t) : \/ \E j \in DOMAIN s : (s \o t)[i] = s[j]
                                 \/ \E j \in DOMAIN t : (s \o t)[i] = t[j]
  BY <1>2, <1>4
<1>6. \A q : Listed(s \o t, q) <=> Listed(s, q) \/ Listed(t, q)
  <2> TAKE q
  <2>1. Listed(s \o t, q) => Listed(s, q) \/ Listed(t, q)
    BY <1>5 DEF Listed
  <2>2. Listed(s, q) => Listed(s \o t, q)
    BY <1>2 DEF Listed
  <2>3. Listed(t, q) => Listed(s \o t, q)
    BY <1>3 DEF Listed
  <2> QED  BY <2>1, <2>2, <2>3
<1> QED  BY <1>1, <1>5, <1>6

LEMMA HeadOrTail ==
  ASSUME NEW s \in Seq(PartType), s # <<>>
  PROVE  /\ Head(s) \in PartType /\ Tail(s) \in Seq(PartType)
         /\ \A q : Listed(s, q) => q \in In(Head(s)) \/ Listed(Tail(s), q)
         /\ Len(s) = 1 => Tail(s) = <<>>
<1>0. Len(s) \in Nat /\ Len(s) > 0
  OBVIOUS
<1>1. Head(s) \in PartType /\ Tail(s) \in Seq(PartType) /\ Head(s) = s[1]
  BY <1>0
<1>2. Len(s) \in Nat /\ DOMAIN s = 1..Len(s) /\ DOMAIN Tail(s) = 1..(Len(s) - 1)
      /\ \A i \in 1..(Len(s) - 1) : Tail(s)[i] = s[i + 1]
  OBVIOUS
<1>3. ASSUME NEW q, Listed(s, q) PROVE q \in In(Head(s)) \/ Listed(Tail(s), q)
  <2>1. PICK i \in DOMAIN s : q \in In(s[i])
    BY <1>3 DEF Listed
  <2>2. CASE i = 1
    BY <1>1, <2>1, <2>2
  <2>3. CASE i # 1
    <3>1. i - 1 \in 1..(Len(s) - 1) /\ Tail(s)[i - 1] = s[i]
      BY <1>2, <2>3
    <3> QED  BY <1>2, <2>1, <3>1 DEF Listed
  <2> QED  BY <2>2, <2>3
<1>4. Len(s) = 1 => Tail(s) = <<>>
  <2>1. Len(s) = 1 => Len(Tail(s)) = 0
    BY <1>0
  <2> QED  BY <1>1, <2>1, EmptySeq
<1> QED  BY <1>1, <1>3, <1>4

LEMMA WithFacts ==
  ASSUME NEW ps \in Seq(PartType), NEW blocks \in SUBSET SUBSET Paths
  PROVE  /\ With(ps, blocks) \in Seq(PartType)
         /\ \A q : Listed(ps, q) \/ q \in UNION blocks => Listed(With(ps, blocks), q)
         /\ \A i \in DOMAIN With(ps, blocks) : \/ \E j \in DOMAIN ps : With(ps, blocks)[i] = ps[j]
                                               \/ \E b \in blocks : With(ps, blocks)[i] = Of(b)
<1> DEFINE t == PartsOf(blocks)
<1>1. /\ t \in Seq(PartType)
      /\ \A q \in UNION blocks : Listed(t, q)
      /\ \A i \in DOMAIN t : \E b \in blocks : t[i] = Of(b)
  BY OfsListed
<1> HIDE DEF t
<1>2. With(ps, blocks) = ps \o t
  BY DEF With, t
<1>3. /\ ps \o t \in Seq(PartType)
      /\ \A q : Listed(ps \o t, q) <=> Listed(ps, q) \/ Listed(t, q)
      /\ \A i \in DOMAIN (ps \o t) : \/ \E j \in DOMAIN ps : (ps \o t)[i] = ps[j]
                                     \/ \E j \in DOMAIN t : (ps \o t)[i] = t[j]
  BY <1>1, Joins
<1>4. ASSUME NEW i \in DOMAIN (ps \o t)
      PROVE  \/ \E j \in DOMAIN ps : (ps \o t)[i] = ps[j]
             \/ \E b \in blocks : (ps \o t)[i] = Of(b)
  <2>1. CASE \E j \in DOMAIN ps : (ps \o t)[i] = ps[j]
    BY <2>1
  <2>2. CASE \E j \in DOMAIN t : (ps \o t)[i] = t[j]
    BY <1>1, <2>2
  <2> QED  BY <1>3, <2>1, <2>2
<1> QED  BY <1>1, <1>2, <1>3, <1>4

LEMMA StartsListed == ClusterInit => ClusterInv
<1> SUFFICES ASSUME ClusterInit PROVE ClusterInv
  OBVIOUS
<1> USE DEF ClusterInit
<1>1. units \in SUBSET SUBSET Paths /\ \A u \in units : Cardinality(u) <= WeldCap
  BY ClustersAssumption DEF Welds
<1> DEFINE G == {UnitOf(q) : q \in Paths}
<1>2. \A q \in Paths : q \in UnitOf(q) /\ UnitOf(q) \in SUBSET Paths
  <2> TAKE q \in Paths
  <2>1. CASE q \in UNION units
    <3>1. UnitOf(q) \in units /\ q \in UnitOf(q)
      BY <2>1 DEF UnitOf
    <3> QED  BY <1>1, <3>1
  <2>2. CASE q \notin UNION units
    BY <2>2 DEF UnitOf
  <2> QED  BY <2>1, <2>2
<1>3. PICK P \in Partitions(G) : todo = PartsOf({UNION b : b \in P})
  OBVIOUS
<1>4. G \in SUBSET SUBSET Paths /\ UNION G = Paths
  BY <1>2
<1> HIDE DEF G
<1>5. UNION P = G
  BY <1>4, AllFinite, PartitionFacts
<1> DEFINE blocks == {UNION b : b \in P}
<1>6. blocks \in SUBSET SUBSET Paths /\ UNION blocks = Paths
  BY <1>4, <1>5
<1> HIDE DEF blocks
<1>8. todo \in Seq(PartType) /\ \A q \in Paths : Listed(todo, q)
  BY <1>3, <1>6, OfsListed DEF blocks
<1>9. parts \in Seq(PartType)
  OBVIOUS
<1> QED
  BY <1>1, <1>8, <1>9 DEF ClusterInv, ClusterTypeOK, Underway, AllListed, Capped, Settling, Gathering

LEMMA CutFacts ==
  ASSUME ClusterInv, todo # <<>>, NEW blocks \in SUBSET SUBSET Paths, NEW next,
         Cut(blocks, next), In(Head(todo)) \subseteq UNION blocks
  PROVE  /\ parts' \in Seq(PartType) /\ todo' \in Seq(PartType)
         /\ \A q \in Paths : Listed(parts', q) \/ Listed(todo', q)
         /\ pass' \in {pass, next} /\ UNCHANGED <<units, still>>
         /\ next # "packs" => /\ parts' = With(parts, blocks)
                              /\ pass' # pass => todo' = <<>>
<1>1. /\ parts \in Seq(PartType) /\ todo \in Seq(PartType)
      /\ \A q \in Paths : Listed(parts, q) \/ Listed(todo, q)
  BY DEF ClusterInv, ClusterTypeOK, AllListed
<1> DEFINE done == With(parts, blocks)
<1>2. /\ done \in Seq(PartType)
      /\ \A q : Listed(parts, q) \/ q \in UNION blocks => Listed(done, q)
  BY <1>1, WithFacts
<1>3. /\ Tail(todo) \in Seq(PartType)
      /\ \A q : Listed(todo, q) => q \in In(Head(todo)) \/ Listed(Tail(todo), q)
      /\ Len(todo) = 1 => Tail(todo) = <<>>
  BY <1>1, HeadOrTail
<1>4. /\ pass' = IF Len(todo) = 1 THEN next ELSE pass
      /\ IF Len(todo) = 1 /\ next = "packs"
           THEN todo' = done /\ parts' = <<>>
           ELSE todo' = Tail(todo) /\ parts' = done
      /\ UNCHANGED <<units, still>>
  BY DEF Cut, With
<1> HIDE DEF done
<1>5. CASE Len(todo) = 1 /\ next = "packs"
  <2>1. Len(todo) = 1 => \A q : ~Listed(Tail(todo), q)
    BY <1>3 DEF Listed
  <2>2. \A q \in Paths : Listed(done, q)
    BY <1>1, <1>2, <1>3, <1>5, <2>1
  <2>3. parts' \in Seq(PartType)
    BY <1>4, <1>5
  <2> QED  BY <1>2, <1>4, <1>5, <2>2, <2>3
<1>6. CASE ~(Len(todo) = 1 /\ next = "packs")
  <2>1. \A q \in Paths : Listed(done, q) \/ Listed(Tail(todo), q)
    BY <1>1, <1>2, <1>3
  <2> QED  BY <1>2, <1>3, <1>4, <1>6, <2>1 DEF done
<1> QED  BY <1>5, <1>6

LEMMA GroupsFacts ==
  ASSUME ClusterTypeOK, NEW p \in PartType
  PROVE  /\ Groups(p) \in SUBSET SUBSET Paths /\ In(p) \subseteq UNION Groups(p)
         /\ \A g \in Groups(p) : Cardinality(g) <= WeldCap
<1>1. In(p) \subseteq Paths
  BY PartFacts
<1>2. \A q \in In(p) : /\ q \in UnitOf(q) /\ UnitOf(q) \in SUBSET Paths
                       /\ Cardinality(UnitOf(q)) <= WeldCap
  BY <1>1, UnitFacts
<1> QED  BY <1>2 DEF Groups

LEMMA GroupedFacts ==
  ASSUME NEW G \in SUBSET SUBSET Paths, NEW P \in Partitions(G)
  PROVE  /\ {UNION b : b \in P} \in SUBSET SUBSET Paths
         /\ UNION {UNION b : b \in P} = UNION G
         /\ IsFiniteSet(P) /\ \A b \in P : b \subseteq G /\ UNION b \in SUBSET Paths
<1>1. IsFiniteSet(P) /\ UNION P = G
  BY AllFinite, PartitionFacts
<1>2. \A b \in P : b \subseteq G
  BY <1>1
<1>3. \A b \in P : UNION b \in SUBSET Paths
  BY <1>2
<1>4. UNION {UNION b : b \in P} = UNION G
  BY <1>1
<1> QED  BY <1>1, <1>2, <1>3, <1>4

\* The passes that cut: what they are done with is listed by the blocks.
LEMMA SplitUnitsKeeps == ASSUME ClusterInv, SplitUnits PROVE ClusterInv'
<1>1. ClusterTypeOK /\ pass = "split" /\ todo # <<>>
  BY DEF ClusterInv, SplitUnits
<1>2. Head(todo) \in PartType
  BY <1>1, HeadOrTail DEF ClusterTypeOK
<1>3. PICK blocks \in SUBSET SUBSET Paths :
         Cut(blocks, "packs") /\ In(Head(todo)) \subseteq UNION blocks
  <2>1. CASE Head(todo).size > BlobMin
    <3>1. PICK P \in Partitions(Groups(Head(todo))) : Cut({UNION b : b \in P}, "packs")
      BY <2>1 DEF SplitUnits
    <3>2. /\ Groups(Head(todo)) \in SUBSET SUBSET Paths
          /\ In(Head(todo)) \subseteq UNION Groups(Head(todo))
      BY <1>1, <1>2, GroupsFacts
    <3>3. /\ {UNION b : b \in P} \in SUBSET SUBSET Paths
          /\ UNION {UNION b : b \in P} = UNION Groups(Head(todo))
      BY <3>2, GroupedFacts
    <3> QED  BY <3>1, <3>2, <3>3
  <2>2. CASE ~(Head(todo).size > BlobMin)
    <3>1. Cut({In(Head(todo))}, "packs")
      BY <2>2 DEF SplitUnits
    <3>2. In(Head(todo)) \subseteq Paths
      BY <1>2, PartFacts
    <3>3. {In(Head(todo))} \in SUBSET SUBSET Paths /\ UNION {In(Head(todo))} = In(Head(todo))
      BY <3>2
    <3> QED  BY <3>1, <3>3
  <2> QED  BY <2>1, <2>2
<1>4. /\ parts' \in Seq(PartType) /\ todo' \in Seq(PartType)
      /\ \A q \in Paths : Listed(parts', q) \/ Listed(todo', q)
      /\ pass' \in {"split", "packs"} /\ UNCHANGED <<units, still>>
  BY <1>1, <1>3, CutFacts
<1> QED
  BY <1>1, <1>4
  DEF ClusterInv, ClusterTypeOK, Underway, AllListed, Capped, Settling, Gathering, still

LEMMA PackSplitKeeps == ASSUME ClusterInv, PackSplit PROVE ClusterInv'
<1>1. ClusterTypeOK /\ pass = "packs" /\ todo # <<>>
  BY DEF ClusterInv, PackSplit
<1>2. Head(todo) \in PartType
  BY <1>1, HeadOrTail DEF ClusterTypeOK
<1> DEFINE S == In(Head(todo))
           named == {InPack(S, k) : k \in Packs} \ {{}}
<1>3. S \in SUBSET Paths
  BY <1>2, PartFacts
<1>4. PICK blocks \in SUBSET SUBSET Paths : Cut(blocks, "small") /\ S \subseteq UNION blocks
  <2>1. CASE Mixed(S)
    <3>1. PICK P \in Partitions(named) :
             Cut(({UNION b : b \in P} \cup {S \ (UNION named)}) \ {{}}, "small")
      BY <2>1, Zenon DEF PackSplit
    <3>2. \A c \in named : c \subseteq S
      BY DEF InPack
    <3>3. named \in SUBSET SUBSET Paths
      BY <1>3, <3>2
    <3> HIDE DEF S, named
    <3>4. /\ {UNION b : b \in P} \in SUBSET SUBSET Paths
          /\ UNION {UNION b : b \in P} = UNION named
      BY <3>3, GroupedFacts
    <3> DEFINE all == {UNION b : b \in P} \cup {S \ (UNION named)}
    <3>5. all \in SUBSET SUBSET Paths /\ S \subseteq UNION all
      <4> DEFINE U == {UNION b : b \in P}
                 R == S \ (UNION named)
      <4>1. U \in SUBSET SUBSET Paths /\ UNION U = UNION named /\ R \in SUBSET Paths
        BY <1>3, <3>4
      <4>2. S \subseteq (UNION named) \cup R
        OBVIOUS
      <4>3. all = U \cup {R}
        OBVIOUS
      <4> HIDE DEF U, R, all
      <4> QED  BY <4>1, <4>2, <4>3
    <3> HIDE DEF all
    <3>6. all \ {{}} \in SUBSET SUBSET Paths /\ S \subseteq UNION (all \ {{}})
      BY <3>5
    <3>7. Cut(all \ {{}}, "small")
      BY <3>1 DEF all
    <3> QED  BY <3>6, <3>7
  <2>2. CASE ~Mixed(S)
    <3>1. Cut({S}, "small")
      BY <2>2 DEF PackSplit
    <3>2. {S} \in SUBSET SUBSET Paths /\ UNION {S} = S
      BY <1>3
    <3> QED  BY <3>1, <3>2
  <2> QED  BY <2>1, <2>2
<1> HIDE DEF S, named
<1>5. In(Head(todo)) \subseteq UNION blocks
  BY <1>4 DEF S
<1>6. /\ parts' \in Seq(PartType) /\ todo' \in Seq(PartType)
      /\ \A q \in Paths : Listed(parts', q) \/ Listed(todo', q)
      /\ pass' \in {"packs", "small"} /\ UNCHANGED <<units, still>>
      /\ pass' = "small" => todo' = <<>>
  BY <1>1, <1>4, <1>5, CutFacts
<1> QED
  BY <1>1, <1>6
  DEF ClusterInv, ClusterTypeOK, Underway, AllListed, Capped, Settling, Gathering, still

LEMMA NotInEmpty == \A q : ~Listed(<<>>, q)
BY DEF Listed

LEMMA MergeSmallKeeps == ASSUME ClusterInv, MergeSmall PROVE ClusterInv'
<1>1. /\ pass = "small" /\ todo = <<>> /\ parts \in Seq(PartType)
      /\ \A q \in Paths : Listed(parts, q)
      /\ left = {} /\ gather = None
  BY NotInEmpty DEF ClusterInv, ClusterTypeOK, AllListed, Underway, MergeSmall, Gathering
<1> DEFINE small == {i \in DOMAIN parts : parts[i].size < SmallMin}
           big == DOMAIN parts \ small
           Joined(f, i) == UNION {In(parts[s]) : s \in {t \in small : f[t] = i}}
<1>2. PICK f \in [small -> big \cup {0}] :
         parts' = PartsOf({In(parts[b]) \cup Joined(f, b) : b \in big}
                          \cup ({Joined(f, 0)} \ {{}}))
  BY DEF MergeSmall
<1>3. \A i \in DOMAIN parts : In(parts[i]) \in SUBSET Paths
  BY <1>1, PartFacts
<1> DEFINE J == [i \in big \cup {0} |-> Joined(f, i)]
           B == {In(parts[b]) \cup J[b] : b \in big}
           R == {J[0]} \ {{}}
<1>4. \A i \in big \cup {0} : J[i] \in SUBSET Paths
  BY <1>3
<1>5. \A s \in small : In(parts[s]) \subseteq J[f[s]] /\ f[s] \in big \cup {0}
  OBVIOUS
<1>6. parts' = PartsOf(B \cup R)
  BY <1>2
<1>7. \A b \in big : In(parts[b]) \cup J[b] \in B /\ b \in DOMAIN parts
  OBVIOUS
<1>8. \A i \in DOMAIN parts : i \in big \/ i \in small
  OBVIOUS
<1> HIDE DEF J, big, small
<1>9. B \cup R \in SUBSET SUBSET Paths
  BY <1>3, <1>4, <1>7
<1>10. ASSUME NEW q \in Paths PROVE q \in UNION (B \cup R)
  <2>1. PICK i \in DOMAIN parts : q \in In(parts[i])
    BY <1>1 DEF Listed
  <2>2. CASE i \in big
    BY <1>7, <2>1, <2>2
  <2>3. CASE i \in small
    <3>1. q \in J[f[i]]
      BY <1>5, <2>1, <2>3
    <3>2. CASE f[i] \in big
      BY <1>7, <3>1, <3>2
    <3>3. CASE f[i] = 0
      BY <3>1, <3>3
    <3> QED  BY <1>5, <2>3, <3>2, <3>3
  <2> QED  BY <1>8, <2>2, <2>3
<1> HIDE DEF B, R
<1>11. parts' \in Seq(PartType) /\ \A q \in Paths : Listed(parts', q)
  BY <1>6, <1>9, <1>10, OfsListed
<1>12. pass' = "consolidate" /\ UNCHANGED <<units, todo, still>>
  BY DEF MergeSmall
<1> QED
  BY <1>1, <1>11, <1>12
  DEF ClusterInv, ClusterTypeOK, Underway, AllListed, Capped, Settling, Gathering, still

-----------------------------------------------------------------------------
(***************************************************************************)
(* The rounds that gather packs.                                           *)
(***************************************************************************)
LEMMA FirstRoundKeeps == ASSUME ClusterInv, FirstRound PROVE ClusterInv'
<1>1. CASE pass = "consolidate" /\ units = {}
  <2>1. /\ pass' = "usage" /\ UNCHANGED <<units, todo, parts>>
        /\ round' = 0 /\ gather' = None /\ left' = {}
    BY <1>1 DEF FirstRound, EndRound
  <2> QED  BY <1>1, <2>1
           DEF ClusterInv, ClusterTypeOK, Underway, AllListed, Capped, Settling, Gathering
<1>2. CASE ~(pass = "consolidate" /\ units = {})
  <2>1. /\ Gathering /\ UNCHANGED <<units, todo, parts, pass>>
        /\ round' = 1 /\ gather' = None /\ counts' = Counted(parts) /\ left' \subseteq Packs
    BY <1>2 DEF FirstRound, StartRound
  <2>2. \A k \in Packs : DOMAIN Counted(parts)[k] = DOMAIN parts
    BY DEF Counted
  <2> QED  BY <2>1, <2>2
           DEF ClusterInv, ClusterTypeOK, Underway, AllListed, Capped, Settling, Gathering
<1> QED  BY <1>1, <1>2

LEMMA TakePackKeeps == ASSUME ClusterInv, NEW k \in Packs, TakePack(k) PROVE ClusterInv'
<1>1. /\ Gathering /\ gather = None /\ k \in left /\ left' = left \ {k}
      /\ UNCHANGED <<units, pass, parts, todo, round, moved, counts>>
  BY DEF TakePack
<1>2. round # 0 /\ round \in Nat /\ DOMAIN counts[k] = DOMAIN parts
  BY <1>1 DEF ClusterInv, Underway, ClusterTypeOK
<1>3. \A c : Homes(c) \subseteq DOMAIN c
  BY DEF Homes, Most
<1>4. \/ gather' = None
      \/ gather' \in [pack : Packs, home : DOMAIN parts, from : SUBSET DOMAIN parts]
  <2>1. CASE gather' = None
    BY <2>1
  <2>2. CASE gather' # None
    <3>1. PICK h \in Homes(counts[k]) :
             gather' = [pack |-> k, home |-> h,
                        from |-> {i \in DOMAIN counts[k] : counts[k][i] > 0} \ {h}]
      BY <2>2 DEF TakePack
    <3> QED  BY <1>2, <1>3, <3>1
  <2> QED  BY <2>1, <2>2
<1> QED  BY <1>1, <1>2, <1>4
         DEF ClusterInv, ClusterTypeOK, Underway, AllListed, Capped, Settling, Gathering

LEMMA PullKeeps ==
  ASSUME ClusterInv, gather # None, NEW i, NEW U \in SUBSET Paths, Pull(i, U),
         pass = "sweep" /\ U # {} =>
           Cardinality(In(parts[gather.home])) + Cardinality(U) <= PartCap + WeldCap - 1
  PROVE  ClusterInv'
<1> DEFINE h == gather.home
           qs == MoveTo(parts, U, h)
<1>1. /\ Gathering /\ round > 0 /\ todo = <<>> /\ parts \in Seq(PartType)
      /\ gather \in [pack : Packs, home : DOMAIN parts, from : SUBSET DOMAIN parts]
      /\ pass \in {"consolidate", "sweep"}
  BY DEF ClusterInv, ClusterTypeOK, Underway, Gathering
<1>2. h \in DOMAIN parts
  BY <1>1
<1>3. /\ parts' = qs /\ gather' = [gather EXCEPT !.from = @ \ {i}]
      /\ UNCHANGED <<units, pass, todo, round, counts, left>>
  BY DEF Pull
<1> HIDE DEF h
<1>4. /\ qs \in Seq(PartType) /\ DOMAIN qs = DOMAIN parts
      /\ \A q : Listed(parts, q) => Listed(qs, q)
      /\ \A j \in DOMAIN parts \ {h} : In(qs[j]) \subseteq In(parts[j])
      /\ In(qs[h]) \subseteq In(parts[h]) \cup U
  BY <1>1, <1>2, MoveFacts
<1> HIDE DEF qs
<1>5. gather' \in [pack : Packs, home : DOMAIN parts', from : SUBSET DOMAIN parts']
  BY <1>1, <1>3, <1>4
<1>6. ASSUME pass = "sweep", NEW j \in DOMAIN qs
      PROVE  Cardinality(In(qs[j])) <= PartCap + WeldCap - 1
  <2>1. PartCap + WeldCap - 1 \in Int
    BY ClustersAssumption
  <2>2. \A m \in DOMAIN parts : /\ parts[m] \in PartType /\ In(parts[m]) \in SUBSET Paths
                                /\ IsFiniteSet(In(parts[m])) /\ Cardinality(In(parts[m])) \in Nat
                                /\ Cardinality(In(parts[m])) <= PartCap + WeldCap - 1
    BY <1>1, <1>6, PartFacts DEF ClusterInv, Capped
  <2>3. qs[j] \in PartType /\ IsFiniteSet(In(qs[j])) /\ Cardinality(In(qs[j])) \in Nat
    BY <1>4, PartFacts
  <2>4. CASE j # h
    <3>1. Cardinality(In(qs[j])) <= Cardinality(In(parts[j]))
      BY <1>4, <2>2, <2>4, FS_Subset
    <3> QED  BY <1>4, <2>1, <2>2, <2>3, <3>1
  <2>5. CASE j = h
    <3> DEFINE A == In(parts[h])
    <3>1. IsFiniteSet(A) /\ Cardinality(A) \in Nat /\ IsFiniteSet(U) /\ Cardinality(U) \in Nat
      BY <1>2, <2>2, PathsFinite
    <3>2. /\ IsFiniteSet(A \cup U) /\ Cardinality(A \cup U) \in Nat
          /\ Cardinality(A \cup U) <= Cardinality(A) + Cardinality(U)
      <4> HIDE DEF A
      <4>1. /\ IsFiniteSet(A \cup U)
            /\ Cardinality(A \cup U) = Cardinality(A) + Cardinality(U) - Cardinality(A \cap U)
        BY <3>1, FS_Union
      <4>2. Cardinality(A \cup U) \in Nat /\ Cardinality(A \cap U) \in Nat
        BY <3>1, <4>1, FS_CardinalityType, FS_Intersection
      <4> QED  BY <3>1, <4>1, <4>2
    <3>3. Cardinality(In(qs[j])) <= Cardinality(A \cup U)
      BY <1>4, <2>5, <3>2, FS_Subset
    <3>4. CASE U = {}
      <4>1. Cardinality(In(qs[j])) <= Cardinality(A)
        BY <3>3, <3>4, A \cup {} = A
      <4> QED  BY <1>2, <2>1, <2>2, <2>3, <4>1
    <3>5. CASE U # {}
      <4>1. Cardinality(A) + Cardinality(U) <= PartCap + WeldCap - 1
        BY <1>6, <3>5 DEF h
      <4> HIDE DEF A
      <4> QED  BY <2>1, <2>3, <3>1, <3>2, <3>3, <4>1
    <3> QED  BY <3>4, <3>5
  <2> QED  BY <2>4, <2>5
<1> QED  BY <1>1, <1>3, <1>4, <1>5, <1>6
         DEF ClusterInv, ClusterTypeOK, Underway, AllListed, Capped, Settling, Gathering

LEMMA FamilyFacts ==
  ASSUME ClusterTypeOK, NEW q \in Paths
  PROVE  /\ Family(q) \in SUBSET Paths /\ Cardinality(Family(q)) \in Nat
         /\ Cardinality(Family(q)) <= WeldCap
<1>1. Family(q) \subseteq UnitOf(q)
  BY DEF Family
<1>2. /\ UnitOf(q) \in SUBSET Paths /\ Cardinality(UnitOf(q)) \in Nat
      /\ Cardinality(UnitOf(q)) <= WeldCap /\ IsFiniteSet(UnitOf(q))
  BY UnitFacts
<1>3. Cardinality(Family(q)) <= Cardinality(UnitOf(q)) /\ Cardinality(Family(q)) \in Nat
  BY <1>1, <1>2, FS_Subset, PathsFinite
<1> QED  BY <1>1, <1>2, <1>3, ClustersAssumption

LEMMA ConsolidateKeeps ==
  ASSUME ClusterInv, NEW i, ConsolidateFrom(i) PROVE ClusterInv'
<1>1. /\ ClusterTypeOK /\ pass = "consolidate" /\ gather # None /\ i \in gather.from
      /\ i \in DOMAIN parts
  BY DEF ClusterInv, Underway, ConsolidateFrom
<1> DEFINE mine == PackScenes(parts[i], gather.pack)
<1>2. mine \subseteq Paths
  BY <1>1, PartFacts DEF PackScenes, InPack, ClusterTypeOK
<1>3. \E U \in SUBSET Paths : Pull(i, U)
  <2>1. Pull(i, {}) \/ \E S \in SUBSET mine : Pull(i, UNION {Family(q) : q \in S})
    BY Zenon DEF ConsolidateFrom
  <2>2. ASSUME NEW S \in SUBSET mine PROVE UNION {Family(q) : q \in S} \in SUBSET Paths
    BY <1>1, <1>2, FamilyFacts
  <2> QED  BY <2>1, <2>2
<1> QED  BY <1>1, <1>3, PullKeeps

LEMMA SweepKeeps ==
  ASSUME ClusterInv, NEW i, SweepFrom(i) PROVE ClusterInv'
<1>1. /\ ClusterTypeOK /\ pass = "sweep" /\ gather # None /\ i \in gather.from
      /\ i \in DOMAIN parts /\ gather.home \in DOMAIN parts
  BY DEF ClusterInv, Underway, SweepFrom
<1> DEFINE mine == PackScenes(parts[i], gather.pack)
           home == parts[gather.home]
<1>2. mine \subseteq Paths
  BY <1>1, PartFacts DEF PackScenes, InPack, ClusterTypeOK
<1>3. \/ Pull(i, {})
      \/ Count(home) < PartCap /\ \E q \in mine : Pull(i, Family(q))
  <2>1. Count(home) \in Nat
    BY <1>1, PartFacts DEF ClusterTypeOK
  <2>2. PartCap \in Nat
    BY ClustersAssumption
  <2>3. ~(Count(home) >= PartCap) => Count(home) < PartCap
    BY <2>1, <2>2
  <2> QED  BY <2>3 DEF SweepFrom
<1>4. CASE Pull(i, {})
  BY <1>1, <1>4, PullKeeps
<1>5. CASE Count(home) < PartCap /\ \E q \in mine : Pull(i, Family(q))
  <2>1. PICK q \in mine : Pull(i, Family(q))
    BY <1>5
  <2>2. /\ Family(q) \in SUBSET Paths /\ Cardinality(Family(q)) \in Nat
        /\ Cardinality(Family(q)) <= WeldCap
    BY <1>1, <1>2, FamilyFacts
  <2>3. /\ Count(home) \in Nat /\ Cardinality(In(home)) \in Nat
        /\ Cardinality(In(home)) <= Count(home)
    BY <1>1, PartFacts DEF ClusterTypeOK
  <2>4. PartCap \in Nat /\ WeldCap \in Nat
    BY ClustersAssumption
  <2>5. Cardinality(In(home)) + Cardinality(Family(q)) <= PartCap + WeldCap - 1
    BY <1>5, <2>2, <2>3, <2>4
  <2> QED  BY <1>1, <2>1, <2>2, <2>5, PullKeeps
<1> QED  BY <1>3, <1>4, <1>5

LEMMA GatheredKeeps == ASSUME ClusterInv, Gathered PROVE ClusterInv'
BY DEF Gathered, ClusterInv, ClusterTypeOK, Underway, AllListed, Capped, Settling, Gathering

LEMMA RoundDoneKeeps == ASSUME ClusterInv, RoundDone PROVE ClusterInv'
<1> DEFINE qs == Settled(parts)
<1>1. /\ Gathering /\ parts \in Seq(PartType) /\ todo = <<>>
      /\ pass \in {"consolidate", "sweep"}
  BY DEF ClusterInv, ClusterTypeOK, Underway, RoundDone, Gathering
<1>2. qs \in Seq(PartType) /\ \A q : Listed(parts, q) => Listed(qs, q)
  BY <1>1, SettledFacts, KeptFacts
<1>3. pass = "sweep" => \A i \in DOMAIN qs : Cardinality(In(qs[i])) <= PartCap + WeldCap - 1
  <2>1. PartCap + WeldCap - 1 \in Int
    BY ClustersAssumption
  <2> QED  BY <1>1, <2>1, SettledBounds DEF ClusterInv, Capped
<1> HIDE DEF qs
<1>4. UNCHANGED <<units, todo>> /\ parts' = qs /\ gather' = None
  BY DEF RoundDone, StartRound, EndRound, qs
<1>5. CASE moved /\ round = 1
  <2>1. pass' = pass /\ round' = 2 /\ counts' = Counted(qs) /\ left' \subseteq Packs
    BY <1>5 DEF RoundDone, StartRound, qs
  <2>2. \A k \in Packs : DOMAIN Counted(qs)[k] = DOMAIN qs
    BY DEF Counted
  <2> QED  BY <1>1, <1>2, <1>3, <1>4, <2>1, <2>2
           DEF ClusterInv, ClusterTypeOK, Underway, AllListed, Capped, Settling, Gathering
<1>6. CASE ~(moved /\ round = 1)
  <2>1. /\ pass' = IF pass = "sweep" THEN "tiny" ELSE "usage"
        /\ round' = 0 /\ left' = {}
    BY <1>6 DEF RoundDone, EndRound
  <2> QED  BY <1>1, <1>2, <1>3, <1>4, <2>1
           DEF ClusterInv, ClusterTypeOK, Underway, AllListed, Capped, Settling, Gathering
<1> QED  BY <1>5, <1>6

-----------------------------------------------------------------------------
(***************************************************************************)
(* The passes that follow ties, and the cap.                               *)
(***************************************************************************)
LEMMA CardinalityOfBoth ==
  ASSUME NEW A, NEW B, IsFiniteSet(A), IsFiniteSet(B)
  PROVE  /\ IsFiniteSet(A \cup B) /\ Cardinality(A \cup B) \in Nat
         /\ Cardinality(A) \in Nat /\ Cardinality(B) \in Nat
         /\ Cardinality(A \cup B) <= Cardinality(A) + Cardinality(B)
<1>1. /\ IsFiniteSet(A \cup B)
      /\ Cardinality(A \cup B) = Cardinality(A) + Cardinality(B) - Cardinality(A \cap B)
  BY FS_Union
<1>2. /\ Cardinality(A \cup B) \in Nat /\ Cardinality(A \cap B) \in Nat
      /\ Cardinality(A) \in Nat /\ Cardinality(B) \in Nat
  BY <1>1, FS_CardinalityType, FS_Intersection
<1> QED  BY <1>1, <1>2

\* What goes arrives, whichever moves are made.
LEMMA RouteFacts ==
  ASSUME ClusterInv, todo = <<>>, NEW next, NEW moves, Route(moves, next),
         \A m \in moves : m.files \in SUBSET Paths /\ m.to \in DOMAIN parts
  PROVE  /\ parts' \in Seq(PartType) /\ \A q \in Paths : Listed(parts', q)
         /\ \A i \in DOMAIN parts' : parts'[i].size = Count(parts'[i])
         /\ UNCHANGED <<units, todo, moved, counts, left, gather>>
         /\ \/ pass' = next /\ round' = 0
            \/ pass' = pass /\ round' = 1
<1> DEFINE Out(i) == UNION {m.files : m \in {n \in moves : n.from = i}}
           Arr(i) == UNION {m.files : m \in {n \in moves : n.to = i}}
           qs == [i \in DOMAIN parts |->
                    [parts[i] EXCEPT !.paths = (@ (-) SetToBag(Out(i))) (+) SetToBag(Arr(i))]]
<1>1. parts \in Seq(PartType) /\ \A q \in Paths : Listed(parts, q)
  BY NotInEmpty DEF ClusterInv, ClusterTypeOK, AllListed
<1>2. ASSUME NEW i \in DOMAIN parts
      PROVE  /\ qs[i] \in PartType
             /\ Arr(i) \subseteq In(qs[i]) /\ In(parts[i]) \ Out(i) \subseteq In(qs[i])
  <2> DEFINE a == parts[i].paths
             b == a (-) SetToBag(Out(i))
             c == b (+) SetToBag(Arr(i))
  <2>1. parts[i] \in PartType /\ a \in BagOfPaths /\ In(parts[i]) = DOMAIN a
    BY <1>1, PartFacts DEF In, BagToSet
  <2>2. Out(i) \in SUBSET Paths /\ Arr(i) \in SUBSET Paths
    OBVIOUS
  <2>3. qs[i] = [parts[i] EXCEPT !.paths = c]
    OBVIOUS
  <2> HIDE DEF Out, Arr, qs
  <2>4. /\ SetToBag(Out(i)) \in [Out(i) -> Nat] /\ SetToBag(Arr(i)) \in BagOfPaths
        /\ DOMAIN SetToBag(Arr(i)) = Arr(i)
        /\ \A q \in Out(i) : SetToBag(Out(i))[q] = 1
    BY <2>2, SetBag DEF SetToBag
  <2> HIDE DEF a
  <2>5. /\ b \in BagOfPaths
        /\ \A q : q \in DOMAIN b <=> /\ q \in DOMAIN a
                                     /\ (q \in Out(i) => a[q] > SetToBag(Out(i))[q])
    BY <2>1, <2>4, MinusFacts
  <2> HIDE DEF b
  <2>6. c \in BagOfPaths /\ DOMAIN c = DOMAIN b \cup Arr(i)
    BY <2>4, <2>5, PlusFacts
  <2> HIDE DEF c
  <2>7. qs[i] \in PartType /\ In(qs[i]) = DOMAIN c
    BY <2>1, <2>3, <2>6, WithPaths
  <2>8. ASSUME NEW q
        PROVE  /\ q \in Arr(i) => q \in DOMAIN c
               /\ q \in DOMAIN a /\ q \notin Out(i) => q \in DOMAIN c
    BY <2>5, <2>6
  <2> QED  BY <2>1, <2>7, <2>8 DEF a
<1>3. qs \in Seq(PartType) /\ DOMAIN qs = DOMAIN parts
  <2>1. DOMAIN parts = 1..Len(parts) /\ Len(parts) \in Nat
    BY <1>1
  <2>2. DOMAIN qs = DOMAIN parts /\ qs = [i \in DOMAIN parts |-> qs[i]]
    OBVIOUS
  <2> HIDE DEF qs
  <2>3. qs \in [1..Len(parts) -> PartType]
    BY <1>2, <2>1, <2>2
  <2> QED  BY <2>1, <2>2, <2>3
<1>4. ASSUME NEW q \in Paths PROVE Listed(qs, q)
  <2>1. PICK i \in DOMAIN parts : q \in In(parts[i])
    BY <1>1 DEF Listed
  <2>2. CASE q \notin Out(i)
    <3> HIDE DEF qs, Out, Arr
    <3> QED  BY <1>2, <1>3, <2>1, <2>2 DEF Listed
  <2>3. CASE q \in Out(i)
    <3>1. PICK m \in moves : q \in m.files
      BY <2>3
    <3>2. m.to \in DOMAIN parts /\ q \in Arr(m.to)
      BY <3>1
    <3> HIDE DEF qs, Out, Arr
    <3> QED  BY <1>2, <1>3, <3>2 DEF Listed
  <2> QED  BY <2>2, <2>3
<1>5. parts' = Settled(qs)
  BY DEF Route
<1>6. /\ UNCHANGED <<units, todo, moved, counts, left, gather>>
      /\ \/ pass' = next /\ round' = 0
         \/ pass' = pass /\ round' = 1
  BY DEF Route
<1> HIDE DEF qs
<1>7. /\ Settled(qs) \in Seq(PartType)
      /\ \A n \in DOMAIN Settled(qs) : Settled(qs)[n].size = Count(Settled(qs)[n])
      /\ \A q : Listed(qs, q) => Listed(Settled(qs), q)
  BY <1>3, SettledFacts, KeptFacts
<1> QED  BY <1>4, <1>5, <1>6, <1>7

LEMMA SomeOf == \A M, m : \A chosen \in Some(M) : m \in chosen => m \in M
<1> SUFFICES ASSUME NEW M, NEW chosen \in Some(M), NEW m \in chosen PROVE m \in M
  OBVIOUS
<1>1. PICK f \in [1..MaxMoves -> M] : chosen = {f[n] : n \in 1..MaxMoves}
  BY DEF Some
<1>2. PICK n \in 1..MaxMoves : m = f[n]
  BY <1>1
<1> QED  BY <1>1, <1>2

LEMMA FollowUsageKeeps == ASSUME ClusterInv, FollowUsage PROVE ClusterInv'
<1>1. /\ pass = "usage" /\ todo = <<>> /\ left = {} /\ gather = None /\ ClusterTypeOK
  BY DEF ClusterInv, Underway, Gathering, FollowUsage
<1> DEFINE all == UNION {UNION {Moves(i, {q}, {q}) :
                                  q \in In(parts[i]) \ (Scenes \cup (UNION units))} :
                           i \in DOMAIN parts}
<1>2. PICK M \in Some(all) : Route(M, "majority")
  BY DEF FollowUsage
<1>3. \A i \in DOMAIN parts : In(parts[i]) \subseteq Paths
  BY <1>1, PartFacts DEF ClusterTypeOK
<1>4. \A m \in all : m.files \in SUBSET Paths /\ m.to \in DOMAIN parts
  BY <1>3 DEF Moves
<1> HIDE DEF all
<1>5. \A m \in M : m.files \in SUBSET Paths /\ m.to \in DOMAIN parts
  BY <1>2, <1>4, SomeOf
<1>6. /\ parts' \in Seq(PartType) /\ \A q \in Paths : Listed(parts', q)
      /\ UNCHANGED <<units, todo, moved, counts, left, gather>>
      /\ \/ pass' = "majority" /\ round' = 0
         \/ pass' = pass /\ round' = 1
  BY <1>1, <1>2, <1>5, RouteFacts
<1> QED
  BY <1>1, <1>6
  DEF ClusterInv, ClusterTypeOK, Underway, AllListed, Capped, Settling, Gathering

LEMMA FollowMajorityKeeps == ASSUME ClusterInv, FollowMajority PROVE ClusterInv'
<1>1. /\ pass = "majority" /\ todo = <<>> /\ left = {} /\ gather = None /\ ClusterTypeOK
  BY DEF ClusterInv, Underway, Gathering, FollowMajority
<1> DEFINE all == UNION {UNION {Moves(i, UnitOf(q), UnitOf(q) \cap In(parts[i])) :
                                  q \in In(parts[i]) \cap Scenes} : i \in DOMAIN parts}
<1>2. PICK M \in Some(all) : Route(M, "enforce")
  BY DEF FollowMajority
<1>3. \A i \in DOMAIN parts : In(parts[i]) \subseteq Paths
  BY <1>1, PartFacts DEF ClusterTypeOK
<1>4. \A m \in all : m.files \in SUBSET Paths /\ m.to \in DOMAIN parts
  BY <1>3 DEF Moves
<1> HIDE DEF all
<1>5. \A m \in M : m.files \in SUBSET Paths /\ m.to \in DOMAIN parts
  BY <1>2, <1>4, SomeOf
<1>6. /\ parts' \in Seq(PartType) /\ \A q \in Paths : Listed(parts', q)
      /\ \A i \in DOMAIN parts' : parts'[i].size = Count(parts'[i])
      /\ UNCHANGED <<units, todo, moved, counts, left, gather>>
      /\ \/ pass' = "enforce" /\ round' = 0
         \/ pass' = pass /\ round' = 1
  BY <1>1, <1>2, <1>5, RouteFacts
<1> QED
  BY <1>1, <1>6
  DEF ClusterInv, ClusterTypeOK, Underway, AllListed, Capped, Settling, Gathering

LEMMA EnforceKeeps == ASSUME ClusterInv, Enforce PROVE ClusterInv'
<1> DEFINE bigs == {i \in DOMAIN parts : parts[i].size > PartCap}
           rest == DOMAIN parts \ bigs
<1>1. /\ pass = "enforce" /\ todo = <<>> /\ left = {} /\ gather = None /\ ClusterTypeOK
      /\ parts \in Seq(PartType) /\ round \in Nat /\ \A q \in Paths : Listed(parts, q)
  BY NotInEmpty
  DEF ClusterInv, ClusterTypeOK, AllListed, Underway, Gathering, Enforce
<1>2. PartCap \in Nat /\ WeldCap \in Nat /\ WeldCap > 0 /\ Guard > 0
  BY ClustersAssumption
<1>3. \A i \in DOMAIN parts : /\ parts[i].size = Count(parts[i]) /\ Count(parts[i]) \in Nat
                              /\ (round > 0 => Count(parts[i]) <= PartCap)
                              /\ Cardinality(In(parts[i])) \in Nat
                              /\ Cardinality(In(parts[i])) <= Count(parts[i])
  BY <1>1, PartFacts DEF ClusterInv, Capped
<1>4. \A i \in rest : Count(parts[i]) <= PartCap
  BY <1>2, <1>3
<1>5. UNCHANGED <<units, moved, counts, left, gather>>
  BY DEF Enforce
<1>6. CASE bigs = {} \/ round = Guard
  <2>1. pass' = "sweep" /\ round' = 0 /\ UNCHANGED <<parts, todo>>
    BY <1>6 DEF Enforce
  <2>2. \A i \in DOMAIN parts : Count(parts[i]) <= PartCap
    BY <1>2, <1>3, <1>4, <1>6
  <2> HIDE DEF bigs, rest
  <2>3. \A i \in DOMAIN parts : Cardinality(In(parts[i])) <= PartCap + WeldCap - 1
    BY <1>2, <1>3, <2>2
  <2> QED  BY <1>1, <1>5, <2>1, <2>2, <2>3
           DEF ClusterInv, ClusterTypeOK, Underway, AllListed, Capped, Settling, Gathering
<1>7. CASE ~(bigs = {} \/ round = Guard)
  <2>1. /\ todo' = At(parts, bigs) /\ parts' = At(parts, rest)
        /\ round' = round + 1 /\ pass' = pass
    BY <1>7 DEF Enforce
  <2>2. bigs \in SUBSET DOMAIN parts /\ rest \in SUBSET DOMAIN parts
        /\ \A i \in DOMAIN parts : i \in bigs \/ i \in rest
    OBVIOUS
  <2> HIDE DEF bigs, rest
  <2>3. /\ todo' \in Seq(PartType)
        /\ \A i \in bigs : \E n \in DOMAIN todo' : todo'[n] = parts[i]
    <3> DEFINE s == At(parts, bigs)
    <3>1. /\ s \in Seq(PartType)
          /\ \E pi \in [DOMAIN s -> bigs] :
               /\ \A n \in DOMAIN s : s[n] = parts[pi[n]]
               /\ \A m, n \in DOMAIN s : pi[m] = pi[n] => m = n
               /\ \A i \in bigs : \E n \in DOMAIN s : pi[n] = i
      BY <1>1, <2>2, Taken
    <3> HIDE DEF s
    <3>2. PICK pi \in [DOMAIN s -> bigs] :
               /\ \A n \in DOMAIN s : s[n] = parts[pi[n]]
               /\ \A i \in bigs : \E n \in DOMAIN s : pi[n] = i
      BY <3>1
    <3>3. todo' = s
      BY <2>1 DEF s
    <3> QED  BY <3>1, <3>2, <3>3
  <2>4. /\ parts' \in Seq(PartType)
        /\ \A i \in rest : \E n \in DOMAIN parts' : parts'[n] = parts[i]
        /\ \A n \in DOMAIN parts' : \E i \in rest : parts'[n] = parts[i]
    <3> DEFINE s == At(parts, rest)
    <3>1. /\ s \in Seq(PartType)
          /\ \E pi \in [DOMAIN s -> rest] :
               /\ \A n \in DOMAIN s : s[n] = parts[pi[n]]
               /\ \A m, n \in DOMAIN s : pi[m] = pi[n] => m = n
               /\ \A i \in rest : \E n \in DOMAIN s : pi[n] = i
      BY <1>1, <2>2, Taken
    <3> HIDE DEF s
    <3>2. PICK pi \in [DOMAIN s -> rest] :
               /\ \A n \in DOMAIN s : s[n] = parts[pi[n]]
               /\ \A i \in rest : \E n \in DOMAIN s : pi[n] = i
      BY <3>1
    <3>3. parts' = s
      BY <2>1 DEF s
    <3> QED  BY <3>1, <3>2, <3>3
  <2>5. \A q \in Paths : Listed(parts', q) \/ Listed(todo', q)
    BY <1>1, <2>2, <2>3, <2>4 DEF Listed
  <2>6. \A n \in DOMAIN parts' : /\ parts'[n].size = Count(parts'[n])
                                 /\ Count(parts'[n]) <= PartCap
    BY <1>3, <1>4, <2>2, <2>4
  <2> QED  BY <1>1, <1>5, <2>1, <2>3, <2>4, <2>5, <2>6
           DEF ClusterInv, ClusterTypeOK, Underway, AllListed, Capped, Settling, Gathering
<1> QED  BY <1>6, <1>7

\* A cut leaves no piece over the cap: a chunk is closed at CHUNK_MIN and
\* went over it by the unit that closed it.
LEMMA ChunkSize ==
  ASSUME NEW G \in SUBSET SUBSET Paths, \A g \in G : Cardinality(g) <= WeldCap,
         NEW P \in Chunks(G), NEW b \in P
  PROVE  Cardinality(UNION b) <= PartCap
<1>1. P \in Partitions(G)
  BY DEF Chunks
<1>2. b \subseteq G /\ UNION b \in SUBSET Paths
  BY <1>1, GroupedFacts
<1>3. /\ PartCap \in Nat /\ WeldCap \in Nat /\ WeldCap > 0 /\ ChunkMin \in Nat
      /\ ChunkMin + WeldCap - 1 <= PartCap
  BY ClustersAssumption
<1>4. IsFiniteSet(UNION b) /\ Cardinality(UNION b) \in Nat
  BY <1>2, PathsFinite
<1>5. PICK rest \in P \cup {{}} :
         /\ Cardinality(UNION rest) < ChunkMin
         /\ \A c \in P \ {rest} : \E g \in c : Cardinality(UNION (c \ {g})) < ChunkMin
  BY DEF Chunks
<1>6. CASE b = rest
  BY <1>3, <1>4, <1>5, <1>6
<1>7. CASE b # rest
  <2>1. PICK g \in b : Cardinality(UNION (b \ {g})) < ChunkMin
    BY <1>5, <1>7
  <2>2. g \in SUBSET Paths /\ Cardinality(g) <= WeldCap
    BY <1>2
  <2>3. UNION (b \ {g}) \in SUBSET Paths
    BY <1>2
  <2> DEFINE c == UNION (b \ {g})
  <2>4. UNION b = c \cup g
    OBVIOUS
  <2>5. IsFiniteSet(c) /\ IsFiniteSet(g) /\ Cardinality(c) \in Nat /\ Cardinality(g) \in Nat
    BY <2>2, <2>3, PathsFinite
  <2> HIDE DEF c
  <2>6. Cardinality(UNION b) <= Cardinality(c) + Cardinality(g)
    BY <2>4, <2>5, CardinalityOfBoth
  <2>7. Cardinality(c) < ChunkMin
    BY <2>1 DEF c
  <2> QED  BY <1>3, <1>4, <2>2, <2>5, <2>6, <2>7
<1> QED  BY <1>6, <1>7

LEMMA CutBigKeeps == ASSUME ClusterInv, CutBig PROVE ClusterInv'
<1>1. /\ ClusterTypeOK /\ pass = "enforce" /\ todo # <<>> /\ left = {} /\ gather = None
      /\ parts \in Seq(PartType)
  BY DEF ClusterInv, ClusterTypeOK, Underway, Gathering, CutBig
<1>2. Head(todo) \in PartType
  BY <1>1, HeadOrTail DEF ClusterTypeOK
<1> DEFINE G == Groups(Head(todo))
<1>3. /\ G \in SUBSET SUBSET Paths /\ In(Head(todo)) \subseteq UNION G
      /\ \A g \in G : Cardinality(g) <= WeldCap
  BY <1>1, <1>2, GroupsFacts
<1>4. PICK P : /\ P \in {Q \in Partitions(G) :
                           Cardinality(Q) > 1 /\ \A b \in Q : Cardinality(UNION b) <= PartCap}
                        \cup Chunks(G)
               /\ Cut({UNION b : b \in P}, "enforce")
  BY DEF CutBig
<1> HIDE DEF G
<1>5. P \in Partitions(G) /\ \A b \in P : Cardinality(UNION b) <= PartCap
  <2>1. CASE P \in Chunks(G)
    <3>1. P \in Partitions(G)
      BY <2>1 DEF Chunks
    <3> QED  BY <1>3, <2>1, <3>1, ChunkSize
  <2>2. CASE P \notin Chunks(G)
    BY <1>4, <2>2
  <2> QED  BY <2>1, <2>2
<1> DEFINE blocks == {UNION b : b \in P}
<1>6. blocks \in SUBSET SUBSET Paths /\ UNION blocks = UNION G
  BY <1>3, <1>5, GroupedFacts
<1>7. \A c \in blocks : Cardinality(c) <= PartCap
  BY <1>5
<1>8. Cut(blocks, "enforce")
  BY <1>4
<1> HIDE DEF blocks
<1>9. /\ parts' \in Seq(PartType) /\ todo' \in Seq(PartType)
      /\ \A q \in Paths : Listed(parts', q) \/ Listed(todo', q)
      /\ pass' \in {pass, "enforce"} /\ UNCHANGED <<units, still>>
      /\ parts' = With(parts, blocks)
  BY <1>1, <1>3, <1>6, <1>8, CutFacts
<1>10. ASSUME NEW i \in DOMAIN parts'
       PROVE  /\ parts'[i].size = Count(parts'[i])
              /\ (round > 0 => Count(parts'[i]) <= PartCap)
  <2>1. \/ \E j \in DOMAIN parts : parts'[i] = parts[j]
        \/ \E c \in blocks : parts'[i] = Of(c)
    BY <1>1, <1>6, <1>9, WithFacts
  <2>2. CASE \E j \in DOMAIN parts : parts'[i] = parts[j]
    BY <1>1, <2>2 DEF ClusterInv, Capped
  <2>3. CASE \E c \in blocks : parts'[i] = Of(c)
    BY <1>6, <1>7, <2>3, OfFacts
  <2> QED  BY <2>1, <2>2, <2>3
<1> QED
  BY <1>1, <1>9, <1>10
  DEF ClusterInv, ClusterTypeOK, Underway, AllListed, Capped, Settling, Gathering, still

-----------------------------------------------------------------------------
(***************************************************************************)
(* Tiny parts, and files listed twice.                                     *)
(***************************************************************************)
LEMMA SettlesTyped ==
  ASSUME NEW ps \in Seq(PartType), \A q \in Paths : Listed(ps, q),
         \A i \in DOMAIN ps : Cardinality(In(ps[i])) <= PartCap + WeldCap - 1
  PROVE  /\ Settled(ps) \in Seq(PartType) /\ \A q \in Paths : Listed(Settled(ps), q)
         /\ \A i \in DOMAIN Settled(ps) :
              /\ Cardinality(In(Settled(ps)[i])) <= PartCap + WeldCap - 1
              /\ Settled(ps)[i].size = Count(Settled(ps)[i])
         /\ \A q : Once(ps, q) => Once(Settled(ps), q)
<1>1. PartCap + WeldCap - 1 \in Int
  BY ClustersAssumption
<1>2. /\ Settled(ps) \in Seq(PartType)
      /\ \A n \in DOMAIN Settled(ps) : Settled(ps)[n].size = Count(Settled(ps)[n])
      /\ \E pi : KeptBy(ps, Settled(ps), pi)
  BY SettledFacts
<1>3. \A i \in DOMAIN Settled(ps) : Cardinality(In(Settled(ps)[i])) <= PartCap + WeldCap - 1
  BY <1>1, SettledBounds
<1>4. /\ \A q : Listed(ps, q) => Listed(Settled(ps), q)
      /\ \A q : Once(ps, q) => Once(Settled(ps), q)
  BY <1>2, KeptFacts
<1> QED  BY <1>2, <1>3, <1>4

LEMMA TinyRoundKeeps == ASSUME ClusterInv, TinyRound PROVE ClusterInv'
<1>1. /\ pass = "tiny" /\ todo = <<>> /\ gather = None /\ ClusterTypeOK
      /\ parts \in Seq(PartType) /\ \A q \in Paths : Listed(parts, q)
      /\ \A i \in DOMAIN parts : Cardinality(In(parts[i])) <= PartCap + WeldCap - 1
  BY NotInEmpty
  DEF ClusterInv, ClusterTypeOK, AllListed, Underway, Capped, Gathering, TinyRound
<1>2. /\ parts' = Settled(parts) /\ round' = round + 1
      /\ left' = {i \in DOMAIN parts' : parts'[i].size <= TinyMax}
      /\ UNCHANGED <<units, pass, todo, counts, gather>>
  BY DEF TinyRound
<1>3. /\ parts' \in Seq(PartType) /\ \A q \in Paths : Listed(parts', q)
      /\ \A i \in DOMAIN parts' : /\ Cardinality(In(parts'[i])) <= PartCap + WeldCap - 1
                                  /\ parts'[i].size = Count(parts'[i])
  BY <1>1, <1>2, SettlesTyped
<1> QED
  BY <1>1, <1>2, <1>3
  DEF ClusterInv, ClusterTypeOK, Underway, AllListed, Capped, Settling, Gathering

LEMMA TinyMergeKeeps == ASSUME ClusterInv, NEW i, TinyMerge(i) PROVE ClusterInv'
<1>1. /\ pass = "tiny" /\ todo = <<>> /\ gather = None /\ ClusterTypeOK
      /\ parts \in Seq(PartType) /\ \A q \in Paths : Listed(parts, q)
      /\ \A m \in DOMAIN parts : Cardinality(In(parts[m])) <= PartCap + WeldCap - 1
      /\ i \in left /\ i \in DOMAIN parts
      /\ \A m \in left : m \in DOMAIN parts /\ Count(parts[m]) <= TinyMax
  BY NotInEmpty
  DEF ClusterInv, ClusterTypeOK, AllListed, Underway, Capped, Gathering, TinyMerge
<1>2. /\ left' = left \ {i}
      /\ UNCHANGED <<units, pass, todo, round, counts, gather>>
  BY DEF TinyMerge
<1>3. CASE UNCHANGED parts
  BY <1>1, <1>2, <1>3
  DEF ClusterInv, ClusterTypeOK, Underway, AllListed, Capped, Settling, Gathering
<1>4. CASE \E j \in DOMAIN parts :
             /\ Count(parts[j]) > TinyMax /\ Open(j)
             /\ parts' = [parts EXCEPT ![j].paths = @ (+) parts[i].paths,
                                       ![j].size = Count(parts[j]) + Count(parts[i]),
                                       ![i].paths = EmptyBag]
  <2>1. PICK j \in DOMAIN parts :
             /\ Count(parts[j]) > TinyMax /\ Open(j)
             /\ parts' = [parts EXCEPT ![j].paths = @ (+) parts[i].paths,
                                       ![j].size = Count(parts[j]) + Count(parts[i]),
                                       ![i].paths = EmptyBag]
    BY <1>4
  <2>2. /\ PartCap \in Nat /\ WeldCap \in Nat /\ WeldCap > 0 /\ PartSoftCap \in Nat
        /\ TinyMax \in Nat /\ PartSoftCap + TinyMax <= PartCap
    BY ClustersAssumption
  <2>3. \A m \in DOMAIN parts :
          /\ parts[m] \in PartType /\ parts[m].paths \in BagOfPaths /\ parts[m].size \in Nat
          /\ IsFiniteSet(In(parts[m])) /\ Cardinality(In(parts[m])) \in Nat
          /\ Count(parts[m]) \in Nat /\ Cardinality(In(parts[m])) <= Count(parts[m])
          /\ In(parts[m]) = DOMAIN parts[m].paths
    BY <1>1, PartFacts DEF In, BagToSet
  <2>4. i # j /\ \A m \in left : m # j
    BY <1>1, <2>1, <2>2, <2>3
  <2> DEFINE a == parts[j].paths (+) parts[i].paths
             n == Count(parts[j]) + Count(parts[i])
  <2>5. a \in BagOfPaths /\ DOMAIN a = In(parts[j]) \cup In(parts[i]) /\ n \in Nat
    <3>1. i \in DOMAIN parts /\ j \in DOMAIN parts
      BY <1>1
    <3>2. parts[j].paths \in BagOfPaths /\ parts[i].paths \in BagOfPaths
      BY <3>1, <2>3
    <3>3. a \in BagOfPaths /\ DOMAIN a = DOMAIN parts[j].paths \cup DOMAIN parts[i].paths
      BY <3>2, PlusFacts
    <3>4. n \in Nat /\ In(parts[j]) = DOMAIN parts[j].paths /\ In(parts[i]) = DOMAIN parts[i].paths
      BY <3>1, <2>3
    <3> QED
      BY <3>3, <3>4
  <2>6. EmptyBag \in BagOfPaths /\ DOMAIN EmptyBag = {}
    <3>1. {} \in SUBSET Paths /\ EmptyBag = SetToBag({})
      BY DEF EmptyBag
    <3> QED
      BY <3>1, SetBag
  <2>7. /\ DOMAIN parts' = DOMAIN parts
        /\ \A m \in DOMAIN parts \ {i, j} : parts'[m] = parts[m]
        /\ parts'[j] = [paths |-> a, size |-> n]
        /\ parts'[i] = [parts[i] EXCEPT !.paths = EmptyBag]
    <3>1. parts[j] = [paths |-> parts[j].paths, size |-> parts[j].size]
      BY <2>3 DEF PartType
    <3> HIDE DEF a, n
    <3>2. parts' = [parts EXCEPT ![j].paths = a, ![j].size = n, ![i].paths = EmptyBag]
      BY <2>1 DEF a, n
    <3> QED  BY <1>1, <2>4, <3>1, <3>2
  <2> HIDE DEF a, n
  <2>8. /\ parts'[j] \in PartType /\ In(parts'[j]) = In(parts[j]) \cup In(parts[i])
        /\ parts'[i] \in PartType /\ In(parts'[i]) = {}
    BY <1>1, <2>3, <2>5, <2>6, <2>7, WithPaths DEF PartType, In, BagToSet
  <2>9. parts' \in Seq(PartType)
    <3>1. DOMAIN parts = 1..Len(parts) /\ Len(parts) \in Nat
      BY <1>1
    <3>2. \A m \in DOMAIN parts : parts'[m] \in PartType
      BY <2>3, <2>7, <2>8
    <3>3. parts' = [m \in DOMAIN parts |-> parts'[m]]
      BY <1>1, <2>1
    <3>4. parts' \in [1..Len(parts) -> PartType]
      BY <3>1, <3>2, <3>3
    <3> QED  BY <3>1, <3>4
  <2>10. \A q \in Paths : Listed(parts', q)
    <3> TAKE q \in Paths
    <3>1. PICK m \in DOMAIN parts : q \in In(parts[m])
      BY <1>1 DEF Listed
    <3>2. CASE m \in {i, j}
      BY <2>7, <2>8, <3>1, <3>2 DEF Listed
    <3>3. CASE m \notin {i, j}
      BY <2>7, <3>1, <3>3 DEF Listed
    <3> QED  BY <3>2, <3>3
  <2>11. ASSUME NEW m \in DOMAIN parts
         PROVE  Cardinality(In(parts'[m])) <= PartCap + WeldCap - 1
    <3>1. CASE m \notin {i, j}
      BY <1>1, <2>7, <3>1
    <3>2. CASE m = i
      BY <2>2, <2>8, <3>2, FS_EmptySet
    <3>3. CASE m = j
      <4>1. /\ Cardinality(In(parts[j]) \cup In(parts[i])) \in Nat
            /\ Cardinality(In(parts[j]) \cup In(parts[i]))
                 <= Cardinality(In(parts[j])) + Cardinality(In(parts[i]))
        BY <1>1, <2>3, CardinalityOfBoth
      <4>2. Count(parts[j]) <= PartSoftCap /\ Count(parts[i]) <= TinyMax
        BY <1>1, <2>1 DEF Open
      <4>3. /\ Cardinality(In(parts[j])) <= PartSoftCap /\ Cardinality(In(parts[i])) <= TinyMax
            /\ Cardinality(In(parts[j])) \in Nat /\ Cardinality(In(parts[i])) \in Nat
        BY <1>1, <2>2, <2>3, <4>2
      <4>4. Cardinality(In(parts[j]) \cup In(parts[i])) <= PartCap + WeldCap - 1
        BY <2>2, <4>1, <4>3
      <4> QED  BY <2>8, <3>3, <4>4
    <3> QED  BY <3>1, <3>2, <3>3
  <2>12. \A m \in left' : m \in DOMAIN parts' /\ Count(parts'[m]) <= TinyMax
    BY <1>1, <1>2, <2>4, <2>7
  <2> QED  BY <1>1, <1>2, <2>7, <2>9, <2>10, <2>11, <2>12
           DEF ClusterInv, ClusterTypeOK, Underway, AllListed, Capped, Settling, Gathering
<1> QED  BY <1>3, <1>4 DEF TinyMerge

LEMMA TinyDoneKeeps == ASSUME ClusterInv, TinyDone PROVE ClusterInv'
<1>1. /\ pass = "tiny" /\ todo = <<>> /\ gather = None /\ ClusterTypeOK
      /\ parts \in Seq(PartType) /\ \A q \in Paths : Listed(parts, q)
      /\ \A i \in DOMAIN parts : Cardinality(In(parts[i])) <= PartCap + WeldCap - 1
  BY NotInEmpty
  DEF ClusterInv, ClusterTypeOK, AllListed, Underway, Capped, Gathering, TinyDone
<1>2. /\ parts' = Settled(parts) /\ round' = 0 /\ left' = {} /\ gather' = None
      /\ pass' = "partition" /\ UNCHANGED <<units, todo>>
  BY DEF TinyDone, EndRound
<1>3. /\ parts' \in Seq(PartType) /\ \A q \in Paths : Listed(parts', q)
      /\ \A i \in DOMAIN parts' : Cardinality(In(parts'[i])) <= PartCap + WeldCap - 1
  BY <1>1, <1>2, SettlesTyped
<1> QED
  BY <1>1, <1>2, <1>3
  DEF ClusterInv, ClusterTypeOK, Underway, AllListed, Capped, Settling, Gathering

\* What the listing of a file over all parts says.
LEMMA AllFacts ==
  ASSUME NEW ps \in Seq(PartType), NEW q \in Paths
  PROVE  /\ All(ps)[q] \in Nat
         /\ Listed(ps, q) => All(ps)[q] >= 1
         /\ Listed(ps, q) /\ All(ps)[q] <= 1 => Once(ps, q)
         /\ Once(ps, q) => All(ps)[q] = 1
<1> DEFINE D == {j \in DOMAIN ps : q \in In(ps[j])}
           f == [i \in D |-> CopiesOf(q, ps[i].paths)]
<1>1. All(ps)[q] = BagCardinality(f)
  BY DEF All
<1>2. IsFiniteSet(D) /\ Cardinality(D) \in Nat
  <2>1. D \in SUBSET (1..Len(ps)) /\ Len(ps) \in Nat
    OBVIOUS
  <2>2. IsFiniteSet(1..Len(ps))
    BY <2>1, FS_Interval
  <2> HIDE DEF D
  <2> QED  BY <2>1, <2>2, FS_Subset, FS_CardinalityType
<1>3. \A i \in D : CopiesOf(q, ps[i].paths) \in Nat \ {0}
  <2> TAKE i \in D
  <2>1. ps[i] \in PartType /\ q \in In(ps[i])
    OBVIOUS
  <2>2. ps[i].paths \in [In(ps[i]) -> Nat \ {0}]
    BY <2>1, PartFacts
  <2> QED  BY <2>1, <2>2 DEF CopiesOf
<1>4. Listed(ps, q) <=> D # {}
  BY DEF Listed
<1>5. Once(ps, q) <=> \E i \in D : D = {i} /\ CopiesOf(q, ps[i].paths) = 1
  <2>1. ASSUME Once(ps, q) PROVE \E i \in D : D = {i} /\ CopiesOf(q, ps[i].paths) = 1
    <3>1. PICK i \in DOMAIN ps : /\ CopiesOf(q, ps[i].paths) = 1
                                 /\ \A j \in DOMAIN ps \ {i} : q \notin In(ps[j])
      BY <2>1 DEF Once
    <3>2. i \in D
      BY <3>1 DEF CopiesOf, In, BagToSet
    <3> QED  BY <3>1, <3>2
  <2>2. ASSUME NEW i \in D, D = {i}, CopiesOf(q, ps[i].paths) = 1 PROVE Once(ps, q)
    <3>1. \A j \in DOMAIN ps \ {i} : q \notin In(ps[j])
      BY <2>2
    <3> QED  BY <2>2, <3>1 DEF Once
  <2> QED  BY <2>1, <2>2
<1> HIDE DEF D
<1>6. f \in [D -> Nat \ {0}] /\ \A i \in D : f[i] = CopiesOf(q, ps[i].paths)
  BY <1>3
<1> HIDE DEF f
<1>7. BagCardinality(f) \in Nat /\ BagCardinality(f) >= Cardinality(D)
  BY <1>2, <1>6, BagBounds
<1>8. D # {} => Cardinality(D) >= 1
  BY <1>2, FS_EmptySet
<1>9. ASSUME D # {}, BagCardinality(f) <= 1
      PROVE  \E i \in D : D = {i} /\ CopiesOf(q, ps[i].paths) = 1
  <2>1. Cardinality(D) = 1
    BY <1>2, <1>7, <1>8, <1>9
  <2>2. PICK i : D = {i}
    BY <1>2, <2>1, FS_Singleton
  <2>3. BagCardinality(f) = f[i] /\ f[i] \in Nat \ {0}
    BY <1>6, <2>2, BagOfOne
  <2> QED  BY <1>6, <1>9, <2>2, <2>3
<1>10. ASSUME NEW i \in D, D = {i}, CopiesOf(q, ps[i].paths) = 1
       PROVE  BagCardinality(f) = 1
  BY <1>6, <1>10, BagOfOne
<1> QED  BY <1>1, <1>4, <1>5, <1>7, <1>8, <1>9, <1>10

LEMMA FindTwiceKeeps == ASSUME ClusterInv, FindTwice PROVE ClusterInv'
<1>1. /\ pass = "partition" /\ todo = <<>> /\ gather = None /\ ClusterTypeOK
      /\ parts \in Seq(PartType) /\ \A q \in Paths : Listed(parts, q)
  BY NotInEmpty
  DEF ClusterInv, ClusterTypeOK, AllListed, Underway, Gathering, FindTwice
<1>2. /\ left' = {q \in Paths : All(parts)[q] > 1}
      /\ pass' = IF left' = {} THEN "label" ELSE pass
      /\ UNCHANGED <<units, parts, todo, round, moved, counts, gather>>
  BY DEF FindTwice
<1>3. \A q \in Paths \ left' : Once(parts, q)
  <2> TAKE q \in Paths \ left'
  <2>1. All(parts)[q] \in Nat /\ ~(All(parts)[q] > 1)
    BY <1>1, <1>2, AllFacts
  <2>2. All(parts)[q] <= 1
    BY <2>1
  <2> QED  BY <1>1, <2>2, AllFacts
<1> QED
  BY <1>1, <1>2, <1>3
  DEF ClusterInv, ClusterTypeOK, Underway, AllListed, Capped, Settling, Gathering

LEMMA KeepOnceFacts ==
  ASSUME NEW ps \in Seq(PartType), ps = parts, NEW q \in Paths, NEW k \in DOMAIN ps,
         q \in In(ps[k])
  PROVE  /\ KeepOnce(q, k) \in Seq(PartType) /\ DOMAIN KeepOnce(q, k) = DOMAIN ps
         /\ \A i \in DOMAIN ps : /\ In(KeepOnce(q, k)[i]) \subseteq In(ps[i])
                                 /\ In(ps[i]) \ {q} \subseteq In(KeepOnce(q, k)[i])
         /\ \A r \in Paths \ {q} : Once(ps, r) => Once(KeepOnce(q, k), r)
         /\ Once(KeepOnce(q, k), q)
<1> DEFINE n(i) == CopiesOf(q, ps[i].paths) - (IF i = k THEN 1 ELSE 0)
           qs == [i \in DOMAIN ps |-> [ps[i] EXCEPT !.paths = @ (-) [r \in {q} |-> n(i)]]]
<1>1. ASSUME NEW i \in DOMAIN ps
      PROVE  /\ qs[i] \in PartType /\ In(qs[i]) \subseteq In(ps[i])
             /\ In(ps[i]) \ {q} \subseteq In(qs[i])
             /\ \A r : r # q => CopiesOf(r, qs[i].paths) = CopiesOf(r, ps[i].paths)
             /\ CopiesOf(q, qs[i].paths) = (IF i = k THEN 1 ELSE 0)
             /\ q \in In(qs[i]) => i = k
  <2> DEFINE a == ps[i].paths
             z == [r \in {q} |-> n(i)]
             b == a (-) z
  <2>1. /\ ps[i] \in PartType /\ a \in BagOfPaths /\ In(ps[i]) = DOMAIN a
        /\ a \in [In(ps[i]) -> Nat \ {0}]
    BY PartFacts DEF In, BagToSet
  <2>2. /\ CopiesOf(q, a) \in Nat /\ (i = k => CopiesOf(q, a) # 0)
        /\ CopiesOf(q, a) = IF q \in DOMAIN a THEN a[q] ELSE 0
    <3> HIDE DEF a
    <3>1. i = k => q \in DOMAIN a
      BY <2>1
    <3> QED  BY <2>1, <3>1 DEF CopiesOf
  <2>3. n(i) = CopiesOf(q, a) - (IF i = k THEN 1 ELSE 0)
    OBVIOUS
  <2> HIDE DEF n
  <2>4. n(i) \in Nat
    BY <2>2, <2>3
  <2>5. z \in [{q} -> Nat] /\ z[q] = n(i)
    BY <2>4
  <2>6. qs[i] = [ps[i] EXCEPT !.paths = b]
    OBVIOUS
  <2> HIDE DEF z, qs, a
  <2>7. /\ b \in BagOfPaths
        /\ \A r : CopiesOf(r, b) = IF r \in DOMAIN a \cap {q}
                                     THEN IF a[r] > z[r] THEN a[r] - z[r] ELSE 0
                                     ELSE CopiesOf(r, a)
        /\ \A r : r \in DOMAIN b <=> r \in DOMAIN a /\ (r \in {q} => a[r] > z[r])
    BY <2>1, <2>5, MinusFacts
  <2> HIDE DEF b
  <2>8. qs[i] \in PartType /\ qs[i].paths = b /\ In(qs[i]) = DOMAIN b
    BY <2>1, <2>6, <2>7, WithPaths DEF a
  <2>9. CopiesOf(q, b) = IF i = k THEN 1 ELSE 0
    <3>1. CASE q \in DOMAIN a
      BY <2>2, <2>3, <2>5, <2>7, <3>1
    <3>2. CASE q \notin DOMAIN a
      BY <2>2, <2>7, <3>2
    <3> QED  BY <3>1, <3>2
  <2>10. q \in DOMAIN b => i = k
    BY <2>2, <2>3, <2>5, <2>7
  <2> QED  BY <2>1, <2>7, <2>8, <2>9, <2>10 DEF a
<1>2. qs \in Seq(PartType) /\ DOMAIN qs = DOMAIN ps
  <2>1. DOMAIN ps = 1..Len(ps) /\ Len(ps) \in Nat
    OBVIOUS
  <2>2. DOMAIN qs = DOMAIN ps /\ qs = [i \in DOMAIN ps |-> qs[i]]
    OBVIOUS
  <2> HIDE DEF qs
  <2>3. qs \in [1..Len(ps) -> PartType]
    BY <1>1, <2>1, <2>2
  <2> QED  BY <2>1, <2>2, <2>3
<1>3. KeepOnce(q, k) = qs
  BY DEF KeepOnce
<1> HIDE DEF qs
<1>4. ASSUME NEW r \in Paths \ {q}, Once(ps, r) PROVE Once(qs, r)
  <2>1. PICK i \in DOMAIN ps : /\ CopiesOf(r, ps[i].paths) = 1
                               /\ \A j \in DOMAIN ps \ {i} : r \notin In(ps[j])
    BY <1>4 DEF Once
  <2>2. CopiesOf(r, qs[i].paths) = 1
    BY <1>1, <2>1
  <2>3. \A j \in DOMAIN qs \ {i} : r \notin In(qs[j])
    BY <1>1, <1>2, <2>1
  <2> QED  BY <1>2, <2>2, <2>3 DEF Once
<1>5. Once(qs, q)
  BY <1>1, <1>2 DEF Once
<1> QED  BY <1>1, <1>2, <1>3, <1>4, <1>5

LEMMA KeepKeeps == ASSUME ClusterInv, NEW q \in Paths, Keep(q) PROVE ClusterInv'
<1>1. /\ pass = "partition" /\ todo = <<>> /\ gather = None /\ ClusterTypeOK
      /\ parts \in Seq(PartType) /\ \A r \in Paths : Listed(parts, r)
      /\ \A i \in DOMAIN parts : Cardinality(In(parts[i])) <= PartCap + WeldCap - 1
      /\ q \in left /\ left \subseteq Paths /\ \A r \in Paths \ left : Once(parts, r)
  BY NotInEmpty
  DEF ClusterInv, ClusterTypeOK, AllListed, Underway, Capped, Settling, Gathering, Keep
<1>2. PICK k \in DOMAIN parts :
         /\ q \in In(parts[k])
         /\ parts' = IF left = {q} THEN Settled(KeepOnce(q, k)) ELSE KeepOnce(q, k)
  BY DEF Keep, Most
<1>3. /\ left' = left \ {q} /\ pass' = IF left = {q} THEN "label" ELSE pass
      /\ UNCHANGED <<units, todo, round, moved, counts, gather>>
  BY DEF Keep
<1> DEFINE qs == KeepOnce(q, k)
<1>4. /\ qs \in Seq(PartType) /\ DOMAIN qs = DOMAIN parts
      /\ \A i \in DOMAIN parts : /\ In(qs[i]) \subseteq In(parts[i])
                                 /\ In(parts[i]) \ {q} \subseteq In(qs[i])
      /\ \A r \in Paths \ {q} : Once(parts, r) => Once(qs, r)
      /\ Once(qs, q)
  BY <1>1, <1>2, KeepOnceFacts
<1> HIDE DEF qs
<1>5. PartCap + WeldCap - 1 \in Int
  BY ClustersAssumption
<1>6. \A i \in DOMAIN qs : Cardinality(In(qs[i])) <= PartCap + WeldCap - 1
  <2> TAKE i \in DOMAIN qs
  <2>1. /\ IsFiniteSet(In(parts[i])) /\ Cardinality(In(parts[i])) \in Nat
        /\ Cardinality(In(parts[i])) <= PartCap + WeldCap - 1
    BY <1>1, <1>4, PartFacts
  <2>2. Cardinality(In(qs[i])) \in Nat
    BY <1>4, PartFacts
  <2>3. Cardinality(In(qs[i])) <= Cardinality(In(parts[i]))
    BY <1>4, <2>1, FS_Subset
  <2> QED  BY <1>5, <2>1, <2>2, <2>3
<1>7. \A r \in Paths : Listed(qs, r)
  <2> TAKE r \in Paths
  <2>1. CASE r = q
    BY <1>4, <2>1 DEF Once, Listed, CopiesOf, In, BagToSet
  <2>2. CASE r # q
    BY <1>1, <1>4, <2>2 DEF Listed
  <2> QED  BY <2>1, <2>2
<1>8. \A r \in Paths \ left' : Once(qs, r)
  BY <1>1, <1>3, <1>4
<1>9. CASE left = {q}
  <2>1. parts' = Settled(qs) /\ pass' = "label" /\ left' = {}
    BY <1>2, <1>3, <1>9 DEF qs
  <2>2. /\ parts' \in Seq(PartType) /\ \A r \in Paths : Listed(parts', r)
        /\ \A i \in DOMAIN parts' : Cardinality(In(parts'[i])) <= PartCap + WeldCap - 1
        /\ \A r : Once(qs, r) => Once(parts', r)
    BY <1>4, <1>6, <1>7, <2>1, SettlesTyped
  <2> QED  BY <1>1, <1>3, <1>8, <2>1, <2>2
           DEF ClusterInv, ClusterTypeOK, Underway, AllListed, Capped, Settling, Gathering
<1>10. CASE left # {q}
  <2>1. parts' = qs /\ pass' = pass
    BY <1>2, <1>3, <1>10 DEF qs
  <2> QED  BY <1>1, <1>3, <1>4, <1>6, <1>7, <1>8, <2>1
           DEF ClusterInv, ClusterTypeOK, Underway, AllListed, Capped, Settling, Gathering
<1> QED  BY <1>9, <1>10

-----------------------------------------------------------------------------
LEMMA ClustersKeep == ASSUME ClusterInv, [ClusterNext]_clusterVars PROVE ClusterInv'
<1>1. CASE UNCHANGED clusterVars
  BY <1>1
  DEF clusterVars, still, ClusterInv, ClusterTypeOK, Underway, AllListed, Capped, Settling,
      Gathering
<1>2. CASE ClusterNext
  BY <1>2, SplitUnitsKeeps, PackSplitKeeps, MergeSmallKeeps, FirstRoundKeeps, TakePackKeeps,
     GatheredKeeps, RoundDoneKeeps, ConsolidateKeeps, SweepKeeps, FollowUsageKeeps,
     FollowMajorityKeeps, EnforceKeeps, CutBigKeeps, TinyRoundKeeps, TinyMergeKeeps,
     TinyDoneKeeps, FindTwiceKeeps, KeepKeeps
  DEF ClusterNext
<1> QED  BY <1>1, <1>2

LEMMA ClustersInductive == ClusterSpec => []ClusterInv
<1>1. ClusterInit => ClusterInv
  BY StartsListed
<1>2. ClusterInv /\ [ClusterNext]_clusterVars => ClusterInv'
  BY ClustersKeep
<1> QED  BY <1>1, <1>2, PTL DEF ClusterSpec

\* Between the passes of finalize parts are bags of paths with a size, no weld
\* has more than WELD_CAP files, and the pass is one of the eleven.
THEOREM ClustersTyped == ClusterSpec => []ClusterTypeOK
<1>1. ClusterInv => ClusterTypeOK
  BY DEF ClusterInv
<1> QED  BY <1>1, ClustersInductive, PTL

\* No pass loses a file, and in the end each is in exactly one cluster, once
\* (finalize, _pass_partition).
THEOREM FilesInOneCluster == ClusterSpec => []OneCluster
<1>1. ClusterInv => OneCluster
  <2> SUFFICES ASSUME ClusterInv PROVE OneCluster
    OBVIOUS
  <2>1. /\ parts \in Seq(PartType) /\ todo \in Seq(PartType)
        /\ \A q \in Paths : Listed(parts, q) \/ Listed(todo, q)
        /\ pass = "label" => \A q \in Paths : Once(parts, q)
    BY DEF ClusterInv, ClusterTypeOK, AllListed, Settling
  <2>2. parts \o todo \in Seq(PartType) /\ \A q \in Paths : Listed(parts \o todo, q)
    BY <2>1, Joins
  <2>3. \A q \in Paths : All(parts \o todo)[q] >= 1
    BY <2>2, AllFacts
  <2>4. pass = "label" => \A q \in Paths : All(parts)[q] = 1
    BY <2>1, AllFacts
  <2> QED  BY <2>3, <2>4 DEF OneCluster
<1> QED  BY <1>1, ClustersInductive, PTL

\* The cap pass leaves no part over the cap, and in the end none is over it
\* by more than a welded unit (_pass_cap_enforce, _pass_stray_sweep,
\* _pass_tiny_merge).
THEOREM CapIsBounded == ClusterSpec => []CapBound
<1>1. ClusterInv => CapBound
  <2> SUFFICES ASSUME ClusterInv PROVE CapBound
    OBVIOUS
  <2>1. pass = "sweep" /\ round = 0 => \A i \in DOMAIN parts : Count(parts[i]) <= PartCap
    BY DEF ClusterInv, Capped
  <2>2. ASSUME pass = "label", NEW i \in DOMAIN parts
        PROVE  Count(parts[i]) <= PartCap + WeldCap - 1
    <3>1. /\ parts[i] \in PartType
          /\ Cardinality(In(parts[i])) <= PartCap + WeldCap - 1
          /\ \A q \in Paths : Once(parts, q)
      BY <2>2 DEF ClusterInv, ClusterTypeOK, Capped, Settling
    <3>2. \A q \in In(parts[i]) : CopiesOf(q, parts[i].paths) = 1
      <4> TAKE q \in In(parts[i])
      <4>1. Once(parts, q)
        BY <3>1, PartFacts
      <4> QED  BY <4>1 DEF Once
    <3>3. Count(parts[i]) = Cardinality(In(parts[i]))
      BY <3>1, <3>2, PartFacts
    <3> QED  BY <3>1, <3>3
  <2> QED  BY <2>1, <2>2 DEF CapBound
<1> QED  BY <1>1, ClustersInductive, PTL

=============================================================================
