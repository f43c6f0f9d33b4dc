------------------------------ MODULE Clusters ------------------------------
(***************************************************************************)
(* The passes that turn the engine's communities into the clusters the     *)
(* tools show (finalize in clusterpasses.py): blobs are split by welded    *)
(* unit, mixed scene packs apart, small parts merged; then stray pack      *)
(* scenes, scripts and scenes are routed to other parts, parts over the    *)
(* cap are cut by whole welds again, and a file that ended up in two parts *)
(* is taken out of one.                                                    *)
(*                                                                         *)
(* Similarities, structural ties and directories are data: where one of    *)
(* them decides, every outcome the code could come to is allowed, and ties *)
(* that the code settles by name or position are settled any way.          *)
(***************************************************************************)
EXTENDS Integers, FiniteSets, Bags, SequencesExt

CONSTANTS Paths, Scenes, Packs,
          PackOf,      \* _pack_key of a path's stem, or None
          WeldCap,     \* WELD_CAP (12)
          BlobMin,     \* BLOB_MIN (60)
          SmallMin,    \* SMALL_MIN (3)
          TinyMax,     \* a part of this many files or fewer is tiny (4)
          PartSoftCap, \* PART_SOFT_CAP (66)
          PartCap,     \* PART_CAP (70)
          ChunkMin,    \* CHUNK_MIN (55)
          Guard,       \* turns of the cap pass (8)
          PackMin,     \* a pack of fewer scenes is not gathered (3)
          StrayShare,  \* one in so many scenes makes a part the pack's own (5)
          WeldChoices, \* bound: the welds a project may have
          MaxMoves,    \* bound: moves of one round of a routing pass
          None

ASSUME ClustersAssumption ==
  /\ IsFiniteSet(Paths) /\ Scenes \subseteq Paths /\ None \notin Packs
  /\ PackOf \in [Paths -> Packs \cup {None}]
  /\ {WeldCap, SmallMin, BlobMin, TinyMax, PartSoftCap, PartCap, ChunkMin, Guard} \subseteq Nat
  /\ WeldCap > 0 /\ SmallMin < BlobMin /\ BlobMin <= PartCap
  /\ WeldChoices \subseteq SUBSET Paths /\ Guard > 0 /\ MaxMoves \in Nat
  /\ PartSoftCap + TinyMax <= PartCap /\ ChunkMin + WeldCap - 1 <= PartCap

VARIABLES
  units,  \* the welded scene+script units of more than one file
  pass,   \* the pass under way
  parts,  \* the parts: the bag of their paths, and the size field
  todo,   \* parts the pass has yet to cut
  round,  \* round of a routing pass
  moved,  \* whether the round moved a file
  counts, \* each pack's scenes in each part when the round began
  left,   \* packs, parts or paths the round has yet to look at
  gather  \* the pack being gathered, its home, the parts to pull from, or None

still == <<round, moved, counts, left, gather>>
clusterVars == <<units, pass, parts, todo, still>>

Of(S)    == [paths |-> SetToBag(S), size |-> Cardinality(S)]
PartsOf(blocks) == SetToSeq({Of(b) : b \in blocks})
In(p)    == BagToSet(p.paths)
Count(p) == BagCardinality(p.paths)
CopiesOf(q, b) == IF q \in DOMAIN b THEN b[q] ELSE 0

UnitOf(q) == IF q \in UNION units THEN CHOOSE u \in units : q \in u ELSE {q}

\* _family_unit: of a scene's unit, itself, the scripts and the scenes of its
\* own pack.
Family(q) == {r \in UnitOf(q) : r = q \/ r \notin Scenes \/ PackOf[r] = PackOf[q]}

Partitions(S) ==
  {{{x \in S : f[x] = i} : i \in {f[x] : x \in S}} : f \in [S -> 1..Cardinality(S)]}

\* The parts at the places in K, in their order.
At(ps, K) ==
  [n \in 1..Cardinality(K) |-> ps[CHOOSE i \in K : Cardinality({k \in K : k <= i}) = n]]

\* Parts emptied by a round go, the others get their size.
Settled(ps) ==
  At([i \in DOMAIN ps |-> [ps[i] EXCEPT !.size = Count(ps[i])]],
     {i \in DOMAIN ps : Count(ps[i]) > 0})

\* The files of U leave every other part for part h, a copy from each.
MoveTo(ps, U, h) ==
  LET Others(q) == {j \in DOMAIN ps \ {h} : q \in In(ps[j])}
      got == [q \in {r \in U : Others(r) # {}} |-> Cardinality(Others(q))]
  IN  [i \in DOMAIN ps |->
         [ps[i] EXCEPT !.paths = IF i = h THEN @ (+) got ELSE @ (-) SetToBag(U)]]

-----------------------------------------------------------------------------
(***************************************************************************)
(* The passes that cut, one part at a time.                                *)
(***************************************************************************)
Cut(blocks, next) ==
  LET done == parts \o PartsOf(blocks)
  IN  /\ pass' = IF Len(todo) = 1 THEN next ELSE pass
      /\ IF Len(todo) = 1 /\ next = "packs"
           THEN todo' = done /\ parts' = <<>>
           ELSE todo' = Tail(todo) /\ parts' = done
      /\ UNCHANGED <<units, still>>

\* The units that the files of a part belong to, whole, wherever their other
\* members are.
Groups(p) == {UnitOf(q) : q \in In(p)}

\* _split_units, by directory or by similarity of the units.
SplitUnits ==
  /\ pass = "split" /\ todo # <<>>
  /\ IF Head(todo).size > BlobMin
       THEN \E P \in Partitions(Groups(Head(todo))) : Cut({UNION b : b \in P}, "packs")
       ELSE Cut({In(Head(todo))}, "packs")

\* _split_pack_cluster: a part mostly of scenes, with two packs of a quarter
\* of it each, falls into its packs; a small pack may join another.
InPack(S, k) == {q \in S : PackOf[q] = k}

Mixed(S) ==
  /\ 2 * Cardinality(S \cap Scenes) > Cardinality(S) /\ Cardinality(S) >= 2 * SmallMin
  /\ \E k, l \in Packs : k # l /\ \A m \in {k, l} : 4 * Cardinality(InPack(S, m)) >= Cardinality(S)

PackSplit ==
  /\ pass = "packs" /\ todo # <<>>
  /\ LET S == In(Head(todo))
         named == {InPack(S, k) : k \in Packs} \ {{}}
         Small(b) == Cardinality(b) < SmallMin
     IN  IF Mixed(S)
           THEN \E P \in Partitions(named) :
                  /\ \A b \in P : Cardinality({c \in b : ~Small(c)}) <= 1
                  /\ Cut(({UNION b : b \in P} \cup {S \ UNION named}) \ {{}}, "small")
           ELSE Cut({S}, "small")

\* _merge_small: each part below SMALL_MIN joins one that is not, or the rest.
MergeSmall ==
  /\ pass = "small"
  /\ LET small == {i \in DOMAIN parts : parts[i].size < SmallMin}
         big   == DOMAIN parts \ small
         Joined(f, i) == UNION {In(parts[s]) : s \in {t \in small : f[t] = i}}
     IN  \E f \in [small -> big \cup {0}] :
           parts' = PartsOf({In(parts[b]) \cup Joined(f, b) : b \in big}
                            \cup ({Joined(f, 0)} \ {{}}))
  /\ pass' = "consolidate"
  /\ UNCHANGED <<units, todo, still>>

-----------------------------------------------------------------------------
(***************************************************************************)
(* The passes that bring a pack's stray scenes to its home, before the cap *)
(* is enforced (_pass_pack_consolidate) and after (_pass_stray_sweep).     *)
(***************************************************************************)
PackScenes(p, k) == InPack(In(p) \cap Scenes, k)
Copies(S, p) == BagCardinality([q \in S \cap In(p) |-> CopiesOf(q, p.paths)])
Across(c) == BagCardinality([i \in {j \in DOMAIN c : c[j] > 0} |-> c[i]])

\* A round begins: every pack is counted in every part.
Counted(ps) == [k \in Packs |-> [i \in DOMAIN ps |-> Copies(PackScenes(ps[i], k), ps[i])]]
StartRound(ps, r) ==
  /\ parts' = ps /\ round' = r /\ moved' = FALSE /\ gather' = None
  /\ counts' = Counted(ps)
  /\ left' = {k \in Packs : Across(Counted(ps)[k]) >= PackMin}

EndRound(ps) ==
  /\ parts' = ps /\ round' = 0 /\ moved' = FALSE /\ gather' = None
  /\ counts' = None /\ left' = {}

Gathering == pass \in {"consolidate", "sweep"}

FirstRound ==
  /\ Gathering /\ round = 0
  /\ IF pass = "consolidate" /\ units = {}
       THEN pass' = "usage" /\ EndRound(parts)
       ELSE pass' = pass /\ StartRound(parts, 1)
  /\ UNCHANGED <<units, todo>>

Most(c, S) == {i \in S : \A j \in S : c[j] <= c[i]}

\* The home of a pack is where most of it is, with two fifths of it at least;
\* when that part is over the soft cap, the next one that is not.
Homes(c) ==
  LET held == {i \in DOMAIN c : c[i] > 0}
      big(h) == 5 * c[h] >= 2 * Across(c)
      next(h) == Most(c, {i \in held \ {h} : Count(parts[i]) <= PartSoftCap})
  IN  IF pass = "sweep" THEN {h \in Most(c, held) : big(h) /\ Count(parts[h]) < PartCap}
      ELSE UNION {IF Count(parts[h]) <= PartSoftCap THEN {h} ELSE next(h) :
                    h \in {g \in Most(c, held) : big(g)}}

TakePack(k) ==
  /\ Gathering /\ gather = None /\ k \in left
  /\ left' = left \ {k}
  /\ LET c == counts[k]
     IN  \/ /\ Homes(c) = {} /\ gather' = None
         \/ \E h \in Homes(c) :
              gather' = [pack |-> k, home |-> h,
                         from |-> {i \in DOMAIN c : c[i] > 0} \ {h}]
  /\ UNCHANGED <<units, pass, parts, todo, round, moved, counts>>

\* The part is done with; U goes home.
Pull(i, U) ==
  /\ gather' = [gather EXCEPT !.from = @ \ {i}]
  /\ parts' = MoveTo(parts, U, gather.home)
  /\ moved' = (moved \/ U # {})
  /\ UNCHANGED <<units, pass, todo, round, counts, left>>

\* The scenes moved in turn, while the budget lasts, from a part that is not
\* the pack's own.
ConsolidateFrom(i) ==
  /\ pass = "consolidate" /\ gather # None /\ i \in gather.from
  /\ LET mine   == PackScenes(parts[i], gather.pack)
         all    == UNION {PackScenes(parts[i], k) : k \in Packs}
         budget == PartCap - Count(parts[gather.home])
         Cost(S) == BagCardinality([q \in S |-> Cardinality(Family(q))])
         Fits(S) == /\ \E q \in S : Cost(S \ {q}) < budget
                    /\ S = mine \/ Cost(S) >= budget
     IN  IF \/ StrayShare * Cardinality(mine) >= Cardinality(all)
            \/ budget <= 0 \/ mine = {}
           THEN Pull(i, {})
           ELSE \E S \in {T \in SUBSET mine : Fits(T)} : Pull(i, UNION {Family(q) : q \in S})

\* One family, from a part that is not half the pack's, while home is below
\* the cap.
SweepFrom(i) ==
  /\ pass = "sweep" /\ gather # None /\ i \in gather.from
  /\ LET mine == PackScenes(parts[i], gather.pack)
         all  == Copies(In(parts[i]) \cap Scenes, parts[i])
     IN  IF \/ Count(parts[gather.home]) >= PartCap \/ mine = {}
            \/ 2 * counts[gather.pack][i] >= all
           THEN Pull(i, {})
           ELSE \E q \in mine : Pull(i, Family(q))

Gathered ==
  /\ gather # None /\ gather.from = {}
  /\ gather' = None
  /\ UNCHANGED <<units, pass, parts, todo, round, moved, counts, left>>

\* Two rounds, the second only when the first moved something.
RoundDone ==
  /\ Gathering /\ round > 0 /\ gather = None /\ left = {}
  /\ IF moved /\ round = 1
       THEN pass' = pass /\ StartRound(Settled(parts), 2)
       ELSE /\ pass' = IF pass = "sweep" THEN "tiny" ELSE "usage"
            /\ EndRound(Settled(parts))
  /\ UNCHANGED <<units, todo>>

-----------------------------------------------------------------------------
(***************************************************************************)
(* The passes that follow structural ties, judged on the parts as the      *)
(* round found them.                                                       *)
(***************************************************************************)
\* A round's moves: what goes, from where, to where.
Route(moves, next) ==
  /\ parts' = Settled([i \in DOMAIN parts |->
       LET out == UNION {m.files : m \in {n \in moves : n.from = i}}
           in  == UNION {m.files : m \in {n \in moves : n.to = i}}
       IN  [parts[i] EXCEPT !.paths = (@ (-) SetToBag(out)) (+) SetToBag(in)]])
  /\ IF moves = {} \/ round = 1 THEN pass' = next /\ round' = 0
     ELSE pass' = pass /\ round' = 1
  /\ UNCHANGED <<units, todo, moved, counts, left, gather>>

Open(i) == Count(parts[i]) <= PartSoftCap

\* The moves of a round: any, each of a unit of its own.
Some(moves) ==
  {{}} \cup {M \in {{f[n] : n \in 1..MaxMoves} : f \in [1..MaxMoves -> moves]} :
               \A m, n \in M : m.unit = n.unit => m = n}

Moves(from, U, files) ==
  {[unit |-> U, files |-> files, from |-> from, to |-> t] :
     t \in {j \in DOMAIN parts \ {from} : Open(j)}}

\* _pass_usage: a script of no unit whose ties are all in one other part.
FollowUsage ==
  /\ pass = "usage"
  /\ \E M \in Some(UNION {UNION {Moves(i, {q}, {q}) : q \in In(parts[i]) \ (Scenes \cup UNION units)} :
                     i \in DOMAIN parts}) :
       Route(M, "majority")

\* _pass_scene_majority: a scene's whole unit, as far as it is in the part of
\* the scene it is looked up by.
FollowMajority ==
  /\ pass = "majority"
  /\ \E M \in Some(UNION {UNION {Moves(i, UnitOf(q), UnitOf(q) \cap In(parts[i])) :
                            q \in In(parts[i]) \cap Scenes} : i \in DOMAIN parts}) :
       Route(M, "enforce")

-----------------------------------------------------------------------------
(***************************************************************************)
(* _pass_cap_enforce: parts over the cap are cut between whole units.      *)
(***************************************************************************)
Enforce ==
  /\ pass = "enforce" /\ todo = <<>>
  /\ LET bigs == {i \in DOMAIN parts : parts[i].size > PartCap}
     IN  IF bigs = {} \/ round = Guard
           THEN pass' = "sweep" /\ round' = 0 /\ UNCHANGED <<parts, todo>>
           ELSE /\ todo' = At(parts, bigs) /\ parts' = At(parts, DOMAIN parts \ bigs)
                /\ round' = round + 1 /\ pass' = pass
  /\ UNCHANGED <<units, moved, counts, left, gather>>

\* Mutant of Chunks: a chunk is closed when it is over CHUNK_MIN.
ChunksOver(G) ==
  LET FilesIn(b) == Cardinality(UNION b)
      Full(b) == FilesIn(b) > ChunkMin /\ \E g \in b : FilesIn(b \ {g}) <= ChunkMin
  IN  {P \in Partitions(G) : \E rest \in P \cup {{}} :
         FilesIn(rest) <= ChunkMin /\ \A b \in P \ {rest} : Full(b)}

\* Units in a row until CHUNK_MIN is reached, what remains last.
Chunks(G) ==
  LET FilesIn(b) == Cardinality(UNION b)
      Full(b)  == FilesIn(b) >= ChunkMin /\ \E g \in b : FilesIn(b \ {g}) < ChunkMin
  IN  {P \in Partitions(G) : \E rest \in P \cup {{}} :
         FilesIn(rest) < ChunkMin /\ \A b \in P \ {rest} : Full(b)}

\* A cut by similarity that brings every piece under the cap, or chunks.
CutBig ==
  /\ pass = "enforce" /\ todo # <<>>
  /\ LET G == Groups(Head(todo))
         Under(P) == Cardinality(P) > 1 /\ \A b \in P : Cardinality(UNION b) <= PartCap
     IN  \E P \in {Q \in Partitions(G) : Under(Q)} \cup Chunks(G) :
           Cut({UNION b : b \in P}, "enforce")

-----------------------------------------------------------------------------
\* _pass_tiny_merge: tiny parts join a part of their directory.
TinyRound ==
  /\ pass = "tiny" /\ left = {} /\ round < 2 /\ (round = 0 \/ moved)
  /\ parts' = Settled(parts) /\ round' = round + 1 /\ moved' = FALSE
  /\ left' = {i \in DOMAIN parts' : parts'[i].size <= TinyMax}
  /\ UNCHANGED <<units, pass, todo, counts, gather>>

TinyMerge(i) ==
  /\ pass = "tiny" /\ i \in left
  /\ left' = left \ {i}
  /\ \/ UNCHANGED <<parts, moved>>
     \/ \E j \in DOMAIN parts :
          /\ Count(parts[j]) > TinyMax /\ Open(j)
          /\ parts' = [parts EXCEPT ![j].paths = @ (+) parts[i].paths,
                                    ![j].size = Count(parts[j]) + Count(parts[i]),
                                    ![i].paths = EmptyBag]
          /\ moved' = TRUE
  /\ UNCHANGED <<units, pass, todo, round, counts, gather>>

TinyDone ==
  /\ pass = "tiny" /\ left = {} /\ (round = 2 \/ (round = 1 /\ ~moved))
  /\ pass' = "partition" /\ EndRound(Settled(parts))
  /\ UNCHANGED <<units, todo>>

-----------------------------------------------------------------------------
(***************************************************************************)
(* _pass_partition: a file that is listed twice stays once, in the part    *)
(* with most of its unit, then the largest.                                *)
(***************************************************************************)
All(ps) == [q \in Paths |-> BagCardinality([i \in {j \in DOMAIN ps : q \in In(ps[j])} |->
                                              CopiesOf(q, ps[i].paths)])]

FindTwice ==
  /\ pass = "partition" /\ left = {}
  /\ left' = {q \in Paths : All(parts)[q] > 1}
  /\ pass' = IF left' = {} THEN "label" ELSE pass
  /\ UNCHANGED <<units, parts, todo, round, moved, counts, gather>>

\* Mutant of KeepOnce: what the kept part lists twice stays twice.
KeepCopies(q, k) ==
  [i \in DOMAIN parts |->
     IF i = k THEN parts[i]
     ELSE [parts[i] EXCEPT !.paths = @ (-) [r \in {q} |-> CopiesOf(q, @)]]]

KeepOnce(q, k) ==
  [i \in DOMAIN parts |->
     [parts[i] EXCEPT !.paths =
        @ (-) [r \in {q} |-> CopiesOf(q, @) - (IF i = k THEN 1 ELSE 0)]]]

Keep(q) ==
  /\ pass = "partition" /\ q \in left
  /\ LET held == {i \in DOMAIN parts : q \in In(parts[i])}
         ofUnit == [i \in held |-> Copies(UnitOf(q), parts[i])]
         size   == [i \in held |-> Count(parts[i])]
     IN  \E k \in Most(size, Most(ofUnit, held)) :
           parts' = IF left = {q} THEN Settled(KeepOnce(q, k)) ELSE KeepOnce(q, k)
  /\ left' = left \ {q}
  /\ pass' = IF left = {q} THEN "label" ELSE pass
  /\ UNCHANGED <<units, todo, round, moved, counts, gather>>

-----------------------------------------------------------------------------
(***************************************************************************)
(* What the engine hands over: units welded up to the cap (_weld_units),   *)
(* and communities that keep them whole.                                   *)
(***************************************************************************)
Welds == {S \in WeldChoices : /\ Cardinality(S) <= WeldCap
                               /\ S \cap Scenes # {} /\ S \ Scenes # {}}

ClusterInit ==
  /\ units \in {W \in SUBSET Welds : \A u, w \in W : u = w \/ u \cap w = {}}
  /\ \E P \in Partitions({UnitOf(q) : q \in Paths}) :
       todo = PartsOf({UNION b : b \in P})
  /\ pass = "split" /\ parts = <<>> /\ round = 0 /\ moved = FALSE
  /\ counts = None /\ left = {} /\ gather = None

ClusterNext ==
  \/ SplitUnits \/ PackSplit \/ MergeSmall
  \/ FirstRound \/ (\E k \in Packs : TakePack(k)) \/ Gathered \/ RoundDone
  \/ (\E i \in DOMAIN parts : ConsolidateFrom(i) \/ SweepFrom(i))
  \/ FollowUsage \/ FollowMajority
  \/ Enforce \/ CutBig
  \/ TinyRound \/ (\E i \in DOMAIN parts : TinyMerge(i)) \/ TinyDone
  \/ FindTwice \/ (\E q \in Paths : Keep(q))

ClusterSpec == ClusterInit /\ [][ClusterNext]_clusterVars

-----------------------------------------------------------------------------
(***************************************************************************)
(* Properties.                                                             *)
(***************************************************************************)
\* finalize, _pass_partition: no pass loses a file, and in the end each is
\* in exactly one cluster, once, whatever welds the routing passes broke
\* and the cap pass pulled together again.
OneCluster ==
  /\ \A q \in Paths : All(parts \o todo)[q] >= 1
  /\ pass = "label" => \A q \in Paths : All(parts)[q] = 1

\* _pass_cap_enforce, _pass_stray_sweep, _pass_tiny_merge: the cap pass
\* leaves no part over the cap, and what the passes after it add goes over
\* it by one welded unit at most.
CapBound ==
  LET Within(n) == \A i \in DOMAIN parts : Count(parts[i]) <= n
  IN  /\ pass = "sweep" /\ round = 0 => Within(PartCap)
      /\ pass = "label" => Within(PartCap + WeldCap - 1)

-----------------------------------------------------------------------------
(***************************************************************************)
(* What the repository says and the code does not keep.                    *)
(***************************************************************************)
\* clusterpasses.py, PART_CAP: "hard mega-blob cap the final enforce pass
\* guarantees".  The stray sweep, later, asks for one free place and brings a
\* whole family.
CapHolds == pass = "label" => \A i \in DOMAIN parts : Count(parts[i]) <= PartCap
=============================================================================
