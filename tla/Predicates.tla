----------------------------- MODULE Predicates -----------------------------
(***************************************************************************)
(* The derived-predicate cache (predicates.py): at the end of a graph      *)
(* build each process fingerprints its inputs, takes the cached payload    *)
(* whose seal and fingerprint fit, or derives one and writes it for the    *)
(* next.  Several processes (a server, the nav CLI, a second session)      *)
(* share the file; the worktree is edited and neuronav itself upgraded     *)
(* under them; any of them may be killed anywhere.                         *)
(*                                                                         *)
(* A worktree is what the predicates can depend on: the parsed surface     *)
(* (functions, bodies, edges, roots) and the rest of the text, where both  *)
(* the mentions of a name and the facts of module scope are (a class       *)
(* handed to an opaque consumer).                                          *)
(***************************************************************************)
EXTENDS Naturals

CONSTANTS Procs,
          Surfaces, Rests,   \* versions of the two parts of the worktree
          MaxCode,           \* bound: releases of neuronav installed in turn
          MaxEdits,          \* bound: edits
          NULL

Tree == [surface : Surfaces, rest : Rests]

ASSUME PredicatesAssumption == /\ NULL \notin Tree /\ NULL \notin Nat
                               /\ MaxCode \in Nat \ {0} /\ MaxEdits \in Nat

VARIABLES
  tree,       \* the worktree
  floor,      \* a language with a mention floor is present
  installed,  \* the release on disk
  edits,      \* edits so far
  cache,      \* predicates.json: NULL, or a document and whether its seal fits
  pc,         \* per process
  code,       \* per process: the release it runs
  stamp,      \* per process: _code_stamp, or NULL before its first use
  parsed,     \* per process: the worktree its graph was parsed from
  fp,         \* per process: the fingerprint
  pred,       \* per process: g._pred, or the payload about to be bound
  moved,      \* ghost, per process: an input changed since the parse
  tainted     \* ghost, per process: the payload was derived from inputs that
              \* had moved since they were fingerprinted

mem  == <<pc, code, stamp, parsed, fp, pred, moved, tainted>>
vars == <<tree, floor, installed, edits, cache, mem>>

\* What the predicates are: a function of the running code, of the graph,
\* and with a mention floor of the raw text read meanwhile.
Derived(p) == [code |-> code[p], surface |-> parsed[p].surface,
               rest |-> parsed[p].rest,
               mentions |-> IF floor THEN tree ELSE NULL]

\* fingerprint: the code stamp, the parsed surface, and the raw text only
\* with a mention floor.
Fingerprint(p, s) == [stamp |-> s, surface |-> parsed[p].surface,
                      raw |-> IF floor THEN tree ELSE NULL]

TypeOK ==
  /\ tree \in Tree /\ floor \in BOOLEAN
  /\ installed \in 1..MaxCode /\ edits \in Nat
  /\ pc \in [Procs -> {"off", "built", "stamped", "derived", "bound"}]
  /\ code \in [Procs -> Nat] /\ stamp \in [Procs -> Nat \cup {NULL}]
  /\ parsed \in [Procs -> Tree \cup {NULL}]
  /\ cache # NULL => cache.sealed \in BOOLEAN
  /\ moved \in [Procs -> BOOLEAN] /\ tainted \in [Procs -> BOOLEAN]

Goto(p, where) == pc' = [pc EXCEPT ![p] = where]

-----------------------------------------------------------------------------
\* Graph.build up to its tail, in a new process or at a rebuild.
Build(p) ==
  /\ pc[p] \in {"off", "bound"}
  /\ code' = [code EXCEPT ![p] = IF pc[p] = "off" THEN installed ELSE @]
  /\ parsed' = [parsed EXCEPT ![p] = tree]
  /\ moved' = [moved EXCEPT ![p] = FALSE]
  /\ tainted' = [tainted EXCEPT ![p] = FALSE]
  /\ fp' = [fp EXCEPT ![p] = NULL]
  /\ pred' = [pred EXCEPT ![p] = NULL]
  /\ Goto(p, "built")
  /\ UNCHANGED <<tree, floor, installed, edits, cache, stamp>>

\* code_stamp hashes the sources on disk, once per process.
Stamp(p) ==
  /\ pc[p] = "built"
  /\ LET s == IF stamp[p] = NULL THEN installed ELSE stamp[p]
     IN  /\ stamp' = [stamp EXCEPT ![p] = s]
         /\ fp' = [fp EXCEPT ![p] = Fingerprint(p, s)]
  /\ Goto(p, "stamped")
  /\ UNCHANGED <<tree, floor, installed, edits, cache, code, parsed, pred, moved,
                 tainted>>

\* Mutant of Verified: any sealed document will do.
SealedOnly(p) == cache # NULL /\ cache.sealed

\* _load: the seal, then the fingerprint.
Verified(p) == cache # NULL /\ cache.sealed /\ cache.fp = fp[p]

Load(p) ==
  /\ pc[p] = "stamped" /\ Verified(p)
  /\ pred' = [pred EXCEPT ![p] = cache.pred]
  /\ tainted' = [tainted EXCEPT ![p] = cache.tainted]
  /\ fp' = [fp EXCEPT ![p] = NULL]
  /\ Goto(p, "bound")
  /\ UNCHANGED <<tree, floor, installed, edits, cache, code, stamp, parsed,
                 moved>>

\* Missing, damaged or stale: rederive.
Derive(p) ==
  /\ pc[p] = "stamped" /\ ~Verified(p)
  /\ pred' = [pred EXCEPT ![p] = Derived(p)]
  /\ tainted' = [tainted EXCEPT ![p] = moved[p] \/ stamp[p] # code[p]]
  /\ Goto(p, "derived")
  /\ UNCHANGED <<tree, floor, installed, edits, cache, code, stamp, parsed, fp,
                 moved>>

\* _persist: a temp file of this process replaces the cache.
Replace(p) ==
  /\ pc[p] = "derived"
  /\ cache' = [sealed |-> TRUE, fp |-> fp[p], pred |-> pred[p],
               tainted |-> tainted[p]]
  /\ fp' = [fp EXCEPT ![p] = NULL]
  /\ Goto(p, "bound")
  /\ UNCHANGED <<tree, floor, installed, edits, code, stamp, parsed, pred,
                 moved, tainted>>

\* The state directory cannot be written: the payload is bound all the same.
PersistFails(p) ==
  /\ pc[p] = "derived"
  /\ fp' = [fp EXCEPT ![p] = NULL]
  /\ Goto(p, "bound")
  /\ UNCHANGED <<tree, floor, installed, edits, cache, code, stamp, parsed,
                 pred, moved, tainted>>

Kill(p) ==
  /\ pc[p] # "off"
  /\ Goto(p, "off")
  /\ stamp' = [stamp EXCEPT ![p] = NULL]
  /\ parsed' = [parsed EXCEPT ![p] = NULL]
  /\ fp' = [fp EXCEPT ![p] = NULL]
  /\ pred' = [pred EXCEPT ![p] = NULL]
  /\ moved' = [moved EXCEPT ![p] = FALSE]
  /\ tainted' = [tainted EXCEPT ![p] = FALSE]
  /\ UNCHANGED <<tree, floor, installed, edits, cache, code>>

-----------------------------------------------------------------------------
Building(p) == pc[p] \in {"built", "stamped"}

Edit ==
  /\ edits < MaxEdits /\ edits' = edits + 1
  /\ \E t \in Tree \ {tree} : tree' = t
  /\ moved' = [p \in Procs |-> moved[p] \/ Building(p)]
  /\ UNCHANGED <<floor, installed, cache, pc, code, stamp, parsed, fp, pred,
                 tainted>>

Upgrade ==
  /\ installed < MaxCode /\ installed' = installed + 1
  /\ UNCHANGED <<tree, floor, edits, cache, mem>>

\* The bytes of the file change on disk: the seal no longer fits.
Damage ==
  /\ cache # NULL /\ cache' = [cache EXCEPT !.sealed = FALSE]
  /\ UNCHANGED <<tree, floor, installed, edits, mem>>

Init ==
  /\ tree \in Tree /\ floor \in BOOLEAN
  /\ installed = 1 /\ edits = 0 /\ cache = NULL
  /\ pc = [p \in Procs |-> "off"]
  /\ code = [p \in Procs |-> 1]
  /\ stamp = [p \in Procs |-> NULL]
  /\ parsed = [p \in Procs |-> NULL]
  /\ fp = [p \in Procs |-> NULL]
  /\ pred = [p \in Procs |-> NULL]
  /\ moved = [p \in Procs |-> FALSE]
  /\ tainted = [p \in Procs |-> FALSE]

Next ==
  \/ Edit \/ Upgrade \/ Damage
  \/ \E p \in Procs : \/ Build(p) \/ Stamp(p) \/ Load(p) \/ Derive(p) \/ Replace(p)
                      \/ PersistFails(p) \/ Kill(p)

Spec == Init /\ [][Next]_vars

-----------------------------------------------------------------------------
(***************************************************************************)
(* Properties.                                                             *)
(***************************************************************************)
\* Whoever wrote the cache, a process is served predicates of its own code
\* and graph, and with a mention floor of the text it fingerprinted, unless
\* the inputs moved under the writer or under the process itself between the
\* parse and the derivation.
ServesOwnGraph ==
  \A p \in Procs :
    pc[p] = "bound" /\ ~tainted[p] /\ ~moved[p] =>
      /\ pred[p].surface = parsed[p].surface
      /\ stamp[p] = code[p] => pred[p].code = code[p]
      /\ floor => pred[p].mentions = parsed[p] /\ pred[p].rest = parsed[p].rest

\* predicates.py: the fingerprint is a digest of everything the cached
\* predicates are a function of, and what is served is what the walk on the
\* fly returns, when nothing moved.
ServesWhatTheWalkReturns ==
  \A p \in Procs :
    pc[p] = "bound" /\ ~tainted[p] /\ ~moved[p] =>
      pred[p].rest = parsed[p].rest
=============================================================================
