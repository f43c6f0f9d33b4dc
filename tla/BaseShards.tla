----------------------------- MODULE BaseShards -----------------------------
(***************************************************************************)
(* The tracked base shards of a checkout (navindex.export_base and         *)
(* import_base): an export stages a whole generation beside the live base, *)
(* commits it by two directory renames with a rollback, and heals what a   *)
(* killed export left; an import seeds an empty collection from the live   *)
(* base.  Both run under the store write lock, so one at a time; a kill    *)
(* may end either between any two steps.  The collection's own open and    *)
(* re-stamp are module Store; here a rescan is one step.                   *)
(***************************************************************************)
EXTENDS Naturals, FiniteSets

CONSTANTS Files, Models, Shapes,
          MaxGens,     \* bound: generations staged
          NULL

Space    == [model : Models, shape : Shapes]
Rows     == [Files -> Space \cup {NULL}]
Manifest == [model : Models, of : SUBSET Files]

\* A base directory: the generation it belongs to, the shards in it (one row
\* each) and the manifest, which claims a set of rows.
Dir == [gen : Nat, shards : Rows, manifest : Manifest \cup {NULL}]

ASSUME BaseAssumption == /\ MaxGens \in Nat
                         /\ NULL \notin Files \cup Models \cup Shapes
                         /\ NULL \notin Space /\ NULL \notin Manifest
                         /\ NULL \notin Dir

VARIABLES
  conf,       \* the space the acting process embeds into
  tree,       \* files in the worktree
  stamp,      \* the collection's stamp, or NULL when there is none
  rows,       \* its rows
  live,       \* base/
  prev,       \* base.prev-export/
  staging,    \* base.tmp-export/
  pc,         \* where the export or import is
  moved,      \* moved_live
  todo,       \* import: the files read from the shards and not yet upserted
  gens,       \* generations staged so far
  committed,  \* ghost: number of the last generation committed
  killed      \* ghost: an export was killed, or left its rollback undone, and none
              \* has healed its debris since

store == <<conf, tree, stamp, rows>>
dirs  == <<live, prev, staging>>
ghost == <<gens, committed, killed>>
vars  == <<store, dirs, pc, moved, todo, ghost>>

Held(r) == {f \in Files : r[f] # NULL}
NoRows  == [f \in Files |-> NULL]

Whole(d) == /\ d # NULL /\ d.manifest # NULL
            /\ Held(d.shards) = d.manifest.of

PCs == {"idle", "heal", "stage", "commit", "swap", "clean", "import"}

TypeOK ==
  /\ conf \in Space /\ tree \subseteq Files
  /\ stamp \in Space \cup {NULL} /\ rows \in Rows
  /\ \A d \in {live, prev, staging} : d # NULL => d \in Dir
  /\ pc \in PCs /\ moved \in BOOLEAN /\ todo \subseteq Files
  /\ gens \in Nat /\ committed \in Nat /\ killed \in BOOLEAN

-----------------------------------------------------------------------------
\* _collection(): get_or_create, refused under another model.
Opens == stamp # NULL => stamp.model = conf.model
Opened == IF stamp = NULL THEN conf ELSE stamp

(***************************************************************************)
(* export_base.                                                            *)
(***************************************************************************)
ExportBegin ==
  /\ pc = "idle" /\ Opens /\ Held(rows) # {} /\ gens < MaxGens
  /\ stamp' = Opened
  /\ staging' = NULL
  /\ pc' = "heal"
  /\ UNCHANGED <<conf, tree, rows, live, prev, moved, todo, ghost>>

\* A directory is removed file by file: a kill may leave any part of it.
Left(d, keep, m) ==
  [gen |-> d.gen, manifest |-> m,
   shards |-> [f \in Files |-> IF f \in keep THEN d.shards[f] ELSE NULL]]

Parts(d) == { Left(d, keep, m) :
              keep \in SUBSET Held(d.shards), m \in {d.manifest, NULL} }

\* A surviving prev is reaped when the live base has its manifest; with no
\* live base the kill landed between the two renames and prev comes back.
HealReap ==
  /\ pc = "heal" /\ prev # NULL /\ live # NULL /\ live.manifest # NULL
  /\ \E d \in {NULL} \cup Parts(prev) : prev' = d
  /\ UNCHANGED <<store, live, staging, pc, moved, todo, ghost>>

\* Mutant of HealRestore: a surviving prev always comes back.
HealRestoreAlways ==
  /\ pc = "heal" /\ prev # NULL
  /\ live' = prev /\ prev' = NULL
  /\ UNCHANGED <<store, staging, pc, moved, todo, ghost>>

HealRestore ==
  /\ pc = "heal" /\ prev # NULL /\ live = NULL
  /\ live' = prev /\ prev' = NULL
  /\ UNCHANGED <<store, staging, pc, moved, todo, ghost>>

StageBegin ==
  /\ pc = "heal" /\ prev = NULL
  /\ gens' = gens + 1
  /\ staging' = [gen |-> gens', shards |-> NoRows, manifest |-> NULL]
  /\ moved' = FALSE /\ killed' = FALSE
  /\ pc' = "stage"
  /\ UNCHANGED <<store, live, prev, todo, committed>>

StageShard ==
  /\ pc = "stage" /\ staging.manifest = NULL
  /\ \E f \in Held(rows) \ Held(staging.shards) :
       staging' = [staging EXCEPT !.shards[f] = rows[f]]
  /\ UNCHANGED <<store, live, prev, pc, moved, todo, ghost>>

\* The manifest is last: every shard row is on disk by then.
StageManifest ==
  /\ pc = "stage" /\ staging.manifest = NULL
  /\ Held(staging.shards) = Held(rows)
  /\ staging' = [staging EXCEPT !.manifest = [model |-> conf.model, of |-> Held(rows)]]
  /\ UNCHANGED <<store, live, prev, pc, moved, todo, ghost>>

\* A removal or a write failed, or the validation found the generation
\* incomplete: the live base has not been touched.
StageFails ==
  /\ pc \in {"heal", "stage"}
  /\ pc' = "idle"
  /\ UNCHANGED <<store, dirs, moved, todo, ghost>>

Validated ==
  /\ pc = "stage" /\ staging.manifest # NULL
  /\ pc' = "commit"
  /\ UNCHANGED <<store, dirs, moved, todo, ghost>>

\* The live base steps aside, then the staged generation takes its name.
CommitAside ==
  /\ pc = "commit"
  /\ IF live # NULL THEN prev' = live /\ live' = NULL /\ moved' = TRUE
                    ELSE UNCHANGED <<live, prev, moved>>
  /\ pc' = "swap"
  /\ UNCHANGED <<store, staging, todo, ghost>>

Commit ==
  /\ pc = "swap"
  /\ live' = staging /\ staging' = NULL
  /\ committed' = live'.gen
  /\ pc' = "clean"
  /\ UNCHANGED <<store, prev, moved, todo, gens, killed>>

\* Mutant of Rollback: nothing goes back.
RollbackNot ==
  /\ pc = "swap" /\ pc' = "idle"
  /\ UNCHANGED <<store, dirs, moved, todo, ghost>>

\* The rename failed: the previous base goes back into place.
Rollback ==
  /\ pc = "swap"
  /\ IF moved /\ live = NULL THEN live' = prev /\ prev' = NULL
                             ELSE UNCHANGED <<live, prev>>
  /\ pc' = "idle"
  /\ UNCHANGED <<store, staging, moved, todo, ghost>>

\* The live base has stepped aside and is not put back: the exception came
\* before moved_live noted the rename, or the rollback's own rename failed.
CommitInterrupted ==
  /\ \/ pc = "commit" /\ live # NULL /\ prev' = live /\ live' = NULL
     \/ pc = "swap" /\ moved /\ UNCHANGED <<live, prev>>
  /\ killed' = TRUE
  /\ pc' = "idle"
  /\ UNCHANGED <<store, staging, moved, todo, gens, committed>>

\* Best effort: errors are ignored and debris may stay.
Cleaned ==
  /\ pc = "clean"
  /\ prev' \in {NULL} \cup (IF prev = NULL THEN {} ELSE Parts(prev))
  /\ pc' = "idle"
  /\ UNCHANGED <<store, live, staging, moved, todo, ghost>>

-----------------------------------------------------------------------------
(***************************************************************************)
(* import_base.                                                            *)
(***************************************************************************)
\* Rows in the collection or no manifest: nothing to do.
ImportSkips ==
  /\ pc = "idle" /\ Opens
  /\ Held(rows) # {} \/ live = NULL
  /\ stamp' = Opened
  /\ UNCHANGED <<conf, tree, rows, dirs, pc, moved, todo, ghost>>

\* Mutant of ImportReads: the manifest's model is not compared.
ImportReadsAny ==
  /\ pc = "idle" /\ Opens /\ Held(rows) = {}
  /\ live # NULL /\ live.manifest # NULL
  /\ stamp' = Opened
  /\ pc' = "import" /\ todo' = Held(live.shards) \cap tree
  /\ UNCHANGED <<conf, tree, rows, dirs, moved, ghost>>

\* The manifest of another model is refused; otherwise every shard row whose
\* file is still in the worktree is read before the first upsert.
ImportReads ==
  /\ pc = "idle" /\ Opens /\ Held(rows) = {}
  /\ live # NULL /\ live.manifest # NULL
  /\ stamp' = Opened
  /\ IF live.manifest.model = conf.model
       THEN pc' = "import" /\ todo' = Held(live.shards) \cap tree
       ELSE UNCHANGED <<pc, todo>>
  /\ UNCHANGED <<conf, tree, rows, dirs, moved, ghost>>

ImportBatch ==
  /\ pc = "import"
  /\ \E f \in todo : /\ rows' = [rows EXCEPT ![f] = live.shards[f]]
                     /\ todo' = todo \ {f}
  /\ UNCHANGED <<conf, tree, stamp, dirs, pc, moved, ghost>>

ImportDone ==
  /\ pc = "import" /\ todo = {}
  /\ pc' = "idle"
  /\ UNCHANGED <<store, dirs, moved, todo, ghost>>

-----------------------------------------------------------------------------
(***************************************************************************)
(* Around them.                                                            *)
(***************************************************************************)
\* A rescan that succeeds: missing files embedded, vanished ones purged, and
\* everything re-embedded under a new stamp when the stamp names another shape.
Rescan ==
  /\ pc = "idle" /\ Opens /\ tree # {}
  /\ LET all == Opened.shape # conf.shape
     IN  /\ rows' = [f \in Files |-> IF f \notin tree THEN NULL
                                     ELSE IF all \/ rows[f] = NULL THEN conf
                                     ELSE rows[f]]
         /\ stamp' = IF all THEN conf ELSE Opened
  /\ UNCHANGED <<conf, tree, dirs, pc, moved, todo, ghost>>

\* nav.py drop.
Drop ==
  /\ pc = "idle" /\ stamp # NULL
  /\ stamp' = NULL /\ rows' = NoRows
  /\ UNCHANGED <<conf, tree, dirs, pc, moved, todo, ghost>>

\* The next process has another config.
Reconfigure ==
  /\ pc = "idle"
  /\ conf' \in Space \ {conf}
  /\ UNCHANGED <<tree, stamp, rows, dirs, pc, moved, todo, ghost>>

Edit ==
  /\ \E f \in Files : tree' = IF f \in tree THEN tree \ {f} ELSE tree \cup {f}
  /\ UNCHANGED <<conf, stamp, rows, dirs, pc, moved, todo, ghost>>

\* Killed: the lock is released with the process, the disk stays as it is.
Kill ==
  /\ pc # "idle"
  /\ killed' = (killed \/ pc # "import")
  /\ prev' \in {prev} \cup (IF pc \in {"clean"} /\ prev # NULL THEN Parts(prev) ELSE {})
  /\ pc' = "idle" /\ todo' = {} /\ moved' = FALSE
  /\ UNCHANGED <<store, live, staging, gens, committed>>

\* A fresh clone: the base another checkout exported came with it, or none.
Init ==
  /\ conf \in Space /\ tree = Files
  /\ stamp = NULL /\ rows = NoRows
  /\ prev = NULL /\ staging = NULL
  /\ gens = 1
  /\ \/ live = NULL /\ committed = 0
     \/ committed = 1 /\ \E s \in Space :
          live = [gen |-> 1, shards |-> [f \in Files |-> s],
                  manifest |-> [model |-> s.model, of |-> Files]]
  /\ pc = "idle" /\ moved = FALSE /\ todo = {}
  /\ killed = FALSE

Next == \/ ExportBegin \/ HealReap \/ HealRestore \/ StageBegin \/ StageShard
        \/ StageManifest \/ StageFails \/ Validated \/ CommitAside \/ Commit
        \/ Rollback \/ CommitInterrupted \/ Cleaned
        \/ ImportSkips \/ ImportReads \/ ImportBatch \/ ImportDone
        \/ Rescan \/ Drop \/ Reconfigure \/ Edit \/ Kill

Spec == Init /\ [][Next]_vars

-----------------------------------------------------------------------------
(***************************************************************************)
(* Properties.                                                             *)
(***************************************************************************)
\* An import never sees half a generation: the live base has its manifest
\* and exactly the shards the manifest claims, wherever an export was killed.
LiveWhole == live # NULL => Whole(live)

\* The last committed generation is never lost: it is live, or an export was
\* killed or interrupted between its two renames and the next one restores it.
\* An export that failed with its rollback intact has put it back itself.
CommittedKept ==
  committed # 0 =>
    \/ live # NULL /\ live.gen = committed
    \/ /\ live = NULL /\ Whole(prev) /\ prev.gen = committed
       /\ pc = "swap" \/ killed

\* An export is atomic, wherever it fails or is killed: what an import finds
\* or the next export recovers changes only by the commit, to a newer
\* generation that is the collection at that moment.
Recovered == IF live # NULL THEN live ELSE prev
Atomic == INSTANCE AtomicBase WITH base <- Recovered
ImplementsAtomicBase == Atomic!Spec

\* What is imported was embedded by the model the collection is stamped with.
ImportsOwnModel == \A f \in Held(rows) : rows[f].model = stamp.model

-----------------------------------------------------------------------------
(***************************************************************************)
(* What the repository says and the code does not keep.                    *)
(***************************************************************************)
\* navstore.embed_mode: vectors of another space are never silently reused;
\* the rows of a collection are in the space its stamp names.
StampTrue == \A f \in Held(rows) : rows[f] = stamp
=============================================================================
