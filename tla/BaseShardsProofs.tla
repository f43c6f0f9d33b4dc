-------------------------- MODULE BaseShardsProofs --------------------------
(***************************************************************************)
(* The tracked base is whole and never lost, and an import brings in only  *)
(* rows of the collection's own model, for any number of files, models and *)
(* generations.  The live name is empty only between the two renames of a  *)
(* commit or after a kill there, and then what stepped aside is the last   *)
(* committed generation; a staged generation copies the rows of a          *)
(* collection whose model cannot change while the lock is held.  The last  *)
(* part shows that an export is the single step AtomicBase promises.       *)
(***************************************************************************)
EXTENDS BaseShards, TLAPS

\* What stands under the three names, by where the export is.
Names ==
  /\ committed = 0 => live = NULL /\ prev = NULL
  /\ live = NULL /\ prev # NULL => Whole(prev)
  /\ pc \in {"stage", "commit"} => prev = NULL /\ ~moved
  /\ pc = "swap" => live = NULL /\ (moved <=> prev # NULL)
  /\ pc = "clean" => live # NULL

\* The generation an export stages.
Staged ==
  /\ gens > 0
  /\ pc \in {"stage", "commit", "swap"} =>
       /\ staging # NULL /\ staging.gen = gens
       /\ pc # "stage" => staging.manifest # NULL
       /\ staging.manifest # NULL => Whole(staging)
  /\ pc = "stage" =>
       \A f \in Held(staging.shards) : staging.shards[f] = rows[f]

\* The shards of a directory with a manifest are of the model it names.
OwnModel(d) ==
  d # NULL /\ d.manifest # NULL =>
    \A f \in Held(d.shards) : d.shards[f].model = d.manifest.model

\* Whoever holds the lock opened the collection under its own model.
Models1 ==
  /\ OwnModel(live) /\ OwnModel(prev) /\ OwnModel(staging)
  /\ pc # "idle" => stamp # NULL /\ stamp.model = conf.model
  /\ Held(rows) # {} => stamp # NULL
  /\ pc = "import" => /\ live # NULL /\ live.manifest # NULL
                      /\ live.manifest.model = conf.model
                      /\ todo \subseteq Held(live.shards)

IInv == /\ TypeOK /\ Names /\ Staged /\ Models1
        /\ LiveWhole /\ CommittedKept /\ ImportsOwnModel

USE BaseAssumption

LEMMA Initially == Init => IInv
<1> SUFFICES ASSUME Init PROVE IInv
  OBVIOUS
<1> USE DEF Init, NoRows
<1>1. CASE live = NULL /\ committed = 0
  <2>1. TypeOK
    BY <1>1 DEF TypeOK, PCs, Rows, Space
  <2> QED
    BY <1>1, <2>1 DEF IInv, Names, Staged, Models1, OwnModel, Held,
                      LiveWhole, CommittedKept, ImportsOwnModel
<1>2. ASSUME committed = 1, NEW s \in Space,
             live = [gen |-> 1, shards |-> [f \in Files |-> s],
                     manifest |-> [model |-> s.model, of |-> Files]]
      PROVE  IInv
  <2>1. s \in [model : Models, shape : Shapes]
    BY DEF Space
  <2>2. [model |-> s.model, of |-> Files] \in Manifest
    BY <2>1 DEF Manifest
  <2>3. live \in Dir
    BY <1>2, <2>2 DEF Dir, Rows
  <2>4. TypeOK
    BY <1>2, <2>3 DEF TypeOK, PCs, Rows
  <2>5. Held(live.shards) = Files
    BY <1>2 DEF Held
  <2>6. live # NULL /\ live.manifest # NULL /\ Whole(live) /\ OwnModel(live)
    BY <1>2, <2>2, <2>3, <2>5 DEF Whole, OwnModel
  <2> QED
    BY <1>2, <2>4, <2>6 DEF IInv, Names, Staged, Models1, OwnModel, Held,
                            LiveWhole, CommittedKept, ImportsOwnModel
<1> QED
  BY <1>1, <1>2

\* A directory being removed names the model of what is left of it.
LEMMA PartsOwnModel ==
  ASSUME NEW d, d # NULL => d \in Dir, OwnModel(d), d # NULL, NEW e \in Parts(d)
  PROVE  e \in Dir /\ OwnModel(e)
<1>1. PICK keep \in SUBSET Held(d.shards), m \in {d.manifest, NULL} :
        e = Left(d, keep, m)
  BY DEF Parts
<1>2. d \in [gen : Nat, shards : Rows, manifest : Manifest \cup {NULL}]
  BY DEF Dir
<1>3. e = [gen |-> d.gen, manifest |-> m,
           shards |-> [f \in Files |-> IF f \in keep THEN d.shards[f] ELSE NULL]]
  BY <1>1 DEF Left
<1>4. [f \in Files |-> IF f \in keep THEN d.shards[f] ELSE NULL] \in Rows
  BY <1>2 DEF Rows
<1>5. e \in Dir
  BY <1>2, <1>3, <1>4 DEF Dir
<1>6. OwnModel(e)
  BY <1>3 DEF OwnModel, Held
<1> QED
  BY <1>5, <1>6

\* Export, up to the commit: the live base is only put back.
LEMMA StagingKeeps ==
  ASSUME IInv,
         \/ ExportBegin \/ HealReap \/ HealRestore \/ StageBegin \/ StageShard
         \/ StageManifest \/ StageFails \/ Validated
  PROVE  IInv'
<1> USE DEF IInv, store, dirs, ghost
<1>1. CASE ExportBegin
  <2>1. TypeOK'
    BY <1>1 DEF ExportBegin, TypeOK, PCs, Opened
  <2>2. Names' /\ Staged'
    BY <1>1 DEF ExportBegin, Names, Staged, Whole
  <2>3. Models1' /\ ImportsOwnModel'
    BY <1>1 DEF ExportBegin, Models1, OwnModel, ImportsOwnModel, Opens, Opened
  <2>4. LiveWhole' /\ CommittedKept'
    BY <1>1 DEF ExportBegin, LiveWhole, CommittedKept, Whole
  <2> QED
    BY <2>1, <2>2, <2>3, <2>4
<1>2. CASE HealReap
  <2>1. prev' = NULL \/ (prev' \in Dir /\ OwnModel(prev'))
    BY <1>2, PartsOwnModel DEF HealReap, Models1, TypeOK
  <2>2. /\ UNCHANGED <<conf, tree, stamp, rows, live, staging, pc, moved, todo,
                       gens, committed, killed>>
        /\ live # NULL /\ pc = "heal"
    BY <1>2 DEF HealReap
  <2>3. TypeOK'
    BY <2>1, <2>2 DEF TypeOK
  <2>4. Names' /\ Staged'
    BY <2>1, <2>2 DEF Names, Staged, Whole
  <2>5. Models1' /\ ImportsOwnModel'
    BY <2>1, <2>2 DEF Models1, OwnModel, ImportsOwnModel
  <2>6. LiveWhole' /\ CommittedKept'
    BY <2>1, <2>2 DEF LiveWhole, CommittedKept, Whole
  <2> QED
    BY <2>3, <2>4, <2>5, <2>6
<1>3. CASE HealRestore
  <2>1. TypeOK'
    BY <1>3 DEF HealRestore, TypeOK
  <2>2. Names' /\ Staged'
    BY <1>3 DEF HealRestore, Names, Staged
  <2>3. Models1' /\ ImportsOwnModel'
    BY <1>3 DEF HealRestore, Models1, OwnModel, ImportsOwnModel
  <2>4. LiveWhole' /\ CommittedKept'
    BY <1>3 DEF HealRestore, Names, LiveWhole, CommittedKept, Whole
  <2> QED
    BY <2>1, <2>2, <2>3, <2>4
<1>4. CASE StageBegin
  <2>1. staging' = [gen |-> gens + 1, shards |-> NoRows, manifest |-> NULL]
    BY <1>4 DEF StageBegin
  <2>2. gens + 1 \in Nat /\ NoRows \in Rows
    BY DEF TypeOK, Rows, NoRows
  <2>3. staging' \in Dir
    BY <2>1, <2>2 DEF Dir
  <2>4. TypeOK'
    BY <1>4, <2>2, <2>3 DEF StageBegin, TypeOK, PCs
  <2>5. Names'
    BY <1>4 DEF StageBegin, Names, Whole
  <2>6. Staged'
    <3>1. staging'.shards = NoRows /\ staging'.manifest = NULL /\ staging'.gen = gens'
      BY <1>4, <2>1 DEF StageBegin
    <3>2. Held(staging'.shards) = {}
      BY <3>1 DEF Held, NoRows
    <3> QED
      BY <1>4, <2>3, <3>1, <3>2 DEF StageBegin, Staged, Held, TypeOK, Whole
  <2>7. Models1' /\ ImportsOwnModel'
    BY <1>4, <2>1 DEF StageBegin, Models1, OwnModel, ImportsOwnModel
  <2>8. LiveWhole' /\ CommittedKept'
    BY <1>4 DEF StageBegin, LiveWhole, CommittedKept, Whole
  <2> QED
    BY <2>4, <2>5, <2>6, <2>7, <2>8
<1>5. CASE StageShard
  <2>1. PICK f \in Held(rows) \ Held(staging.shards) :
          staging' = [staging EXCEPT !.shards[f] = rows[f]]
    BY <1>5 DEF StageShard
  <2>2. staging \in [gen : Nat, shards : Rows, manifest : Manifest \cup {NULL}]
    BY <1>5 DEF StageShard, Staged, TypeOK, Dir
  <2>3. staging' = [gen |-> staging.gen, manifest |-> staging.manifest,
                    shards |-> [staging.shards EXCEPT ![f] = rows[f]]]
    BY <2>1, <2>2
  <2>4. [staging.shards EXCEPT ![f] = rows[f]] \in Rows
    BY <2>2 DEF Rows, TypeOK, Held
  <2>5. staging' \in Dir
    BY <2>2, <2>3, <2>4 DEF Dir
  <2>6. /\ UNCHANGED <<conf, tree, stamp, rows, live, prev, pc, moved, todo,
                       gens, committed, killed>>
        /\ pc = "stage" /\ staging.manifest = NULL
    BY <1>5 DEF StageShard
  <2>7. TypeOK'
    BY <2>5, <2>6 DEF TypeOK
  <2>8. \A g \in Held(staging'.shards) : staging'.shards[g] = rows[g]
    BY <2>2, <2>3, <2>6 DEF Staged, Held, Rows
  <2>9. Names' /\ Staged'
    BY <2>3, <2>5, <2>6, <2>8 DEF Names, Staged, Whole
  <2>10. Models1' /\ ImportsOwnModel'
    BY <2>3, <2>6 DEF Models1, OwnModel, ImportsOwnModel
  <2>11. LiveWhole' /\ CommittedKept'
    BY <2>6 DEF LiveWhole, CommittedKept, Whole
  <2> QED
    BY <2>7, <2>9, <2>10, <2>11
<1>6. CASE StageManifest
  <2> DEFINE m == [model |-> conf.model, of |-> Held(rows)]
  <2>1. staging \in [gen : Nat, shards : Rows, manifest : Manifest \cup {NULL}]
    BY <1>6 DEF StageManifest, Staged, TypeOK, Dir
  <2>2. m \in Manifest
    BY DEF TypeOK, Manifest, Space, Held
  <2>3. staging' = [gen |-> staging.gen, shards |-> staging.shards, manifest |-> m]
    BY <1>6, <2>1 DEF StageManifest
  <2>4. staging' \in Dir
    BY <2>1, <2>2, <2>3 DEF Dir
  <2>5. /\ UNCHANGED <<conf, tree, stamp, rows, live, prev, pc, moved, todo,
                       gens, committed, killed>>
        /\ pc = "stage" /\ Held(staging.shards) = Held(rows)
    BY <1>6 DEF StageManifest
  <2>6. TypeOK'
    BY <2>4, <2>5 DEF TypeOK
  <2>7. Whole(staging')
    BY <2>2, <2>3, <2>4, <2>5 DEF Whole
  <2>8. Names' /\ Staged'
    BY <2>3, <2>4, <2>5, <2>7 DEF Names, Staged, Whole
  <2>9. OwnModel(staging')
    BY <2>3, <2>5 DEF OwnModel, Staged, Models1, ImportsOwnModel
  <2>10. Models1' /\ ImportsOwnModel'
    BY <2>5, <2>9 DEF Models1, OwnModel, ImportsOwnModel
  <2>11. LiveWhole' /\ CommittedKept'
    BY <2>5 DEF LiveWhole, CommittedKept, Whole
  <2> QED
    BY <2>6, <2>8, <2>10, <2>11
<1>7. CASE StageFails \/ Validated
  <2>1. TypeOK'
    BY <1>7 DEF StageFails, Validated, TypeOK, PCs
  <2>2. Names' /\ Staged'
    BY <1>7 DEF StageFails, Validated, Names, Staged, Whole
  <2>3. Models1' /\ ImportsOwnModel'
    BY <1>7 DEF StageFails, Validated, Models1, OwnModel, ImportsOwnModel
  <2>4. LiveWhole' /\ CommittedKept'
    BY <1>7 DEF StageFails, Validated, LiveWhole, CommittedKept, Whole
  <2> QED
    BY <2>1, <2>2, <2>3, <2>4
<1> QED
  BY <1>1, <1>2, <1>3, <1>4, <1>5, <1>6, <1>7

\* The two renames, the rollback and the clean-up.
LEMMA CommitKeeps ==
  ASSUME IInv, CommitAside \/ Commit \/ Rollback \/ CommitInterrupted \/ Cleaned
  PROVE  IInv'
<1> USE DEF IInv, store, dirs, ghost
<1>1. CASE CommitAside
  <2>1. TypeOK'
    BY <1>1 DEF CommitAside, TypeOK, PCs
  <2>2. Names'
    <3>1. CASE live # NULL
      BY <1>1, <3>1 DEF CommitAside, Names, LiveWhole
    <3>2. CASE live = NULL
      BY <1>1, <3>2 DEF CommitAside, Names
    <3> QED
      BY <3>1, <3>2
  <2>5. Staged'
    BY <1>1 DEF CommitAside, Staged, Whole
  <2>3. Models1' /\ ImportsOwnModel'
    BY <1>1 DEF CommitAside, Models1, OwnModel, ImportsOwnModel
  <2>4. LiveWhole' /\ CommittedKept'
    BY <1>1 DEF CommitAside, Names, LiveWhole, CommittedKept, Whole
  <2> QED
    BY <2>1, <2>2, <2>3, <2>4, <2>5
<1>2. CASE Commit
  <2>1. TypeOK'
    BY <1>2 DEF Commit, Staged, TypeOK, PCs
  <2>2. Names' /\ Staged'
    BY <1>2 DEF Commit, Names, Staged, TypeOK
  <2>3. Models1' /\ ImportsOwnModel'
    BY <1>2 DEF Commit, Models1, OwnModel, ImportsOwnModel
  <2>4. LiveWhole' /\ CommittedKept'
    BY <1>2 DEF Commit, Staged, LiveWhole, CommittedKept, Whole
  <2> QED
    BY <2>1, <2>2, <2>3, <2>4
<1>3. CASE Rollback
  <2>1. TypeOK'
    BY <1>3 DEF Rollback, TypeOK, PCs
  <2>2. Names' /\ Staged'
    BY <1>3 DEF Rollback, Names, Staged
  <2>3. Models1' /\ ImportsOwnModel'
    BY <1>3 DEF Rollback, Models1, OwnModel, ImportsOwnModel
  <2>4. LiveWhole' /\ CommittedKept'
    BY <1>3 DEF Rollback, Names, LiveWhole, CommittedKept, Whole
  <2> QED
    BY <2>1, <2>2, <2>3, <2>4
<1>4. CASE Cleaned
  <2>1. prev' = NULL \/ (prev' \in Dir /\ OwnModel(prev'))
    BY <1>4, PartsOwnModel DEF Cleaned, Models1, TypeOK
  <2>2. /\ UNCHANGED <<conf, tree, stamp, rows, live, staging, moved, todo,
                       gens, committed, killed>>
        /\ pc = "clean" /\ pc' = "idle"
    BY <1>4 DEF Cleaned
  <2>3. TypeOK'
    BY <2>1, <2>2 DEF TypeOK, PCs
  <2>4. Names' /\ Staged'
    BY <1>4, <2>1, <2>2 DEF Cleaned, Names, Staged
  <2>5. Models1' /\ ImportsOwnModel'
    BY <2>1, <2>2 DEF Models1, OwnModel, ImportsOwnModel
  <2>6. LiveWhole' /\ CommittedKept'
    BY <2>2 DEF Names, LiveWhole, CommittedKept, Whole
  <2> QED
    BY <2>3, <2>4, <2>5, <2>6
<1>5. CASE CommitInterrupted
  <2>1. TypeOK'
    BY <1>5 DEF CommitInterrupted, TypeOK, PCs
  <2>2. Names' /\ Staged'
    BY <1>5 DEF CommitInterrupted, Names, Staged, LiveWhole
  <2>3. Models1' /\ ImportsOwnModel'
    BY <1>5 DEF CommitInterrupted, Models1, OwnModel, ImportsOwnModel
  <2>4. LiveWhole' /\ CommittedKept'
    BY <1>5 DEF CommitInterrupted, Names, LiveWhole, CommittedKept, Whole
  <2> QED
    BY <2>1, <2>2, <2>3, <2>4
<1> QED
  BY <1>1, <1>2, <1>3, <1>4, <1>5

\* An import, and what happens around the two operations.
LEMMA AroundKeeps ==
  ASSUME IInv,
         \/ ImportSkips \/ ImportReads \/ ImportBatch \/ ImportDone
         \/ Rescan \/ Drop \/ Reconfigure \/ Edit \/ Kill
  PROVE  IInv'
<1> USE DEF IInv, store, dirs, ghost
<1>1. CASE ImportSkips \/ ImportReads
  <2>1. TypeOK'
    BY <1>1 DEF ImportSkips, ImportReads, TypeOK, PCs, Opened
  <2>2. Names' /\ Staged'
    BY <1>1 DEF ImportSkips, ImportReads, Names, Staged, Whole
  <2>3. Models1' /\ ImportsOwnModel'
    BY <1>1 DEF ImportSkips, ImportReads, Models1, OwnModel, ImportsOwnModel,
                Opens, Opened, TypeOK
  <2>4. LiveWhole' /\ CommittedKept'
    BY <1>1 DEF ImportSkips, ImportReads, LiveWhole, CommittedKept, Whole
  <2> QED
    BY <2>1, <2>2, <2>3, <2>4
<1>2. CASE ImportBatch
  <2>1. PICK f \in todo : /\ rows' = [rows EXCEPT ![f] = live.shards[f]]
                          /\ todo' = todo \ {f}
    BY <1>2 DEF ImportBatch
  <2>2. /\ UNCHANGED <<conf, tree, stamp, live, prev, staging, pc, moved,
                       gens, committed, killed>>
        /\ pc = "import"
    BY <1>2 DEF ImportBatch
  <2>3. live \in [gen : Nat, shards : Rows, manifest : Manifest \cup {NULL}]
    BY <2>2 DEF TypeOK, Models1, Dir
  <2>4. rows \in Rows /\ rows' \in Rows
    BY <2>1, <2>3 DEF TypeOK, Rows
  <2>5. TypeOK'
    BY <2>1, <2>2, <2>4 DEF TypeOK
  <2>6. Names' /\ Staged'
    BY <2>2 DEF Names, Staged, Whole
  <2>7. live.shards[f].model = stamp.model
    BY <2>2 DEF Models1, OwnModel
  <2>8. Models1'
    BY <2>1, <2>2 DEF Models1, OwnModel
  <2>9. ImportsOwnModel'
    BY <2>1, <2>2, <2>4, <2>7 DEF ImportsOwnModel, Held, Rows
  <2>10. LiveWhole' /\ CommittedKept'
    BY <2>2 DEF LiveWhole, CommittedKept, Whole
  <2> QED
    BY <2>5, <2>6, <2>8, <2>9, <2>10
<1>3. CASE Rescan
  <2>1. UNCHANGED <<conf, tree, live, prev, staging, pc, moved, todo, gens,
                    committed, killed>>
    BY <1>3 DEF Rescan
  <2>2. /\ stamp' \in Space /\ stamp'.model = conf.model
        /\ pc = "idle"
    BY <1>3 DEF Rescan, Opens, Opened, TypeOK
  <2>3. rows' \in Rows
    BY <1>3 DEF Rescan, TypeOK, Rows
  <2>4. \A f \in Held(rows') : rows'[f] = conf \/ (f \in Held(rows) /\ rows'[f] = rows[f])
    BY <1>3 DEF Rescan, Held
  <2>5. TypeOK'
    BY <2>1, <2>2, <2>3 DEF TypeOK
  <2>6. Names' /\ Staged'
    BY <2>1, <2>2 DEF Names, Staged, Whole
  <2>7. Models1'
    BY <2>1, <2>2 DEF Models1, OwnModel
  <2>8. ImportsOwnModel'
    BY <1>3, <2>2, <2>4 DEF Rescan, Opens, Models1, ImportsOwnModel
  <2>9. LiveWhole' /\ CommittedKept'
    BY <2>1 DEF LiveWhole, CommittedKept, Whole
  <2> QED
    BY <2>5, <2>6, <2>7, <2>8, <2>9
<1>4. CASE Drop
  <2>1. TypeOK'
    BY <1>4 DEF Drop, TypeOK, Rows, NoRows
  <2>2. Held(rows') = {}
    BY <1>4 DEF Drop, Held, NoRows
  <2>3. Names' /\ Staged'
    BY <1>4 DEF Drop, Names, Staged, Whole
  <2>4. Models1' /\ ImportsOwnModel'
    BY <1>4, <2>2 DEF Drop, Models1, OwnModel, ImportsOwnModel
  <2>5. LiveWhole' /\ CommittedKept'
    BY <1>4 DEF Drop, LiveWhole, CommittedKept, Whole
  <2> QED
    BY <2>1, <2>3, <2>4, <2>5
<1>5. CASE Kill
  <2>1. prev' = prev \/ (pc = "clean" /\ prev' \in Dir /\ OwnModel(prev'))
    BY <1>5, PartsOwnModel DEF Kill, Models1, TypeOK
  <2>2. /\ UNCHANGED <<conf, tree, stamp, rows, live, staging, gens, committed>>
        /\ pc # "idle" /\ pc' = "idle" /\ todo' = {} /\ moved' = FALSE
        /\ killed' = (killed \/ pc # "import")
    BY <1>5 DEF Kill
  <2>3. TypeOK'
    BY <2>1, <2>2 DEF TypeOK, PCs
  <2>4. Names' /\ Staged'
    BY <2>1, <2>2 DEF Names, Staged
  <2>5. Models1' /\ ImportsOwnModel'
    BY <2>1, <2>2 DEF Models1, OwnModel, ImportsOwnModel
  <2>6. LiveWhole' /\ CommittedKept'
    BY <2>1, <2>2 DEF Names, LiveWhole, CommittedKept, Whole
  <2> QED
    BY <2>3, <2>4, <2>5, <2>6
<1>6. CASE ImportDone \/ Reconfigure \/ Edit
  <2>1. TypeOK'
    BY <1>6 DEF ImportDone, Reconfigure, Edit, TypeOK, PCs
  <2>2. Names' /\ Staged'
    BY <1>6 DEF ImportDone, Reconfigure, Edit, Names, Staged, Whole
  <2>3. Models1' /\ ImportsOwnModel'
    BY <1>6 DEF ImportDone, Reconfigure, Edit, Models1, OwnModel, ImportsOwnModel
  <2>4. LiveWhole' /\ CommittedKept'
    BY <1>6 DEF ImportDone, Reconfigure, Edit, LiveWhole, CommittedKept, Whole
  <2> QED
    BY <2>1, <2>2, <2>3, <2>4
<1> QED
  BY <1>1, <1>2, <1>3, <1>4, <1>5, <1>6

LEMMA Invariant == Spec => []IInv
<1>1. IInv /\ [Next]_vars => IInv'
  <2> SUFFICES ASSUME IInv, [Next]_vars PROVE IInv'
    OBVIOUS
  <2>1. CASE UNCHANGED vars
    BY <2>1 DEF vars, store, dirs, ghost, IInv, TypeOK, Names, Staged, Models1,
                OwnModel, Whole, LiveWhole, CommittedKept, ImportsOwnModel
  <2>2. CASE Next
    BY <2>2, StagingKeeps, CommitKeeps, AroundKeeps DEF Next
  <2> QED
    BY <2>1, <2>2
<1> QED
  BY Initially, <1>1, PTL DEF Spec

\* Wherever an export fails or is killed, an import finds a base that holds
\* exactly what its manifest claims, or none (navindex.export_base).
THEOREM BaseWhole == Spec => []LiveWhole
<1>1. IInv => LiveWhole
  BY DEF IInv
<1> QED
  BY <1>1, Invariant, PTL

\* The last committed generation is live, or a kill between the two renames
\* or interrupt between the two renames
\* left it aside where the next export finds it (export_base's heal).
THEOREM NothingCommittedLost == Spec => []CommittedKept
<1>1. IInv => CommittedKept
  BY DEF IInv
<1> QED
  BY <1>1, Invariant, PTL

\* The rows of a collection are of the model it is stamped with, imported
\* ones included (import_base's check of the manifest).
THEOREM RowsOfOwnModel == Spec => []ImportsOwnModel
<1>1. IInv => ImportsOwnModel
  BY DEF IInv
<1> QED
  BY <1>1, Invariant, PTL

-----------------------------------------------------------------------------
(***************************************************************************)
(* An export is atomic.  Beyond the invariant: the number of a staged      *)
(* generation is above every committed one, and from the manifest to the   *)
(* commit the staged shards are the rows of the collection, which only the *)
(* holder of the lock could change.                                        *)
(***************************************************************************)
Exporting == pc \in {"stage", "commit", "swap"}

Numbered ==
  /\ committed <= gens
  /\ Exporting => committed < gens

Dumped ==
  /\ pc = "heal" \/ Exporting => Held(rows) # {}
  /\ Exporting /\ staging.manifest # NULL =>
       /\ staging.shards = rows
       /\ staging.manifest = [model |-> conf.model, of |-> Held(rows)]

\* The number of the base, if there is one.
LEMMA RecoveredGen ==
  ASSUME IInv
  PROVE  /\ Recovered # NULL /\ committed # 0 => Recovered.gen = committed
         /\ committed = 0 => Recovered = NULL
BY DEF IInv, Names, CommittedKept, Recovered

LEMMA NumberedKept == ASSUME IInv, Numbered, [Next]_vars PROVE Numbered'
<1> USE DEF Numbered, Exporting, store, dirs, ghost
<1>1. gens \in Nat /\ committed \in Nat
  BY DEF IInv, TypeOK
<1>2. CASE Commit
  <2>1. staging.gen = gens
    BY <1>2 DEF Commit, IInv, Staged
  <2> QED  BY <1>1, <1>2, <2>1 DEF Commit
<1>3. CASE StageBegin
  BY <1>1, <1>3 DEF StageBegin
<1>4. CASE Next /\ ~Commit /\ ~StageBegin
  BY <1>1, <1>4
  DEF Next, ExportBegin, HealReap, HealRestore, StageShard, StageManifest, StageFails, Validated,
      CommitAside, Rollback, CommitInterrupted, Cleaned, ImportSkips, ImportReads, ImportBatch, ImportDone, Rescan,
      Drop, Reconfigure, Edit, Kill
<1>5. CASE UNCHANGED vars
  BY <1>5 DEF vars
<1> QED  BY <1>2, <1>3, <1>4, <1>5

LEMMA DumpedKept == ASSUME IInv, Dumped, [Next]_vars PROVE Dumped'
<1> USE DEF Dumped, Exporting, store, dirs, ghost
<1>1. CASE StageManifest
  <2>1. /\ pc' = "stage" /\ UNCHANGED <<conf, rows>> /\ staging # NULL
        /\ Held(staging.shards) = Held(rows)
        /\ staging' = [staging EXCEPT !.manifest = [model |-> conf.model, of |-> Held(rows)]]
    BY <1>1 DEF StageManifest, IInv, Staged
  <2>2. staging \in Dir /\ rows \in Rows /\ staging.shards \in Rows
    BY <2>1 DEF IInv, TypeOK, Dir
  <2>3. \A f \in Files : staging.shards[f] = rows[f]
    BY <1>1, <2>1, <2>2 DEF StageManifest, IInv, Staged, Held
  <2>4. staging.shards = rows
    BY <2>2, <2>3 DEF Rows
  <2>5. /\ staging'.shards = staging.shards
        /\ staging'.manifest = [model |-> conf.model, of |-> Held(rows)]
    BY <2>1, <2>2 DEF Dir
  <2> QED  BY <1>1, <2>1, <2>4, <2>5 DEF StageManifest, Held
<1>2. CASE StageBegin
  BY <1>2 DEF StageBegin, Held
<1>3. CASE StageShard
  <2>1. staging \in Dir /\ staging.manifest = NULL
    BY <1>3 DEF StageShard, IInv, TypeOK, Staged
  <2>2. staging'.manifest = NULL
    BY <1>3, <2>1 DEF StageShard, Dir
  <2> QED  BY <1>3, <2>2 DEF StageShard, Held
<1>4. CASE Next /\ ~StageManifest /\ ~StageBegin /\ ~StageShard
  BY <1>4
  DEF Next, ExportBegin, HealReap, HealRestore, StageFails, Validated, CommitAside, Commit,
      Rollback, CommitInterrupted, Cleaned, ImportSkips, ImportReads, ImportBatch, ImportDone,
      Rescan, Drop,
      Reconfigure, Edit, Kill, Held
<1>5. CASE UNCHANGED vars
  BY <1>5 DEF vars, Held
<1> QED  BY <1>1, <1>2, <1>3, <1>4, <1>5

LEMMA NumberedDumps == Spec => [](IInv /\ Numbered /\ Dumped)
<1>1. Init => Numbered /\ Dumped
  BY DEF Init, Numbered, Dumped, Exporting
<1>2. IInv /\ Numbered /\ Dumped /\ [Next]_vars => Numbered' /\ Dumped'
  BY NumberedKept, DumpedKept
<1> QED  BY Invariant, <1>1, <1>2, PTL DEF Spec

\* The commit replaces the base by the collection as it is.
LEMMA CommitIsExport ==
  ASSUME IInv, Numbered, Dumped, Commit
  PROVE  Atomic!Export
<1>1. /\ pc = "swap" /\ live' = staging /\ UNCHANGED <<rows, conf>>
      /\ staging # NULL /\ staging.gen = gens /\ staging.manifest # NULL
      /\ gens \in Nat /\ committed \in Nat /\ committed < gens
  BY DEF Commit, IInv, TypeOK, Staged, Numbered, Exporting, store
<1>2. /\ Held(rows) # {} /\ staging.shards = rows
      /\ staging.manifest = [model |-> conf.model, of |-> Held(rows)]
  BY <1>1 DEF Dumped, Exporting
<1>3. Recovered' = staging
  BY <1>1 DEF Recovered
<1>4. \A f \in Held(rows) : rows[f].model = conf.model
  BY <1>1 DEF IInv, Models1, ImportsOwnModel
<1>5. Recovered # NULL => Recovered.gen < gens
  BY <1>1, RecoveredGen
<1>6. Atomic!DumpOf(Recovered')
  BY <1>2, <1>3, <1>4 DEF Atomic!DumpOf, Atomic!Complete, Atomic!Held, Held
<1> QED
  BY <1>1, <1>2, <1>3, <1>5, <1>6, RecoveredGen DEF Atomic!Export, Atomic!Held, Held, IInv, TypeOK

\* Nothing else touches it: a live base that steps aside or comes back is
\* the same base, and what is removed is not the one to recover.
LEMMA OthersKeepBase ==
  ASSUME IInv, [Next]_vars, ~Commit
  PROVE  UNCHANGED Recovered
<1> USE DEF Recovered, store, dirs, ghost
<1>1. CASE CommitAside \/ Rollback \/ CommitInterrupted
  BY <1>1 DEF CommitAside, Rollback, CommitInterrupted, IInv, Names
<1>2. CASE HealReap \/ HealRestore \/ Cleaned
  BY <1>2 DEF HealReap, HealRestore, Cleaned, IInv, Names
<1>3. CASE Kill
  BY <1>3 DEF Kill, IInv, Names
<1>4. CASE \/ ExportBegin \/ StageBegin \/ StageShard \/ StageManifest \/ StageFails
           \/ Validated \/ ImportSkips \/ ImportReads \/ ImportBatch \/ ImportDone
           \/ Rescan \/ Drop \/ Reconfigure \/ Edit
  BY <1>4
  DEF ExportBegin, StageBegin, StageShard, StageManifest, StageFails, Validated, ImportSkips,
      ImportReads, ImportBatch, ImportDone, Rescan, Drop, Reconfigure, Edit
<1>5. CASE UNCHANGED vars
  BY <1>5 DEF vars
<1> QED  BY <1>1, <1>2, <1>3, <1>4, <1>5 DEF Next

\* The base a checkout finds or recovers changes by a commit alone, to a newer
\* generation that is the collection at that moment: export_base implements
\* AtomicBase wherever it fails or is killed.
THEOREM ExportIsAtomic == Spec => ImplementsAtomicBase
<1>1. Init => Atomic!Init
  <2> SUFFICES ASSUME Init PROVE Atomic!Init
    OBVIOUS
  <2>1. Recovered # NULL => Whole(Recovered)
    BY Initially DEF Init, Recovered, IInv, LiveWhole
  <2> QED  BY <2>1 DEF Init, NoRows, Atomic!Init, Atomic!Complete, Atomic!Held, Whole, Held
<1>2. IInv /\ Numbered /\ Dumped /\ [Next]_vars => [Atomic!Next]_(Atomic!vars)
  BY CommitIsExport, OthersKeepBase DEF Atomic!Next, Atomic!Index
<1> QED
  BY <1>1, <1>2, NumberedDumps, PTL DEF Spec, ImplementsAtomicBase, Atomic!Spec
=============================================================================
