--------------------------- MODULE FreshnessProofs ---------------------------
(***************************************************************************)
(* The freshness gate is right for any set of files, any number of edits   *)
(* and failures, any batch size, with or without watcher and second        *)
(* process.  Every edit draws a stamp larger than all stamps recorded so   *)
(* far, so a recorded stamp that equals the file's own was taken after its *)
(* last edit; the invariant follows what was read after that.              *)
(***************************************************************************)
EXTENDS Freshness, TLAPS

Row == [sha : 0..clock, doc : 0..clock, t : 0..clock \cup {NULL}]

Scanning == pc \in {"file", "read", "flush"}
Syncing  == pc \in {"graph", "parse", "fns", "mark"}

\* No snapshot holds a stamp that has not been drawn yet.
Past(s) == s # NULL => \A f \in Files : s[f] # NULL => s[f] <= clock

Snapshots == Past(fpClean) /\ Past(fpLast) /\ Past(walk) /\ Past(fp) /\ Past(wfp)

\* The locals of the call in progress, while they are in use.
Locals ==
  /\ pend \subseteq [f : Files, row : Row]
  /\ who = "boot" => wpc = "off"
  /\ pc = "commit" => walk \in Snapshot
  /\ wpc = "commit" => wfp \in Snapshot
  /\ pc = "read" => hashed \in [f : Files, sha : 0..clock]
  /\ pc = "fns" => /\ DOMAIN parsed \subseteq Files
                   /\ \A f \in DOMAIN parsed : parsed[f] \in Nat \cup {NULL}
  /\ pc = "fp" => seen = {} /\ pend = {} /\ refresh = {}
  /\ Scanning => /\ fp \in Snapshot
                 /\ \A p \in pend : p.row.t = fp[p.f]
                 /\ \A f \in refresh : rows[f] # NULL /\ fp[f] # NULL

\* A row that carries the sha or the stamp of the file on disk embeds that file:
\* its stamp was walked before its bytes were read.
Truthful(r, d) == r # NULL /\ d # NULL /\ (r.t = d.t \/ r.sha = d.c) => r.doc = d.c

RowsTrue ==
  /\ \A f \in Files : Truthful(rows[f], disk[f])
  /\ \A p \in pend : Truthful(p.row, disk[p.f])
  /\ Scanning => \A f \in refresh :
                    disk[f] # NULL /\ fp[f] = disk[f].t => rows[f].doc = disk[f].c

\* A clean baseline that carries the file's stamp is no newer than the last walk.
LastIsLater ==
  wpc = "off" /\ fpClean # NULL =>
    \A f \in Present : fpClean[f] = disk[f].t =>
      /\ fpLast # NULL /\ fpLast[f] = disk[f].t
      /\ pc = "commit" => walk[f] = disk[f].t

\* The file has not changed since the rescan in progress began.
Settled(f) ==
  \/ f \notin touched
  \/ disk[f] # NULL /\ f \notin racing
  \/ disk[f] # NULL /\ wpc = "off" /\ fpLast # NULL /\ fpLast[f] = disk[f].t

\* Such a file is still to be looked at, or the rows describe it, or will.
Held(f) ==
  /\ disk[f] = NULL => f \notin todo \cup seen /\ \A p \in pend : p.f # f
  /\ disk[f] # NULL =>
       /\ fp[f] = disk[f].t
       /\ f \in todo \cup seen
       /\ \/ f \in todo
          \/ pc = "read" /\ hashed.f = f
          \/ \E p \in pend : p.f = f
          \/ Match(f)

Covered ==
  /\ pc = "commit" => \A f \in Files \ touched : walk[f] = Stamp(disk[f])
  /\ pc = "fp" => \A f \in Files : Settled(f) => (f \in todo <=> disk[f] # NULL)
  /\ Scanning => \A f \in Files : Settled(f) => Held(f)
  /\ Syncing => \A f \in Files : Settled(f) => Match(f)

IInv ==
  /\ TypeOK /\ Snapshots /\ Locals
  /\ RowsTrue /\ LastIsLater /\ Covered
  /\ BaselineCovered /\ ScanBaselineCovered /\ AnswerFresh

USE FreshnessAssumption
    DEF Snapshot, Stamp, Content, Stamps, Contents, Present, Match, Indexing,
        Row, Scanning, Syncing, Past, Truthful, Settled, Held

LEMMA TypeInductive == TypeOK /\ Snapshots /\ Locals /\ [Next]_vars => TypeOK'
<1> SUFFICES ASSUME TypeOK, Snapshots, Locals, [Next]_vars PROVE TypeOK'
  OBVIOUS
<1> USE DEF TypeOK, DataTypes, FlagTypes, PlaceTypes, Snapshots, Locals,
            vars, env, envM, store, gate, scanL, stats, watch
<1>1. ASSUME NEW f \in Files, Write(f) \/ Touch(f) \/ Remove(f) PROVE TypeOK'
  BY <1>1 DEF Write, Touch, Remove, Edit
<1>2. CASE TtlExpires
  <2>1. DataTypes'
    BY <1>2 DEF TtlExpires
  <2>2. FlagTypes'
    BY <1>2 DEF TtlExpires
  <2>3. PlaceTypes'
    BY <1>2 DEF TtlExpires
  <2> QED
    BY <2>1, <2>2, <2>3
<1>3. CASE CooldownOver
  <2>1. DataTypes'
    BY <1>3 DEF CooldownOver
  <2>2. FlagTypes'
    BY <1>3 DEF CooldownOver
  <2>3. PlaceTypes'
    BY <1>3 DEF CooldownOver
  <2> QED
    BY <2>1, <2>2, <2>3
<1>4. CASE ReadCall
  BY <1>4 DEF ReadCall, Take
<1>5. CASE RescanCall
  BY <1>5 DEF RescanCall, Take
<1>6. CASE ScanCached
  BY <1>6 DEF ScanCached
<1>7. CASE ScanWalk
  BY <1>7 DEF ScanWalk
<1>8. CASE ScanCommit
  BY <1>8 DEF ScanCommit, Commit
<1>9. CASE List
  BY <1>9 DEF List
<1>10. CASE ListFails
  BY <1>10 DEF ListFails, Fault, Failed
<1>11. CASE FlushFails
  BY <1>11 DEF FlushFails, AtFlush, Fault, Failed
<1>12. CASE FpWalk
  BY <1>12 DEF FpWalk
<1>13. CASE Read
  BY <1>13 DEF Read
<1>14. CASE Vanish
  BY <1>14 DEF Vanish, StatEqual
<1>15. CASE Flush
  BY <1>15 DEF Flush, AtFlush, Upserted
<1>16. CASE Finish
  <2>1. DataTypes'
    <3>1. del' \subseteq Files
      BY <1>16 DEF Finish, AtFinish, Purged, Refreshed, Gone
    <3>2. rows' \in [Files -> {NULL} \cup Row]
      BY <1>16, <3>1 DEF Finish, AtFinish, Purged, Refreshed, Gone
    <3> QED
      BY <1>16, <3>2 DEF Finish, AtFinish, Purged, Refreshed, Gone
  <2>2. FlagTypes'
    BY <1>16 DEF Finish, AtFinish, Purged, Refreshed, Gone
  <2>3. PlaceTypes'
    BY <1>16 DEF Finish, AtFinish, Purged, Refreshed, Gone
  <2> QED
    BY <2>1, <2>2, <2>3
<1>17. ASSUME NEW f \in Files, Skip(f) PROVE TypeOK'
  BY <1>17 DEF Skip, StatEqual
<1>18. ASSUME NEW f \in Files, Hash(f) PROVE TypeOK'
  BY <1>18 DEF Hash, StatEqual
<1>19. CASE Rebuild
  BY <1>19 DEF Rebuild
<1>20. CASE Parse
  BY <1>20 DEF Parse, Fault, SyncScope
<1>21. CASE SyncFns
  <2>1. ASSUME NEW done \in SUBSET DOMAIN parsed PROVE Synced(done) \in Snapshot
    BY <1>21 DEF SyncFns, Synced
  <2>2. fns' \in Snapshot
    BY <1>21, <2>1 DEF SyncFns
  <2>3. marker' \in BOOLEAN
    BY <1>21 DEF SyncFns
  <2>5. fails' \in 0..MaxFails /\ pc' = "mark"
    BY <1>21 DEF SyncFns, Fault
  <2>4. UNCHANGED <<env, rows, graphOf, gate, degraded, cooldown, who, via, walk, scanL,
                   stats, parsed, watch>>
    BY <1>21 DEF SyncFns
  <2> QED
    BY <2>2, <2>3, <2>4, <2>5
<1>22. CASE Mark
  <2>1. DataTypes'
    BY <1>22 DEF Mark
  <2>2. FlagTypes'
    BY <1>22 DEF Mark
  <2>3. PlaceTypes'
    BY <1>22 DEF Mark
  <2> QED
    BY <2>1, <2>2, <2>3
<1>23. CASE Answer
  BY <1>23 DEF Answer
<1>24. CASE WatchWalk
  BY <1>24 DEF WatchWalk
<1>25. CASE WatchCommit
  BY <1>25 DEF WatchCommit, Commit
<1>26. CASE WatchGate
  BY <1>26 DEF WatchGate, Take
<1>27. CASE PeerRescan
  <2>1. DataTypes'
    BY <1>27 DEF PeerRescan, Rescanned
  <2>2. FlagTypes'
    BY <1>27 DEF PeerRescan, Rescanned
  <2>3. PlaceTypes'
    BY <1>27 DEF PeerRescan, Rescanned
  <2> QED
    BY <2>1, <2>2, <2>3
<1>28. CASE UNCHANGED vars
  BY <1>28
<1>29. CASE FinishFails
  <2>1. rows' \in [Files -> {NULL} \cup Row]
    BY <1>29 DEF FinishFails, AtFinish, Purged, Refreshed, Gone, Failed, Fault
  <2> QED
    BY <1>29, <2>1 DEF FinishFails, Failed, Fault
<1>30. CASE RebuildFails
  BY <1>30 DEF RebuildFails, Failed, Fault
<1> QED
  BY <1>1, <1>2, <1>3, <1>4, <1>5, <1>6, <1>7, <1>8, <1>9, <1>10, <1>11, <1>12,
     <1>13, <1>14, <1>15, <1>16, <1>17, <1>18, <1>19, <1>20, <1>21, <1>22, <1>23,
     <1>24, <1>25, <1>26, <1>27, <1>28, <1>29, <1>30
     DEF Next, Environment, Passing, Rescan, Working, Watching

LEMMA Inductive == IInv /\ [Next]_vars => IInv'
<1> SUFFICES ASSUME IInv, [Next]_vars PROVE IInv'
  OBVIOUS
<1>0. TypeOK'
  BY TypeInductive DEF IInv
<1> USE <1>0 DEF IInv, TypeOK, DataTypes, FlagTypes, PlaceTypes, Snapshots, Locals,
     RowsTrue, LastIsLater, Covered, BaselineCovered, ScanBaselineCovered, AnswerFresh,
     vars, env, envM, store, gate, scanL, stats, watch
<1>1. ASSUME NEW f \in Files, Write(f) \/ Touch(f) \/ Remove(f) PROVE IInv'
  <2>1. Snapshots'
    BY <1>1 DEF Write, Touch, Remove, Edit
  <2>2. Locals'
    BY <1>1 DEF Write, Touch, Remove, Edit
  <2>3. RowsTrue'
    BY <1>1, SMTT(30) DEF Write, Touch, Remove, Edit
  <2>4. LastIsLater'
    BY <1>1 DEF Write, Touch, Remove, Edit
  <2>5. Covered'
    BY <1>1 DEF Write, Touch, Remove, Edit
  <2>6. BaselineCovered'
    BY <1>1 DEF Write, Touch, Remove, Edit
  <2>7. ScanBaselineCovered'
    BY <1>1 DEF Write, Touch, Remove, Edit
  <2>8. AnswerFresh'
    BY <1>1 DEF Write, Touch, Remove, Edit
  <2> QED
    BY <2>1, <2>2, <2>3, <2>4, <2>5, <2>6, <2>7, <2>8
<1>2. CASE TtlExpires
  BY <1>2 DEF TtlExpires
<1>3. CASE CooldownOver
  BY <1>3 DEF CooldownOver
<1>4. CASE ReadCall
  BY <1>4 DEF ReadCall, Take
<1>5. CASE RescanCall
  BY <1>5 DEF RescanCall, Take
<1>6. CASE ScanCached
  BY <1>6 DEF ScanCached
<1>7. CASE ScanWalk
  BY <1>7 DEF ScanWalk
<1>8. CASE ScanCommit
  <2>1. (Snapshots /\ Locals /\ RowsTrue /\ LastIsLater /\ Covered)'
    BY <1>8 DEF ScanCommit, Commit
  <2>2. (BaselineCovered /\ ScanBaselineCovered)'
    BY <1>8 DEF ScanCommit, Commit
  <2>3. AnswerFresh'
    <3>1. ASSUME pc' = "answer" PROVE walk = fpClean /\ fpClean # NULL
      <4>1. fpDirty' = (walk # fpClean) /\ walk \in Snapshot
        BY <1>8 DEF ScanCommit, Commit
      <4>2. ~fpDirty'
        BY <1>8, <3>1 DEF ScanCommit
      <4>3. walk = fpClean
        BY <4>1, <4>2
      <4> QED
        BY <4>1, <4>3
    <3>2. ASSUME pc' = "answer", NEW f \in Present \ (touched \cup racing) PROVE Match(f)
      <4>1. walk[f] = disk[f].t
        BY <1>8 DEF ScanCommit
      <4> QED
        BY <3>1, <3>2, <4>1
    <3> QED
      BY <1>8, <3>2 DEF ScanCommit, Commit
  <2> QED
    BY <2>1, <2>2, <2>3
<1>9. CASE List
  BY <1>9 DEF List
<1>10. CASE ListFails
  BY <1>10 DEF ListFails, Fault, Failed
<1>11. CASE FlushFails
  BY <1>11 DEF FlushFails, AtFlush, Fault, Failed
<1>12. CASE FpWalk
  BY <1>12 DEF FpWalk
<1>13. CASE Read
  <2>1. (Snapshots /\ Locals)'
    BY <1>13 DEF Read
  <2>2. (RowsTrue /\ LastIsLater)'
    BY <1>13 DEF Read
  <2>3. Covered'
    <3> DEFINE new == [f |-> hashed.f, row |-> [sha |-> hashed.sha,
                                                   doc |-> disk[hashed.f].c, t |-> fp[hashed.f]]]
    <3>1. pend' = pend \cup {new}
      BY <1>13 DEF Read
    <3>2. new.f = hashed.f
      OBVIOUS
    <3> HIDE DEF new
    <3>3. ASSUME NEW f \in Files, Settled(f) PROVE Held(f)'
      BY <1>13, <3>1, <3>2, <3>3 DEF Read
    <3> QED
      BY <1>13, <3>3 DEF Read
  <2>4. (BaselineCovered /\ ScanBaselineCovered /\ AnswerFresh)'
    BY <1>13 DEF Read
  <2> QED
    BY <2>1, <2>2, <2>3, <2>4
<1>14. CASE Vanish
  BY <1>14 DEF Vanish, StatEqual
<1>15. CASE Flush
  <2>1. \A f \in Files : \/ rows'[f] = rows[f] /\ (\A p \in pend : p.f # f)
                      \/ \E p \in pend : p.f = f /\ rows'[f] = p.row
    BY <1>15 DEF Flush, AtFlush, Upserted
  <2>2. (Snapshots /\ Locals)'
    BY <1>15 DEF Flush, AtFlush, Upserted
  <2>3. RowsTrue'
    <3>1. ASSUME NEW f \in Files PROVE Truthful(rows'[f], disk[f])
      <4>1. CASE rows'[f] = rows[f]
        BY <4>1
      <4>2. CASE \E p \in pend : p.f = f /\ rows'[f] = p.row
        BY <4>2
      <4> QED
        BY <2>1, <4>1, <4>2
    <3>2. ASSUME NEW f \in refresh, disk[f] # NULL, fp[f] = disk[f].t
          PROVE  rows'[f].doc = disk[f].c
      <4>1. Scanning /\ f \in Files
        BY <1>15 DEF AtFlush, Flush
      <4>2. CASE rows'[f] = rows[f]
        BY <3>2, <4>1, <4>2
      <4>3. CASE \E p \in pend : p.f = f /\ rows'[f] = p.row
        BY <3>2, <4>1, <4>3
      <4> QED
        BY <2>1, <4>1, <4>2, <4>3
    <3> QED
      BY <1>15, <3>1, <3>2 DEF Flush, AtFlush
  <2>4. \A f \in Present : Settled(f) => Match(f)' \/ f \in todo
    BY <1>15, <2>1 DEF Flush, AtFlush
  <2>5. LastIsLater'
    BY <1>15 DEF Flush, AtFlush
  <2>6. Covered'
    BY <1>15, <2>1, <2>4 DEF Flush, AtFlush
  <2>7. BaselineCovered'
    BY <1>15, <2>1, <2>4 DEF Flush, AtFlush
  <2>8. ScanBaselineCovered'
    BY <1>15, <2>1, <2>4, SMTT(30) DEF Flush, AtFlush
  <2>9. AnswerFresh'
    BY <1>15 DEF Flush, AtFlush
  <2> QED
    BY <2>1, <2>2, <2>3, <2>4, <2>5, <2>6, <2>7, <2>8, <2>9
<1>16. CASE Finish
  <2>1. Snapshots'
    BY <1>16 DEF Finish, AtFinish, Purged, Refreshed, Gone
  <2>2. Locals'
    BY <1>16 DEF Finish, AtFinish, Purged, Refreshed, Gone
  <2>3. RowsTrue'
    BY <1>16 DEF Finish, AtFinish, Purged, Refreshed, Gone
  <2>4. LastIsLater'
    BY <1>16 DEF Finish, AtFinish, Purged, Refreshed, Gone
  <2>5. Covered'
    <3>1. ASSUME NEW f \in Files, Settled(f), disk[f] = NULL PROVE rows'[f] = NULL
      BY <1>16, <3>1 DEF Finish, AtFinish, Purged, Refreshed, Gone
    <3>2. ASSUME NEW f \in Files, Settled(f), disk[f] # NULL
          PROVE  rows'[f] # NULL /\ rows'[f].doc = disk[f].c
      <4>1. f \in seen /\ Match(f)
        BY <1>16, <3>2 DEF Finish, AtFinish, Purged, Refreshed, Gone
      <4>2. rows'[f] = rows[f] \/ rows'[f] = [rows[f] EXCEPT !.t = fp[f]]
        BY <1>16, <4>1 DEF Finish, AtFinish, Purged, Refreshed, Gone
      <4>3. rows[f] # NULL /\ rows[f] \in Row /\ rows[f].doc = disk[f].c
        BY <3>2, <4>1
      <4>4. CASE rows'[f] = rows[f]
        BY <4>3, <4>4
      <4>5. CASE rows'[f] = [rows[f] EXCEPT !.t = fp[f]]
        <5>1. rows'[f] \in [sha : Nat, doc : Nat, t : Nat \cup {NULL}]
          BY <1>16, <4>3, <4>5 DEF Finish, AtFinish, Purged, Refreshed, Gone
        <5> QED
          BY <4>3, <4>5, <5>1
      <4> QED
        BY <4>2, <4>4, <4>5
    <3> QED
      BY <1>16, <3>1, <3>2 DEF Finish, AtFinish, Purged, Refreshed, Gone
  <2>6. BaselineCovered'
    BY <1>16, SMTT(30) DEF Finish, AtFinish, Purged, Refreshed, Gone
  <2>7. ScanBaselineCovered'
    BY <1>16 DEF Finish, AtFinish, Purged, Refreshed, Gone
  <2>8. AnswerFresh'
    BY <1>16 DEF Finish, AtFinish, Purged, Refreshed, Gone
  <2> QED
    BY <2>1, <2>2, <2>3, <2>4, <2>5, <2>6, <2>7, <2>8
<1>17. ASSUME NEW f \in Files, Skip(f) PROVE IInv'
  BY <1>17 DEF Skip, StatEqual
<1>18. ASSUME NEW f \in Files, Hash(f) PROVE IInv'
  BY <1>18 DEF Hash, StatEqual
<1>19. CASE Rebuild
  BY <1>19 DEF Rebuild
<1>20. CASE Parse
  BY <1>20 DEF Parse, Fault, SyncScope
<1>21. CASE SyncFns
  <2>1. (Snapshots /\ Locals /\ RowsTrue /\ LastIsLater /\ Covered)'
    BY <1>21 DEF SyncFns, Fault, Synced
  <2>2. (BaselineCovered /\ ScanBaselineCovered /\ AnswerFresh)'
    BY <1>21 DEF SyncFns, Fault, Synced
  <2> QED
    BY <2>1, <2>2
<1>22. CASE Mark
  <2>1. (Snapshots /\ Locals /\ RowsTrue /\ LastIsLater /\ Covered)'
    BY <1>22 DEF Mark
  <2>2. (BaselineCovered /\ ScanBaselineCovered /\ AnswerFresh)'
    BY <1>22 DEF Mark
  <2> QED
    BY <2>1, <2>2
<1>23. CASE Answer
  BY <1>23 DEF Answer
<1>24. CASE WatchWalk
  BY <1>24 DEF WatchWalk
<1>25. CASE WatchCommit
  BY <1>25 DEF WatchCommit, Commit
<1>26. CASE WatchGate
  BY <1>26 DEF WatchGate, Take
<1>27. CASE PeerRescan
  <2>1. (Snapshots /\ Locals /\ RowsTrue /\ LastIsLater /\ Covered)'
    BY <1>27, SMTT(30) DEF PeerRescan, Rescanned
  <2>2. (BaselineCovered /\ ScanBaselineCovered /\ AnswerFresh)'
    BY <1>27 DEF PeerRescan, Rescanned
  <2> QED
    BY <2>1, <2>2
<1>28. CASE UNCHANGED vars
  BY <1>28
<1>29. CASE FinishFails
  <2>1. /\ UNCHANGED <<disk, clock, touched, racing, late, who, gate, walk, scanL, wpc, wfp>>
        /\ pc = "file" /\ todo = {} /\ pend = {} /\ pc' = "answer" /\ via' = "failed"
    BY <1>29 DEF FinishFails, AtFinish, Failed
  <2>2. ASSUME NEW f \in Files
        PROVE  \/ rows'[f] = rows[f]
               \/ f \notin seen /\ rows'[f] = NULL
               \/ f \in refresh /\ rows'[f] = [rows[f] EXCEPT !.t = fp[f]]
    BY <1>29 DEF FinishFails, Purged, Refreshed, Gone
  <2>3. (Snapshots /\ Locals /\ LastIsLater /\ Covered /\ AnswerFresh)'
    BY <2>1
  <2>4. ASSUME NEW f \in refresh
        PROVE  /\ rows[f] # NULL /\ rows[f] \in [sha : Nat, doc : Nat, t : Nat \cup {NULL}]
               /\ fp[f] \in Nat
               /\ [rows[f] EXCEPT !.t = fp[f]] \in [sha : Nat, doc : Nat, t : Nat \cup {NULL}]
    BY <2>1
  <2>5. ASSUME NEW f \in Files PROVE Truthful(rows'[f], disk[f])
    <3>1. CASE rows'[f] = rows[f] \/ rows'[f] = NULL
      BY <3>1
    <3>2. CASE f \in refresh /\ rows'[f] = [rows[f] EXCEPT !.t = fp[f]]
      BY <2>1, <2>4, <3>2
    <3> QED
      BY <2>2, <3>1, <3>2
  <2>6. RowsTrue'
    BY <2>1, <2>5
  <2>7. ASSUME NEW f \in Present, Match(f), Settled(f) PROVE Match(f)'
    <3>1. f \in seen
      BY <2>1, <2>7
    <3>2. CASE rows'[f] = rows[f]
      BY <2>1, <2>7, <3>2
    <3>3. CASE f \in refresh /\ rows'[f] = [rows[f] EXCEPT !.t = fp[f]]
      BY <2>1, <2>4, <2>7, <3>3
    <3> QED
      BY <2>2, <3>1, <3>2, <3>3
  <2>8. BaselineCovered'
    BY <2>1, <2>7
  <2>9. ScanBaselineCovered'
    BY <2>1, <2>7
  <2> QED
    BY <2>3, <2>6, <2>8, <2>9
<1>30. CASE RebuildFails
  BY <1>30 DEF RebuildFails, Failed, Fault
<1> QED
  BY <1>1, <1>2, <1>3, <1>4, <1>5, <1>6, <1>7, <1>8, <1>9, <1>10, <1>11, <1>12,
     <1>13, <1>14, <1>15, <1>16, <1>17, <1>18, <1>19, <1>20, <1>21, <1>22, <1>23,
     <1>24, <1>25, <1>26, <1>27, <1>28, <1>29, <1>30
     DEF Next, Environment, Passing, Rescan, Working, Watching

LEMMA Initial == Init => IInv
<1> SUFFICES ASSUME Init PROVE IInv
  OBVIOUS
<1> USE DEF Init
<1>1. DataTypes
  BY DEF DataTypes
<1>2. FlagTypes /\ PlaceTypes
  BY DEF FlagTypes, PlaceTypes
<1>3. Snapshots /\ Locals
  BY DEF Snapshots, Locals
<1>4. RowsTrue /\ LastIsLater
  BY DEF RowsTrue, LastIsLater
<1>5. Covered
  BY DEF Covered
<1>6. BaselineCovered /\ ScanBaselineCovered /\ AnswerFresh
  BY DEF BaselineCovered, ScanBaselineCovered, AnswerFresh
<1> QED
  BY <1>1, <1>2, <1>3, <1>4, <1>5, <1>6 DEF IInv, TypeOK

\* Every slot, row and local keeps its type, whatever the edits and failures.
THEOREM FreshnessTyped == Spec => []TypeOK
<1>1. IInv => TypeOK
  BY DEF IInv
<1> QED
  BY <1>1, Initial, Inductive, PTL DEF Spec

\* A clean verdict hides no stale row, but of a file edited last during a rescan.
THEOREM BaselineSafe == Spec => []BaselineCovered
<1>1. IInv => BaselineCovered
  BY DEF IInv
<1> QED
  BY <1>1, Initial, Inductive, PTL DEF Spec

\* Not even of that one without a watcher, when a scan preceded the mark.
THEOREM ScanBaselineSafe == Spec => []ScanBaselineCovered
<1>1. IInv => ScanBaselineCovered
  BY DEF IInv
<1> QED
  BY <1>1, Initial, Inductive, PTL DEF Spec

\* An answer that follows a walk or a rescan of its own serves all earlier edits.
THEOREM AnswersFresh == Spec => []AnswerFresh
<1>1. IInv => AnswerFresh
  BY DEF IInv
<1> QED
  BY <1>1, Initial, Inductive, PTL DEF Spec

-----------------------------------------------------------------------------
(***************************************************************************)
(* The graph and the function index follow the rows: content never comes   *)
(* back, so a row that embeds the file as it is was read before the sync   *)
(* that parsed it.                                                         *)
(***************************************************************************)
Calm == fails = 0 /\ ~peered

Embedded(f) == disk[f] # NULL /\ rows[f] # NULL /\ rows[f].doc = disk[f].c

\* What the function index holds of f once the sync in progress is through.
FnsOf(f) == IF pc = "fns" /\ f \in DOMAIN parsed THEN parsed[f] ELSE fns[f]

Unparsed(f) == f \in chg /\ (Scanning \/ pc = "graph")

StructureFollows ==
  Calm =>
    /\ \A p \in pend : p.f \in chg
    /\ pc \in {"graph", "parse"} => \A f \in del : rows[f] = NULL
    /\ \A f \in Files : Embedded(f) =>
         /\ Unparsed(f) \/ graphOf = NULL \/ graphOf[f] = disk[f].c
         /\ Unparsed(f) \/ (f \in chg /\ pc = "parse") \/ FnsOf(f) = disk[f].c

LEMMA StructureInitial == Init => StructureFollows
<1> SUFFICES ASSUME Init PROVE StructureFollows
  OBVIOUS
<1>1. pend = {} /\ graphOf = NULL /\ pc \in {"list", "idle"}
  BY DEF Init
<1>2. \A f \in Files : Embedded(f) => fns[f] = disk[f].c
  BY DEF Init, Embedded
<1> QED
  BY <1>1, <1>2 DEF StructureFollows, FnsOf, Unparsed

LEMMA StructureInductive ==
  IInv /\ StructureFollows /\ [Next]_vars => StructureFollows'
<1> SUFFICES ASSUME IInv, StructureFollows, [Next]_vars, Calm' PROVE StructureFollows'
  BY DEF StructureFollows
<1> USE DEF IInv, TypeOK, DataTypes, PlaceTypes, Locals, StructureFollows, Calm,
            Embedded, FnsOf, Unparsed, vars, env, envM, store, gate, scanL, stats, watch
<1>0. Calm
  BY DEF Next, Environment, Passing, Working, Rescan, Watching, Write, Touch, Remove,
         Edit, PeerRescan, TtlExpires, CooldownOver, ReadCall, RescanCall, Take,
         ScanCached, ScanWalk, ScanCommit, List, FpWalk, Read, Vanish, Flush, Finish,
         Skip, Hash, ListFails, FlushFails, FinishFails, Fault, Failed, Rebuild,
         RebuildFails, Parse, SyncFns,
         Mark, Answer, WatchWalk, WatchCommit, WatchGate
<1>1. ASSUME NEW f \in Files, Write(f) \/ Touch(f) \/ Remove(f) PROVE StructureFollows'
  <2>1. \A g \in Files : Embedded(g)' => Embedded(g) /\ disk'[g].c = disk[g].c
    BY <1>1 DEF Write, Touch, Remove, Edit
  <2>2. UNCHANGED <<rows, fns, graphOf, pc, pend, chg, del, parsed>>
    BY <1>1 DEF Write, Touch, Remove, Edit
  <2> QED
    BY <1>0, <2>1, <2>2
<1>2. CASE \/ TtlExpires \/ CooldownOver \/ ReadCall \/ RescanCall \/ ScanCached
           \/ ScanWalk \/ ScanCommit \/ WatchWalk \/ WatchCommit \/ WatchGate
  <2>1. UNCHANGED <<disk, rows, fns, graphOf, pend, chg, del, parsed>>
    BY <1>2 DEF TtlExpires, CooldownOver, ReadCall, RescanCall, Take, ScanCached,
                ScanWalk, ScanCommit, WatchWalk, WatchCommit, WatchGate
  <2>2. \/ pc' = pc
        \/ /\ pc \in {"idle", "scan", "commit"}
           /\ pc' \in {"scan", "commit", "list", "answer"}
    BY <1>2 DEF TtlExpires, CooldownOver, ReadCall, RescanCall, Take, ScanCached,
                ScanWalk, ScanCommit, WatchWalk, WatchCommit, WatchGate
  <2> QED
    BY <1>0, <2>1, <2>2
<1>3. CASE List \/ FpWalk \/ Vanish \/ ListFails \/ FlushFails \/ Mark
  <2>1. UNCHANGED <<disk, rows, fns, graphOf, parsed>>
    BY <1>3 DEF List, FpWalk, Vanish, ListFails, FlushFails, Failed, Mark
  <2>2. /\ pc \in {"list", "fp", "file", "read", "mark"}
        /\ pc' \in {"fp", "file", "answer"}
        /\ Scanning => pc' = "file" /\ chg' = chg
        /\ \A p \in pend' : p \in pend /\ chg' = chg
    BY <1>0, <1>3 DEF List, FpWalk, Vanish, ListFails, FlushFails, Failed, Fault, Mark
  <2> QED
    BY <1>0, <2>1, <2>2
<1>4. ASSUME NEW f \in Files, Skip(f) \/ Hash(f) PROVE StructureFollows'
  <2>1. UNCHANGED <<disk, rows, fns, graphOf, parsed, pend, chg, del>>
    BY <1>4 DEF Skip, Hash
  <2>2. pc = "file" /\ pc' \in {"file", "read"}
    BY <1>4 DEF Skip, Hash
  <2> QED
    BY <1>0, <2>1, <2>2
<1>5. CASE Read
  <2>1. UNCHANGED <<disk, rows, fns, graphOf, parsed, del>>
    BY <1>5 DEF Read
  <2>2. /\ pc = "read" /\ pc' \in {"file", "flush"} /\ chg \subseteq chg'
        /\ \A p \in pend' : p \in pend \/ p.f \in chg'
    BY <1>5 DEF Read
  <2> QED
    BY <1>0, <2>1, <2>2
<1>6. CASE Flush
  <2>1. UNCHANGED <<disk, fns, graphOf, parsed, chg, del>>
    BY <1>6 DEF Flush
  <2>2. pc \in {"file", "flush"} /\ pc' = "file" /\ pend' = {}
    BY <1>6 DEF Flush, AtFlush
  <2>3. \A g \in Files \ chg : rows'[g] = rows[g]
    BY <1>0, <1>6 DEF Flush, Upserted
  <2> QED
    BY <1>0, <2>1, <2>2, <2>3
<1>7. CASE Finish
  <2>1. UNCHANGED <<disk, fns, graphOf, parsed, chg, pend>>
    BY <1>7 DEF Finish, AtFinish, Purged, Refreshed, Gone
  <2>2. pc = "file" /\ (pc' = "graph" \/ (pc' = "mark" /\ chg = {}))
    BY <1>7 DEF Finish, AtFinish, Purged, Refreshed, Gone
  <2>3. \A g \in Files : rows'[g] # NULL => rows[g] # NULL /\ rows'[g].doc = rows[g].doc
    BY <1>7 DEF Finish, AtFinish, Purged, Refreshed, Gone
  <2>4. \A g \in del' : rows'[g] = NULL
    BY <1>7 DEF Finish, AtFinish, Purged, Refreshed, Gone
  <2> QED
    BY <1>0, <2>1, <2>2, <2>3, <2>4
<1>8. CASE Rebuild
  <2>1. UNCHANGED <<disk, rows, fns, parsed, chg, del, pend>>
    BY <1>8 DEF Rebuild
  <2>2. pc = "graph" /\ pc' = "parse" /\ graphOf' = [g \in Files |-> Content(disk[g])]
    BY <1>8 DEF Rebuild
  <2> QED
    BY <1>0, <2>1, <2>2
<1>9. CASE Parse
  <2>1. /\ UNCHANGED <<disk, rows, fns, graphOf, chg, del, pend>>
        /\ pc = "parse" /\ pc' = "fns"
        /\ parsed' = [g \in SyncScope \cup del |->
                        IF g \in SyncScope THEN Content(disk[g]) ELSE NULL]
    BY <1>0, <1>9 DEF Parse, Fault
  <2>2. chg \subseteq SyncScope
    BY DEF SyncScope
  <2>3. \A g \in Files : Embedded(g) => FnsOf(g)' = disk[g].c
    BY <1>0, <2>1, <2>2
  <2> QED
    BY <1>0, <2>1, <2>3
<1>10. CASE SyncFns
  <2>1. /\ UNCHANGED <<disk, rows, graphOf, parsed, chg, del, pend>>
        /\ pc = "fns" /\ pc' = "mark"
        /\ fns' = Synced(DOMAIN parsed)
    BY <1>0, <1>10 DEF SyncFns, Fault
  <2>2. \A g \in Files : FnsOf(g)' = FnsOf(g)
    BY <2>1 DEF Synced
  <2> QED
    BY <1>0, <2>1, <2>2
<1>11. CASE Answer
  <2>1. /\ UNCHANGED <<disk, rows, fns>> /\ pend' = {}
        /\ pc = "answer" /\ pc' = "idle"
        /\ graphOf' = graphOf \/ graphOf' = [g \in Files |-> Content(disk[g])]
    BY <1>11 DEF Answer
  <2> QED
    BY <1>0, <2>1
<1>12. CASE UNCHANGED vars
  BY <1>0, <1>12
<1>13. ~PeerRescan /\ ~FinishFails /\ ~RebuildFails
  BY <1>0 DEF PeerRescan, FinishFails, RebuildFails, Fault
<1> QED
  BY <1>1, <1>2, <1>3, <1>4, <1>5, <1>6, <1>7, <1>8, <1>9, <1>10, <1>11, <1>12, <1>13
     DEF Next, Environment, Passing, Working, Rescan, Watching

\* As long as nothing failed and no other process rescanned the store, the graph and
\* the function index behind a fresh answer describe the files as they are
\* (server._sync_chain: the graph is rebuilt before sync_functions parses).
THEOREM StructureSafe == Spec => []StructureFresh
<1>1. IInv /\ StructureFollows => StructureFresh
  <2> SUFFICES ASSUME IInv, StructureFollows, Calm, pc = "answer",
                      via \in {"clean", "rescan"},
                      NEW f \in Present \ (touched \cup racing)
               PROVE  /\ graphOf # NULL => graphOf[f] = Content(disk[f])
                      /\ fns[f] = Content(disk[f])
    BY DEF StructureFresh, Calm
  <2>1. Embedded(f)
    BY DEF IInv, AnswerFresh, Embedded
  <2> QED
    BY <2>1 DEF StructureFollows, FnsOf, Unparsed, Embedded
<1> QED
  BY <1>1, Initial, Inductive, StructureInitial, StructureInductive, PTL DEF Spec

\* No step drops the row of a file that is there and was not edited in this call.
THEOREM PurgeSafe == Spec => PurgesOnlyVanished
<1> DEFINE Kept == \A f \in Files : rows[f] # NULL /\ rows'[f] = NULL
                                    => disk[f] = NULL \/ f \in touched
<1>1. IInv /\ [Next]_vars => [Kept]_vars
  <2> SUFFICES ASSUME IInv, [Next]_vars PROVE Kept \/ UNCHANGED vars
    OBVIOUS
  <2> USE DEF IInv, TypeOK, DataTypes, PlaceTypes, Locals, Covered, vars, store
  <2>1. CASE Finish
    BY <2>1 DEF Finish, AtFinish, Purged, Refreshed, Gone
  <2>2. CASE Flush
    BY <2>2 DEF Flush, AtFlush, Upserted
  <2>3. CASE PeerRescan
    BY <2>3 DEF PeerRescan, Rescanned
  <2>4. CASE UNCHANGED rows
    BY <2>4
  <2>6. CASE FinishFails
    BY <2>6 DEF FinishFails, AtFinish, Purged, Refreshed, Gone
  <2>5. ASSUME ~Finish, ~FinishFails, ~Flush, ~PeerRescan, Next PROVE UNCHANGED rows
    BY <2>5
       DEF Next, Environment, Passing, Rescan, Working, Watching, Write, Touch, Remove, Edit,
           TtlExpires, CooldownOver, ReadCall, RescanCall, Take, ScanCached, ScanWalk,
           ScanCommit, List, ListFails, FlushFails, Failed, FpWalk, Skip, Hash, Read,
           Vanish, Rebuild, RebuildFails, Parse, SyncFns, Mark, Answer, WatchWalk,
           WatchCommit, WatchGate
  <2> QED
    BY <2>1, <2>2, <2>3, <2>4, <2>5, <2>6
<1> QED
  BY <1>1, Initial, Inductive, PTL DEF Spec, PurgesOnlyVanished
==============================================================================
