------------------------------ MODULE Freshness ------------------------------
(***************************************************************************)
(* The freshness machinery of one neuronav server: the stat gate           *)
(* (navindex.stat_scan / stat_mark_synced), the sha-gated incremental      *)
(* rescan (navindex._rescan_locked), the graph rebuild and function sync   *)
(* that follow it (server._sync_chain, graph.sync_functions), the gate     *)
(* every read tool enters through (server._auto_rescan), the explicit      *)
(* rescan tool, and the polling watcher.  Files are edited at any moment.  *)
(*                                                                         *)
(* A file's content is a number and so is its stat stamp (mtime_ns, size); *)
(* every edit draws a fresh stamp.  _SCOPE_LOCK serialises everything but  *)
(* the watcher's poll, so one program counter serves all its holders.      *)
(***************************************************************************)
EXTENDS Naturals, FiniteSets

CONSTANTS
  Files,      \* the indexable paths
  MaxEdits,   \* bound on the edits the environment makes
  MaxFails,   \* bound on failed embeds, builds, store accesses and lock waits
  Batch,      \* navstore.UPSERT_BATCH: pending rows that force a flush
  Watcher,    \* watch_interval_s > 0: the polling thread runs
  Peer,       \* another neuronav process rescans the same store, once
  NULL        \* no file, no row, no baseline

ASSUME FreshnessAssumption ==
  /\ IsFiniteSet(Files)
  /\ MaxEdits \in Nat /\ MaxFails \in Nat /\ Batch \in Nat \ {0}
  /\ {Watcher, Peer} \subseteq BOOLEAN
  /\ NULL \notin Nat
  /\ NULL \notin [c : Nat, t : Nat]
  /\ NULL \notin [sha : Nat, doc : Nat, t : Nat \cup {NULL}]
  /\ NULL \notin [Files -> Nat \cup {NULL}]

VARIABLES
  disk,       \* the worktree: path -> [c, t], or NULL
  clock,      \* edits so far; the last stamp drawn
  touched,    \* history: files edited since the call in progress began
  racing,     \* history: files whose last edit landed while a rescan ran
  peered,     \* history: another process has rescanned the store
  late,       \* history: the last mark had no scan to record and walked after its rescan
  rows,       \* the file collection: path -> [sha, doc, t], or NULL
  fns,        \* the function collection: path -> content parsed, or NULL
  marker,     \* the fns.dirty file exists
  graphOf,    \* graph._graph: path -> content parsed; NULL before a build
  fpClean, fpLast, fpDirty, fpRecent,   \* the stat-gate slots; fpRecent: TTL runs
  degraded,   \* _BOOT_DEGRADED is set: read tools answer guidance
  cooldown,   \* _rescan_failed_at is set and younger than RESCAN_COOLDOWN_S
  fails,      \* failures so far
  pc, who,    \* the holder of _SCOPE_LOCK: where it is, and which entry point
  via,        \* how the call being answered got its verdict
  walk,       \* the fingerprint stat_scan holds before it commits it
  fp, todo, seen, pend, refresh, hashed,   \* locals of _rescan_locked
  chg, del,   \* stats["changed"], stats["deleted_paths"]
  parsed,     \* what sync_functions parsed, path -> content
  wpc, wfp    \* the watcher: where it is, the walk it has not committed

env   == <<disk, clock, touched, racing, peered, late>>
envM  == <<disk, clock, touched, racing, peered>>
store == <<rows, fns, marker>>
gate  == <<fpClean, fpLast, fpDirty, fpRecent>>
scanL == <<fp, todo, seen, pend, refresh, hashed>>
stats == <<chg, del>>
watch == <<wpc, wfp>>
vars  == <<env, store, graphOf, gate, degraded, cooldown, fails, pc, who, via, walk,
           scanL, stats, parsed, watch>>

Stamp(d)   == IF d = NULL THEN NULL ELSE d.t
Content(d) == IF d = NULL THEN NULL ELSE d.c
\* A walk of the whole tree: every file's stamp (stat_fingerprint), and every
\* file's content (Graph.build parses them all).
Stamps   == [f \in Files |-> Stamp(disk[f])]
Contents == [f \in Files |-> Content(disk[f])]
Present  == {f \in Files : disk[f] # NULL}

\* The row of f describes the file as it is now.
Match(f) == IF disk[f] = NULL THEN rows[f] = NULL
            ELSE rows[f] # NULL /\ rows[f].doc = disk[f].c
-----------------------------------------------------------------------------
(***************************************************************************)
(* The environment: edits, time, and the other process.                    *)
(***************************************************************************)
Indexing == {"fp", "file", "read", "flush", "graph", "parse", "fns", "mark"}

Edit(f, d) ==
  /\ clock < MaxEdits
  /\ clock' = clock + 1
  /\ disk' = [disk EXCEPT ![f] = d]
  /\ touched' = IF pc = "idle" THEN {} ELSE touched \cup {f}
  /\ racing' = IF pc \in Indexing THEN racing \cup {f} ELSE racing \ {f}
  /\ UNCHANGED <<peered, late, store, graphOf, gate, degraded, cooldown, fails, pc, who,
                 via, walk, scanL, stats, parsed, watch>>

Write(f)  == Edit(f, [c |-> clock + 1, t |-> clock + 1])
Touch(f)  == disk[f] # NULL /\ Edit(f, [c |-> disk[f].c, t |-> clock + 1])
Remove(f) == disk[f] # NULL /\ Edit(f, NULL)

\* STAT_TTL_S runs out.
TtlExpires ==
  /\ fpRecent
  /\ fpRecent' = FALSE
  /\ UNCHANGED <<env, store, graphOf, fpClean, fpLast, fpDirty, degraded, cooldown, fails,
                 pc, who, via, walk, scanL, stats, parsed, watch>>

\* RESCAN_COOLDOWN_S runs out.
CooldownOver ==
  /\ cooldown
  /\ cooldown' = FALSE
  /\ UNCHANGED <<env, store, graphOf, gate, degraded, fails, pc, who, via, walk, scanL,
                 stats, parsed, watch>>

\* The row the sha gate leaves for a file it can read, given the row it had.
Rescanned(old, d) ==
  IF old # NULL /\ old.sha = d.c THEN [old EXCEPT !.t = d.t]
  ELSE [sha |-> d.c, doc |-> d.c, t |-> d.t]

\* Another process rescans under the store's write lock, then syncs functions.
PeerRescan ==
  /\ Peer /\ ~peered
  /\ pc \notin {"fp", "file", "read", "flush"}
  /\ Present # {}
  /\ LET gone == {f \in Files : rows[f] # NULL /\ disk[f] = NULL}
         new  == {f \in Present : rows[f] = NULL \/ rows[f].sha # disk[f].c}
     IN /\ gone \cup new # {}
        /\ rows' = [f \in Files |-> IF disk[f] = NULL THEN NULL
                                    ELSE Rescanned(rows[f], disk[f])]
        /\ fns' = [f \in Files |-> IF f \in gone THEN NULL
                                   ELSE IF f \in new \/ (marker /\ new = {})
                                        THEN Content(disk[f]) ELSE fns[f]]
        /\ marker' = FALSE
  /\ peered' = TRUE
  /\ UNCHANGED <<disk, clock, touched, racing, late, graphOf, gate, degraded, cooldown,
                 fails, pc, who, via, walk, scanL, stats, parsed, watch>>
-----------------------------------------------------------------------------
(***************************************************************************)
(* The callers: each takes _SCOPE_LOCK and holds it until it has answered. *)
(***************************************************************************)
Take(w, at) ==
  /\ pc = "idle"
  /\ who' = w
  /\ pc' = at
  /\ via' = IF at = "answer" THEN "cooldown" ELSE "none"
  /\ UNCHANGED <<env, store, graphOf, gate, degraded, cooldown, fails, walk, scanL,
                 stats, parsed>>

\* A read tool of the boot project: _route(""), then _auto_rescan.
ReadCall ==
  /\ ~degraded
  /\ Take("read", IF cooldown THEN "answer" ELSE "scan")
  /\ UNCHANGED watch

\* The explicit rescan tool goes straight to the bounded rescan.
RescanCall == Take("tool", "list") /\ UNCHANGED watch

\* stat_scan inside the TTL: the cached verdict.
ScanCached ==
  /\ pc = "scan" /\ fpRecent
  /\ pc' = IF fpDirty THEN "list" ELSE "answer"
  /\ via' = "ttl"
  /\ UNCHANGED <<env, store, graphOf, gate, degraded, cooldown, fails, who, walk, scanL,
                 stats, parsed, watch>>

\* stat_scan past the TTL: the walk runs outside _fp_lock ...
ScanWalk ==
  /\ pc = "scan" /\ ~fpRecent
  /\ walk' = Stamps
  /\ pc' = "commit"
  /\ UNCHANGED <<env, store, graphOf, gate, degraded, cooldown, fails, who, via, scanL,
                 stats, parsed, watch>>


\* A mutant: the verdict compares with the last walk, not with the clean baseline.
CommitAgainstLast(w) ==
  /\ fpLast' = w
  /\ fpRecent' = TRUE
  /\ fpDirty' = (w # fpLast)
  /\ UNCHANGED fpClean

\* ... and its fingerprint and verdict are stored under it.
Commit(w) ==
  /\ fpLast' = w
  /\ fpRecent' = TRUE
  /\ fpDirty' = (w # fpClean)
  /\ UNCHANGED fpClean

ScanCommit ==
  /\ pc = "commit"
  /\ Commit(walk)
  /\ pc' = IF fpDirty' THEN "list" ELSE "answer"
  /\ via' = "clean"
  /\ UNCHANGED <<env, store, graphOf, degraded, cooldown, fails, who, walk, scanL, stats,
                 parsed, watch>>


\* A mutant: a rescan that raised marks the baseline like one that succeeded.
FailedMarked ==
  /\ pc' = "answer"
  /\ via' = "failed"
  /\ cooldown' = (cooldown \/ who \in {"read", "watch"})
  /\ degraded' = (degraded \/ who = "boot")
  /\ fpClean' = fpLast
  /\ fpDirty' = FALSE
  /\ UNCHANGED <<env, graphOf, fpLast, fpRecent, who, walk, parsed, watch>>

\* The rescan or the build raised: the gate swallows it and starts the cooldown, the
\* tool reports it, the boot serves guidance (or, for most errors, nothing, which is
\* less).  The baseline stays where it was.
Failed ==
  /\ pc' = "answer"
  /\ via' = "failed"
  /\ cooldown' = (cooldown \/ who \in {"read", "watch"})
  /\ degraded' = (degraded \/ who = "boot")
  /\ UNCHANGED <<env, graphOf, gate, who, walk, parsed, watch>>

Fault == fails < MaxFails /\ fails' = fails + 1
-----------------------------------------------------------------------------
(***************************************************************************)
(* The rescan, under the store's write lock.                               *)
(***************************************************************************)
List ==
  /\ pc = "list" /\ Present # {}
  /\ todo' = Present
  /\ seen' = {} /\ pend' = {} /\ refresh' = {} /\ chg' = {} /\ del' = {}
  /\ pc' = "fp"
  /\ UNCHANGED <<env, store, graphOf, gate, degraded, cooldown, fails, who, via, walk, fp,
                 hashed, parsed, watch>>

\* A walk that found no file, or a lock wait that ran out.
ListFails ==
  /\ pc = "list"
  /\ \/ Present = {} /\ UNCHANGED fails
     \/ Fault
  /\ Failed
  /\ UNCHANGED <<store, scanL, stats>>


FpWalk ==
  /\ pc = "fp"
  /\ fp' = Stamps
  /\ pc' = "file"
  /\ UNCHANGED <<env, store, graphOf, gate, degraded, cooldown, fails, who, via, walk, todo,
                 seen, pend, refresh, hashed, stats, parsed, watch>>


\* A mutant: any file that has a row passes the stat gate.
StatEqualAny(f) == rows[f] # NULL /\ fp[f] # NULL

StatEqual(f) == rows[f] # NULL /\ fp[f] # NULL /\ rows[f].t = fp[f]


\* A mutant: a file the stat gate skips is not marked as seen.
SkipUnseen(f) ==
  /\ pc = "file" /\ f \in todo /\ StatEqual(f)
  /\ todo' = todo \ {f}
  /\ UNCHANGED <<env, store, graphOf, gate, degraded, cooldown, fails, pc, who, via, walk,
                 fp, seen, pend, refresh, hashed, stats, parsed, watch>>

\* The stored stats equal the walked ones: the sha still holds.
Skip(f) ==
  /\ pc = "file" /\ f \in todo /\ StatEqual(f)
  /\ todo' = todo \ {f}
  /\ seen' = seen \cup {f}
  /\ UNCHANGED <<env, store, graphOf, gate, degraded, cooldown, fails, pc, who, via, walk,
                 fp, pend, refresh, hashed, stats, parsed, watch>>

\* sha256_of: unchanged bytes refresh the stored stats, others go on to the read.
Hash(f) ==
  /\ pc = "file" /\ f \in todo /\ ~StatEqual(f) /\ disk[f] # NULL
  /\ todo' = todo \ {f}
  /\ seen' = seen \cup {f}
  /\ IF rows[f] # NULL /\ rows[f].sha = disk[f].c
     THEN /\ refresh' = IF fp[f] = NULL THEN refresh ELSE refresh \cup {f}
          /\ UNCHANGED <<hashed, pc>>
     ELSE /\ hashed' = [f |-> f, sha |-> disk[f].c]
          /\ pc' = "read"
          /\ UNCHANGED refresh
  /\ UNCHANGED <<env, store, graphOf, gate, degraded, cooldown, fails, who, via, walk, fp,
                 pend, stats, parsed, watch>>

\* _read_text, a second open of the file: the bytes may have moved on.
Read ==
  /\ pc = "read" /\ disk[hashed.f] # NULL
  /\ pend' = pend \cup {[f |-> hashed.f,
                         row |-> [sha |-> hashed.sha, doc |-> disk[hashed.f].c,
                                  t |-> fp[hashed.f]]]}
  /\ chg' = chg \cup {hashed.f}
  /\ pc' = IF Cardinality(pend') >= Batch THEN "flush" ELSE "file"
  /\ hashed' = NULL
  /\ UNCHANGED <<env, store, graphOf, gate, degraded, cooldown, fails, who, via, walk,
                 fp, todo, seen, refresh, del, parsed, watch>>

\* OSError: listed, gone by its hash or its read; the purge will take it.
Vanish ==
  /\ \/ /\ pc = "file"
        /\ \E f \in todo : /\ disk[f] = NULL /\ ~StatEqual(f)
                           /\ todo' = todo \ {f} /\ UNCHANGED seen
     \/ /\ pc = "read" /\ disk[hashed.f] = NULL
        /\ seen' = seen \ {hashed.f} /\ UNCHANGED todo
  /\ pc' = "file"
  /\ UNCHANGED <<env, store, graphOf, gate, degraded, cooldown, fails, who, via, walk, fp,
                 pend, refresh, hashed, stats, parsed, watch>>

AtFlush == pc = "flush" \/ (pc = "file" /\ todo = {} /\ pend # {})

Upserted(f) == IF \E p \in pend : p.f = f THEN (CHOOSE p \in pend : p.f = f).row
               ELSE rows[f]

Flush ==
  /\ AtFlush
  /\ rows' = [f \in Files |-> Upserted(f)]
  /\ pend' = {}
  /\ pc' = "file"
  /\ UNCHANGED <<env, fns, marker, graphOf, gate, degraded, cooldown, fails, who, via, walk,
                 fp, todo, seen, refresh, hashed, stats, parsed, watch>>

\* The embed of a batch fails: earlier batches of this rescan stay written.
FlushFails == AtFlush /\ Fault /\ Failed /\ UNCHANGED <<store, scanL, stats>>

Gone == {f \in Files : rows[f] # NULL /\ f \notin seen}
Refreshed == [f \in Files |-> IF f \in refresh THEN [rows[f] EXCEPT !.t = fp[f]]
                              ELSE rows[f]]
Purged == [f \in Files |-> IF f \in Gone THEN NULL ELSE Refreshed[f]]

AtFinish == pc = "file" /\ todo = {} /\ pend = {}

\* The fingerprint refresh and the purge; the sync runs only if a row moved, or
\* for the explicit tool and the boot.
Finish ==
  /\ AtFinish
  /\ del' = Gone /\ rows' = Purged
  /\ pc' = IF who \in {"tool", "boot"} \/ chg \cup del' # {} THEN "graph" ELSE "mark"
  /\ UNCHANGED <<env, fns, marker, graphOf, gate, degraded, cooldown, fails, who, via, walk,
                 scanL, chg, parsed, watch>>

\* The refresh, the purge or the write of the built marker raises.
FinishFails ==
  /\ AtFinish /\ Fault /\ Failed
  /\ rows' \in {rows, Refreshed, Purged}
  /\ UNCHANGED <<fns, marker, scanL, stats>>
-----------------------------------------------------------------------------
(***************************************************************************)
(* _sync_chain: the graph, then the functions; then the new baseline.      *)
(***************************************************************************)

\* A mutant: get_graph() keeps the singleton it has.
RebuildOnce ==
  /\ pc = "graph"
  /\ graphOf' = IF graphOf = NULL THEN Contents ELSE graphOf
  /\ pc' = "parse"
  /\ UNCHANGED <<env, store, gate, degraded, cooldown, fails, who, via, walk, scanL, stats,
                 parsed, watch>>

Rebuild ==
  /\ pc = "graph"
  /\ graphOf' = Contents
  /\ pc' = "parse"
  /\ UNCHANGED <<env, store, gate, degraded, cooldown, fails, who, via, walk, scanL, stats,
                 parsed, watch>>

\* A build that raises keeps the graph there was.
RebuildFails == pc = "graph" /\ Fault /\ Failed /\ UNCHANGED <<store, scanL, stats>>

\* The files whose functions a sync parses: those that changed; all the graph
\* holds when none did and the marker stands or the collection is empty.
SyncScope == IF chg = {} /\ (marker \/ \A f \in Files : fns[f] = NULL)
             THEN {f \in Files : graphOf[f] # NULL} ELSE chg

\* The parse and cache-read phase, outside the lock.  A read that fails here
\* raises before the try that writes the marker.
Parse ==
  /\ pc = "parse"
  /\ \/ /\ parsed' = [f \in SyncScope \cup del |->
                        IF f \in SyncScope THEN Content(disk[f]) ELSE NULL]
        /\ pc' = "fns" /\ UNCHANGED fails
     \/ Fault /\ pc' = "mark" /\ UNCHANGED parsed
  /\ UNCHANGED <<env, store, graphOf, gate, degraded, cooldown, who, via, walk, scanL,
                 stats, watch>>

Synced(done) == [f \in Files |-> IF f \in done THEN parsed[f] ELSE fns[f]]

\* Purges and upserts under the lock; an embed that fails part way leaves the
\* marker, and _sync_chain goes on.
SyncFns ==
  /\ pc = "fns"
  /\ \/ /\ fns' = Synced(DOMAIN parsed)
        /\ marker' = FALSE /\ UNCHANGED fails
     \/ /\ Fault
        /\ \E done \in SUBSET DOMAIN parsed : fns' = Synced(done)
        /\ marker' = TRUE
  /\ pc' = "mark"
  /\ UNCHANGED <<env, rows, graphOf, gate, degraded, cooldown, who, via, walk, scanL, stats,
                 parsed, watch>>


\* A mutant: the mark always walks the tree afresh.
MarkFresh ==
  /\ pc = "mark"
  /\ fpLast' = Stamps
  /\ fpClean' = fpLast'
  /\ fpDirty' = FALSE
  /\ fpRecent' = TRUE
  /\ late' = (fpLast = NULL)
  /\ cooldown' = (cooldown /\ who = "tool")
  /\ degraded' = FALSE
  /\ via' = "rescan"
  /\ pc' = "answer"
  /\ UNCHANGED <<envM, store, graphOf, fails, who, walk, scanL, stats, parsed, watch>>

\* stat_mark_synced: the last walk becomes the baseline, a fresh one if none.
Mark ==
  /\ pc = "mark"
  /\ fpLast' = IF fpLast = NULL THEN Stamps ELSE fpLast
  /\ fpClean' = fpLast'
  /\ fpDirty' = FALSE
  /\ fpRecent' = TRUE
  /\ late' = (fpLast = NULL)
  /\ cooldown' = (cooldown /\ who = "tool")
  /\ degraded' = FALSE
  /\ via' = "rescan"
  /\ pc' = "answer"
  /\ UNCHANGED <<envM, store, graphOf, fails, who, walk, scanL, stats, parsed, watch>>

\* The tool reads the singletons and answers; a missing graph is built now.  The
\* boot opens its gate, and starts the watcher if its rescan went through.
Answer ==
  /\ pc = "answer"
  /\ graphOf' = IF who = "read" /\ graphOf = NULL THEN Contents ELSE graphOf
  /\ wpc' \in IF who = "watch" THEN {"sleep"}
              ELSE IF Watcher /\ who = "boot" /\ via = "rescan" THEN {"off", "sleep"}
              ELSE {wpc}
  /\ pc' = "idle" /\ who' = "none" /\ via' = "none" /\ touched' = {}
  /\ walk' = NULL /\ fp' = NULL /\ todo' = {} /\ seen' = {} /\ pend' = {}
  /\ refresh' = {} /\ hashed' = NULL /\ chg' = {} /\ del' = {} /\ parsed' = NULL
  /\ UNCHANGED <<disk, clock, racing, peered, late, store, gate, degraded, cooldown,
                 fails, wfp>>
-----------------------------------------------------------------------------
(***************************************************************************)
(* The watcher: its poll takes _fp_lock only, never _SCOPE_LOCK.           *)
(***************************************************************************)
WatchWalk ==
  /\ wpc = "sleep"
  /\ wfp' = Stamps
  /\ wpc' = "commit"
  /\ UNCHANGED <<env, store, graphOf, gate, degraded, cooldown, fails, pc, who, via, walk,
                 scanL, stats, parsed>>

WatchCommit ==
  /\ wpc = "commit"
  /\ Commit(wfp)
  /\ wpc' = IF fpDirty' THEN "gate" ELSE "sleep"
  /\ wfp' = NULL
  /\ UNCHANGED <<env, store, graphOf, degraded, cooldown, fails, pc, who, via, walk,
                 scanL, stats, parsed>>

\* _wait_quiet keeps its walks to itself; then the shared gate.
WatchGate ==
  /\ wpc = "gate"
  /\ Take("watch", IF cooldown THEN "answer" ELSE "scan")
  /\ wpc' = "gated"
  /\ UNCHANGED wfp
-----------------------------------------------------------------------------
\* The process starts over a store another session left, complete or not: the
\* boot rescans it, or, with the embedder down, serves it warm and unscanned.
Init ==
  /\ disk \in [Files -> {NULL, [c |-> 0, t |-> 0]}]
  /\ Present # {}
  /\ clock = 0 /\ touched = {} /\ racing = {} /\ peered = FALSE /\ late = FALSE
  /\ \E had \in SUBSET Files :
       /\ rows = [f \in Files |-> IF f \in had THEN [sha |-> 0, doc |-> 0, t |-> 0]
                                  ELSE NULL]
       /\ fns = [f \in Files |-> IF f \in had THEN 0 ELSE NULL]
       /\ \/ pc = "list" /\ who = "boot"
          \/ pc = "idle" /\ who = "none" /\ had # {}
  /\ marker = FALSE /\ graphOf = NULL
  /\ fpClean = NULL /\ fpLast = NULL /\ fpDirty = FALSE /\ fpRecent = FALSE
  /\ degraded = FALSE /\ cooldown = FALSE /\ fails = 0
  /\ via = "none"
  /\ walk = NULL /\ fp = NULL /\ todo = {} /\ seen = {} /\ pend = {}
  /\ refresh = {} /\ hashed = NULL /\ chg = {} /\ del = {} /\ parsed = NULL
  /\ wpc = "off" /\ wfp = NULL

Environment == \/ \E f \in Files : Write(f) \/ Touch(f) \/ Remove(f)
               \/ PeerRescan

Passing == TtlExpires \/ CooldownOver

Rescan == \/ List \/ FpWalk \/ Read \/ Vanish \/ Flush \/ Finish
          \/ \E f \in Files : Skip(f) \/ Hash(f)

Working == \/ ScanCached \/ ScanWalk \/ ScanCommit
           \/ Rescan \/ ListFails \/ FlushFails \/ FinishFails
           \/ Rebuild \/ RebuildFails \/ Parse \/ SyncFns \/ Mark \/ Answer

Watching == WatchWalk \/ WatchCommit \/ WatchGate

Next == \/ Environment \/ Passing
        \/ ReadCall \/ RescanCall \/ Working
        \/ Watching

Spec == Init /\ [][Next]_vars

\* The thread that holds the lock runs, time passes, the watcher polls, and a
\* client goes on reading.
Fairness ==
  /\ WF_vars(Working) /\ WF_vars(TtlExpires) /\ WF_vars(CooldownOver)
  /\ WF_vars(ReadCall) /\ WF_vars(Watching)

FairSpec == Spec /\ Fairness
-----------------------------------------------------------------------------
Snapshot == [Files -> Nat \cup {NULL}]

DataTypes ==
  /\ disk \in [Files -> {NULL} \cup [c : 0..clock, t : 0..clock]]
  /\ clock \in 0..MaxEdits /\ fails \in 0..MaxFails
  /\ rows \in [Files -> {NULL} \cup [sha : 0..clock, doc : 0..clock,
                                     t : 0..clock \cup {NULL}]]
  /\ fns \in Snapshot
  /\ {graphOf, fpClean, fpLast, walk, fp, wfp} \subseteq Snapshot \cup {NULL}

FlagTypes ==
  /\ peered \in BOOLEAN /\ late \in BOOLEAN /\ marker \in BOOLEAN
  /\ degraded \in BOOLEAN /\ cooldown \in BOOLEAN
  /\ fpDirty \in BOOLEAN /\ fpRecent \in BOOLEAN

PlaceTypes ==
  /\ {touched, racing, todo, seen, refresh, chg, del} \subseteq SUBSET Files
  /\ via \in {"none", "cooldown", "ttl", "clean", "failed", "rescan"}
  /\ who \in {"none", "boot", "read", "tool", "watch"}
  /\ pc \in {"idle", "scan", "commit", "list", "answer"} \cup Indexing
  /\ wpc \in {"off", "sleep", "commit", "gate", "gated"}

\* Every slot, row and local variable holds what the code can put there.
TypeOK == DataTypes /\ FlagTypes /\ PlaceTypes

\* A clean verdict never hides a stale row, except of a file whose last edit
\* landed while a rescan was running: wherever the baseline carries the stamp of
\* the file on disk, the store holds the embedding of that file.
BaselineCovered ==
  fpClean # NULL =>
    \A f \in Present \ racing : fpClean[f] = Stamp(disk[f]) => Match(f)

\* Without a watcher, a baseline taken from an earlier scan has no exception:
\* "edits that land mid-rescan then re-dirty on the next scan and converge".
ScanBaselineCovered ==
  fpClean # NULL /\ wpc = "off" /\ ~late =>
    \A f \in Present : fpClean[f] = Stamp(disk[f]) => Match(f)

\* "External edits show up in the next tool call": an answer that follows a walk or a
\* rescan of its own call serves every edit made before the call.  Behind a walk alone,
\* files last edited while a rescan ran are left out, as in BaselineCovered.
AnswerFresh ==
  pc = "answer" =>
    /\ via = "clean"  => \A f \in Present \ (touched \cup racing) : Match(f)
    /\ via = "rescan" => \A f \in Files \ touched : Match(f)

\* As long as nothing failed and no other process rescanned the store, the graph
\* and the function index behind such an answer are as fresh as the vectors, but for
\* files last edited while a rescan ran.
StructureFresh ==
  pc = "answer" /\ via \in {"clean", "rescan"} /\ fails = 0 /\ ~peered =>
    \A f \in Present \ (touched \cup racing) :
      /\ graphOf # NULL => graphOf[f] = Content(disk[f])
      /\ fns[f] = Content(disk[f])

\* A rescan purges only files that are gone or that changed under it: the list,
\* the walk and the reads are separate looks at the tree.
PurgesOnlyVanished ==
  [][\A f \in Files : rows[f] # NULL /\ rows'[f] = NULL
                      => disk[f] = NULL \/ f \in touched]_vars

\* Once edits and failures stop and a client keeps reading, the store comes to
\* describe the tree, but for the files BaselineCovered leaves out.
Converges ==
  <>[](degraded \/ \A f \in Present \ racing : Match(f))
-----------------------------------------------------------------------------
(***************************************************************************)
(* What the repository says and the code does not keep: each of these is   *)
(* violated, and the behaviour TLC prints is the finding.                  *)
(***************************************************************************)

\* navindex.stat_mark_synced: the baseline is "the worktree state the last rescan
\* covered", so that edits landing mid-rescan re-dirty.  The boot's own mark walks
\* the tree after its rescan, and takes such an edit for indexed.
MidRescanRedirties ==
  fpClean # NULL => \A f \in Present : fpClean[f] = Stamp(disk[f]) => Match(f)

\* server.py, the freshness gate: a drifted worktree triggers "the sha-gated
\* rescan() + graph/fns sync before the tool answers".  When another process has
\* written the rows first, the rescan counts no change and the graph stays.
DriftSyncsGraph ==
  pc = "answer" /\ who = "read" /\ via \in {"clean", "rescan"} /\ graphOf # NULL =>
    \A f \in Present \ (touched \cup racing) : graphOf[f] = Content(disk[f])

\* server._sync_chain: "fns sync FAILED, will self-heal next rescan".  The marker
\* that asks for the healing goes when any later sync succeeds, healed or not.
MarkerGoesWhenHealed ==
  [][marker /\ ~marker' =>
       \A f \in Present \ (touched \cup racing) : fns'[f] = Content(disk[f])]_vars
=============================================================================
