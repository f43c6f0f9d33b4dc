# neuronav in TLA+

neuronav is a local code-intelligence server: one Python process that keeps a
vector index, a function index and a code graph of a checkout, answers MCP
tool calls from them, and tries never to answer from a stale index. This
directory specifies the part of it that threads, time, failures, other
processes and long sequences of calls can break: how it notices that the
worktree moved, how it brings its stores back, how it serves several checkouts
from process-wide state, how it boots, recovers and asks for consent, how its
store, its tracked base and its caches survive kills, what its graph and its
clusters may leave out, and where its graph page puts the files. TLC checks
small instances; TLAPS proves every safety property that the runs check, for
every value of the constants.

## The system

| component | source | state it keeps | operations |
|---|---|---|---|
| freshness gate | `navindex.py` 254-333, `server.py` 761-895 | the slots `_fp_clean`, `_fp_last`, `_fp_dirty`, `_fp_last_scan`; `_rescan_failed_at` | `stat_scan`, `stat_mark_synced`, `_auto_rescan`, `_watch_loop` |
| incremental rescan | `navindex.py` 369-565 | rows of the file collection: sha, embedding, stored stats | `rescan`, `_rescan_locked`, `flush` |
| function index | `graph.py` 857-1019 | the function collection, the `fns.dirty` marker | `sync_functions` |
| code graph | `graph.py` 141-586, 1105-1114, `extractors/gdscript.py` | edges, roots, referenced names; the singleton `_graph` | `scan_file`, `wire_tscn`, `_reachable`, `_dead_rows`, `impact`, `get_graph` |
| scope routing | `navconfig.py` 346-421, `server.py` 477-532, 693-758 | the config globals, `_FP_CACHE`, `_GRAPH_CACHE`, `_SCOPE_LOCK` | `_route`, `config_scope`, `_first_contact`, `_heal_routed_drift` |
| boot | `server.py` 123-138, 378-445, 1078-1225 | `_BOOT_READY`, `_BOOT_FATAL`, `_BOOT_DEGRADED`, the completed-build marker | `_boot_sequence`, `_boot_recovery`, `_await_boot` |
| background bake | `serverbake.py`, `viz.py` 264-419 | `_BAKE_QUEUE`, `_BAKE_WAKE`, `_BAKE_STATE`, the baker thread | `visualize`, `_bake_loop`, `_start_baker`, `ensure_bake` |
| vector store | `navstore.py` | collections, their stamp, the write lock | `_collection`, `_check_model`, `_adopt_orphan`, `_restamp` |
| base shards | `navindex.py` 571-800 | `base/`, its staging and its predecessor, the manifest | `export_base`, `import_base` |
| predicates | `predicates.py` | `predicates.json`, sealed and fingerprinted; `g._pred` | `bind`, `_load`, `_persist` |
| onboarding | `onboard.py` | `.neuronav/`, `.gitignore`, MCP files of project and user | `scaffold`, `init`, `wire`, `global_wire` |
| clusters | `clusters.py`, `clusterpasses.py` | the list of parts while it is refined | `finalize` and its passes |
| graph page | `vizjs/` (`core`, `focus_vis`, `edges`, `events`, `panel`, `legend`, `tick`) | `focusSeeds`, `focusStack`, the filters and sliders, `pos`, `posSaved`, `compactTgt`, `compactAnim` | `applyVisibility`, `clearFocus`, `popFocus`, `applySpread`, `resetAll`, `tick` |
| memories, archrules | files of those names | one small file each | remember, evaluate |
| search, reports, layout, bench | the rest | none that outlives a call | read-only |

How they meet. Every tool call runs on a worker thread and takes `_SCOPE_LOCK`
in `_route`, because the config is a set of module globals: a call with `dir=`
rebinds them, the stat-gate slots and the graph for its own duration. Under
the lock a read tool enters `_auto_rescan`: a stat walk is compared with the
last clean baseline, a difference triggers the rescan, the rescan's changes
trigger the graph rebuild and the function sync, and the walk becomes the new
baseline. A rescan opens the store by name, checks the model it is stamped
with, heals what a kill left and, when the stamp names another space, embeds
everything again and re-stamps. A graph build ends by binding the predicate
cache. The watcher thread polls the slots *without* the lock. The boot thread
holds it while it builds, then opens `_BOOT_READY`; a degraded boot serves
guidance until a call's recovery or an explicit rescan ends it. The baker
thread takes the lock for a whole bake. Another process (the `nav` command
line, a second session) shares the disk: store, base, caches, MCP files.

What is hard. The tree moves at any moment, and one rescan looks at it four
times (list, stat walk, hash, read). The baseline is one of several walks that
were in flight. A rescan that fails has written some batches. The verdict is
cached for a few seconds, the failure for a minute. Slots, graph and rows of
one store live in three places (loaded, cached, set aside) and on disk. Names
are swapped in two steps that a kill may separate. A file is read, merged and
replaced while others do the same. The passes over the clusters each keep one
promise and break another's. On the page a focus is eased into over 450 ms, in
which every handler may run, and it is left by putting back a layout saved at
its entry, whatever has moved the files since.

## Modules

| module | what it is |
|---|---|
| `Freshness` | one store: gate, rescan, sync, watcher, edits, failures, another process |
| `Routing` | several stores: `config_scope`, the caches, the heal, the watcher across scopes |
| `BakeQueue`, `BakeFifo` | `visualize` calls, the baker, the boot and other tools on the scope lock; and what the queue promises: first in, first out, one bake at a time |
| `BootGate` | boot thread, gate, guidance, recovery and rollback, explicit rescan, first contact, over a disk that survives kills |
| `Store` | opens, model check, orphan adoption, re-stamp and re-embedding by several processes |
| `BaseShards`, `AtomicBase` | staged export, commit and rollback, heal, import; and what an export promises: one step, to a newer generation |
| `Predicates` | the derived-predicate cache of several processes and releases |
| `Onboard` | scaffolds and merges of MCP files, beside a user |
| `CallGraph` | call sites to edges, roots, reachability, dead rows, impact |
| `Clusters` | the passes of `finalize` |
| `Page` | focus, filters, sliders and layout of the graph page, and the frames of its ease |
| `FreshnessProofs`, `RoutingProofs`, `BakeQueueProofs`, `BootGateProofs`, `StoreProofs`, `BaseShardsProofs` | inductive invariants and theorems of the module they are named for |
| `UnlockedProofs` | the same for what several processes write without a lock: `Predicates` and `Onboard` |
| `SnapshotProofs` | the same for what is made of a snapshot: `CallGraph`, `Page` and `Clusters` |
| `MC*.tla`, `MC*.cfg` | instances TLC finds correct |
| `FindScope.cfg`, `PageReset.cfg` | instances on which TLC refutes a sentence of the repository |

### Freshness

`disk[f]` is a file's content and stat stamp `[c, t]`; every edit draws a new
number, so equal stamps mean the same file, as the code assumes of
`(mtime_ns, size)`. `rows[f]` is a row of the file collection: `sha` the
hashed content, `doc` the embedded one (two opens of the file, so they may
differ), `t` the stored stats. `fpClean` to `fpRecent` are the slots.
`_SCOPE_LOCK` lets one thread in at a time, so one `pc` serves the boot, the
read tools, the rescan tool and the watcher's gate; `who` says whose turn it
is. `List`, `FpWalk`, `Skip`, `Hash`, `Read`, `Vanish`, `Flush`, `Finish` are
the steps of `_rescan_locked` in its order; files are taken in any order, which
covers the order of the code. `Rebuild`, `Parse`, `SyncFns` are `_sync_chain`;
`Mark` is `stat_mark_synced`. `Edit` may come between any two of them. Whatever
can raise has a failing twin: the listing and the lock, a flush, the refresh,
purge and marker at the end (`FinishFails`), the build, which stands outside the
`try` of `_sync_chain` (`RebuildFails`), and the two phases of the function sync.
`touched`, `racing`, `peered` and `late` are history: they only appear in
properties.

### Routing

A worktree is a version, a fingerprint is the version of a named worktree, a
rescan is one step (Freshness takes it apart). What is kept is where the slots
and the graph go: `Route` sets them aside, `Bind` loads the cached ones of the
incoming store or, for a store never seen, leaves the slots as they are;
`Leave` caches what the scope built and rebinds the config, `Restore` brings
the slots and the graph back. A rescan that raises may have written some batches
or all (`RescanFails`), a build that raises leaves new rows under the old graph
(`SyncFails`), the `SystemExit` of a lock wait passes the heal (`HealAborts`);
`GaveUp` says which gate swallows what. `unbuilt` is history: the stores whose
rows moved in a call that raised, with no build since. The watcher's `WatchWalk` walks the bound tree
and `WatchCommit` writes to the loaded slots, which need not belong together.

### BakeQueue

`Call` to `StartBaker` are the steps of `visualize`, `Woken` to `Record` those
of `_bake_loop`; the event is cleared in a step of its own. The lock and the
bound config are shared with the boot thread and with any other tool. Configs
break on disk between the acknowledgement and the bake, and the `SystemExit`
that `config_scope` then raises ends the thread (`BakerDies`).

### BootGate

A process is bound to the plain defaults or to the project's config file,
which may name the store the defaults would use or one of its own (`home`).
Per store the disk has a directory, rows and the completed-build marker; all
of it, the config file and the consent given outlive the process, which may be
killed anywhere (`boot = "down"`). A call waits for the gate, takes the lock
and then searches, rescans or routes; in guidance it first tries
`_boot_recovery`, whose `use_config`, graph parse, rescan and rollback are
separate steps. `down` is the set of configs under which the backend refuses
or the walk is empty, and may change at any time.

### Store

A vector space is a model and a shape. `objs` are collections by id, `name`
the two names of the disk. `Open`, `Check`, `Probe`, `Adopt`, `Restamp`, `Copy`
and the two steps of the swap are those of `_collection`; a process that lost
the race re-opens without the adoption (`via = "raced"`). `Embed` and the
stamp at the end are those of the rescan. A handle whose collection was dropped
is dead, and the reader retries. That chroma raises on a rename to a taken
name is an assumption taken from how the code handles it.

### BaseShards

A directory is a generation, its shards (a row per file) and a manifest.
`HealReap`, `HealRestore`, `StageBegin` to `Validated`, the two renames, the
rollback and the clean-up are the steps of `export_base`, a removal may leave
any part of a directory behind (`Parts`), and an exception between the first
rename and the note of it, or one in the rollback itself, leaves the live name
free like a kill does (`CommitInterrupted`); `ImportBegin`, `ImportReads` and the
upserts are `import_base`. `AtomicBase` has the collection's rows and one
`base`; the refinement maps it to the live base or, where there is none, to the
one set aside, which is what the next export recovers (`Recovered`).

### Predicates

A worktree is the surface the fingerprint digests and the rest, whose facts
the derivation also uses; a release is a number. `Stamp`, `Load`, `Derive`,
`Replace` are `bind`, its load and its persist; `Damage` makes the seal fail.

### Onboard

`Plan` is the list of legs of a command: file, entry name, entry. `Read`,
`Refused`, `Replaces`, `Stop` are a merge, `Open`, `Write`, `Ignore`, `Loads`
a scaffold. `sum` is what all writers of a file together say; `clobbered` and
`raced` mark the two races the code has and the properties leave out.

### CallGraph

`Scan` adds one site, whatever its author wrote: a call by bare name, on a
receiver of known or unknown class, a handler connected by reference or by
string, a handler wired by a scene, a load, or an access to a member or signal.
`Targets` is the edges it becomes, `KeptAlive` and `Refers` what it keeps alive
without one. A connected string resolves to a handler of its own class only;
how the name is spelt (`spelt`) decides whether it is kept alive anyhow: as a
wildcard if it begins with `_on_`, as a name if it has more than three letters.
Edges may end in the `VAR:` and `SIGNAL:` pseudo-keys (`Node`), which the walk and
`impact` enter like methods. `Seeds` are the sets of keys a symbol may resolve
to: methods by name, all methods of a class, methods by part of their name, the
first ten of them. `Pop` is a turn of the worklist of `_reachable`. `Impact` is the
loop of `impact` as a function. `Runs` and `Lookup` say what GDScript does with
a site, independently of the scan.

### Clusters

A part is a bag of paths, because a path can be listed twice, and the size
field, because it can be stale. Similarities, ties and directories are data:
where they decide, every outcome the code could reach is a step. Passes that
regroup by `unit_of` take whole welds wherever the members are (`Groups`), the
routing passes take what is in the part (`FollowMajority`) or the pack's own
(`Family`).

### Page

`page` is one record: the seeds and the back-stack, the filters and sliders,
where the files stand (`pos`), what is put back when the focus is left
(`posSaved`), and the targets and the running ease. A handler writes its
fields and then runs `applyVisibility`, which is the composition the code has:
seed the inst tier, compact, collapse. A place is named by what it was
computed from: a layout by its spread, a ball by all its arguments
(`CompactBall`), so that a ball computed too early, from a stale filter or from
a layout that is no longer whole differs from the right one without any
geometry. `EaseFrame` and `EaseEnd` are the frames of `tick`; they come between
any two handlers. The query, the card and the camera are not state here, so a
`Clear` may come where there is no focus, as it may in the code with a query or
a card open.

## What the runs check

| run | question | properties |
|---|---|---|
| `freshness` | can any interleaving make the gate answer clean over a stale store? | `BaselineCovered`, `ScanBaselineCovered`, `AnswerFresh`, `StructureFresh`, `PurgesOnlyVanished` |
| `freshness_live` | does a failed rescan get repaired? | `Converges` |
| `routing` | does a call read its own store, and leave nothing behind? | `GraphOfBound`, `AnswerFresh`, `GraphFollowsRows`, `BootBaselineKept` |
| `routing_watch` | can the watcher's poll across scopes hide drift, or stop healing? | `BaselineCovered`, `WatcherHeals` |
| `bake` | is every accepted bake done, once, in order, where it was asked for? | `NoLostWake`, `ScopeRestored`, `BakedWhereAsked`, `ConsentKept`, `ImplementsFifo`, `Drains` |
| `boot` | is anything indexed without consent, or guidance ended over nothing; does the page stand where its state says? | `BootNeedsConsent`, `BoundWhole`, `ServesAnIndex`, `GuidanceEndsBuilt`, `OverviewClean`, `SettledExact`, `InstSeededOnce` |
| `store` | does a kill or a race lose rows, or serve the wrong ones? | `NothingLost`, `NoTruncatedOpen`, `CheckedModel`, `OneSpaceUntorn` |
| `base` | is an export atomic, wherever it ends, and does an import take only its own vectors? | `LiveWhole`, `CommittedKept`, `ImportsOwnModel`, `ImplementsAtomicBase` |
| `predicates` | whose predicates does a process serve; do concurrent commands keep each other's entries, and pin only what loads? | `ServesOwnGraph`, `WritersAddUp`, `PinnedConfigLoads` |
| `analyses` | is code that runs ever offered as dead, is impact exact, does each file end in one cluster near the cap? | `RunsIsNotDead`, `ImpactExact`, `OneCluster`, `CapBound` |
| `find_scope` | is the predicate cache what the walk returns? (no) | `ServesWhatTheWalkReturns` |
| `page_reset` | does a reset return the page to its boot state? (no) | `ResetReturnsToBoot` |

Three runs hold two specifications side by side that share no state: `boot` the
boot gate and the graph page of a session, `predicates` the predicate cache and
the onboarding files, `analyses` the code graph and the clusters of a snapshot.
A behaviour is of one of them, chosen at the start (`part`).

Exceptions that are part of the properties, because the code has them:

- `BaselineCovered` leaves out files whose last edit landed while a rescan
  ran: a walk taken after that edit may become the baseline.
  `ScanBaselineCovered` says exactly when it cannot: without a watcher, when
  the baseline is an earlier scan. Both are about files that exist: the row of
  a file that was created, indexed and removed between two walks stays, since
  the tree then equals the older baseline.
- `AnswerFresh` and `StructureFresh` leave out the same files, and in `Routing`
  a store last edited between a rescan and its mark; `StructureFresh` is about a
  server nothing has failed in and no other process has rescanned for.
- `GraphFollowsRows` leaves out a store that `dir=` named though it is the boot's
  own (`aliased`), and one whose rows moved in a call that then raised, until
  the next build (`unbuilt`). The second is `server.py` 955: the rows are new,
  the graph is old, and the next rescan finds nothing changed, skips the sync
  and marks the baseline clean.
- `NoTruncatedOpen` allows the race branch of the re-stamp a collection that
  misses rows, but to a query only and beside a temp that has them all;
  `CheckedModel` allows an adopted temp another model, but then it has every
  file and one space; `OneSpaceUntorn` leaves out a re-embed cut short before
  its stamp, and after an adoption the space is the temp's.
- `RunsIsNotDead` is about call sites the scan resolves (`Resolved`): not a
  receiver whose class inherits the method, nor a connected handler that a
  subclass overrides or, named by a string, only an ancestor declares, unless
  its name is kept alive.
- `WritersAddUp` leaves out a file replaced from a document that another write
  had outdated, `PinnedConfigLoads` projects that two scaffolds met in.
- `CapBound` allows one welded unit over the cap at the end.
- `SettledExact` is about the lit files, not those an earlier ball of the same
  focus left behind (`Astray`); it takes the collapse set that the pass before
  had left, because `compactLitSet` reads it before `refreshCollapse` rebuilds
  it.

### Bounds

- `freshness`: two files, two edits, one failure, batches of one. Two files
  let one be stale while the other makes a batch or a sync happen; two edits
  let a file move twice, the second time inside a rescan. The watcher and the
  other process are explored one at a time (`OneExtra`).
- `freshness_live`: one edit and two failures: a file edited, missed, retried
  and missed again.
- `routing`: the boot store and one checkout, either of which a call may name,
  two edits, one failure. `routing_watch` has the watcher and one edit.
- `bake`: two calls in flight, three in all, one failing bake, one broken
  config. The third call meets a dead baker or one between two queue looks.
- `boot`: two calls in flight, two processes over one disk: the second finds
  what the first left when it was killed. On the page three files in a
  row, the last link an instance, so that a focus has members of level one
  and two; two depths, two spreads, two clusters, a collapse from two members,
  a back-stack of one, so that a push drops the oldest. `DirModes` holds "both"
  only: the direction enters a ball like the depth does, and with "out" beside
  it the page takes about three times as long. `page_reset` has both.
- `store`: two processes, two files, two models and two shapes, two kills,
  each followed by any config, four collections: a re-stamp holds two while the other
  process holds a third that was dropped.
- `base`: two files, two models, two shapes, three generations: a live base,
  its predecessor and the one being staged.
- `predicates`: two processes, two releases, two edits, two versions of each
  part of the worktree.
  For onboarding two commands at once, three in all, two projects, two pieces,
  one edit by the user.
- `analyses`: three classes in any extends order, one method name beside the
  entry point, spelt in any way, one member name, two sites, one class with the
  entry point (`MaxEntries`), symbols of at most three hits (`MaxHits`, so that
  some are cut off), depth two; two moves in a round of a routing pass
  (`MaxMoves`); seven files of which four are scenes of two
  packs, with one weld across the packs, a cap of four, chunks of two: small
  enough to be over the cap, and to be cut twice.

`bake`, `boot`, `store`, `base`, `predicates` and `analyses` switch the
deadlock check off: when the bound on calls, processes, generations or commands
is used up, or the analysis is done, the model stands still.

### Fairness

Weak fairness of the lock holder's steps and of the watcher: threads that can
run do. Weak fairness of the TTL and the cooldown: time passes. `Converges`
also assumes that a client goes on reading: without a watcher nothing else
calls the gate. `WatcherHeals` assumes no client, only that routed calls stop;
a routed call in progress at every tick would make `_auto_rescan` return each
time. The baker gets strong fairness because it competes for a lock that other
calls release again and again. Nothing is assumed of the boot in `Drains`. The
other modules state safety only: their processes may be killed and never come
back.

## Where the repository says otherwise

`find_scope` is a finding. `fingerprint` is called "everything the cached
predicates are a function of" (`predicates.py` 75), and the cache "what the
walk returns" (`graph.py` 387). But the tiers of the Python extractor also
depend on classes named at module scope (`dispatch_names`), which are not
digested: an edit of only those leaves the cached tiers in place.

`page_reset` is the other. `resetAll` "must return the app to its boot state
with nothing half-reset" (`panel.py` 125). It clears the focus and then calls
`applySpread(1)`, which scales the files and runs `applyVisibility`; that pass
is now leaving a focus and puts back `posSaved`, the layout of the spread at
which the focus was entered. The slider says 1, the files stand at 2, and
`applySpread(1)` is a no-op from then on.

Three more of the page, seen while reading it and left to prose: Esc after a
slider moved in focus leaves slider and layout apart in the same way; a focus
moved from one file to another leaves the first ball's members where they were
pulled, though `panel.py` 300 counts on level two and three standing at their
frozen positions (`Astray` in the model); a map header clicked within 220 ms
before Esc focuses again after it.

More sentences of the repository that the code does not keep are formulas at
the end of their modules, below the line "What the repository says and the
code does not keep". No run checks them; put one as an INVARIANT or a PROPERTY
into the module's MC configuration and TLC prints the behaviour. (`CapHolds` takes
the longest, about a minute.)

| formula | said | done |
|---|---|---|
| `Freshness.MidRescanRedirties` | edits landing mid-rescan re-dirty (`navindex.py` 323-326) | the boot's mark walks after its rescan and takes the edit for indexed |
| `Freshness.DriftSyncsGraph` | drift triggers graph and function sync (`server.py` 763-765) | not when another process indexed it first |
| `Freshness.MarkerGoesWhenHealed` | a failed function sync heals at the next rescan (`server.py` 963) | the next sync of other files removes the marker |
| `Routing.GraphFollowsEveryHeal` | a routed drift heals, "never silent staleness" (`server.py` 484-486) | a graph build that raises (`server.py` 955) leaves the old graph over new rows, and the next rescan counts no change and marks without a sync; and `dir=` naming the boot's own checkout keeps two graphs of one store, of which a heal renews one |
| `Routing.VerdictIsOwn` | each project keeps its own baseline (`navconfig.py` 349-352) | the first routed call is judged by the slots of the store before it |
| `BakeQueue.StatusTracksBaker` | any failure shows in the status resource (`serverbake.py` 146-148) | `SystemExit` kills the baker, the status says "running" |
| `BakeQueue.AckNeverWaitsForBake` | visualize answers immediately (`serverbake.py` 144-146) | it waits for the lock the bake in progress holds |
| `BootGate.FailedRecoveryRetried` | the next call retries the recovery (`server.py`) | an explicit rescan under the old config ends the guidance instead |
| `BootGate.StatusIdle` | the progress line is empty when idle (`server.py`) | a phase that ended by an exception stays |
| `Store.OpensWhole` | a truncated index is never served (`_adopt_orphan`) | the race branch re-opens without the adoption |
| `Store.UsesOwnModel` | a changed model demands a re-embed (`_check_model`) | an adopted temp is not checked |
| `Store.OneSpace` | vectors of another space are never reused (`embed_mode`) | a re-embed cut short, then a rescan under the old config |
| `BaseShards.StampTrue` | likewise | an import takes shards of the right model and another shape |
| `CallGraph.DeadIsUnreachable` | dead code is unreachable from any entry point (`server.py`) | receivers of inherited methods, overridden handlers and inherited handlers named by a string have no edge |
| `CallGraph.ImpactIsFnLevel` | the answer is fn-level (`graph.py` 511-556) | only scenes are filtered; `VAR:` and `SIGNAL:` pseudo-keys are listed and counted |
| `Clusters.CapHolds` | `PART_CAP` is a hard cap (`clusterpasses.py` 38) | the stray sweep, later, brings a whole family for one free place |

## What is proved

For any set of files, stores, processes, models, calls and any bounds. What is
assumed of the constants are the named `ASSUME`s of the modules, which TLC
evaluates on every run: `NULL` differs from every value it stands beside; sets
that are counted are finite (files, the methods of a graph, the paths to be
clustered); a batch has at least one row; a project is not one of the other
values an MCP entry may have; the limits of the clusters are naturals, a weld
has room for a file, a chunk at its minimum takes another weld without passing
the cap (`ChunkMin + WeldCap - 1 <= PartCap`), and a tiny part fits on top of
an open one (`PartSoftCap + TinyMax <= PartCap`). The constants of
`clusterpasses.py` satisfy these: 55 + 12 - 1 and 66 + 4 are at most 70.

Each component has an inductive invariant; its proof module shows that the
initial states satisfy it, that every action keeps it, and that it implies the
properties.

`FreshnessProofs`. `IInv` strengthens the type invariant by what is in flight:

- every stamp and content recorded anywhere is at most `clock`, and an edit
  draws `clock + 1`: a stamp in a slot, a row or a local can only equal that
  of a file not edited since;
- a row whose stored stats equal those of the file on disk embeds that file
  (`RowsTrue`). This needs the order walk, then hash, then read: the stats
  stored are never newer than the bytes embedded;
- during a rescan, each file not edited since it began is either still to be
  taken, pending with the right row, or covered (`Covered`); the walk the mark
  will record is older than the reads (`LastIsLater` bounds the exception);
- a second invariant, `StructureFollows`, says how far graph and function
  index are behind the rows between flush and sync.

From it the type invariant and every safety property of the run:
`FreshnessTyped`, `BaselineSafe`, `ScanBaselineSafe`, `AnswersFresh`,
`StructureSafe`, `PurgeSafe`.

`RoutingProofs`. `IInv` is kept in layers, each proved on top of the earlier
ones:

- where the call is fixes what is bound and whether anything is set aside
  (`Places`), and that the bound store has rows (`RowsThere`);
- no slot, cache entry or walk in flight, the watcher's included, records a
  version its tree has not had (`Recorded`), so an edit separates them all; a
  checkout without cached slots is recorded nowhere (`Unseen`), so inheriting
  the previous store's slots cannot give it a baseline of its own;
- a graph is kept with its store (`GraphsOwn`) and, while the boot's store is
  not aliased, rows do not overtake it but between rescan and sync, or where a
  call raised in between and nothing was built since (`Follow`, over `unbuilt`);
- a baseline equal to its tree is covered wherever it lies (`Covers`), and a
  verdict or rescan leaves rows equal to an unedited tree (`Judged`, `Synced`).

`BakeQueueProofs`. Who holds the lock at which `pc`, which store is bound for
whom, that a bake under way was accepted. From it each safety invariant of the
run and `BakeIsFifo`: every step of the queue, the event and the baker, its
death included, is a step of `BakeFifo` or leaves `queue` and `job` alone.

`BootGateProofs`. One holder of the lock, and a session that was re-bound but
not yet recovered belongs to that call (`Locks`, `Bindings`); a store that was
filled was filled for somebody who asked, by every process before this one too
(`Asked`); whoever left guidance has rows (`Index`).

`StoreProofs`. Only the lock's holder drops a collection, and a live handle is
the named one (`Locks`, `Handles`); whenever the named collection misses a
file, it is *empty* and the temp has every indexed file (`Rows`). This is why
"strictly richer" in `_adopt_orphan` is a sound test: it cannot prefer a
partial copy, nor keep a truncated original. From it `OpenIsHealed`, in which the
race branch is not left out but confined: only a query takes it, because a
rescan opens under the lock and nobody can drop what it has opened.

`OneSpaceUntorn` needs a second layer, `Spaces`, proved on top of `IInv`. Rows
are in the space of their collection's stamp except while a rescan embeds
everything again; what such a rescan has reached so far is already in the space
it will stamp (`Reembeds`), because it starts with all files to do, takes none
off the list without writing its row, and keeps the write lock to the end. The
copy that then carries the new stamp has every file. The invariant also has to
say why an adopted temp, whose stamp no open has checked, is harmless: it holds
every file (`Whole`), so the rescan that adopted it embeds nothing under that
stamp. From it `VectorsInOneSpace`, and `OpenIsChecked`: what is opened has the
model asked for, or is such a temp.

`BaseShardsProofs`. The live name is free only between the two renames or after
a kill or an interrupt there, and then the one set aside is whole and the last committed
(`Names`); what is staged copies the collection (`Staged`), whose model cannot
change while the lock is held (`Models1`). From it `BaseWhole`,
`NothingCommittedLost` and `RowsOfOwnModel`.

`ExportIsAtomic` is the refinement of `AtomicBase`. A base that steps aside or
comes back is the same base, and nothing that is reaped or left behind by a
kill is the one to recover (`OthersKeepBase`); the second rename is the
abstract export (`CommitIsExport`). For the latter the invariant grows by two
parts: a staged generation has a number above every committed one (`Numbered`),
and from the manifest to the rename the staged shards still are the
collection's rows (`Dumped`), because whatever writes rows needs the lock the
export holds.

`UnlockedProofs`, predicates. A document says what its fingerprint says unless
an edit overtook its writer (`CacheSays`), and so does a process on its way to
its payload (`OnTheWay`). From it `PredicatesTyped` and `ServedOwn`.

`UnlockedProofs`, onboarding. Between the read of an MCP file and its
replacement anybody may write it, and the properties leave that out by two
ghosts. `OnboardInv` says what holds beside them: a command in a merge is at a
leg of its plan (`Places`); a document no write has outdated still is what the
file says (`Fresh`), so replacing it adds one entry and takes none away; of
the scaffolds of a project in which no two have met, at most one is at the
config, the config is not there before it, and whoever got past it has loaded
it (`OneScaffold`). The last is what makes `PinnedConfigLoads` inductive: an
entry is pinned from a document read earlier, so that every name in a document
already has a config that loads. From it `OnboardTyped`, `OnboardAddsUp` and
`OnboardLoads`.

`SnapshotProofs`, code graph. The scan's invariant (`Scanned`) is that the
edges, roots, references and kept names of every site seen are in the graph; the worklist's (`Walked`) that what is seen and no longer queued
has its callees seen. What the program runs is a least fixed point, built by a
recursive function over the number of steps; that every stage of it stays
within what the worklist has seen, or is a root or referenced, is an induction
over that number. `RunIsKept` follows. `ImpactIsTheBall` relates two more
recursive functions, for any set of seeds: the loop of `impact`, which keeps a
frontier, a seen set and a running total, and the balls of the reference
definition. `InStep` is what they have in
common after each level: the seen set is the ball, the frontier is what the
last level added, the total is the ball's size without the seeds, and one step from the ball leads nowhere new that one step
from the frontier does not. The induction principle is a lemma (`Inductively`)
obtained from the well-foundedness of `<`: a property of numbers is passed as
the set of those that have it, since the library's own principle takes an
operator. `Chains` gives such a function its equation.

`SnapshotProofs`, clusters. `ClusterInv` has four parts: what belongs to the
pass under way (`Underway`), that each file is listed in a part or in one yet
to be cut (`AllListed`), the cap (`Capped`), and that the last pass has settled
every file it is not still to look at (`Settling`).

- A file listed twice counts twice in a size but is one file of a part. So the
  bound that survives the passes after the cap is on the *distinct* files of a
  part. A gathering takes at most one unit into a part below the cap, hence
  `PartCap + WeldCap - 1`, and a part that is at the cap takes nothing.
- The cap pass believes the size field. It may, because every pass before it
  ends by setting the sizes, and a chunk is closed at the first weld that takes
  it to `CHUNK_MIN`: `ChunkSize` bounds it by `ChunkMin + WeldCap - 1`. In its
  first round nothing is known of the parts, after it every part that is not to
  be cut is under the cap.
- Only the last pass makes counts and files agree, and `CapIsBounded` uses it:
  at the end `Count` is the number of distinct files.

`Count` is a recursion over the bag's domain that takes its elements in no
known order; `BagCount` and `BagBounds` relate it to the cardinality by
induction over subsets. `Taken` says that keeping some places of a sequence
keeps their elements (`At`), `Listing` that listing a set loses none. From the
invariant `ClustersTyped`, `FilesInOneCluster` and `CapIsBounded`.

`SnapshotProofs`, page. The page has no `IInv` of the usual shape, because a handler is
one big function; the proof follows its composition. `Ready` is what the fields
satisfy when a handler has written its own and not yet run the pass: a saved
layout is whole, and without one the files themselves are and no ease runs.
`Good` adds what the pass establishes: a layout is saved exactly in a focus,
and a settled ball is that of the present state. `PassGood` shows that
`applyVisibility` makes any `Ready` page `Good`, one lemma per handler that it
writes a `Ready` one (`Writes`), `FrameGood` that the frames keep `Good`. From
`PageGood` the three properties of the run.

Model-checked only: the liveness properties (`Converges`, `WatcherHeals`,
`Drains`), because fairness and ENABLED are out of the prover's reach, and the
two sentences that TLC refutes. No module uses a RECURSIVE operator, which
would take the prover's arithmetic away: what recurs is a recursive function or
an operator of the community modules. The models keep to operators the prover
can expand, which is why `Clusters` filters its parts by place (`At`) and not
with `SelectSeq`.

## Not modelled

- Recall, search and exploration (`recall.py`, `server_search.py`,
  `explore.py`), the structure and cluster reports, architecture rules, the
  page layout, the bench: they rank, measure or
  render what the stores hold and change nothing.
- Of the graph page: the function layer and its routing (`fn_layer*.py`), the
  map pane (`map_*.py`), pins, hover greyout, labels, wires, camera and info
  card. They draw over the state of `Page` or word it; the back-stack's camera
  pose, the query and the card are left out with them. Of the chips that hide
  files the clusters stand for the others, which join the same conjunction in
  `nodeVisible`.
- The other language extractors and `docshape.py`: parsers and text rewriting,
  one result per input. Of GDScript: path-form `extends`, autoloads, cyclic
  `extends`, the confidence tiers.
- The cluster engine before `finalize` (similarity graph, communities,
  overlays) and the labels after it; numeric or wording.
- Memories: one file each, temp and replace, under the route's lock.
- `tools/serve.py` (a static file server), `servercore.py` (registration and
  progress text), `--index` of onboarding, PageRank and the repo map.
- A file that returns to earlier bytes: every write is fresh content. Hash and
  read being two opens, a checkout back and forth inside one rescan could
  store the hash of one version with the embedding of the other.
- Two paths to one store from different configs other than the boot's own; a
  git checkout that replaces the tracked base under an export; an in-process
  import of the server without `main()`.

The modules are about state that outlives a call or is shared between threads
and processes. Most of the 36 thousand lines are elsewhere: extractors, page
drawing, evaluation tools and reports are sequential functions from input to
output, for which tests over examples say more than a model of them would.
That is why the definitions map to about an eighth of the source.
