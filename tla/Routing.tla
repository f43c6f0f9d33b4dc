------------------------------- MODULE Routing -------------------------------
(***************************************************************************)
(* One server, many checkouts: a call with dir= rebinds the process-wide   *)
(* config for its own duration (server._route, navconfig.config_scope) and *)
(* swaps, with it, the stat-gate slots and the parsed graph of the store   *)
(* it binds.  The watcher's poll takes no part in that: it walks whatever  *)
(* config is bound, and commits to whatever slots are loaded.              *)
(*                                                                         *)
(* A store's worktree is a version number, the rows on disk are the        *)
(* version they were embedded from, and a fingerprint is the version of    *)
(* one named worktree.  A rescan reads the tree at one moment here: module *)
(* Freshness is about the moments it is really made of.                    *)
(***************************************************************************)
EXTENDS Naturals

CONSTANTS
  Stores,     \* what the configs of the known checkouts resolve to
  Boot,       \* the store of the boot config
  Routable,   \* the stores a dir= argument names
  MaxEdits,   \* bound on the edits of all worktrees
  MaxFails,   \* bound on rescans and builds that raise
  Watcher,    \* watch_interval_s > 0
  NULL        \* no rows, no fingerprint, no graph, nothing cached

Prints == [of : Stores, v : Nat]
Slots0 == [clean : Prints \cup {NULL}, last : Prints \cup {NULL},
           dirty : BOOLEAN, recent : BOOLEAN]

ASSUME RoutingAssumption ==
  /\ Boot \in Stores /\ Routable \subseteq Stores
  /\ MaxEdits \in Nat /\ MaxFails \in Nat /\ Watcher \in BOOLEAN
  /\ NULL \notin Nat /\ NULL \notin Prints /\ NULL \notin Slots0
  /\ NULL \notin [slots : Slots0, graph : Prints \cup {NULL}]

VARIABLES
  tree, edits,    \* each worktree's version; edits so far
  rows,           \* the version each store's rows were embedded from, or NULL; 0 when
                  \* they are of no one version of the tree
  racing,         \* history: stores last edited between a rescan and its mark
  unbuilt,        \* history: stores whose rows moved in a call that raised before the
                  \* graph was built, and whose graph has not been built since
  aliased,        \* history: a dir= argument has named the boot's own store
  bound,          \* the store the config globals resolve to
  slots, graph,   \* _fp_clean, _fp_last, _fp_dirty, the TTL; graph._graph
  fpCache, graphCache,   \* navconfig._FP_CACHE, _GRAPH_CACHE
  saved,          \* what config_scope restores on exit; NULL outside a scope
  cooldown, fails,       \* _rescan_failed_at is young; failures so far
  pc, call, phase,       \* the holder of _SCOPE_LOCK: where, for whom, which gate
  walk, via, touched,    \* its uncommitted walk; how it got its verdict; edited since
  wpc, wfp        \* the watcher: where it is, the walk it has not committed

disk   == <<tree, edits, racing, touched>>
scope  == <<bound, fpCache, graphCache, saved, aliased>>
holder == <<call, walk>>
watch  == <<wpc, wfp>>
index  == <<rows, unbuilt>>
vars   == <<disk, index, scope, slots, graph, cooldown, fails, pc, phase, via, holder, watch>>

Fingerprint(s) == [of |-> s, v |-> tree[s]]
Fault    == fails < MaxFails /\ fails' = fails + 1

\* The call has returned: its locals are gone.
Returned == /\ pc' = "idle" /\ call' = "none" /\ phase' = "none" /\ via' = "none"
            /\ touched' = {}
-----------------------------------------------------------------------------
(***************************************************************************)
(* Edits and time.                                                         *)
(***************************************************************************)
Edit(s) ==
  /\ edits < MaxEdits
  /\ edits' = edits + 1
  /\ tree' = [tree EXCEPT ![s] = @ + 1]
  /\ racing' = IF pc \in {"sync", "mark"} /\ s = bound THEN racing \cup {s}
               ELSE racing \ {s}
  /\ touched' = IF pc = "idle" THEN {} ELSE touched \cup {s}
  /\ UNCHANGED <<index, scope, slots, graph, cooldown, fails, pc, phase, via, holder, watch>>

\* More than STAT_TTL_S passes: every walk in the slots, in use or set aside, is old.
Aged(r) == IF r = NULL THEN NULL ELSE [r EXCEPT !.recent = FALSE]

TtlExpires ==
  /\ slots' = Aged(slots)
  /\ fpCache' = [s \in Stores |-> Aged(fpCache[s])]
  /\ saved' = IF saved = NULL THEN NULL ELSE [saved EXCEPT !.slots = Aged(@)]
  /\ UNCHANGED <<disk, index, bound, graphCache, aliased, graph, cooldown, fails, pc, phase,
                 via, holder, watch>>

CooldownOver ==
  /\ cooldown
  /\ cooldown' = FALSE
  /\ UNCHANGED <<disk, index, scope, slots, graph, fails, pc, phase, via, holder, watch>>
-----------------------------------------------------------------------------
(***************************************************************************)
(* Entering and leaving a call.                                            *)
(***************************************************************************)
Take(c, at, ph) ==
  /\ pc = "idle"
  /\ call' = c /\ pc' = at /\ phase' = ph
  /\ via' = "none" /\ touched' = {}
  /\ UNCHANGED <<tree, edits, racing, index, slots, graph, cooldown, fails, walk>>

AutoGate == IF cooldown THEN "body" ELSE "scan"

\* dir="": a read tool goes to the gate, the rescan tool to the rescan.
Direct == /\ \/ Take("read", AutoGate, "auto")
             \/ Take("tool", "rescan", "tool")
          /\ UNCHANGED <<scope, watch>>

\* dir=: config_scope sets the slots and the graph aside ...
Route(c) ==
  /\ Take(c, "bind", "heal")
  /\ saved' = [slots |-> slots, graph |-> graph]
  /\ UNCHANGED <<bound, fpCache, graphCache, aliased, watch>>

\* ... a config it cannot load raises, and both are put back ...
BindFails ==
  /\ pc = "bind" /\ Fault
  /\ pc' = "restore"
  /\ UNCHANGED <<disk, index, scope, slots, graph, cooldown, phase, via, holder, watch>>

\* A mutant: the graph in memory stays when none is cached for the incoming store.
BindKeepsGraph(s) ==
  /\ pc = "bind"
  /\ bound' = s
  /\ slots' = IF fpCache[s] = NULL THEN slots ELSE fpCache[s]
  /\ graph' = IF graphCache[s] = NULL THEN graph ELSE graphCache[s]
  /\ aliased' = (aliased \/ s = Boot)
  /\ IF rows[s] = NULL THEN pc' = "rescan" /\ phase' = "first"
                       ELSE pc' = "scan" /\ phase' = "heal"
  /\ UNCHANGED <<disk, index, fpCache, graphCache, saved, cooldown, fails, via, holder, watch>>

\* ... else those cached for the incoming store come in.  A store seen for the first
\* time has no graph, and the slots of whatever was bound before.  Then _first_contact.
Bind(s) ==
  /\ pc = "bind"
  /\ bound' = s
  /\ slots' = IF fpCache[s] = NULL THEN slots ELSE fpCache[s]
  /\ graph' = graphCache[s]
  /\ aliased' = (aliased \/ s = Boot)
  /\ IF rows[s] = NULL THEN pc' = "rescan" /\ phase' = "first"
                       ELSE pc' = "scan" /\ phase' = "heal"
  /\ UNCHANGED <<disk, index, fpCache, graphCache, saved, cooldown, fails, via, holder, watch>>

\* The body reads the graph singleton, and parses one if there is none.
Body ==
  /\ pc = "body"
  /\ IF call = "read" /\ graph = NULL
     THEN graph' = Fingerprint(bound) /\ unbuilt' = unbuilt \ {bound}
     ELSE UNCHANGED <<graph, unbuilt>>
  /\ pc' = "leave"
  /\ UNCHANGED <<disk, rows, scope, slots, cooldown, fails, phase, via, holder, watch>>

\* A mutant: the graph set aside on entry is what the outgoing store keeps.
LeaveSwapsGraph ==
  /\ pc = "leave"
  /\ IF saved = NULL
     THEN /\ Returned
          /\ wpc' = IF call = "watch" THEN "sleep" ELSE wpc
          /\ UNCHANGED <<bound, fpCache, graphCache>>
     ELSE /\ fpCache' = [fpCache EXCEPT ![bound] = slots]
          /\ graphCache' = [graphCache EXCEPT ![bound] = saved.graph]
          /\ bound' = Boot
          /\ pc' = "restore" /\ UNCHANGED <<call, phase, via, touched, wpc>>
  /\ UNCHANGED <<tree, edits, racing, index, saved, aliased, slots, graph, cooldown, fails,
                 walk, wfp>>

\* A mutant: the config of the outgoing store stays bound.
LeaveKeepsConfig ==
  /\ pc = "leave"
  /\ IF saved = NULL
     THEN /\ Returned
          /\ wpc' = IF call = "watch" THEN "sleep" ELSE wpc
          /\ UNCHANGED <<bound, fpCache, graphCache>>
     ELSE /\ fpCache' = [fpCache EXCEPT ![bound] = slots]
          /\ graphCache' = [graphCache EXCEPT ![bound] = graph]
          /\ UNCHANGED bound
          /\ pc' = "restore" /\ UNCHANGED <<call, phase, via, touched, wpc>>
  /\ UNCHANGED <<tree, edits, racing, index, saved, aliased, slots, graph, cooldown, fails,
                 walk, wfp>>

\* A direct call just ends.  A routed one caches what it leaves and restores the
\* config ...
Leave ==
  /\ pc = "leave"
  /\ IF saved = NULL
     THEN /\ Returned
          /\ wpc' = IF call = "watch" THEN "sleep" ELSE wpc
          /\ UNCHANGED <<bound, fpCache, graphCache>>
     ELSE /\ fpCache' = [fpCache EXCEPT ![bound] = slots]
          /\ graphCache' = [graphCache EXCEPT ![bound] = graph]
          /\ bound' = Boot
          /\ pc' = "restore" /\ UNCHANGED <<call, phase, via, touched, wpc>>
  /\ UNCHANGED <<tree, edits, racing, index, saved, aliased, slots, graph, cooldown, fails,
                 walk, wfp>>

\* A mutant: the slots are not restored.
RestoreGraphOnly ==
  /\ pc = "restore"
  /\ graph' = saved.graph
  /\ saved' = NULL /\ Returned
  /\ UNCHANGED <<tree, edits, racing, index, bound, fpCache, graphCache, aliased, slots,
                 cooldown, fails, walk, watch>>

\* ... then the slots and the graph.
Restore ==
  /\ pc = "restore"
  /\ slots' = saved.slots /\ graph' = saved.graph
  /\ saved' = NULL /\ Returned
  /\ UNCHANGED <<tree, edits, racing, index, bound, fpCache, graphCache, aliased, cooldown,
                 fails, walk, watch>>
-----------------------------------------------------------------------------
(***************************************************************************)
(* The gate: of a direct read (_auto_rescan), of a routed call             *)
(* (_heal_routed_drift), of a first contact, and of the rescan tool.       *)
(***************************************************************************)
\* Where a call goes when the gate of its phase is done.  A routed read of the
\* boot's own store is at boot: its body enters the gate again.
Onward ==
  IF phase = "heal" /\ call = "tool" THEN pc' = "rescan" /\ phase' = "tool"
  ELSE IF phase = "heal" /\ bound = Boot THEN pc' = AutoGate /\ phase' = "auto"
  ELSE pc' = "body" /\ UNCHANGED phase

Verdict(d) == IF d THEN pc' = "rescan" /\ UNCHANGED phase ELSE Onward

ScanCached ==
  /\ pc = "scan" /\ slots.recent
  /\ via' = IF via = "none" THEN "ttl" ELSE via
  /\ Verdict(slots.dirty)
  /\ UNCHANGED <<disk, index, scope, slots, graph, cooldown, fails, holder, watch>>

ScanWalk ==
  /\ pc = "scan" /\ ~slots.recent
  /\ walk' = Fingerprint(bound)
  /\ pc' = "commit"
  /\ UNCHANGED <<disk, index, scope, slots, graph, cooldown, fails, call, phase, via, watch>>

\* A mutant: no baseline counts as no drift.
CommittedLax(fp) ==
  [slots EXCEPT !.last = fp, !.recent = TRUE,
                !.dirty = slots.clean # NULL /\ fp # slots.clean]

Committed(fp) ==
  [slots EXCEPT !.last = fp, !.recent = TRUE,
                !.dirty = slots.clean = NULL \/ fp # slots.clean]

ScanCommit ==
  /\ pc = "commit"
  /\ slots' = Committed(walk)
  /\ walk' = NULL
  /\ via' = "walk"
  /\ Verdict(slots'.dirty)
  /\ UNCHANGED <<disk, index, scope, graph, cooldown, fails, call, watch>>

\* A mutant: the rescan trusts the last walk of the gate instead of walking again.
RescanLastWalk ==
  /\ pc = "rescan"
  /\ LET seen == IF slots.last # NULL /\ slots.last.of = bound THEN slots.last.v
                 ELSE tree[bound]
     IN /\ rows' = [rows EXCEPT ![bound] = seen]
        /\ pc' = IF phase \in {"auto", "heal"} /\ rows[bound] = seen THEN "mark" ELSE "sync"
  /\ UNCHANGED <<disk, unbuilt, scope, slots, graph, cooldown, fails, phase, via, holder, watch>>

\* The auto and the heal gate sync only when rows moved.
Rescan ==
  /\ pc = "rescan"
  /\ rows' = [rows EXCEPT ![bound] = tree[bound]]
  /\ pc' = IF phase \in {"auto", "heal"} /\ rows[bound] = tree[bound] THEN "mark" ELSE "sync"
  /\ UNCHANGED <<disk, unbuilt, scope, slots, graph, cooldown, fails, phase, via, holder,
                 watch>>

Raised == via' = "failed" /\ pc' = "leave" /\ UNCHANGED <<phase, cooldown>>

\* The auto gate swallows any failure and starts the cooldown, the heal swallows an
\* Exception; a first contact and the tool raise.
GaveUp == IF phase \in {"auto", "heal"}
          THEN via' = "failed" /\ cooldown' = (cooldown \/ phase = "auto") /\ Onward
          ELSE Raised

\* A rescan that raises may have written some batches or all of them; if there were
\* any, the graph is not the one of its rows.
RescanFails ==
  /\ pc = "rescan" /\ Fault /\ GaveUp
  /\ \/ UNCHANGED index
     \/ /\ rows[bound] # tree[bound]
        /\ \E v \in {0, tree[bound]} : rows' = [rows EXCEPT ![bound] = v]
        /\ unbuilt' = unbuilt \cup {bound}
  /\ UNCHANGED <<disk, scope, slots, graph, holder, watch>>

\* The SystemExit of a lock wait passes the heal.
HealAborts ==
  /\ pc = "rescan" /\ phase = "heal" /\ Fault /\ Raised
  /\ UNCHANGED <<disk, index, scope, slots, graph, holder, watch>>

Sync ==
  /\ pc = "sync"
  /\ graph' = Fingerprint(bound)
  /\ unbuilt' = unbuilt \ {bound}
  /\ pc' = "mark"
  /\ UNCHANGED <<disk, rows, scope, slots, cooldown, fails, phase, via, holder, watch>>

\* The build raises: the rows are new by now, the graph in memory stays.
SyncFails ==
  /\ pc = "sync" /\ Fault /\ GaveUp
  /\ unbuilt' = unbuilt \cup {bound}
  /\ UNCHANGED <<disk, rows, scope, slots, graph, holder, watch>>

Mark ==
  /\ pc = "mark"
  /\ LET last == IF slots.last = NULL THEN Fingerprint(bound) ELSE slots.last
     IN slots' = [clean |-> last, last |-> last, dirty |-> FALSE, recent |-> TRUE]
  /\ cooldown' = (cooldown /\ phase # "auto")
  /\ via' = "rescan"
  /\ Onward
  /\ UNCHANGED <<disk, index, scope, graph, fails, holder, watch>>
-----------------------------------------------------------------------------
(***************************************************************************)
(* The watcher.                                                            *)
(***************************************************************************)
WatchWalk ==
  /\ wpc = "sleep"
  /\ wfp' = Fingerprint(bound) /\ wpc' = "commit"
  /\ UNCHANGED <<disk, index, scope, slots, graph, cooldown, fails, pc, phase, via, holder>>

WatchCommit ==
  /\ wpc = "commit"
  /\ slots' = Committed(wfp)
  /\ wfp' = NULL
  /\ wpc' = IF slots'.dirty THEN "test" ELSE "sleep"
  /\ UNCHANGED <<disk, index, scope, graph, cooldown, fails, pc, phase, via, holder>>

\* _auto_rescan tests _at_boot before it takes the lock ...
WatchTest ==
  /\ wpc = "test"
  /\ wpc' = IF bound = Boot THEN "gate" ELSE "sleep"
  /\ UNCHANGED <<disk, index, scope, slots, graph, cooldown, fails, pc, phase, via, holder,
                 wfp>>

\* ... and then runs like a read of the boot store that reads nothing.
WatchGate ==
  /\ wpc = "gate"
  /\ Take("watch", AutoGate, "auto")
  /\ wpc' = "gated"
  /\ UNCHANGED <<scope, wfp>>
-----------------------------------------------------------------------------
\* A server after its boot: it has rescanned and marked, or serves warm rows with the
\* embedder down.  Other checkouts are new, or hold the rows of an earlier session.
Init ==
  /\ tree = [s \in Stores |-> 1] /\ edits = 0 /\ racing = {} /\ touched = {}
  /\ unbuilt = {}
  /\ aliased = FALSE
  /\ rows \in {r \in [Stores -> {NULL, 0, 1}] : r[Boot] # NULL}
  /\ bound = Boot
  /\ \/ /\ rows[Boot] = 1
        /\ slots = [clean |-> Fingerprint(Boot), last |-> Fingerprint(Boot), dirty |-> FALSE,
                    recent |-> TRUE]
        /\ graph = Fingerprint(Boot)
        /\ wpc = IF Watcher THEN "sleep" ELSE "off"
     \/ /\ slots = [clean |-> NULL, last |-> NULL, dirty |-> FALSE, recent |-> FALSE]
        /\ graph = NULL
        /\ wpc = "off"
  /\ fpCache = [s \in Stores |-> NULL] /\ graphCache = [s \in Stores |-> NULL]
  /\ saved = NULL /\ cooldown = FALSE /\ fails = 0
  /\ pc = "idle" /\ call = "none" /\ phase = "none"
  /\ walk = NULL /\ via = "none" /\ wfp = NULL

Routed == (\E c \in {"read", "tool"} : Routable # {} /\ Route(c)) \/ BindFails
          \/ \E s \in Routable : Bind(s)

Working == \/ ScanCached \/ ScanWalk \/ ScanCommit \/ Rescan \/ RescanFails
           \/ HealAborts \/ Sync \/ SyncFails \/ Mark \/ Body \/ Leave \/ Restore

Watching == WatchWalk \/ WatchCommit \/ WatchTest \/ WatchGate

Next == \/ \E s \in Stores : Edit(s)
        \/ TtlExpires \/ CooldownOver
        \/ Direct \/ Routed \/ Working \/ Watching

Spec == Init /\ [][Next]_vars

\* The thread with the lock runs, time passes, the watcher polls.
Fairness == WF_vars(Working) /\ WF_vars(TtlExpires) /\ WF_vars(CooldownOver)
            /\ WF_vars(Watching)

FairSpec == Spec /\ Fairness
-----------------------------------------------------------------------------
\* Every slot, cache entry and local variable holds what the code can put there.
TypeOK ==
  /\ tree \in [Stores -> Nat] /\ edits \in 0..MaxEdits /\ fails \in 0..MaxFails
  /\ rows \in [Stores -> Nat \cup {NULL}] /\ bound \in Stores
  /\ racing \subseteq Stores /\ touched \subseteq Stores /\ unbuilt \subseteq Stores
  /\ slots \in Slots0 /\ {graph, walk, wfp} \subseteq Prints \cup {NULL}
  /\ fpCache \in [Stores -> Slots0 \cup {NULL}]
  /\ graphCache \in [Stores -> Prints \cup {NULL}]
  /\ saved \in [slots : Slots0, graph : Prints \cup {NULL}] \cup {NULL}
  /\ aliased \in BOOLEAN /\ cooldown \in BOOLEAN
  /\ pc \in {"idle", "bind", "scan", "commit", "rescan", "sync", "mark", "body", "leave",
             "restore"}
  /\ call \in {"none", "read", "tool", "watch"}
  /\ phase \in {"none", "first", "heal", "auto", "tool"}
  /\ via \in {"none", "ttl", "walk", "rescan", "failed"}
  /\ wpc \in {"off", "sleep", "commit", "test", "gate", "gated"}

\* A call works on the graph of the store it was routed to, and outside a scope the
\* boot's config and graph are in place: no answer is read from another checkout.
GraphOfBound ==
  /\ pc \in {"body", "leave"} => graph = NULL \/ graph.of = bound
  /\ pc = "idle" => bound = Boot /\ saved = NULL /\ (graph = NULL \/ graph.of = Boot)

\* The slots that will judge the drift of s: the loaded, the cached, the saved ones.
SlotsOf(s) == ({fpCache[s]} \ {NULL})
              \cup (IF bound = s /\ pc # "restore" THEN {slots} ELSE {})
              \cup (IF s = Boot /\ saved # NULL THEN {saved.slots} ELSE {})

\* Wherever the watcher's walks were committed and however the slots travelled: a
\* baseline that equals the tree of the store it will judge is covered by its rows, but
\* for a store last edited between a rescan and its mark.
BaselineCovered ==
  \A s \in Stores \ racing : \A r \in SlotsOf(s) :
    r.clean = Fingerprint(s) => rows[s] = tree[s]

\* A read that walked or rescanned serves every edit made before the call, routed or
\* not, but for a store last edited between a rescan and its mark.
AnswerFresh ==
  pc = "leave" /\ call = "read" /\ via \in {"walk", "rescan"}
  /\ bound \notin touched \cup racing
    => rows[bound] = tree[bound]

\* The graph a read answers from is never older than the rows it answers from, however
\* calls alternate, with two exceptions: a dir= argument has named the boot's own store,
\* or a call raised after rows had moved and no sync or first parse has followed.
GraphFollowsRows ==
  pc = "leave" /\ call = "read" /\ ~aliased /\ bound \notin unbuilt =>
    graph = NULL \/ graph.v >= rows[bound]

BootSlots == IF saved = NULL THEN slots ELSE saved.slots

\* config_scope restores "exact state": the boot's baseline moves only when a call on
\* the boot's own behalf marks it, whatever a routed call does to the loaded slots.
BootBaselineKept ==
  [][BootSlots'.clean # BootSlots.clean => pc = "mark" /\ saved = NULL]_vars

\* If routed calls stop, the watcher alone brings the boot store up to its tree, though
\* it may have walked other trees and written to other slots, unless that tree's last
\* edit fell between a rescan and its mark.
WatcherHeals ==
  <>[](saved = NULL) => <>[](rows[Boot] = tree[Boot] \/ Boot \in racing \/ wpc = "off")
-----------------------------------------------------------------------------
(***************************************************************************)
(* What the repository says and the code does not keep.                    *)
(***************************************************************************)

\* server._heal_routed_drift: dirty means "incremental rescan + graph/fns sync", "never
\* silent staleness".  When a build raised after its rescan, the next rescan counts no
\* change and marks without a sync.  A routed call to the boot's own checkout loads the
\* graph of its last such call, and the rows having been healed since, nothing is synced.
GraphFollowsEveryHeal ==
  pc = "leave" /\ call = "read" /\ via \in {"walk", "rescan"} =>
    graph # NULL /\ graph.v >= rows[bound]

\* navconfig: "each project keeps its own drift baseline across alternation".  The first
\* routed call to a store is judged by the slots of the store bound before it.
VerdictIsOwn ==
  pc = "leave" /\ call = "read" /\ via = "ttl" => slots.last # NULL /\ slots.last.of = bound
=============================================================================
