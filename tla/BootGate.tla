------------------------------ MODULE BootGate ------------------------------
(***************************************************************************)
(* The boot of one stdio session and its degraded mode (server.py): the    *)
(* daemon boot thread that censuses, probes and builds under _SCOPE_LOCK,  *)
(* the gate every tool call waits on, the guidance a degraded boot serves, *)
(* the in-session recovery that re-binds the process to a config file that *)
(* appeared meanwhile, the explicit rescan and the routed call on the boot *)
(* directory itself.  The process may be killed between any two steps; the *)
(* stores, the completed-build marker and the config file survive it.      *)
(*                                                                         *)
(* A process is bound to the "plain" defaults or to the "project" config   *)
(* file.  The config may name the store the defaults would use (the shape  *)
(* onboarding writes) or one of its own: variable home.                    *)
(***************************************************************************)
EXTENDS Naturals, FiniteSets

CONSTANTS Calls,      \* tool calls that may be in flight together
          MaxBoots,   \* bound: processes started
          NULL

ASSUME CallsAssumption == /\ NULL \notin Calls
                          /\ "boot" \notin Calls
                          /\ NULL \notin {"boot", "unbuilt", "empty", "failed"}
                          /\ NULL \notin {"plain", "project"}
                          /\ MaxBoots \in Nat

Configs == {"plain", "project"}
Stores  == {"own", "other"}
Kinds   == {"search", "rescan", "routed"}

VARIABLES
  cfg,       \* <cwd>/.neuronav/config.json: none, bad (refused) or good
  home,      \* the store the config file names
  disk,      \* per store: directory made, rows held, completed-build marker
  down,      \* configs a rescan cannot succeed under (backend or empty walk)
  asked,     \* stores a user asked for: explicit rescan, routed call, config
  consent,   \* stores some asked-for build completed in
  boots,     \* processes started so far
  boot,      \* where the boot thread is
  ready,     \* _BOOT_READY
  fatal,     \* _BOOT_FATAL is set
  degraded,  \* _BOOT_DEGRADED: NULL or why guidance is served
  bound,     \* the config navconfig's globals hold
  env,       \* NEURONAV_CONFIG exported by use_config
  identity,  \* _BOOT_STORE
  graph,     \* the config graph._graph was built under, or NULL
  phase,     \* _PROGRESS["phase"]: idle, busy or done
  lock,      \* holder of _SCOPE_LOCK
  pc,        \* per call
  kind,      \* per call: which tool
  saved      \* per call: graph._graph when the recovery began

durable == <<cfg, home, disk, down, asked, consent, boots>>
process == <<boot, ready, fatal, degraded, bound, env, identity, graph, phase>>
calls   == <<lock, pc, kind, saved>>
vars    == <<durable, process, calls>>

Home(c) == IF c = "plain" THEN "own" ELSE home

Disks == [Stores -> [made : BOOLEAN, rows : {"none", "some", "all"},
                     built : BOOLEAN]]

BootPCs == {"start", "gate", "rescan", "sync", "opening", "done", "down"}
CallPCs == {"idle", "await", "lock", "in", "rebind", "rebound", "rebuild",
            "contact"}

TypeOK ==
  /\ cfg \in {"none", "bad", "good"}
  /\ home \in Stores
  /\ disk \in Disks
  /\ down \subseteq Configs
  /\ asked \subseteq Stores /\ consent \subseteq Stores
  /\ boots \in Nat
  /\ boot \in BootPCs
  /\ ready \in BOOLEAN /\ fatal \in BOOLEAN /\ env \in BOOLEAN
  /\ degraded \in {NULL, "unbuilt", "empty", "failed"}
  /\ bound \in Configs
  /\ identity \in Stores
  /\ graph \in Configs \cup {NULL}
  /\ phase \in {"idle", "busy", "done"}
  /\ lock \in Calls \cup {"boot", NULL}
  /\ pc \in [Calls -> CallPCs]
  /\ kind \in [Calls -> Kinds]
  /\ saved \in [Calls -> Configs \cup {NULL}]

-----------------------------------------------------------------------------
(***************************************************************************)
(* The stores.  Taking the store lock makes the directory; a rescan that   *)
(* fails may have flushed some rows; only one that succeeds leaves all of  *)
(* them and the marker.                                                    *)
(***************************************************************************)
Stored(s, rows, built) ==
  [disk EXCEPT ![s] = [made |-> TRUE, rows |-> rows, built |-> built]]

Opened(s) == Stored(s, disk[s].rows, disk[s].built)

Filled(s) == Stored(s, "all", TRUE)

Partial(s) == {Opened(s), Stored(s, IF disk[s].rows = "none" THEN "some"
                                    ELSE disk[s].rows, disk[s].built)}

\* Mutant of Unbuilt: a store directory counts as consent.
UnbuiltUnlessMade == bound = "plain" /\ ~disk["own"].made

\* The filesystem-only consent test: no config bound and no completed build.
Unbuilt == bound = "plain" /\ ~disk["own"].built

\* _enter_degraded
EnterDegraded(why) == degraded' = why /\ phase' = "done"

-----------------------------------------------------------------------------
(***************************************************************************)
(* The boot thread.                                                        *)
(***************************************************************************)
BootCensus ==
  /\ boot = "start" /\ lock = NULL
  /\ boot' = "gate" /\ lock' = "boot"
  /\ UNCHANGED <<durable, ready, fatal, degraded, bound, env, identity, graph,
                 phase, pc, kind, saved>>

\* Nothing configured and nothing built: guidance, and no store is made.
BootUnbuilt ==
  /\ boot = "gate" /\ Unbuilt
  /\ EnterDegraded("unbuilt")
  /\ boot' = "opening" /\ lock' = NULL
  /\ UNCHANGED <<durable, ready, fatal, bound, env, identity, graph, pc, kind,
                 saved>>

\* No file has a configured suffix: guidance.
BootNoMatch ==
  /\ boot = "gate" /\ ~Unbuilt /\ bound \in down
  /\ EnterDegraded("empty")
  /\ boot' = "opening" /\ lock' = NULL
  /\ UNCHANGED <<durable, ready, fatal, bound, env, identity, graph, pc, kind,
                 saved>>

\* Mutant of BootWarm: it does not look whether there are rows.
BootWarmBlind ==
  /\ boot = "gate" /\ ~Unbuilt /\ bound \in down
  /\ disk' = Opened(Home(bound))
  /\ boot' = "opening" /\ lock' = NULL
  /\ UNCHANGED <<cfg, home, down, asked, consent, boots, ready, fatal, degraded,
                 bound, env, identity, graph, phase, pc, kind, saved>>

\* The embed probe failed but the store has rows: serve it without a rescan.
BootWarm ==
  /\ boot = "gate" /\ ~Unbuilt /\ bound \in down
  /\ disk[Home(bound)].rows # "none"
  /\ disk' = Opened(Home(bound))
  /\ boot' = "opening" /\ lock' = NULL
  /\ UNCHANGED <<cfg, home, down, asked, consent, boots, ready, fatal, degraded,
                 bound, env, identity, graph, phase, pc, kind, saved>>

BootProbed ==
  /\ boot = "gate" /\ ~Unbuilt /\ bound \notin down
  /\ boot' = "rescan" /\ phase' = "busy"
  /\ UNCHANGED <<durable, ready, fatal, degraded, bound, env, identity, graph,
                 calls>>

BootRescanned ==
  /\ boot = "rescan" /\ bound \notin down
  /\ disk' = Filled(Home(bound))
  /\ consent' = consent \cup {Home(bound)}
  /\ boot' = "sync"
  /\ UNCHANGED <<cfg, home, down, asked, boots, ready, fatal, degraded, bound,
                 env, identity, graph, phase, calls>>

\* RuntimeError is read as "the walk emptied meanwhile": guidance.
BootRescanEmpty ==
  /\ boot = "rescan" /\ bound \in down
  /\ disk' \in Partial(Home(bound))
  /\ EnterDegraded("empty")
  /\ boot' = "opening" /\ lock' = NULL
  /\ UNCHANGED <<cfg, home, down, asked, consent, boots, ready, fatal, bound,
                 env, identity, graph, pc, kind, saved>>

\* Get_graph, sync_functions and the baseline, all under the lock.
BootSynced ==
  /\ boot = "sync"
  /\ graph' = bound /\ phase' = "done"
  /\ boot' = "opening" /\ lock' = NULL
  /\ UNCHANGED <<durable, ready, fatal, degraded, bound, env, identity, pc,
                 kind, saved>>

\* Any other exception: the wrapper records it and opens the gate.
BootFatal ==
  /\ \/ boot = "rescan" /\ bound \in down /\ disk' \in Partial(Home(bound))
     \/ boot = "gate" /\ ~Unbuilt /\ bound \in down
          /\ disk' = Opened(Home(bound))
     \/ boot = "sync" /\ UNCHANGED disk
  /\ fatal' = TRUE /\ ready' = TRUE
  /\ boot' = "done" /\ lock' = NULL
  /\ UNCHANGED <<cfg, home, down, asked, consent, boots, degraded, bound, env,
                 identity, graph, phase, pc, kind, saved>>

\* The gate opens after the lock is released.
OpenGate ==
  /\ boot = "opening"
  /\ boot' = "done" /\ ready' = TRUE
  /\ UNCHANGED <<durable, fatal, degraded, bound, env, identity, graph, phase,
                 calls>>

BootThread == \/ BootCensus \/ BootUnbuilt \/ BootNoMatch \/ BootWarm
              \/ BootProbed \/ BootRescanned \/ BootRescanEmpty \/ BootSynced
              \/ BootFatal \/ OpenGate

-----------------------------------------------------------------------------
(***************************************************************************)
(* The process.                                                            *)
(***************************************************************************)
\* Killed, or one of the SystemExit legs (an empty store with a dead
\* embedder, the store-lock timeout) ended it.
Exit ==
  /\ boot # "down"
  /\ boot' = "down"
  /\ ready' = FALSE /\ fatal' = FALSE /\ degraded' = NULL
  /\ bound' = "plain" /\ env' = FALSE /\ identity' = "own"
  /\ graph' = NULL /\ phase' = "idle" /\ lock' = NULL
  /\ pc' = [c \in Calls |-> "idle"]
  /\ kind' = [c \in Calls |-> "search"]
  /\ saved' = [c \in Calls |-> NULL]
  /\ UNCHANGED durable

\* Discovery at import: the config file when there is one (a bad one aborts
\* the import), else the plain defaults.
Start ==
  /\ boot = "down" /\ cfg # "bad" /\ boots < MaxBoots
  /\ boots' = boots + 1
  /\ boot' = "start"
  /\ bound' = IF cfg = "good" THEN "project" ELSE "plain"
  /\ identity' = Home(bound')
  /\ asked' = IF cfg = "good" THEN asked \cup {home} ELSE asked
  /\ UNCHANGED <<cfg, home, disk, down, consent, ready, fatal, degraded, env,
                 graph, phase, calls>>

-----------------------------------------------------------------------------
(***************************************************************************)
(* Tool calls.                                                             *)
(***************************************************************************)
Goto(c, where) == pc' = [pc EXCEPT ![c] = where]

\* The call's `with` block ends: the scope lock is free again.
Leave(c) == Goto(c, "idle") /\ lock' = NULL /\ UNCHANGED <<kind, saved>>

Call(c, k) ==
  /\ boot # "down" /\ pc[c] = "idle"
  /\ Goto(c, "await")
  /\ kind' = [kind EXCEPT ![c] = k]
  /\ UNCHANGED <<durable, process, lock, saved>>

\* _stale_prelude: past the grace window of a running build the two store
\* views look at the collection outside every lock (opening it makes it).
StaleRead(c) ==
  /\ pc[c] = "await" /\ kind[c] = "search"
  /\ ~ready /\ ~fatal
  /\ disk' = Opened(Home(bound))
  /\ Goto(c, IF disk[Home(bound)].rows # "none" THEN "idle" ELSE "await")
  /\ UNCHANGED <<cfg, home, down, asked, consent, boots, process, lock, kind,
                 saved>>

\* _await_boot: open, fatal (raises), or timed out (raises).
AwaitBoot(c) ==
  /\ pc[c] = "await" /\ ready
  /\ Goto(c, IF fatal THEN "idle" ELSE "lock")
  /\ UNCHANGED <<durable, process, lock, kind, saved>>

AwaitTimeout(c) ==
  /\ pc[c] = "await" /\ ~ready
  /\ Goto(c, "idle")
  /\ UNCHANGED <<durable, process, lock, kind, saved>>

Enter(c) ==
  /\ pc[c] = "lock" /\ lock = NULL
  /\ lock' = c /\ Goto(c, "in")
  /\ asked' = IF kind[c] = "rescan" THEN asked \cup {Home(bound)} ELSE asked
  /\ UNCHANGED <<cfg, home, disk, down, consent, boots, process, kind, saved>>

Inside(c) == lock = c /\ pc[c] = "in"

\* An indexed session.  A read passes the freshness gate first (_auto_rescan,
\* module Freshness; here what it can leave behind: nothing, a heal, a failed
\* heal that never raises) and parses the graph when none is there.  A heal
\* reports its embed batches and never reports that it is done.
Read(c) ==
  /\ Inside(c) /\ kind[c] = "search" /\ degraded = NULL
  /\ \/ UNCHANGED <<disk, consent, phase>>
     \/ bound \notin down /\ disk' = Filled(Home(bound))
          /\ consent' = consent \cup {Home(bound)} /\ phase' = "busy"
     \/ bound \in down /\ disk' \in Partial(Home(bound))
          /\ phase' \in {phase, "busy"} /\ UNCHANGED consent
  /\ graph' = bound
  /\ Leave(c)
  /\ UNCHANGED <<cfg, home, down, asked, boots, boot, ready, fatal, degraded,
                 bound, env, identity>>

\* The explicit rescan goes on to the walk: in an indexed session, and in
\* guidance with no config file to pick up.
Rescan(c) ==
  /\ Inside(c) /\ kind[c] = "rescan"
  /\ degraded = NULL \/ bound = "project" \/ cfg = "none"
  /\ Goto(c, "rebuild")
  /\ UNCHANGED <<durable, process, lock, kind, saved>>

\* Guidance, with no config file to pick up: a read answers it.
Guide(c) ==
  /\ Inside(c) /\ kind[c] = "search" /\ degraded # NULL
  /\ bound = "project" \/ cfg = "none"
  /\ Leave(c)
  /\ UNCHANGED <<durable, process>>

\* _validate_foreign_config raises before anything is touched, whichever
\* leg calls it.
Refuse(c) ==
  /\ Inside(c) /\ cfg = "bad"
  /\ kind[c] = "routed" \/ (degraded # NULL /\ bound = "plain")
  /\ Leave(c)
  /\ UNCHANGED <<durable, process>>

\* _boot_recovery: use_config exports the environment and re-binds.
Rebind(c) ==
  /\ Inside(c) /\ kind[c] # "routed" /\ degraded # NULL
  /\ bound = "plain" /\ cfg = "good"
  /\ bound' = "project" /\ env' = TRUE /\ phase' = "busy"
  /\ asked' = asked \cup {home}
  /\ saved' = [saved EXCEPT ![c] = graph]
  /\ Goto(c, "rebind")
  /\ UNCHANGED <<cfg, home, disk, down, consent, boots, boot, ready, fatal,
                 degraded, identity, graph, lock, kind>>

RebindRescanned(c) ==
  /\ pc[c] = "rebind" /\ "project" \notin down
  /\ disk' = Filled(home)
  /\ consent' = consent \cup {home}
  /\ graph' = "project"
  /\ Goto(c, "rebound")
  /\ UNCHANGED <<cfg, home, down, asked, boots, boot, ready, fatal, degraded,
                 bound, env, identity, phase, lock, kind, saved>>

\* Only success re-points the boot identity and leaves guidance.
Recovered(c) ==
  /\ pc[c] = "rebound"
  /\ identity' = home /\ degraded' = NULL /\ phase' = "done"
  /\ Leave(c)
  /\ UNCHANGED <<durable, boot, ready, fatal, bound, env, graph>>

\* Mutant of RolledBack: the graph of the failed attempt stays.
RolledBackGraphless(c) ==
  /\ \/ pc[c] = "rebind" /\ "project" \in down /\ disk' \in Partial(home)
     \/ pc[c] = "rebound" /\ UNCHANGED disk
  /\ bound' = "plain" /\ env' = FALSE
  /\ degraded' = "failed"
  /\ asked' = IF kind[c] = "rescan" THEN asked \cup {"own"} ELSE asked
  /\ IF kind[c] = "rescan"
       THEN Goto(c, "rebuild") /\ UNCHANGED <<lock, kind, saved>>
       ELSE Leave(c)
  /\ UNCHANGED <<cfg, home, down, consent, boots, boot, ready, fatal, identity,
                 graph, phase>>

\* Any failure past use_config restores the globals, the environment and the
\* graph; the rescan tool then falls through, as for any other guidance.
RolledBack(c) ==
  /\ \/ pc[c] = "rebind" /\ "project" \in down /\ disk' \in Partial(home)
     \/ pc[c] = "rebound" /\ UNCHANGED disk
  /\ bound' = "plain" /\ env' = FALSE
  /\ graph' = saved[c]
  /\ degraded' = "failed"
  /\ asked' = IF kind[c] = "rescan" THEN asked \cup {"own"} ELSE asked
  /\ IF kind[c] = "rescan"
       THEN Goto(c, "rebuild") /\ UNCHANGED <<lock, kind, saved>>
       ELSE Leave(c)
  /\ UNCHANGED <<cfg, home, down, consent, boots, boot, ready, fatal, identity,
                 phase>>

\* The explicit rescan under the bound config.
Rebuilt(c) ==
  /\ pc[c] = "rebuild" /\ bound \notin down
  /\ disk' = Filled(Home(bound))
  /\ consent' = consent \cup {Home(bound)}
  /\ graph' = bound /\ phase' = "done" /\ degraded' = NULL
  /\ Leave(c)
  /\ UNCHANGED <<cfg, home, down, asked, boots, boot, ready, fatal, bound, env,
                 identity>>

\* Mutant of RebuildFails: guidance ends although the build failed.
RebuildFailsCleared(c) ==
  /\ pc[c] = "rebuild" /\ bound \in down
  /\ disk' \in Partial(Home(bound))
  /\ degraded' = NULL
  /\ Leave(c)
  /\ UNCHANGED <<cfg, home, down, asked, consent, boots, boot, ready, fatal,
                 bound, env, identity, graph, phase>>

RebuildFails(c) ==
  /\ pc[c] = "rebuild" /\ bound \in down
  /\ disk' \in Partial(Home(bound))
  /\ phase' \in {phase, "busy"}
  /\ Leave(c)
  /\ UNCHANGED <<cfg, home, down, asked, consent, boots, boot, ready, fatal,
                 degraded, bound, env, identity, graph>>

\* A call routed to the boot directory itself: a missing config file is
\* scaffolded, and the call runs in a config scope of its own.
Route(c) ==
  /\ Inside(c) /\ kind[c] = "routed" /\ cfg # "bad"
  /\ cfg' = "good"
  /\ asked' = asked \cup {home}
  /\ Goto(c, "contact")
  /\ UNCHANGED <<home, disk, down, consent, boots, process, lock, kind, saved>>

\* First contact builds an empty store; one with rows heals or is left.
Contact(c) ==
  /\ pc[c] = "contact"
  /\ \/ "project" \notin down /\ disk' = Filled(home)
          /\ consent' = consent \cup {home} /\ phase' = "done"
     \/ "project" \in down /\ disk' \in Partial(home)
          /\ phase' \in {phase, "busy"} /\ UNCHANGED consent
     \/ disk[home].rows # "none" /\ UNCHANGED <<disk, consent, phase>>
  /\ Leave(c)
  /\ UNCHANGED <<cfg, home, down, asked, boots, boot, ready, fatal, degraded,
                 bound, env, identity, graph>>

CallStep(c) == \/ AwaitBoot(c) \/ AwaitTimeout(c) \/ Enter(c) \/ Read(c)
               \/ Rescan(c) \/ Guide(c) \/ Refuse(c) \/ Rebind(c) \/ RebindRescanned(c)
               \/ Recovered(c) \/ RolledBack(c) \/ Rebuilt(c)
               \/ RebuildFails(c) \/ Route(c) \/ Contact(c)

-----------------------------------------------------------------------------
(***************************************************************************)
(* The user edits the config file; backends and worktrees come and go.     *)
(***************************************************************************)
EditConfig ==
  /\ cfg' \in {"none", "bad", "good"} \ {cfg}
  /\ UNCHANGED <<home, disk, down, asked, consent, boots, process, calls>>

Flip ==
  /\ \E c \in Configs : down' = IF c \in down THEN down \ {c} ELSE down \cup {c}
  /\ UNCHANGED <<cfg, home, disk, asked, consent, boots, process, calls>>

Init ==
  /\ cfg \in {"none", "good"}
  /\ home \in Stores
  /\ disk = [s \in Stores |-> [made |-> FALSE, rows |-> "none", built |-> FALSE]]
  /\ down \in SUBSET Configs
  /\ asked = {} /\ consent = {}
  /\ boots = 0 /\ boot = "down"
  /\ ready = FALSE /\ fatal = FALSE /\ degraded = NULL
  /\ bound = "plain" /\ env = FALSE /\ identity = "own"
  /\ graph = NULL /\ phase = "idle" /\ lock = NULL
  /\ pc = [c \in Calls |-> "idle"]
  /\ kind = [c \in Calls |-> "search"]
  /\ saved = [c \in Calls |-> NULL]

Next ==
  \/ BootThread \/ Exit \/ Start \/ EditConfig \/ Flip
  \/ \E c \in Calls : CallStep(c) \/ StaleRead(c) \/ \E k \in Kinds : Call(c, k)

Spec == Init /\ [][Next]_vars

-----------------------------------------------------------------------------
(***************************************************************************)
(* Properties.                                                             *)
(***************************************************************************)
\* No boot indexes a directory nobody consented to: a boot under the plain
\* defaults builds only a store that an asked-for build completed in, in this
\* process or an earlier one.  What a failed first rescan, a stale read or a
\* killed build left there is not consent; and rows appear only in a store
\* somebody asked for.
BootNeedsConsent ==
  /\ boot \in {"rescan", "sync"} /\ bound = "plain" => "own" \in consent
  /\ \A s \in Stores : disk[s].rows # "none" => s \in asked

\* Between calls the process is bound to one config: the boot identity is
\* its store, the graph is one parsed under it, and the environment handed to
\* subprocesses names it.  A recovery that failed half-way leaves no trace of
\* the config it tried.
BoundWhole ==
  lock = NULL /\ boot # "down" =>
    /\ identity = Home(bound)
    /\ graph \in {NULL, bound}
    /\ env => bound = "project"

\* A session that answers from the index has one.
ServesAnIndex ==
  ready /\ ~fatal /\ degraded = NULL /\ lock = NULL
    => disk[identity].rows # "none"

\* Guidance ends only with a completed build of the store the session is
\* bound to, its graph parsed under that config; a failed attempt keeps it.
GuidanceEndsBuilt ==
  [][ degraded # NULL /\ degraded' = NULL /\ boot' # "down" =>
        /\ disk'[identity'].built /\ disk'[identity'].rows = "all"
        /\ identity' = (IF bound' = "plain" THEN "own" ELSE home')
        /\ graph' = bound' ]_vars

-----------------------------------------------------------------------------
(***************************************************************************)
(* What the repository says and the code does not keep.                    *)
(***************************************************************************)
\* server.py, the recovery's failure text: "the next call retries the
\* recovery" until it succeeds, so a session whose recovery failed leaves
\* guidance bound to the config it found.
FailedRecoveryRetried ==
  [][degraded = "failed" /\ degraded' = NULL /\ boot' # "down"
       => bound' = "project"]_vars

\* _progress_line: '' when idle.
StatusIdle ==
  lock = NULL /\ boot \in {"done", "down"} => phase # "busy"
=============================================================================
