------------------------------ MODULE BakeQueue ------------------------------
(***************************************************************************)
(* The background bake (serverbake.py): visualize calls, each on a worker  *)
(* thread of its own, queue a store; one baker thread drains the queue.    *)
(* They meet the boot thread and the other tools on _SCOPE_LOCK, because a *)
(* routed call and a routed bake rebind the process-wide config.           *)
(***************************************************************************)
EXTENDS Naturals, Sequences

CONSTANTS
  Clients,    \* visualize calls that can be in flight together
  Foreign,    \* checkouts named by dir=
  Boot,       \* the boot config's store (target None)
  MaxCalls,   \* bound on visualize calls
  MaxFails,   \* bound on bakes and routed calls that raise
  MaxBreaks,  \* bound on foreign configs broken on disk
  NULL        \* no store, no lock holder

Stores  == Foreign \cup {Boot}
Holders == Clients \cup {"boot", "baker", "tool"}

ASSUME BakeAssumption ==
  /\ Boot \notin Foreign
  /\ NULL \notin Stores \cup Holders
  /\ Clients \cap {"boot", "baker", "tool"} = {}
  /\ MaxCalls \in Nat /\ MaxFails \in Nat /\ MaxBreaks \in Nat

VARIABLES
  queue,      \* _BAKE_QUEUE
  wake,       \* _BAKE_WAKE is set
  running, result,   \* _BAKE_STATE: the flag; "none", "ok" or "error"
  baker, job, won,   \* the baker thread: where it is, its target, how the bake ended
  cpc, target,       \* each client: where it is, the store it asks for
  lock,       \* _SCOPE_LOCK: who holds it
  bound,      \* the store the process-wide config is bound to
  boot,       \* the boot thread
  built,      \* the boot store has a config or a completed build
  broken,     \* foreign configs _apply_config would abort on
  html,       \* history: stores a graph.html was written to
  accepted,   \* history: stores whose bake was acknowledged
  deaths,     \* history: baker threads ended by SystemExit
  calls, fails, breaks

bakery == <<baker, job, won>>
state  == <<running, result>>
client == <<cpc, target>>
scope  == <<lock, bound>>
hist   == <<html, accepted, deaths>>
bounds == <<calls, fails, breaks>>
vars   == <<queue, wake, state, bakery, client, scope, boot, built, broken, hist, bounds>>

\* _BOOT_READY: set by the boot, well or fatally; without a boot thread nothing
\* waits for it.
Ready == boot \in {"none", "ready"}

Fault == fails < MaxFails /\ fails' = fails + 1
-----------------------------------------------------------------------------
(***************************************************************************)
(* visualize                                                               *)
(***************************************************************************)
\* dir="" goes to the lock at once, dir=s through _route's boot gate.
Call(c, s) ==
  /\ cpc[c] = "idle" /\ calls < MaxCalls
  /\ calls' = calls + 1
  /\ target' = [target EXCEPT ![c] = s]
  /\ cpc' = [cpc EXCEPT ![c] = IF s = Boot THEN "lock" ELSE "gate"]
  /\ UNCHANGED <<queue, wake, state, bakery, scope, boot, built, broken, hist, fails,
                 breaks>>

\* _await_boot; it raises when _BOOT_WAIT_S runs out or the boot was fatal.
Gate(c) ==
  /\ cpc[c] = "gate"
  /\ cpc' = [cpc EXCEPT ![c] = IF Ready THEN "lock" ELSE "idle"]
  /\ UNCHANGED <<queue, wake, state, bakery, target, scope, boot, built, broken, hist,
                 bounds>>

GateFatal(c) ==
  /\ cpc[c] = "gate" /\ boot = "ready" /\ Fault
  /\ cpc' = [cpc EXCEPT ![c] = "idle"]
  /\ UNCHANGED <<queue, wake, state, bakery, target, scope, boot, built, broken, hist,
                 calls, breaks>>


\* A mutant: the boot arm reads the config without taking the lock.
EnterUnlocked(c) ==
  /\ cpc[c] = "lock"
  /\ IF target[c] = Boot
     THEN /\ cpc' = [cpc EXCEPT ![c] = IF bound = Boot /\ ~built THEN "idle" ELSE "append"]
          /\ UNCHANGED scope
     ELSE /\ lock = NULL /\ target[c] \notin broken
          /\ lock' = c /\ bound' = target[c]
          /\ cpc' = [cpc EXCEPT ![c] = "inside"]
  /\ UNCHANGED <<queue, wake, state, bakery, target, boot, built, broken, hist, bounds>>

\* Under the lock a routed call binds the foreign config; a broken one raises.
Enter(c) ==
  /\ cpc[c] = "lock" /\ lock = NULL
  /\ IF target[c] \in broken
     THEN /\ cpc' = [cpc EXCEPT ![c] = "idle"]
          /\ UNCHANGED scope
     ELSE /\ lock' = c
          /\ bound' = target[c]
          /\ cpc' = [cpc EXCEPT ![c] = "inside"]
  /\ UNCHANGED <<queue, wake, state, bakery, target, boot, built, broken, hist, bounds>>

\* _store_unbuilt reads the bound config and the marker of its store.
Unbuilt == bound = Boot /\ ~built

\* The lock is left with the config restored; an unbuilt boot answers guidance, a
\* first contact that raises ends the call, and neither queues a bake.
Leave(c) ==
  /\ cpc[c] = "inside"
  /\ lock' = NULL /\ bound' = Boot
  /\ \/ /\ cpc' = [cpc EXCEPT ![c] = IF Unbuilt THEN "idle" ELSE "append"]
        /\ UNCHANGED fails
     \/ /\ bound # Boot /\ Fault
        /\ cpc' = [cpc EXCEPT ![c] = "idle"]
  /\ UNCHANGED <<queue, wake, state, bakery, target, boot, built, broken, hist, calls,
                 breaks>>

Enqueue(c) ==
  /\ cpc[c] = "append"
  /\ queue' = Append(queue, target[c])
  /\ accepted' = accepted \cup {target[c]}
  /\ cpc' = [cpc EXCEPT ![c] = "wake"]
  /\ UNCHANGED <<wake, state, bakery, target, scope, boot, built, broken, html, deaths,
                 bounds>>

\* A mutant: only a request that finds the queue empty sets the event.
WakeIfAlone(c) ==
  /\ cpc[c] = "wake"
  /\ wake' = (wake \/ Len(queue) = 1)
  /\ cpc' = [cpc EXCEPT ![c] = "start"]
  /\ UNCHANGED <<queue, state, bakery, target, scope, boot, built, broken, hist, bounds>>

Wake(c) ==
  /\ cpc[c] = "wake"
  /\ wake' = TRUE
  /\ cpc' = [cpc EXCEPT ![c] = "start"]
  /\ UNCHANGED <<queue, state, bakery, target, scope, boot, built, broken, hist, bounds>>

\* _start_baker, under its own lock; the acknowledgement follows.
StartBaker(c) ==
  /\ cpc[c] = "start"
  /\ baker' = IF baker \in {"none", "dead"} THEN "wait" ELSE baker
  /\ cpc' = [cpc EXCEPT ![c] = "idle"]
  /\ UNCHANGED <<queue, wake, state, job, won, target, scope, boot, built, broken, hist,
                 bounds>>
-----------------------------------------------------------------------------
(***************************************************************************)
(* _bake_loop                                                              *)
(***************************************************************************)
Woken ==
  /\ baker = "wait" /\ wake
  /\ baker' = "clear"
  /\ UNCHANGED <<queue, wake, state, job, won, client, scope, boot, built, broken, hist,
                 bounds>>

Clear ==
  /\ baker = "clear"
  /\ wake' = FALSE
  /\ baker' = "drain"
  /\ UNCHANGED <<queue, state, job, won, client, scope, boot, built, broken, hist, bounds>>


\* The queue is empty: back to the wait.
Drained ==
  /\ baker = "drain" /\ queue = <<>>
  /\ baker' = "wait"
  /\ UNCHANGED <<queue, wake, state, job, won, client, scope, boot, built, broken, hist,
                 bounds>>


\* A mutant: pop() takes the newest request.
PopNewest ==
  /\ baker = "drain" /\ queue # <<>>
  /\ job' = queue[Len(queue)]
  /\ queue' = SubSeq(queue, 1, Len(queue) - 1)
  /\ running' = TRUE
  /\ result' = IF result = "error" THEN "none" ELSE result
  /\ baker' = IF job' = Boot THEN "boot" ELSE "lock"
  /\ UNCHANGED <<wake, won, client, scope, boot, built, broken, hist, bounds>>

Pop ==
  /\ baker = "drain" /\ queue # <<>>
  /\ job' = Head(queue)
  /\ queue' = Tail(queue)
  /\ running' = TRUE
  /\ result' = IF result = "error" THEN "none" ELSE result
  /\ baker' = IF Head(queue) = Boot THEN "boot" ELSE "lock"
  /\ UNCHANGED <<wake, won, client, scope, boot, built, broken, hist, bounds>>


\* A mutant: the wait for the boot gate has no timeout.
AwaitBootForever ==
  /\ baker = "boot" /\ Ready
  /\ baker' = "lock"
  /\ UNCHANGED <<queue, wake, state, job, won, client, scope, boot, built, broken, hist,
                 bounds>>

\* The boot store waits for the boot gate, outside the scope lock and bounded.
AwaitBoot ==
  /\ baker = "boot"
  /\ \/ Ready /\ baker' = "lock" /\ UNCHANGED won
     \/ ~Ready /\ baker' = "record" /\ won' = FALSE
  /\ UNCHANGED <<queue, wake, state, job, client, scope, boot, built, broken, hist, bounds>>


\* A mutant: the arm is picked by the boot thread's handle, not by the target.
BakeStartByHandle ==
  /\ baker = "lock" /\ lock = NULL /\ job \notin broken
  /\ lock' = "baker"
  /\ bound' = IF boot = "none" THEN job ELSE Boot
  /\ baker' = "bake"
  /\ UNCHANGED <<queue, wake, state, job, won, client, boot, built, broken, hist, bounds>>

BakeStart ==
  /\ baker = "lock" /\ lock = NULL /\ job \notin broken
  /\ lock' = "baker"
  /\ bound' = job
  /\ baker' = "bake"
  /\ UNCHANGED <<queue, wake, state, job, won, client, boot, built, broken, hist, bounds>>

\* config_scope raises SystemExit, which `except Exception` lets through: the
\* thread is gone, the state as it was.
BakerDies ==
  /\ baker = "lock" /\ lock = NULL /\ job \in broken
  /\ baker' = "dead"
  /\ job' = NULL
  /\ deaths' = deaths + 1
  /\ UNCHANGED <<queue, wake, state, won, client, scope, boot, built, broken, html,
                 accepted,
                 bounds>>


\* A mutant: a bake that raises leaves its config bound.
BakeEndUnrestored ==
  /\ baker = "bake"
  /\ \/ html' = html \cup {bound} /\ won' = TRUE /\ bound' = Boot /\ UNCHANGED fails
     \/ Fault /\ won' = FALSE /\ UNCHANGED <<html, bound>>
  /\ lock' = NULL
  /\ baker' = "record"
  /\ UNCHANGED <<queue, wake, state, job, client, boot, built, broken, accepted, deaths,
                 calls, breaks>>

\* ensure_bake writes the bound store's graph.html, whole or not at all.
BakeEnd ==
  /\ baker = "bake"
  /\ \/ html' = html \cup {bound} /\ won' = TRUE /\ UNCHANGED fails
     \/ Fault /\ won' = FALSE /\ UNCHANGED html
  /\ lock' = NULL /\ bound' = Boot
  /\ baker' = "record"
  /\ UNCHANGED <<queue, wake, state, job, client, boot, built, broken, accepted, deaths,
                 calls, breaks>>


Record ==
  /\ baker = "record"
  /\ running' = FALSE
  /\ result' = IF won THEN "ok" ELSE "error"
  /\ job' = NULL /\ won' = FALSE
  /\ baker' = "drain"
  /\ UNCHANGED <<queue, wake, client, scope, boot, built, broken, hist, bounds>>
-----------------------------------------------------------------------------
(***************************************************************************)
(* The boot thread, the other tools, and the configs on disk.              *)
(***************************************************************************)
\* The boot leaves the lock before it opens the gate, also when it raised.
BootLeaves ==
  /\ boot = "building"
  /\ boot' = "left"
  /\ lock' = NULL
  /\ built' \in {built, TRUE}
  /\ UNCHANGED <<queue, wake, state, bakery, client, bound, broken, hist, bounds>>

BootOpens ==
  /\ boot = "left"
  /\ boot' = "ready"
  /\ UNCHANGED <<queue, wake, state, bakery, client, scope, built, broken, hist, bounds>>

\* Any other tool call: a routed one binds its config, a boot one may build the
\* boot store.
ToolEnter(s) ==
  /\ Ready /\ lock = NULL /\ s \notin broken
  /\ lock' = "tool" /\ bound' = s
  /\ UNCHANGED <<queue, wake, state, bakery, client, boot, built, broken, hist, bounds>>


ToolLeave ==
  /\ lock = "tool"
  /\ lock' = NULL /\ bound' = Boot
  /\ built' \in IF bound = Boot THEN {built, TRUE} ELSE {built}
  /\ UNCHANGED <<queue, wake, state, bakery, client, boot, broken, hist, bounds>>

Break(s) ==
  /\ s \notin broken /\ breaks < MaxBreaks
  /\ broken' = broken \cup {s}
  /\ breaks' = breaks + 1
  /\ UNCHANGED <<queue, wake, state, bakery, client, scope, boot, built, hist, calls,
                 fails>>

Mend(s) ==
  /\ s \in broken
  /\ broken' = broken \ {s}
  /\ UNCHANGED <<queue, wake, state, bakery, client, scope, boot, built, hist, bounds>>
-----------------------------------------------------------------------------
\* A process just started, its boot holding the lock; or one that imported the
\* server without a boot.
Init ==
  /\ queue = <<>> /\ wake = FALSE /\ running = FALSE /\ result = "none"
  /\ baker = "none" /\ job = NULL /\ won = FALSE
  /\ cpc = [c \in Clients |-> "idle"] /\ target = [c \in Clients |-> Boot]
  /\ \/ boot = "building" /\ lock = "boot"
     \/ boot = "none" /\ lock = NULL
  /\ bound = Boot /\ built \in BOOLEAN /\ broken = {}
  /\ html = {} /\ accepted = {} /\ deaths = 0
  /\ calls = 0 /\ fails = 0 /\ breaks = 0

Visualize(c) == \/ \E s \in Stores : Call(c, s)
                \/ Gate(c) \/ GateFatal(c) \/ Enter(c) \/ Leave(c)
                \/ Enqueue(c) \/ Wake(c) \/ StartBaker(c)

BakeLoop == \/ Woken \/ Clear \/ Drained \/ Pop \/ AwaitBoot
            \/ BakeStart \/ BakerDies \/ BakeEnd \/ Record

Others == \/ BootLeaves \/ BootOpens
          \/ (\E s \in Stores : ToolEnter(s)) \/ ToolLeave
          \/ \E s \in Foreign : Break(s) \/ Mend(s)

Next == (\E c \in Clients : Visualize(c)) \/ BakeLoop \/ Others

Spec == Init /\ [][Next]_vars

\* Threads that can run do; a lock released again and again is acquired in the
\* end.  Nothing is asked of the boot: it may wedge.
Fairness ==
  /\ \A c \in Clients : WF_vars(Leave(c)) /\ WF_vars(Wake(c)) /\ WF_vars(StartBaker(c))
  /\ WF_vars(ToolLeave)
  /\ SF_vars(BakeLoop)

FairSpec == Spec /\ Fairness
-----------------------------------------------------------------------------
\* Every thread is at a known place, every slot holds what the code puts there.
TypeOK ==
  /\ queue \in Seq(Stores) /\ job \in Stores \cup {NULL}
  /\ wake \in BOOLEAN /\ running \in BOOLEAN /\ won \in BOOLEAN /\ built \in BOOLEAN
  /\ result \in {"none", "ok", "error"}
  /\ baker \in {"none", "wait", "clear", "drain", "boot", "lock", "bake", "record", "dead"}
  /\ cpc \in [Clients -> {"idle", "gate", "lock", "inside", "append", "wake", "start"}]
  /\ target \in [Clients -> Stores]
  /\ lock \in Holders \cup {NULL} /\ bound \in Stores
  /\ boot \in {"none", "building", "left", "ready"}
  /\ broken \subseteq Foreign /\ html \subseteq Stores /\ accepted \subseteq Stores
  /\ deaths \in Nat /\ calls \in Nat /\ fails \in Nat /\ breaks \in Nat

Draining == baker \in {"clear", "drain", "boot", "lock", "bake", "record"}

\* No wakeup is lost: while a bake is queued, someone is still about to set the
\* event, or the event is set or being served by a thread that runs or is about to
\* be started.  A baker that died may have cleared the event of a later request, so
\* that even the thread started for that request sleeps on a filled queue.
NoLostWake ==
  deaths = 0 /\ queue # <<>> =>
    \/ \E c \in Clients : cpc[c] = "wake"
    \/ /\ wake \/ Draining
       /\ baker # "none" \/ \E c \in Clients : cpc[c] = "start"

\* Outside the scope lock the config is the boot's; whoever holds the lock is the
\* thread that thinks so.
ScopeRestored ==
  /\ lock = NULL => bound = Boot
  /\ lock = "baker" <=> baker = "bake"
  /\ \A c \in Clients : lock = c <=> cpc[c] = "inside"

\* A graph.html is only ever written to a store whose bake was acknowledged: never
\* to the boot store for a bake of another checkout (issue #354).
BakedWhereAsked == html \subseteq accepted

\* No bake of the boot store is accepted before the user consented to build it, not
\* even while a routed call has another config bound (issue #424).
ConsentKept == ~built => Boot \notin accepted

\* The polled status says "running" exactly while the baker has a target, as long
\* as no baker died.
StatusHonest == deaths = 0 => (running <=> job # NULL)

Fifo == INSTANCE BakeFifo WITH pending <- queue, current <- job

\* The queue is a FIFO server of one bake at a time, also across a baker's death.
ImplementsFifo == Fifo!Spec

\* Every queued bake is taken up, even if the boot wedges, unless a baker died.
Drains == (queue # <<>>) ~> (queue = <<>> \/ deaths > 0)
-----------------------------------------------------------------------------
(***************************************************************************)
(* What the repository says and the code does not keep.                    *)
(***************************************************************************)

\* serverbake.visualize: "the bake result (path) and any failure surface on stderr
\* and the neuronav://onboarding/status resource".  A baker that died of SystemExit
\* leaves the status at "running", with nothing running.
StatusTracksBaker == running => job # NULL

\* serverbake.visualize: "the tool no longer blocks on it ... and answers
\* immediately".  A second call waits on the scope lock until the bake is done.
AckNeverWaitsForBake == \A c \in Clients : ~(cpc[c] = "lock" /\ lock = "baker")
=============================================================================
