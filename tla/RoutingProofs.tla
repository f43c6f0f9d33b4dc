---------------------------- MODULE RoutingProofs ----------------------------
(***************************************************************************)
(* Routing is safe for any number of checkouts, edits and failures, with   *)
(* the watcher or without it.  The invariant is kept in layers: where the  *)
(* call is, what rows there are, what the slots record, what the graphs    *)
(* are of; and on these rests what a verdict of no drift is worth.         *)
(***************************************************************************)
EXTENDS Routing, TLAPS

\* Where a call is decides what is bound and whether anything is set aside.
Places ==
  /\ saved = NULL => bound = Boot
  /\ pc = "idle" => saved = NULL
  /\ pc \in {"bind", "restore"} => saved # NULL /\ bound = Boot
  /\ saved # NULL /\ pc \notin {"bind", "restore"} /\ bound = Boot => aliased
  /\ pc = "bind" => via = "none"

\* A store has rows from its first rescan on, and they are of a version it had.
Past ==
  \/ pc \in {"scan", "commit", "sync", "mark", "body"}
  \/ pc = "rescan" /\ phase # "first"
  \/ pc = "leave" /\ via # "failed"
RowsThere ==
  /\ rows[Boot] # NULL
  /\ Past => rows[bound] # NULL
  /\ \A s \in Stores : rows[s] # NULL => rows[s] <= tree[s]

\* No fingerprint is of a tree still to come.
Seen(f)      == f = NULL \/ f.v <= tree[f.of]
SlotsSeen(r) == r = NULL \/ (Seen(r.clean) /\ Seen(r.last))
Recorded ==
  /\ Seen(walk) /\ Seen(wfp) /\ SlotsSeen(slots)
  /\ saved # NULL => SlotsSeen(saved.slots)
  /\ \A s \in Stores : SlotsSeen(fpCache[s])

\* A checkout without cached slots was never bound: nothing records its tree.
Without(f, s)      == f = NULL \/ f.of # s
SlotsWithout(r, s) == r = NULL \/ (Without(r.clean, s) /\ Without(r.last, s))
Unseen ==
  \A s \in Stores \ {Boot, bound} : fpCache[s] = NULL =>
    /\ Without(walk, s) /\ Without(wfp, s) /\ SlotsWithout(slots, s)
    /\ saved # NULL => SlotsWithout(saved.slots, s)
    /\ \A t \in Stores : SlotsWithout(fpCache[t], s)

\* A graph is kept where the store it was parsed from is.
Of(g, s) == g = NULL \/ g.of = s
GraphsOwn ==
  /\ pc # "restore" => Of(graph, bound)
  /\ saved # NULL => Of(saved.graph, Boot)
  /\ \A s \in Stores : Of(graphCache[s], s)

\* Until the boot's store is aliased, rows overtake the graph kept with them only in a
\* call that raises before its build.
Ahead(g, s) == s \in unbuilt \/ g = NULL \/ (rows[s] # NULL /\ g.v >= rows[s])
Follow ==
  ~aliased =>
    /\ pc \notin {"sync", "restore"} => Ahead(graph, bound)
    /\ saved # NULL => Ahead(saved.graph, Boot)
    /\ \A s \in Stores \ {Boot, bound} : Ahead(graphCache[s], s)

\* BaselineCovered, one place at a time.
Base(r, s) == r.clean = Fingerprint(s) => rows[s] = tree[s]
Covers ==
  \A s \in Stores \ racing :
    /\ fpCache[s] # NULL => Base(fpCache[s], s)
    /\ bound = s /\ pc # "restore" => Base(slots, s)
    /\ s = Boot /\ saved # NULL => Base(saved.slots, s)

\* A rescan leaves rows equal to the tree, and so does a verdict of no drift.
Current == rows[bound] = tree[bound]
Synced == pc \in {"sync", "mark"} /\ bound \notin racing => Current
Judged ==
  /\ pc = "commit" /\ bound \notin touched => walk = Fingerprint(bound)
  /\ via \in {"walk", "rescan"} /\ pc \in {"scan", "commit", "body", "leave"}
     /\ bound \notin touched \cup racing => Current


IInv == /\ TypeOK /\ Places /\ RowsThere /\ Recorded /\ Unseen /\ GraphsOwn /\ Follow
        /\ Covers /\ Synced /\ Judged
-----------------------------------------------------------------------------
\* What time and a committed walk leave of the slots.
LEMMA AgedFacts ==
  ASSUME NEW r \in Slots0 \cup {NULL}
  PROVE  /\ Aged(r) \in Slots0 \cup {NULL}
         /\ Aged(r) = NULL <=> r = NULL
         /\ r # NULL => Aged(r).clean = r.clean /\ Aged(r).last = r.last
  BY RoutingAssumption DEF Aged, Slots0

LEMMA CommittedFacts ==
  ASSUME slots \in Slots0, NEW fp \in Prints \cup {NULL}
  PROVE  /\ Committed(fp) \in Slots0
         /\ Committed(fp).clean = slots.clean /\ Committed(fp).last = fp
         /\ ~Committed(fp).dirty => fp = slots.clean /\ fp # NULL
  BY RoutingAssumption DEF Committed, Slots0

LEMMA Initial == Init => IInv
<1> SUFFICES ASSUME Init PROVE IInv
  OBVIOUS
<1> USE RoutingAssumption DEF Init
<1>1. TypeOK
  <2>1. Fingerprint(Boot) \in Prints /\ tree \in [Stores -> Nat]
    BY DEF Fingerprint, Prints
  <2>2. rows \in [Stores -> Nat \cup {NULL}]
    OBVIOUS
  <2>3. \A f \in Prints \cup {NULL}, b \in BOOLEAN :
           [clean |-> f, last |-> f, dirty |-> FALSE, recent |-> b] \in Slots0
    BY DEF Slots0
  <2>4. slots \in Slots0
    <3>1. \E f \in {Fingerprint(Boot), NULL}, b \in BOOLEAN :
             slots = [clean |-> f, last |-> f, dirty |-> FALSE, recent |-> b]
      OBVIOUS
    <3> QED
      BY <2>1, <2>3, <3>1 DEF Slots0
  <2>5. graph \in Prints \cup {NULL} /\ wpc \in {"off", "sleep"}
    BY <2>1
  <2>6. /\ fpCache \in [Stores -> Slots0 \cup {NULL}]
        /\ graphCache \in [Stores -> Prints \cup {NULL}]
    OBVIOUS
  <2>7. /\ aliased \in BOOLEAN /\ cooldown \in BOOLEAN
        /\ saved = NULL /\ {graph, walk, wfp} \subseteq Prints \cup {NULL}
    BY <2>5
  <2>8. /\ edits \in 0..MaxEdits /\ fails \in 0..MaxFails /\ bound \in Stores
        /\ racing \subseteq Stores /\ touched \subseteq Stores /\ unbuilt \subseteq Stores
    OBVIOUS
  <2>9. pc = "idle" /\ call = "none" /\ phase = "none" /\ via = "none"
    OBVIOUS
  <2> HIDE DEF Init
  <2> QED
    BY <2>1, <2>2, <2>4, <2>5, <2>6, <2>7, <2>8, <2>9 DEF TypeOK
<1>2. Places /\ RowsThere /\ Synced /\ Judged
  BY DEF Places, RowsThere, Past, Synced, Judged
<1>3. Recorded /\ Unseen
  BY DEF Recorded, Unseen, SlotsSeen, Seen, SlotsWithout, Without, Fingerprint
<1>4. GraphsOwn /\ Follow
  BY DEF GraphsOwn, Of, Follow, Ahead, Fingerprint
<1>5. Covers
  <2>1. Base(slots, Boot)
    <3>1. CASE rows[Boot] = 1
      BY <3>1 DEF Base
    <3>2. CASE slots.clean = NULL
      BY <3>2 DEF Base, Fingerprint, Prints
    <3> QED
      BY <3>1, <3>2
  <2> QED
    BY <2>1 DEF Covers
<1> QED
  BY <1>1, <1>2, <1>3, <1>4, <1>5 DEF IInv

\* What a call that gave up does next.
LEMMA GaveUpFacts ==
  ASSUME TypeOK, GaveUp
  PROVE  /\ via' = "failed" /\ cooldown' \in BOOLEAN
         /\ pc' \in {"scan", "rescan", "body", "leave"}
         /\ phase' \in {"none", "first", "heal", "auto", "tool"}
<1>1. via' = "failed" /\ cooldown' \in BOOLEAN
  <2>1. CASE phase \in {"auto", "heal"}
    BY <2>1, Zenon DEF GaveUp
  <2>2. CASE phase \notin {"auto", "heal"}
    BY <2>2 DEF GaveUp, Raised, TypeOK
  <2> QED
    BY <2>1, <2>2
<1>2. /\ pc' \in {"scan", "rescan", "body", "leave"}
      /\ phase' \in {"none", "first", "heal", "auto", "tool"}
  BY DEF GaveUp, Raised, Onward, AutoGate, TypeOK
<1> QED
  BY <1>1, <1>2

LEMMA TypeInductive == TypeOK /\ Places /\ [Next]_vars => TypeOK'
<1> SUFFICES ASSUME TypeOK, Places, [Next]_vars PROVE TypeOK'
  OBVIOUS
<1> USE RoutingAssumption
    DEF TypeOK, vars, disk, index, scope, holder, watch
<1>p. \A s \in Stores : Fingerprint(s) \in Prints
  BY DEF Fingerprint, Prints
<1>1. ASSUME NEW s \in Stores, Edit(s) PROVE TypeOK'
  BY <1>1 DEF Edit
<1>2. CASE TtlExpires
  BY <1>2, AgedFacts DEF TtlExpires
<1>3. CASE CooldownOver
  <2>1. cooldown' \in BOOLEAN /\ aliased' \in BOOLEAN
    BY <1>3, Zenon DEF CooldownOver
  <2> QED
    BY <1>3, <2>1 DEF CooldownOver
<1>4. CASE Direct
  BY <1>4 DEF Direct, Take, AutoGate
<1>5. ASSUME NEW c \in {"read", "tool"}, Route(c) PROVE TypeOK'
  BY <1>5 DEF Route, Take
<1>6. CASE BindFails
  BY <1>6 DEF BindFails, Fault
<1>7. ASSUME NEW s \in Stores, Bind(s) PROVE TypeOK'
  BY <1>7 DEF Bind
<1>8. CASE Body
  BY <1>8, <1>p DEF Body
<1>9. CASE Leave
  BY <1>9 DEF Leave, Returned
<1>10. CASE Restore
  BY <1>10 DEF Restore, Returned, Places
<1>11. CASE ScanCached
  BY <1>11 DEF ScanCached, Verdict, Onward, AutoGate
<1>12. CASE ScanWalk
  BY <1>12, <1>p DEF ScanWalk
<1>13. CASE ScanCommit
  BY <1>13, CommittedFacts DEF ScanCommit, Verdict, Onward, AutoGate
<1>14. CASE Rescan
  BY <1>14 DEF Rescan
<1>15. CASE RescanFails
  BY <1>15, GaveUpFacts DEF RescanFails, Fault
<1>23. CASE HealAborts
  BY <1>23 DEF HealAborts, Raised, Fault
<1>24. CASE SyncFails
  BY <1>24, GaveUpFacts DEF SyncFails, Fault
<1>16. CASE Sync
  BY <1>16, <1>p DEF Sync
<1>17. CASE Mark
  BY <1>17, <1>p DEF Mark, Onward, AutoGate, Slots0
<1>18. CASE WatchWalk
  BY <1>18, <1>p DEF WatchWalk
<1>19. CASE WatchCommit
  BY <1>19, CommittedFacts DEF WatchCommit
<1>20. CASE WatchTest
  BY <1>20 DEF WatchTest
<1>21. CASE WatchGate
  BY <1>21 DEF WatchGate, Take, AutoGate
<1>22. CASE UNCHANGED vars
  BY <1>22
<1> QED
  BY <1>1, <1>2, <1>3, <1>4, <1>5, <1>6, <1>7, <1>8, <1>9, <1>10, <1>11, <1>12, <1>13,
     <1>14, <1>15, <1>16, <1>17, <1>18, <1>19, <1>20, <1>21, <1>22, <1>23, <1>24
     DEF Next, Routed, Working, Watching

\* Outside a scope the boot config is bound, inside one its state is set aside.
LEMMA PlacesInductive == TypeOK /\ Places /\ [Next]_vars => Places'
<1> SUFFICES ASSUME TypeOK, Places, [Next]_vars PROVE Places'
  OBVIOUS
<1> USE RoutingAssumption DEF TypeOK, Places, vars, disk, index, scope, holder, watch
<1>1. ASSUME NEW s \in Stores, Edit(s) PROVE Places'
  BY <1>1 DEF Edit
<1>2. CASE TtlExpires
  <2>1. saved' = NULL <=> saved = NULL
    <3>1. CASE saved = NULL
      BY <1>2, <3>1 DEF TtlExpires
    <3>2. CASE saved # NULL
      <4>1. saved' = [saved EXCEPT !.slots = Aged(@)]
        BY <1>2, <3>2 DEF TtlExpires
      <4>2. Aged(saved.slots) \in Slots0
        BY <3>2, AgedFacts
      <4> QED
        BY <3>2, <4>1, <4>2
    <3> QED
      BY <3>1, <3>2
  <2> QED
    BY <1>2, <2>1 DEF TtlExpires
<1>3. CASE CooldownOver
  BY <1>3 DEF CooldownOver
<1>4. CASE Direct
  BY <1>4 DEF Direct, Take, AutoGate
<1>5. ASSUME NEW c \in {"read", "tool"}, Route(c) PROVE Places'
  BY <1>5 DEF Route, Take
<1>6. CASE BindFails
  BY <1>6 DEF BindFails, Fault
<1>7. ASSUME NEW s \in Stores, Bind(s) PROVE Places'
  BY <1>7 DEF Bind
<1>8. CASE Body
  BY <1>8 DEF Body
<1>9. CASE Leave
  BY <1>9 DEF Leave, Returned
<1>10. CASE Restore
  BY <1>10 DEF Restore, Returned
<1>11. CASE ScanCached
  BY <1>11 DEF ScanCached, Verdict, Onward, AutoGate
<1>12. CASE ScanWalk
  BY <1>12 DEF ScanWalk
<1>13. CASE ScanCommit
  BY <1>13 DEF ScanCommit, Verdict, Onward, AutoGate
<1>14. CASE Rescan
  BY <1>14 DEF Rescan
<1>15. CASE RescanFails
  BY <1>15 DEF RescanFails, GaveUp, Raised, Fault, Onward, AutoGate
<1>23. CASE HealAborts
  BY <1>23 DEF HealAborts, Raised, Fault
<1>24. CASE SyncFails
  BY <1>24 DEF SyncFails, GaveUp, Raised, Fault, Onward, AutoGate
<1>16. CASE Sync
  BY <1>16 DEF Sync
<1>17. CASE Mark
  BY <1>17 DEF Mark, Onward, AutoGate
<1>18. CASE Watching
  BY <1>18
     DEF Watching, WatchWalk, WatchCommit, WatchTest, WatchGate, Take, AutoGate
<1>19. CASE UNCHANGED vars
  BY <1>19
<1> QED
  BY <1>1, <1>2, <1>3, <1>4, <1>5, <1>6, <1>7, <1>8, <1>9, <1>10, <1>11, <1>12, <1>13,
     <1>14, <1>15, <1>16, <1>17, <1>18, <1>19, <1>23, <1>24
     DEF Next, Routed, Working

\* Only a first contact works without rows; rows never run ahead of the tree.
LEMMA RowsInductive ==
  TypeOK /\ Places /\ RowsThere /\ [Next]_vars
    => RowsThere'
<1> SUFFICES ASSUME TypeOK, Places, RowsThere, [Next]_vars
           PROVE  RowsThere'
  OBVIOUS
<1> USE RoutingAssumption
    DEF TypeOK, Places, RowsThere, Past, vars, disk, index, scope, holder, watch
<1>1. ASSUME NEW s \in Stores, Edit(s) PROVE RowsThere'
  BY <1>1 DEF Edit
<1>2. CASE TtlExpires
  BY <1>2 DEF TtlExpires
<1>3. CASE CooldownOver
  BY <1>3 DEF CooldownOver
<1>4. CASE Direct
  BY <1>4 DEF Direct, Take, AutoGate
<1>5. ASSUME NEW c \in {"read", "tool"}, Route(c) PROVE RowsThere'
  BY <1>5 DEF Route, Take
<1>6. CASE BindFails
  BY <1>6 DEF BindFails, Fault
<1>7. ASSUME NEW s \in Stores, Bind(s) PROVE RowsThere'
  BY <1>7 DEF Bind
<1>8. CASE Body
  <2>1. UNCHANGED <<rows, tree, bound>> /\ pc = "body" /\ pc' = "leave"
    BY <1>8 DEF Body
  <2>2. rows[bound] # NULL
    BY <2>1
  <2> HIDE DEF TypeOK, Places
  <2> QED
    BY <2>1, <2>2
<1>9. CASE Leave
  BY <1>9 DEF Leave, Returned
<1>10. CASE Restore
  BY <1>10 DEF Restore, Returned
<1>11. CASE ScanCached
  BY <1>11 DEF ScanCached, Verdict, Onward, AutoGate
<1>12. CASE ScanWalk
  BY <1>12 DEF ScanWalk
<1>13. CASE ScanCommit
  BY <1>13 DEF ScanCommit, Verdict, Onward, AutoGate
<1>14. CASE Rescan
  BY <1>14 DEF Rescan
<1>15. CASE RescanFails
  BY <1>15 DEF RescanFails, GaveUp, Raised, Fault, Onward, AutoGate
<1>23. CASE HealAborts
  BY <1>23 DEF HealAborts, Raised, Fault
<1>24. CASE SyncFails
  BY <1>24 DEF SyncFails, GaveUp, Raised, Fault, Onward, AutoGate
<1>16. CASE Sync
  BY <1>16 DEF Sync
<1>17. CASE Mark
  BY <1>17 DEF Mark, Onward, AutoGate
<1>18. CASE Watching
  BY <1>18
     DEF Watching, WatchWalk, WatchCommit, WatchTest, WatchGate, Take, AutoGate
<1>19. CASE UNCHANGED vars
  BY <1>19
<1> QED
  BY <1>1, <1>2, <1>3, <1>4, <1>5, <1>6, <1>7, <1>8, <1>9, <1>10, <1>11, <1>12, <1>13,
     <1>14, <1>15, <1>16, <1>17, <1>18, <1>19, <1>23, <1>24
     DEF Next, Routed, Working

\* Only walks of trees as they are enter the slots.
LEMMA RecordedInductive ==
  TypeOK /\ Places /\ Recorded /\ [Next]_vars
    => Recorded'
<1> SUFFICES ASSUME TypeOK, Places, Recorded, [Next]_vars
           PROVE  Recorded'
  OBVIOUS
<1> USE RoutingAssumption
    DEF TypeOK, Places, Recorded, SlotsSeen, Seen, Fingerprint, vars, disk, index, scope,
        holder, watch
<1>1. ASSUME NEW s \in Stores, Edit(s) PROVE Recorded'
  <2>1. \A f \in Prints \cup {NULL} : Seen(f) => Seen(f)'
    <3> SUFFICES ASSUME NEW f \in Prints, Seen(f) PROVE f.v <= tree'[f.of]
      BY DEF Seen
    <3>1. f.of \in Stores /\ f.v \in Nat /\ f.v <= tree[f.of]
      BY DEF Prints
    <3>2. tree' = [tree EXCEPT ![s] = @ + 1]
      BY <1>1 DEF Edit
    <3> QED
      BY <3>1, <3>2
  <2> QED
    BY <1>1, <2>1 DEF Edit, Slots0
<1>2. CASE TtlExpires
  BY <1>2, AgedFacts DEF TtlExpires
<1>3. CASE CooldownOver
  BY <1>3 DEF CooldownOver
<1>4. CASE Direct
  BY <1>4 DEF Direct, Take, AutoGate
<1>5. ASSUME NEW c \in {"read", "tool"}, Route(c) PROVE Recorded'
  BY <1>5 DEF Route, Take
<1>6. CASE BindFails
  BY <1>6 DEF BindFails, Fault
<1>7. ASSUME NEW s \in Stores, Bind(s) PROVE Recorded'
  BY <1>7 DEF Bind
<1>8. CASE Body
  BY <1>8 DEF Body
<1>9. CASE Leave
  BY <1>9 DEF Leave, Returned
<1>10. CASE Restore
  BY <1>10 DEF Restore, Returned
<1>11. CASE ScanCached
  BY <1>11 DEF ScanCached, Verdict, Onward, AutoGate
<1>12. CASE ScanWalk
  BY <1>12 DEF ScanWalk
<1>13. CASE ScanCommit
  BY <1>13, CommittedFacts DEF ScanCommit, Verdict, Onward, AutoGate
<1>14. CASE Rescan
  BY <1>14 DEF Rescan
<1>15. CASE RescanFails
  BY <1>15 DEF RescanFails, GaveUp, Raised, Fault, Onward, AutoGate
<1>23. CASE HealAborts
  BY <1>23 DEF HealAborts, Raised, Fault
<1>24. CASE SyncFails
  BY <1>24 DEF SyncFails, GaveUp, Raised, Fault, Onward, AutoGate
<1>16. CASE Sync
  BY <1>16 DEF Sync
<1>17. CASE Mark
  BY <1>17 DEF Mark, Onward, AutoGate
<1>18. CASE Watching
  BY <1>18, CommittedFacts
     DEF Watching, WatchWalk, WatchCommit, WatchTest, WatchGate, Take, AutoGate
<1>19. CASE UNCHANGED vars
  BY <1>19
<1> QED
  BY <1>1, <1>2, <1>3, <1>4, <1>5, <1>6, <1>7, <1>8, <1>9, <1>10, <1>11, <1>12, <1>13,
     <1>14, <1>15, <1>16, <1>17, <1>18, <1>19, <1>23, <1>24
     DEF Next, Routed, Working

\* A binding records the bound tree alone, and leaves slots in the cache.
LEMMA UnseenInductive ==
  TypeOK /\ Places /\ Unseen /\ [Next]_vars
    => Unseen'
<1> SUFFICES ASSUME TypeOK, Places, Unseen, [Next]_vars
           PROVE  Unseen'
  OBVIOUS
<1> USE RoutingAssumption
    DEF TypeOK, Places, Unseen, SlotsWithout, Without, Fingerprint, vars, disk, index, scope,
        holder, watch
<1>1. ASSUME NEW s \in Stores, Edit(s) PROVE Unseen'
  BY <1>1 DEF Edit
<1>2. CASE TtlExpires
  BY <1>2, AgedFacts DEF TtlExpires
<1>3. CASE CooldownOver
  BY <1>3 DEF CooldownOver
<1>4. CASE Direct
  BY <1>4 DEF Direct, Take, AutoGate
<1>5. ASSUME NEW c \in {"read", "tool"}, Route(c) PROVE Unseen'
  BY <1>5 DEF Route, Take
<1>6. CASE BindFails
  BY <1>6 DEF BindFails, Fault
<1>7. ASSUME NEW s \in Stores, Bind(s) PROVE Unseen'
  BY <1>7 DEF Bind
<1>8. CASE Body
  BY <1>8 DEF Body
<1>9. CASE Leave
  BY <1>9 DEF Leave, Returned
<1>10. CASE Restore
  BY <1>10 DEF Restore, Returned
<1>11. CASE ScanCached
  BY <1>11 DEF ScanCached, Verdict, Onward, AutoGate
<1>12. CASE ScanWalk
  BY <1>12 DEF ScanWalk
<1>13. CASE ScanCommit
  BY <1>13, CommittedFacts DEF ScanCommit, Verdict, Onward, AutoGate
<1>14. CASE Rescan
  BY <1>14 DEF Rescan
<1>15. CASE RescanFails
  BY <1>15 DEF RescanFails, GaveUp, Raised, Fault, Onward, AutoGate
<1>23. CASE HealAborts
  BY <1>23 DEF HealAborts, Raised, Fault
<1>24. CASE SyncFails
  BY <1>24 DEF SyncFails, GaveUp, Raised, Fault, Onward, AutoGate
<1>16. CASE Sync
  BY <1>16 DEF Sync
<1>17. CASE Mark
  BY <1>17 DEF Mark, Onward, AutoGate
<1>18. CASE Watching
  BY <1>18, CommittedFacts
     DEF Watching, WatchWalk, WatchCommit, WatchTest, WatchGate, Take, AutoGate
<1>19. CASE UNCHANGED vars
  BY <1>19
<1> QED
  BY <1>1, <1>2, <1>3, <1>4, <1>5, <1>6, <1>7, <1>8, <1>9, <1>10, <1>11, <1>12, <1>13,
     <1>14, <1>15, <1>16, <1>17, <1>18, <1>19, <1>23, <1>24
     DEF Next, Routed, Working

\* Graphs travel with their store; only an aliased boot store is kept twice.
LEMMA GraphsInductive ==
  TypeOK /\ Places /\ RowsThere /\ GraphsOwn /\ Follow /\ [Next]_vars
    => (GraphsOwn /\ Follow)'
<1> SUFFICES ASSUME TypeOK, Places, RowsThere, GraphsOwn, Follow, [Next]_vars
           PROVE  (GraphsOwn /\ Follow)'
  OBVIOUS
<1> USE RoutingAssumption
    DEF TypeOK, Places, GraphsOwn, Of, Follow, Ahead, RowsThere, Past,
        Fingerprint, vars, disk, index, scope, holder, watch
<1>1. ASSUME NEW s \in Stores, Edit(s) PROVE (GraphsOwn /\ Follow)'
  BY <1>1 DEF Edit
<1>2. CASE TtlExpires
  BY <1>2 DEF TtlExpires
<1>3. CASE CooldownOver
  BY <1>3 DEF CooldownOver
<1>4. CASE Direct
  BY <1>4 DEF Direct, Take, AutoGate
<1>5. ASSUME NEW c \in {"read", "tool"}, Route(c) PROVE (GraphsOwn /\ Follow)'
  BY <1>5 DEF Route, Take
<1>6. CASE BindFails
  BY <1>6 DEF BindFails, Fault
<1>7. ASSUME NEW s \in Stores, Bind(s) PROVE (GraphsOwn /\ Follow)'
  BY <1>7 DEF Bind
<1>8. CASE Body
  <2>1. UNCHANGED <<rows, scope, via>> /\ pc = "body" /\ pc' = "leave"
    BY <1>8 DEF Body
  <2>2. graph' = graph \/ graph' = Fingerprint(bound)
    BY <1>8 DEF Body
  <2>3. /\ Fingerprint(bound) # NULL /\ Fingerprint(bound).of = bound
        /\ Fingerprint(bound).v = tree[bound]
    BY DEF Prints
  <2>7. rows[bound] # NULL
    BY <2>1
  <2>8. tree[bound] >= rows[bound]
    BY <2>7
  <2>4. \/ graph' = graph /\ unbuilt' = unbuilt
        \/ graph' = Fingerprint(bound) /\ unbuilt' = unbuilt \ {bound}
    <3>1. CASE call = "read" /\ graph = NULL
      BY <1>8, <3>1 DEF Body
    <3>2. CASE ~(call = "read" /\ graph = NULL)
      BY <1>8, <3>2 DEF Body
    <3> QED
      BY <3>1, <3>2
  <2>5. GraphsOwn'
    BY <2>1, <2>2, <2>3
  <2>6. Follow'
    BY <2>1, <2>3, <2>4, <2>7, <2>8
  <2> QED
    BY <2>5, <2>6
<1>9. CASE Leave
  BY <1>9 DEF Leave, Returned
<1>10. CASE Restore
  BY <1>10 DEF Restore, Returned
<1>11. CASE ScanCached
  BY <1>11 DEF ScanCached, Verdict, Onward, AutoGate
<1>12. CASE ScanWalk
  BY <1>12 DEF ScanWalk
<1>13. CASE ScanCommit
  BY <1>13 DEF ScanCommit, Verdict, Onward, AutoGate
<1>14. CASE Rescan
  BY <1>14 DEF Rescan
<1>15. CASE RescanFails
  BY <1>15 DEF RescanFails, GaveUp, Raised, Fault, Onward, AutoGate
<1>23. CASE HealAborts
  BY <1>23 DEF HealAborts, Raised, Fault
<1>24. CASE SyncFails
  BY <1>24 DEF SyncFails, GaveUp, Raised, Fault, Onward, AutoGate
<1>16. CASE Sync
  <2>1. UNCHANGED <<rows, scope>> /\ pc = "sync" /\ pc' = "mark"
        /\ graph' = Fingerprint(bound) /\ unbuilt' = unbuilt \ {bound}
    BY <1>16 DEF Sync
  <2>2. rows[bound] # NULL
    BY <2>1
  <2>3. tree[bound] >= rows[bound]
    BY <2>2
  <2> QED
    BY <2>1, <2>2, <2>3
<1>17. CASE Mark
  BY <1>17 DEF Mark, Onward, AutoGate
<1>18. CASE Watching
  BY <1>18
     DEF Watching, WatchWalk, WatchCommit, WatchTest, WatchGate, Take, AutoGate
<1>19. CASE UNCHANGED vars
  BY <1>19
<1> QED
  BY <1>1, <1>2, <1>3, <1>4, <1>5, <1>6, <1>7, <1>8, <1>9, <1>10, <1>11, <1>12, <1>13,
     <1>14, <1>15, <1>16, <1>17, <1>18, <1>19, <1>23, <1>24
     DEF Next, Routed, Working

\* What a baseline covers, and what a verdict or a rescan shows.
LEMMA CoverageInductive ==
  TypeOK /\ Places /\ RowsThere /\ Recorded /\ Unseen /\ Covers /\ Synced /\ Judged
    /\ [Next]_vars
    => (Covers /\ Synced /\ Judged)'
<1> SUFFICES ASSUME TypeOK, Places, RowsThere, Recorded, Unseen, Covers, Synced,
                    Judged, [Next]_vars
           PROVE  (Covers /\ Synced /\ Judged)'
  OBVIOUS
<1> USE RoutingAssumption
    DEF TypeOK, Places, Covers, Base, Synced, Judged, Current, Recorded, SlotsSeen,
        Seen, Unseen, SlotsWithout, Without, Fingerprint, vars, disk, index, scope, holder,
        watch
<1>1. ASSUME NEW s \in Stores, Edit(s) PROVE (Covers /\ Synced /\ Judged)'
  <2>1. /\ tree' = [tree EXCEPT ![s] = @ + 1]
        /\ UNCHANGED <<rows, scope, slots, pc, via, walk>>
    BY <1>1 DEF Edit
  <2>2. \A r \in Slots0 : SlotsSeen(r) => r.clean # Fingerprint(s)'
    BY <2>1 DEF Slots0, Prints
  <2>4. Covers'
    <3> SUFFICES ASSUME NEW t \in Stores \ racing'
                 PROVE  /\ fpCache[t] # NULL => Base(fpCache[t], t)'
                        /\ bound = t /\ pc # "restore" => Base(slots, t)'
                        /\ t = Boot /\ saved # NULL => Base(saved.slots, t)'
      BY <2>1
    <3>1. CASE t = s
      BY <2>1, <2>2, <3>1
    <3>2. CASE t # s
      <4>1. t \notin racing
        BY <1>1, <3>2 DEF Edit
      <4> QED
        BY <2>1, <3>2, <4>1
    <3> QED
      BY <3>1, <3>2
  <2>5. Synced'
    BY <1>1, <2>1 DEF Edit
  <2>6. Judged'
    BY <1>1, <2>1 DEF Edit
  <2> QED
    BY <2>4, <2>5, <2>6
<1>2. CASE TtlExpires
  BY <1>2, AgedFacts DEF TtlExpires
<1>3. CASE CooldownOver
  BY <1>3 DEF CooldownOver
<1>4. CASE Direct
  BY <1>4 DEF Direct, Take, AutoGate
<1>5. ASSUME NEW c \in {"read", "tool"}, Route(c) PROVE (Covers /\ Synced /\ Judged)'
  BY <1>5 DEF Route, Take
<1>6. CASE BindFails
  BY <1>6 DEF BindFails, Fault
<1>7. ASSUME NEW s \in Stores, Bind(s) PROVE (Covers /\ Synced /\ Judged)'
  <2>1. UNCHANGED <<disk, rows, fpCache, saved, via>> /\ bound' = s /\ via = "none"
        /\ pc = "bind" /\ pc' \in {"rescan", "scan"} /\ bound = Boot
    BY <1>7 DEF Bind
  <2>2. s \notin racing => Base(slots', s)
    <3>1. CASE fpCache[s] # NULL
      BY <1>7, <3>1 DEF Bind
    <3>2. CASE fpCache[s] = NULL /\ s = Boot
      BY <1>7, <2>1, <3>2 DEF Bind
    <3>3. CASE fpCache[s] = NULL /\ s # Boot
      <4>1. slots' = slots /\ Without(slots.clean, s)
        BY <1>7, <2>1, <3>3 DEF Bind, Slots0
      <4> QED
        BY <4>1 DEF Prints
    <3> QED
      BY <3>1, <3>2, <3>3
  <2>3. Covers'
    BY <2>1, <2>2
  <2> QED
    BY <2>1, <2>3
<1>8. CASE Body
  BY <1>8 DEF Body
<1>9. CASE Leave
  BY <1>9 DEF Leave, Returned
<1>10. CASE Restore
  BY <1>10 DEF Restore, Returned
<1>11. CASE ScanCached
  BY <1>11 DEF ScanCached, Verdict, Onward, AutoGate
<1>12. CASE ScanWalk
  BY <1>12 DEF ScanWalk
<1>13. CASE ScanCommit
  BY <1>13, CommittedFacts DEF ScanCommit, Verdict, Onward, AutoGate
<1>14. CASE Rescan
  BY <1>14 DEF Rescan
<1>15. CASE RescanFails
  BY <1>15 DEF RescanFails, GaveUp, Raised, Fault, Onward, AutoGate
<1>23. CASE HealAborts
  BY <1>23 DEF HealAborts, Raised, Fault
<1>24. CASE SyncFails
  BY <1>24 DEF SyncFails, GaveUp, Raised, Fault, Onward, AutoGate
<1>16. CASE Sync
  BY <1>16 DEF Sync
<1>17. CASE Mark
  BY <1>17 DEF Mark, Onward, AutoGate
<1>18. CASE Watching
  BY <1>18, CommittedFacts
     DEF Watching, WatchWalk, WatchCommit, WatchTest, WatchGate, Take, AutoGate
<1>19. CASE UNCHANGED vars
  BY <1>19
<1> QED
  BY <1>1, <1>2, <1>3, <1>4, <1>5, <1>6, <1>7, <1>8, <1>9, <1>10, <1>11, <1>12, <1>13,
     <1>14, <1>15, <1>16, <1>17, <1>18, <1>19, <1>23, <1>24
     DEF Next, Routed, Working

-----------------------------------------------------------------------------
LEMMA Inductive == IInv /\ [Next]_vars => IInv'
  BY TypeInductive, PlacesInductive, RowsInductive, RecordedInductive, UnseenInductive,
     GraphsInductive, CoverageInductive DEF IInv

\* Every slot, cache entry and saved value is what config_scope and the gate put there.
THEOREM Typed == Spec => []TypeOK
<1>1. IInv => TypeOK
  BY DEF IInv
<1> QED
  BY <1>1, Initial, Inductive, PTL DEF Spec

\* However calls alternate between checkouts, none works on the graph of another.
THEOREM GraphSafe == Spec => []GraphOfBound
<1>1. IInv => GraphOfBound
  BY DEF IInv, GraphOfBound, GraphsOwn, Of, Places
<1> QED
  BY <1>1, Initial, Inductive, PTL DEF Spec

\* A baseline is good for the store it will judge, wherever it was set aside.
THEOREM BaselineSafe == Spec => []BaselineCovered
<1>1. IInv => BaselineCovered
  <2> SUFFICES ASSUME Covers, NEW s \in Stores \ racing, NEW r \in SlotsOf(s),
                      r.clean = Fingerprint(s)
               PROVE  rows[s] = tree[s]
    BY DEF IInv, BaselineCovered
  <2> QED
    BY DEF Covers, Base, SlotsOf
<1> QED
  BY <1>1, Initial, Inductive, PTL DEF Spec

\* An answer that follows a walk or a rescan of its own serves all earlier edits.
THEOREM AnswersFresh == Spec => []AnswerFresh
<1>1. IInv => AnswerFresh
  BY DEF IInv, AnswerFresh, Judged, Current
<1> QED
  BY <1>1, Initial, Inductive, PTL DEF Spec

\* Until dir= names the boot's own store, a read's graph is as new as its rows, unless
\* a call has raised after its rows moved and no build has followed.
THEOREM GraphIsCurrent == Spec => []GraphFollowsRows
<1>1. IInv => GraphFollowsRows
  BY DEF IInv, GraphFollowsRows, Follow, Ahead
<1> QED
  BY <1>1, Initial, Inductive, PTL DEF Spec

\* No routed call moves the drift baseline of the boot's store.
THEOREM BaselineKept == Spec => BootBaselineKept
<1> DEFINE Kept == BootSlots'.clean # BootSlots.clean => pc = "mark" /\ saved = NULL
<1>1. IInv /\ [Next]_vars => [Kept]_vars
  <2> SUFFICES ASSUME IInv, IInv', Next PROVE Kept
    BY Inductive
  <2> USE RoutingAssumption DEF IInv, TypeOK, Places, BootSlots
  <2>1. CASE TtlExpires
    <3>1. CASE saved = NULL
      BY <2>1, <3>1, AgedFacts DEF TtlExpires
    <3>2. CASE saved # NULL
      <4>1. saved' = [saved EXCEPT !.slots = Aged(@)]
        BY <2>1, <3>2 DEF TtlExpires
      <4>2. saved' # NULL /\ saved'.slots = Aged(saved.slots)
        BY <3>2, <4>1, AgedFacts
      <4> QED
        BY <3>2, <4>2, AgedFacts
    <3> QED
      BY <3>1, <3>2
  <2>2. ASSUME NEW c \in {"read", "tool"}, Route(c) PROVE Kept
    BY <2>2 DEF Route, Take
  <2>3. ASSUME NEW s \in Stores, Bind(s) PROVE Kept
    BY <2>3 DEF Bind
  <2>4. CASE Restore
    BY <2>4 DEF Restore
  <2>5. CASE ScanCommit
    BY <2>5, CommittedFacts DEF ScanCommit, scope
  <2>6. CASE WatchCommit
    BY <2>6, CommittedFacts DEF WatchCommit, scope
  <2>7. CASE Mark
    BY <2>7 DEF Mark, scope
  <2>8. CASE UNCHANGED <<slots, saved>>
    BY <2>8
  <2> QED
    BY <2>1, <2>2, <2>3, <2>4, <2>5, <2>6, <2>7, <2>8
       DEF Next, Edit, CooldownOver, Direct, Routed, Take, BindFails, Working, ScanCached,
           ScanWalk, Rescan, RescanFails, HealAborts, Sync, SyncFails, Body, Leave,
           Watching, WatchWalk, WatchTest, WatchGate, scope
<1> QED
  BY <1>1, Initial, Inductive, PTL DEF Spec, BootBaselineKept
=============================================================================
