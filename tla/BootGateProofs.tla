--------------------------- MODULE BootGateProofs ---------------------------
(***************************************************************************)
(* What a session is bound to and what it may build, for any number of     *)
(* tool calls in flight and of processes.  The store lock's holder is the  *)
(* boot thread or one call; a re-bound session that has not finished its   *)
(* recovery is that call's and nobody else's; a store that was ever filled *)
(* was filled for somebody who asked.                                      *)
(***************************************************************************)
EXTENDS BootGate, TLAPS

InPCs == {"in", "rebind", "rebound", "rebuild", "contact"}

\* Who is where, and who holds _SCOPE_LOCK.
Locks ==
  /\ boot \in {"gate", "rescan", "sync"} <=> lock = "boot"
  /\ \A c \in Calls : /\ pc[c] \in InPCs <=> lock = c
                      /\ pc[c] \notin {"idle", "await"} => ready
  /\ ready => boot = "done"

\* A process that is not running holds nothing.
Down ==
  boot = "down" => /\ bound = "plain" /\ ~env /\ identity = "own"
                   /\ graph = NULL /\ degraded = NULL /\ lock = NULL

\* Where a build may write, somebody asked for one.
Asked ==
  /\ consent \subseteq asked
  /\ \A s \in Stores : /\ disk[s].built => s \in consent
                       /\ disk[s].rows # "none" => s \in asked
  /\ bound = "project" => home \in asked
  /\ boot \in {"rescan", "sync"} /\ bound = "plain" => "own" \in consent
  /\ boot \in {"opening", "done"} /\ degraded = NULL => Home(bound) \in asked
  /\ \A c \in Calls :
       /\ pc[c] = "in" /\ kind[c] = "rescan" => Home(bound) \in asked
       /\ pc[c] = "rebuild" => Home(bound) \in asked
       /\ pc[c] = "contact" => home \in asked

\* The process is bound to one config, except inside a recovery, which knows
\* what it took over.
Bindings ==
  /\ boot # "down" /\ (\A c \in Calls : pc[c] \notin {"rebind", "rebound"}) =>
       /\ identity = Home(bound) /\ graph \in {NULL, bound}
       /\ env => bound = "project"
  /\ \A c \in Calls :
       /\ pc[c] \in {"rebind", "rebound"} =>
            /\ bound = "project" /\ identity = "own" /\ degraded # NULL
            /\ saved[c] \in {NULL, "plain"}
       /\ pc[c] = "rebound" => /\ graph = "project"
                               /\ disk[home].rows = "all" /\ disk[home].built

\* A session out of guidance has rows to answer from.
Index ==
  /\ boot = "sync" => disk[Home(bound)].rows # "none"
  /\ boot \in {"opening", "done"} /\ ~fatal /\ degraded = NULL
       => disk[Home(bound)].rows # "none"

IInv == TypeOK /\ Locks /\ Down /\ Asked /\ Bindings /\ Index

USE CallsAssumption

\* A store operation touches one store; only a completed build marks it.
Grows(d, s) ==
  /\ d \in Disks
  /\ \A t \in Stores : /\ disk[t].rows # "none" => d[t].rows # "none"
                       /\ disk[t].rows = "all" => d[t].rows = "all"
                       /\ disk[t].built => d[t].built
                       /\ t # s => d[t] = disk[t]

LEMMA StoredGrows ==
  ASSUME TypeOK, NEW s \in Stores, NEW rows \in {"none", "some", "all"},
         NEW built \in BOOLEAN,
         disk[s].rows # "none" => rows # "none",
         disk[s].rows = "all" => rows = "all",
         disk[s].built => built
  PROVE  /\ Grows(Stored(s, rows, built), s)
         /\ Stored(s, rows, built)[s].rows = rows
         /\ Stored(s, rows, built)[s].built = built
<1> DEFINE d == Stored(s, rows, built)
           r == [made |-> TRUE, rows |-> rows, built |-> built]
<1>1. disk \in Disks
  BY DEF TypeOK
<1>2. d = [disk EXCEPT ![s] = r]
  BY DEF Stored
<1>3. r \in [made : BOOLEAN, rows : {"none", "some", "all"}, built : BOOLEAN]
  OBVIOUS
<1>4. d \in Disks
  BY <1>1, <1>2, <1>3 DEF Disks
<1>5. d[s] = r /\ \A t \in Stores \ {s} : d[t] = disk[t]
  BY <1>1, <1>2 DEF Disks
<1>6. r.rows = rows /\ r.built = built
  OBVIOUS
<1> HIDE DEF d, r
<1>7. Grows(d, s) /\ d[s].rows = rows /\ d[s].built = built
  BY <1>4, <1>5, <1>6 DEF Grows
<1> QED
  BY <1>7 DEF d

LEMMA RowsAndMark ==
  ASSUME TypeOK, NEW s \in Stores
  PROVE  disk[s].rows \in {"none", "some", "all"} /\ disk[s].built \in BOOLEAN
BY DEF TypeOK, Disks

LEMMA OpenedGrows ==
  ASSUME TypeOK, NEW s \in Stores
  PROVE  /\ Grows(Opened(s), s)
         /\ \A t \in Stores : /\ Opened(s)[t].built = disk[t].built
                              /\ Opened(s)[t].rows = disk[t].rows
BY RowsAndMark, StoredGrows DEF Opened, Grows

LEMMA FilledGrows ==
  ASSUME TypeOK, NEW s \in Stores
  PROVE  /\ Grows(Filled(s), s)
         /\ Filled(s)[s].rows = "all" /\ Filled(s)[s].built
BY StoredGrows DEF Filled

LEMMA PartialGrows ==
  ASSUME TypeOK, NEW s \in Stores, NEW d \in Partial(s)
  PROVE  /\ Grows(d, s)
         /\ \A t \in Stores : d[t].built = disk[t].built
<1>1. CASE d = Opened(s)
  BY <1>1, OpenedGrows
<1>2. CASE d # Opened(s)
  <2> DEFINE r == IF disk[s].rows = "none" THEN "some" ELSE disk[s].rows
  <2>1. d = Stored(s, r, disk[s].built)
    BY <1>2 DEF Partial
  <2>2. /\ r \in {"none", "some", "all"} /\ disk[s].built \in BOOLEAN
        /\ r # "none" /\ (disk[s].rows = "all" => r = "all")
    BY RowsAndMark
  <2> HIDE DEF r
  <2>3. Grows(d, s) /\ d[s].built = disk[s].built
    BY <2>1, <2>2, StoredGrows
  <2> QED
    BY <2>3 DEF Grows
<1> QED
  BY <1>1, <1>2

LEMMA HomeStore == ASSUME TypeOK, NEW c \in Configs PROVE Home(c) \in Stores
BY DEF TypeOK, Home, Stores, Configs

LEMMA Initially == Init => IInv
<1> SUFFICES ASSUME Init PROVE IInv
  OBVIOUS
<1> USE DEF Init
<1>1. TypeOK
  BY DEF TypeOK, BootPCs, CallPCs, Configs, Stores, Kinds, Disks
<1>2. \A s \in Stores : disk[s].rows = "none" /\ ~disk[s].built
  OBVIOUS
<1>3. Locks /\ Down
  BY DEF Locks, Down, InPCs
<1>4. Asked /\ Bindings /\ Index
  BY <1>2 DEF Asked, Bindings, Index
<1> QED
  BY <1>1, <1>3, <1>4 DEF IInv

\* What the boot thread does.
LEMMA BootKeeps ==
  ASSUME IInv,
         \/ BootCensus \/ BootUnbuilt \/ BootNoMatch \/ BootProbed
         \/ BootSynced \/ OpenGate \/ BootWarm \/ BootRescanned
         \/ BootRescanEmpty \/ BootFatal
  PROVE  IInv'
<1> USE DEF IInv, durable, process, calls
<1>1. CASE BootCensus \/ BootUnbuilt \/ BootNoMatch
  <2>1. TypeOK'
    <3>1. CASE BootCensus
      BY <3>1 DEF BootCensus, TypeOK, BootPCs, CallPCs, Home, Configs, Stores, Kinds
    <3>2. CASE BootUnbuilt
      BY <3>2 DEF BootUnbuilt, EnterDegraded, TypeOK, BootPCs, CallPCs, Home,
                  Configs, Stores, Kinds
    <3>3. CASE BootNoMatch
      BY <3>3 DEF BootNoMatch, EnterDegraded, TypeOK, BootPCs, CallPCs, Home,
                  Configs, Stores, Kinds
    <3> QED
      BY <1>1, <3>1, <3>2, <3>3
  <2>2. Locks'
    BY <1>1 DEF BootCensus, BootUnbuilt, BootNoMatch, EnterDegraded, TypeOK, Locks,
                InPCs
  <2>3. Down'
    BY <1>1 DEF BootCensus, BootUnbuilt, BootNoMatch, EnterDegraded, TypeOK, Down,
                Locks
  <2>4. Asked'
    BY <1>1 DEF BootCensus, BootUnbuilt, BootNoMatch, EnterDegraded, TypeOK, Asked,
                Locks, Down, InPCs, Home, Unbuilt, Configs, Stores
  <2>5. Bindings'
    BY <1>1 DEF BootCensus, BootUnbuilt, BootNoMatch, EnterDegraded, TypeOK,
                Bindings, Locks, Down, InPCs, Home, Configs, Stores
  <2>6. Index'
    BY <1>1 DEF BootCensus, BootUnbuilt, BootNoMatch, EnterDegraded, TypeOK, Index,
                Locks, InPCs, Home, Configs, Stores
  <2> QED
    BY <2>1, <2>2, <2>3, <2>4, <2>5, <2>6
<1>2. CASE BootProbed \/ BootSynced \/ OpenGate
  <2>1. TypeOK'
    <3>1. CASE BootProbed
      BY <3>1 DEF BootProbed, TypeOK, BootPCs, CallPCs, Home, Configs, Stores, Kinds
    <3>2. CASE BootSynced
      BY <3>2 DEF BootSynced, TypeOK, BootPCs, CallPCs, Home, Configs, Stores, Kinds
    <3>3. CASE OpenGate
      BY <3>3 DEF OpenGate, TypeOK, BootPCs, CallPCs, Home, Configs, Stores, Kinds
    <3> QED
      BY <1>2, <3>1, <3>2, <3>3
  <2>2. Locks'
    BY <1>2 DEF BootProbed, BootSynced, OpenGate, TypeOK, Locks, InPCs
  <2>3. Down'
    BY <1>2 DEF BootProbed, BootSynced, OpenGate, TypeOK, Down, Locks
  <2>4. Asked'
    BY <1>2 DEF BootProbed, BootSynced, OpenGate, TypeOK, Asked, Locks, Down, InPCs,
                Home, Unbuilt, Configs, Stores
  <2>5. Bindings'
    BY <1>2 DEF BootProbed, BootSynced, OpenGate, TypeOK, Bindings, Locks, Down,
                InPCs, Home, Configs, Stores
  <2>6. Index'
    BY <1>2 DEF BootProbed, BootSynced, OpenGate, TypeOK, Index, Locks, InPCs, Home,
                Configs, Stores
  <2> QED
    BY <2>1, <2>2, <2>3, <2>4, <2>5, <2>6
<1>3. CASE BootWarm
  <2>1. Home(bound) \in Stores
    BY HomeStore DEF TypeOK
  <2>2. /\ Grows(disk', Home(bound))
        /\ \A t \in Stores : disk'[t].built => t \in consent'
        /\ \A t \in Stores : disk'[t].rows = disk[t].rows
    BY <1>3, <2>1, OpenedGrows DEF BootWarm, Asked, Grows, TypeOK
  <2>3. TypeOK'
    BY <1>3, <2>1, <2>2 DEF BootWarm, TypeOK, BootPCs, CallPCs, Home, Configs,
                            Stores, Kinds, Grows
  <2>4. Locks'
    BY <1>3, <2>1, <2>2 DEF BootWarm, TypeOK, Locks, InPCs
  <2>5. Down'
    BY <1>3, <2>1, <2>2 DEF BootWarm, TypeOK, Down, Locks
  <2>6. Asked'
    BY <1>3, <2>1, <2>2 DEF BootWarm, TypeOK, Asked, Locks, Down, InPCs, Home,
                            Unbuilt, Configs, Stores, Grows
  <2>7. Bindings'
    BY <1>3, <2>1, <2>2 DEF BootWarm, TypeOK, Bindings, Locks, Down, InPCs, Home,
                            Configs, Stores, Grows
  <2>8. Index'
    BY <1>3, <2>1, <2>2 DEF BootWarm, TypeOK, Index, Locks, InPCs, Home, Configs,
                            Stores, Grows
  <2> QED
    BY <2>3, <2>4, <2>5, <2>6, <2>7, <2>8
<1>4. CASE BootRescanned
  <2>1. Home(bound) \in Stores
    BY HomeStore DEF TypeOK
  <2>2. /\ Grows(disk', Home(bound))
        /\ \A t \in Stores : disk'[t].built => t \in consent'
        /\ disk'[Home(bound)].rows = "all" /\ disk'[Home(bound)].built
    BY <1>4, <2>1, FilledGrows DEF BootRescanned, Asked, Grows, TypeOK
  <2>3. TypeOK'
    BY <1>4, <2>1, <2>2 DEF BootRescanned, TypeOK, BootPCs, CallPCs, Home, Configs,
                            Stores, Kinds, Grows
  <2>4. Locks'
    BY <1>4, <2>1, <2>2 DEF BootRescanned, TypeOK, Locks, InPCs
  <2>5. Down'
    BY <1>4, <2>1, <2>2 DEF BootRescanned, TypeOK, Down, Locks
  <2>6. Asked'
    BY <1>4, <2>1, <2>2 DEF BootRescanned, TypeOK, Asked, Locks, Down, InPCs, Home,
                            Unbuilt, Configs, Stores, Grows
  <2>7. Bindings'
    BY <1>4, <2>1, <2>2 DEF BootRescanned, TypeOK, Bindings, Locks, Down, InPCs,
                            Home, Configs, Stores, Grows
  <2>8. Index'
    <3>1. /\ disk'[Home(bound)].rows = "all" /\ boot' = "sync"
          /\ UNCHANGED <<bound, home>>
      BY <1>4, <2>2 DEF BootRescanned
    <3> QED
      BY <3>1 DEF Index, Home
  <2> QED
    BY <2>3, <2>4, <2>5, <2>6, <2>7, <2>8
<1>5. CASE BootRescanEmpty
  <2>1. Home(bound) \in Stores
    BY HomeStore DEF TypeOK
  <2>2. /\ Grows(disk', Home(bound))
        /\ \A t \in Stores : disk'[t].built => t \in consent'
    BY <1>5, <2>1, PartialGrows DEF BootRescanEmpty, Asked, Grows, TypeOK
  <2>3. TypeOK'
    BY <1>5, <2>1, <2>2 DEF BootRescanEmpty, EnterDegraded, TypeOK, BootPCs,
                            CallPCs, Home, Configs, Stores, Kinds, Grows
  <2>4. Locks'
    BY <1>5, <2>1, <2>2 DEF BootRescanEmpty, EnterDegraded, TypeOK, Locks, InPCs
  <2>5. Down'
    BY <1>5, <2>1, <2>2 DEF BootRescanEmpty, EnterDegraded, TypeOK, Down, Locks
  <2>6. Asked'
    BY <1>5, <2>1, <2>2 DEF BootRescanEmpty, EnterDegraded, TypeOK, Asked, Locks,
                            Down, InPCs, Home, Unbuilt, Configs, Stores, Grows
  <2>7. Bindings'
    BY <1>5, <2>1, <2>2 DEF BootRescanEmpty, EnterDegraded, TypeOK, Bindings, Locks,
                            Down, InPCs, Home, Configs, Stores, Grows
  <2>8. Index'
    BY <1>5, <2>1, <2>2 DEF BootRescanEmpty, EnterDegraded, TypeOK, Index, Locks,
                            InPCs, Home, Configs, Stores, Grows
  <2> QED
    BY <2>3, <2>4, <2>5, <2>6, <2>7, <2>8
<1>6. CASE BootFatal
  <2>1. Home(bound) \in Stores
    BY HomeStore DEF TypeOK
  <2>2. /\ Grows(disk', Home(bound))
        /\ \A t \in Stores : disk'[t].built => t \in consent'
    BY <1>6, <2>1, OpenedGrows, PartialGrows DEF BootFatal, Asked, Grows, TypeOK
  <2>3. TypeOK'
    BY <1>6, <2>1, <2>2 DEF BootFatal, TypeOK, BootPCs, CallPCs, Home, Configs,
                            Stores, Kinds, Grows
  <2>4. Locks'
    BY <1>6, <2>1, <2>2 DEF BootFatal, TypeOK, Locks, InPCs
  <2>5. Down'
    BY <1>6, <2>1, <2>2 DEF BootFatal, TypeOK, Down, Locks
  <2>6. Asked'
    BY <1>6, <2>1, <2>2 DEF BootFatal, TypeOK, Asked, Locks, Down, InPCs, Home,
                            Unbuilt, Configs, Stores, Grows
  <2>7. Bindings'
    BY <1>6, <2>1, <2>2 DEF BootFatal, TypeOK, Bindings, Locks, Down, InPCs, Home,
                            Configs, Stores, Grows
  <2>8. Index'
    BY <1>6, <2>1, <2>2 DEF BootFatal, TypeOK, Index, Locks, InPCs, Home, Configs,
                            Stores, Grows
  <2> QED
    BY <2>3, <2>4, <2>5, <2>6, <2>7, <2>8
<1> QED
  BY <1>1, <1>2, <1>3, <1>4, <1>5, <1>6

\* The process and its user.
LEMMA AroundKeeps ==
  ASSUME IInv,
         \/ Exit \/ Start \/ EditConfig \/ Flip
  PROVE  IInv'
<1> USE DEF IInv, durable, process, calls
<1>1. CASE Exit
  <2>1. TypeOK'
    BY <1>1 DEF Exit, TypeOK, BootPCs, CallPCs, Home, Configs, Stores, Kinds
  <2>2. Locks'
    BY <1>1 DEF Exit, TypeOK, Locks, InPCs
  <2>3. Down'
    BY <1>1 DEF Exit, TypeOK, Down, Locks
  <2>4. Asked'
    BY <1>1 DEF Exit, TypeOK, Asked, Locks, Down, InPCs, Home, Unbuilt, Configs,
                Stores
  <2>5. Bindings'
    BY <1>1 DEF Exit, TypeOK, Bindings, Locks, Down, InPCs, Home, Configs, Stores
  <2>6. Index'
    BY <1>1 DEF Exit, TypeOK, Index, Locks, InPCs, Home, Configs, Stores
  <2> QED
    BY <2>1, <2>2, <2>3, <2>4, <2>5, <2>6
<1>2. CASE Start
  <2>1. TypeOK'
    BY <1>2 DEF Start, TypeOK, BootPCs, CallPCs, Home, Configs, Stores, Kinds
  <2>2. Locks'
    BY <1>2 DEF Start, TypeOK, Locks, InPCs
  <2>3. Down'
    BY <1>2 DEF Start, TypeOK, Down, Locks
  <2>4. Asked'
    BY <1>2 DEF Start, TypeOK, Asked, Locks, Down, InPCs, Home, Unbuilt, Configs,
                Stores
  <2>5. Bindings'
    BY <1>2 DEF Start, TypeOK, Bindings, Locks, Down, InPCs, Home, Configs, Stores
  <2>6. Index'
    BY <1>2 DEF Start, TypeOK, Index, Locks, InPCs, Home, Configs, Stores
  <2> QED
    BY <2>1, <2>2, <2>3, <2>4, <2>5, <2>6
<1>3. CASE EditConfig \/ Flip
  <2>1. TypeOK'
    <3>1. CASE EditConfig
      BY <3>1 DEF EditConfig, TypeOK, BootPCs, CallPCs, Home, Configs, Stores, Kinds
    <3>2. CASE Flip
      BY <3>2 DEF Flip, TypeOK, BootPCs, CallPCs, Home, Configs, Stores, Kinds
    <3> QED
      BY <1>3, <3>1, <3>2
  <2>2. Locks'
    BY <1>3 DEF EditConfig, Flip, TypeOK, Locks, InPCs
  <2>3. Down'
    BY <1>3 DEF EditConfig, Flip, TypeOK, Down, Locks
  <2>4. Asked'
    BY <1>3 DEF EditConfig, Flip, TypeOK, Asked, Locks, Down, InPCs, Home, Unbuilt,
                Configs, Stores
  <2>5. Bindings'
    BY <1>3 DEF EditConfig, Flip, TypeOK, Bindings, Locks, Down, InPCs, Home,
                Configs, Stores
  <2>6. Index'
    BY <1>3 DEF EditConfig, Flip, TypeOK, Index, Locks, InPCs, Home, Configs, Stores
  <2> QED
    BY <2>1, <2>2, <2>3, <2>4, <2>5, <2>6
<1> QED
  BY <1>1, <1>2, <1>3

\* A call on its way to the scope lock.
LEMMA EntryKeeps ==
  ASSUME IInv, NEW c \in Calls,
         \/ StaleRead(c) \/ AwaitBoot(c) \/ AwaitTimeout(c)
         \/ Enter(c)
  PROVE  IInv'
<1> USE DEF IInv, durable, process, calls
<1>1. CASE StaleRead(c)
  <2>1. Home(bound) \in Stores
    BY HomeStore DEF TypeOK
  <2>2. /\ Grows(disk', Home(bound))
        /\ \A t \in Stores : disk'[t].built => t \in consent'
        /\ \A t \in Stores : disk'[t].rows = disk[t].rows
    BY <1>1, <2>1, OpenedGrows DEF StaleRead, Asked, Grows, TypeOK
  <2>3. TypeOK'
    BY <1>1, <2>1, <2>2 DEF StaleRead, Goto, Leave, Inside, TypeOK, BootPCs,
                            CallPCs, Home, Configs, Stores, Kinds, Grows
  <2>4. Locks'
    BY <1>1, <2>1, <2>2 DEF StaleRead, Goto, Leave, Inside, TypeOK, Locks, InPCs
  <2>5. Down'
    BY <1>1, <2>1, <2>2 DEF StaleRead, Goto, Leave, Inside, TypeOK, Down, Locks
  <2>6. Asked'
    <3>1. /\ UNCHANGED <<home, asked, consent, boot, degraded, bound, kind>>
          /\ pc' \in {[pc EXCEPT ![c] = "idle"], [pc EXCEPT ![c] = "await"]}
      BY <1>1 DEF StaleRead, Goto
    <3>2. \A t \in Stores : disk'[t].rows # "none" => t \in asked
      BY <2>2 DEF Asked
    <3>3. \A e \in Calls : pc'[e] \in {pc[e], "idle", "await"}
      BY <3>1 DEF TypeOK
    <3> QED
      BY <2>2, <3>1, <3>2, <3>3 DEF Asked, Home
  <2>7. Bindings'
    BY <1>1, <2>1, <2>2 DEF StaleRead, Goto, Leave, Inside, TypeOK, Bindings, Locks,
                            Down, InPCs, Home, Configs, Stores, Grows
  <2>8. Index'
    BY <1>1, <2>1, <2>2 DEF StaleRead, Goto, Leave, Inside, TypeOK, Index, Locks,
                            InPCs, Home, Configs, Stores, Grows
  <2> QED
    BY <2>3, <2>4, <2>5, <2>6, <2>7, <2>8
<1>2. CASE AwaitBoot(c) \/ AwaitTimeout(c) \/ Enter(c)
  <2>1. TypeOK'
    <3>1. CASE AwaitBoot(c)
      BY <3>1 DEF AwaitBoot, Goto, Leave, Inside, TypeOK, BootPCs, CallPCs, Home,
                  Configs, Stores, Kinds
    <3>2. CASE AwaitTimeout(c)
      BY <3>2 DEF AwaitTimeout, Goto, Leave, Inside, TypeOK, BootPCs, CallPCs, Home,
                  Configs, Stores, Kinds
    <3>3. CASE Enter(c)
      BY <3>3 DEF Enter, Goto, Leave, Inside, TypeOK, BootPCs, CallPCs, Home,
                  Configs, Stores, Kinds
    <3> QED
      BY <1>2, <3>1, <3>2, <3>3
  <2>2. Locks'
    BY <1>2 DEF AwaitBoot, AwaitTimeout, Enter, Goto, Leave, Inside, TypeOK, Locks,
                InPCs
  <2>3. Down'
    BY <1>2 DEF AwaitBoot, AwaitTimeout, Enter, Goto, Leave, Inside, TypeOK, Down,
                Locks
  <2>4. Asked'
    BY <1>2, ZenonT(60)
    DEF AwaitBoot, AwaitTimeout, Enter, Goto, Leave, Inside, TypeOK, Asked,
                Locks, Down, InPCs, Home, Unbuilt, Configs, Stores
  <2>5. Bindings'
    BY <1>2 DEF AwaitBoot, AwaitTimeout, Enter, Goto, Leave, Inside, TypeOK,
                Bindings, Locks, Down, InPCs, Home, Configs, Stores
  <2>6. Index'
    BY <1>2 DEF AwaitBoot, AwaitTimeout, Enter, Goto, Leave, Inside, TypeOK, Index,
                Locks, InPCs, Home, Configs, Stores
  <2> QED
    BY <2>1, <2>2, <2>3, <2>4, <2>5, <2>6
<1> QED
  BY <1>1, <1>2

\* A call that holds the scope lock.
LEMMA InsideKeeps ==
  ASSUME IInv, NEW c \in Calls,
         \/ Read(c) \/ Rescan(c) \/ Guide(c) \/ Refuse(c)
         \/ Route(c) \/ Rebuilt(c) \/ RebuildFails(c) \/ Contact(c)
  PROVE  IInv'
<1> USE DEF IInv, durable, process, calls
<1>1. CASE Read(c)
  <2>1. Home(bound) \in Stores
    BY HomeStore DEF TypeOK
  <2>2. /\ Grows(disk', Home(bound))
        /\ \A t \in Stores : disk'[t].built => t \in consent'
    BY <1>1, <2>1, FilledGrows, PartialGrows DEF Read, Asked, Grows, TypeOK
  <2>3. TypeOK'
    <3>1. /\ disk' \in Disks /\ consent' \subseteq Stores
          /\ phase' \in {"idle", "busy", "done"} /\ graph' \in Configs
      BY <1>1, <2>1, <2>2 DEF Read, TypeOK, Grows, Configs
    <3>2. /\ pc' \in [Calls -> CallPCs] /\ lock' = NULL
          /\ UNCHANGED <<cfg, home, down, asked, boots, boot, ready, fatal, degraded,
                         bound, env, identity, kind, saved>>
      BY <1>1 DEF Read, Leave, Goto, TypeOK, CallPCs
    <3> QED
      BY <3>1, <3>2 DEF TypeOK
  <2>4. Locks'
    BY <1>1, <2>1, <2>2 DEF Read, Goto, Leave, Inside, TypeOK, Locks, InPCs
  <2>5. Down'
    BY <1>1, <2>1, <2>2 DEF Read, Goto, Leave, Inside, TypeOK, Down, Locks
  <2>6. Asked'
    BY <1>1, <2>1, <2>2, ZenonT(60)
    DEF Read, Goto, Leave, Inside, TypeOK, Asked, Locks, Down,
                            InPCs, Home, Unbuilt, Configs, Stores, Grows
  <2>7. Bindings'
    BY <1>1, <2>1, <2>2 DEF Read, Goto, Leave, Inside, TypeOK, Bindings, Locks,
                            Down, InPCs, Home, Configs, Stores, Grows
  <2>8. Index'
    BY <1>1, <2>1, <2>2 DEF Read, Goto, Leave, Inside, TypeOK, Index, Locks, InPCs,
                            Home, Configs, Stores, Grows
  <2> QED
    BY <2>3, <2>4, <2>5, <2>6, <2>7, <2>8
<1>2. CASE Rescan(c) \/ Guide(c) \/ Refuse(c) \/ Route(c)
  <2>1. TypeOK'
    <3>1. CASE Rescan(c)
      BY <3>1 DEF Rescan, Goto, Leave, Inside, TypeOK, BootPCs, CallPCs, Home,
                  Configs, Stores, Kinds
    <3>2. CASE Guide(c)
      BY <3>2 DEF Guide, Goto, Leave, Inside, TypeOK, BootPCs, CallPCs, Home,
                  Configs, Stores, Kinds
    <3>3. CASE Refuse(c)
      BY <3>3 DEF Refuse, Goto, Leave, Inside, TypeOK, BootPCs, CallPCs, Home,
                  Configs, Stores, Kinds
    <3>4. CASE Route(c)
      BY <3>4 DEF Route, Goto, Leave, Inside, TypeOK, BootPCs, CallPCs, Home,
                  Configs, Stores, Kinds
    <3> QED
      BY <1>2, <3>1, <3>2, <3>3, <3>4
  <2>2. Locks'
    BY <1>2 DEF Rescan, Guide, Refuse, Route, Goto, Leave, Inside, TypeOK, Locks,
                InPCs
  <2>3. Down'
    BY <1>2 DEF Rescan, Guide, Refuse, Route, Goto, Leave, Inside, TypeOK, Down,
                Locks
  <2>4. Asked'
    BY <1>2, ZenonT(60)
    DEF Rescan, Guide, Refuse, Route, Goto, Leave, Inside, TypeOK, Asked,
                Locks, Down, InPCs, Home, Unbuilt, Configs, Stores
  <2>5. Bindings'
    BY <1>2 DEF Rescan, Guide, Refuse, Route, Goto, Leave, Inside, TypeOK, Bindings,
                Locks, Down, InPCs, Home, Configs, Stores
  <2>6. Index'
    BY <1>2 DEF Rescan, Guide, Refuse, Route, Goto, Leave, Inside, TypeOK, Index,
                Locks, InPCs, Home, Configs, Stores
  <2> QED
    BY <2>1, <2>2, <2>3, <2>4, <2>5, <2>6
<1>3. CASE Rebuilt(c)
  <2>1. Home(bound) \in Stores
    BY HomeStore DEF TypeOK
  <2>2. /\ Grows(disk', Home(bound))
        /\ \A t \in Stores : disk'[t].built => t \in consent'
        /\ disk'[Home(bound)].rows = "all" /\ disk'[Home(bound)].built
    BY <1>3, <2>1, FilledGrows DEF Rebuilt, Asked, Grows, TypeOK
  <2>3. TypeOK'
    BY <1>3, <2>1, <2>2 DEF Rebuilt, Goto, Leave, Inside, TypeOK, BootPCs, CallPCs,
                            Home, Configs, Stores, Kinds, Grows
  <2>4. Locks'
    BY <1>3, <2>1, <2>2 DEF Rebuilt, Goto, Leave, Inside, TypeOK, Locks, InPCs
  <2>5. Down'
    BY <1>3, <2>1, <2>2 DEF Rebuilt, Goto, Leave, Inside, TypeOK, Down, Locks
  <2>6. Asked'
    BY <1>3, <2>1, <2>2 DEF Rebuilt, Goto, Leave, Inside, TypeOK, Asked, Locks,
                            Down, InPCs, Home, Unbuilt, Configs, Stores, Grows
  <2>7. Bindings'
    BY <1>3, <2>1, <2>2 DEF Rebuilt, Goto, Leave, Inside, TypeOK, Bindings, Locks,
                            Down, InPCs, Home, Configs, Stores, Grows
  <2>8. Index'
    <3>1. /\ disk'[Home(bound)].rows = "all" /\ boot # "sync"
          /\ UNCHANGED <<boot, bound, home>>
      BY <1>3, <2>2 DEF Rebuilt, Locks, InPCs
    <3> QED
      BY <3>1 DEF Index, Home
  <2> QED
    BY <2>3, <2>4, <2>5, <2>6, <2>7, <2>8
<1>4. CASE RebuildFails(c)
  <2>1. Home(bound) \in Stores
    BY HomeStore DEF TypeOK
  <2>2. /\ Grows(disk', Home(bound))
        /\ \A t \in Stores : disk'[t].built => t \in consent'
    BY <1>4, <2>1, PartialGrows DEF RebuildFails, Asked, Grows, TypeOK
  <2>3. TypeOK'
    BY <1>4, <2>1, <2>2 DEF RebuildFails, Goto, Leave, Inside, TypeOK, BootPCs,
                            CallPCs, Home, Configs, Stores, Kinds, Grows
  <2>4. Locks'
    BY <1>4, <2>1, <2>2 DEF RebuildFails, Goto, Leave, Inside, TypeOK, Locks, InPCs
  <2>5. Down'
    BY <1>4, <2>1, <2>2 DEF RebuildFails, Goto, Leave, Inside, TypeOK, Down, Locks
  <2>6. Asked'
    BY <1>4, <2>1, <2>2 DEF RebuildFails, Goto, Leave, Inside, TypeOK, Asked, Locks,
                            Down, InPCs, Home, Unbuilt, Configs, Stores, Grows
  <2>7. Bindings'
    BY <1>4, <2>1, <2>2 DEF RebuildFails, Goto, Leave, Inside, TypeOK, Bindings,
                            Locks, Down, InPCs, Home, Configs, Stores, Grows
  <2>8. Index'
    BY <1>4, <2>1, <2>2 DEF RebuildFails, Goto, Leave, Inside, TypeOK, Index, Locks,
                            InPCs, Home, Configs, Stores, Grows
  <2> QED
    BY <2>3, <2>4, <2>5, <2>6, <2>7, <2>8
<1>5. CASE Contact(c)
  <2>1. home \in Stores
    BY DEF TypeOK
  <2>2. /\ Grows(disk', home)
        /\ \A t \in Stores : disk'[t].built => t \in consent'
    BY <1>5, <2>1, FilledGrows, PartialGrows DEF Contact, Asked, Grows, TypeOK
  <2>3. TypeOK'
    <3>1. /\ disk' \in Disks /\ consent' \subseteq Stores
          /\ phase' \in {"idle", "busy", "done"}
      BY <1>5, <2>1, <2>2 DEF Contact, TypeOK, Grows
    <3>2. /\ pc' \in [Calls -> CallPCs] /\ lock' = NULL
          /\ UNCHANGED <<cfg, home, down, asked, boots, boot, ready, fatal, degraded,
                         bound, env, identity, graph, kind, saved>>
      BY <1>5 DEF Contact, Leave, Goto, TypeOK, CallPCs
    <3> QED
      BY <3>1, <3>2 DEF TypeOK
  <2>4. Locks'
    BY <1>5, <2>1, <2>2 DEF Contact, Goto, Leave, Inside, TypeOK, Locks, InPCs
  <2>5. Down'
    BY <1>5, <2>1, <2>2 DEF Contact, Goto, Leave, Inside, TypeOK, Down, Locks
  <2>6. Asked'
    BY <1>5, <2>1, <2>2, ZenonT(60)
    DEF Contact, Goto, Leave, Inside, TypeOK, Asked, Locks,
                            Down, InPCs, Home, Unbuilt, Configs, Stores, Grows
  <2>7. Bindings'
    BY <1>5, <2>1, <2>2 DEF Contact, Goto, Leave, Inside, TypeOK, Bindings, Locks,
                            Down, InPCs, Home, Configs, Stores, Grows
  <2>8. Index'
    BY <1>5, <2>1, <2>2 DEF Contact, Goto, Leave, Inside, TypeOK, Index, Locks,
                            InPCs, Home, Configs, Stores, Grows
  <2> QED
    BY <2>3, <2>4, <2>5, <2>6, <2>7, <2>8
<1> QED
  BY <1>1, <1>2, <1>3, <1>4, <1>5

\* The in-session recovery.
LEMMA RecoveryKeeps ==
  ASSUME IInv, NEW c \in Calls,
         \/ Rebind(c) \/ RebindRescanned(c) \/ Recovered(c)
         \/ RolledBack(c)
  PROVE  IInv'
<1> USE DEF IInv, durable, process, calls
<1>1. CASE Rebind(c)
  <2>1. TypeOK'
    BY <1>1 DEF Rebind, Goto, Leave, Inside, TypeOK, BootPCs, CallPCs, Home,
                Configs, Stores, Kinds
  <2>2. Locks'
    BY <1>1 DEF Rebind, Goto, Leave, Inside, TypeOK, Locks, InPCs
  <2>3. Down'
    BY <1>1 DEF Rebind, Goto, Leave, Inside, TypeOK, Down, Locks
  <2>4. Asked'
    BY <1>1 DEF Rebind, Goto, Leave, Inside, TypeOK, Asked, Locks, Down, InPCs,
                Home, Unbuilt, Configs, Stores
  <2>5. Bindings'
    BY <1>1 DEF Rebind, Goto, Leave, Inside, TypeOK, Bindings, Locks, Down, InPCs,
                Home, Configs, Stores
  <2>6. Index'
    BY <1>1 DEF Rebind, Goto, Leave, Inside, TypeOK, Index, Locks, InPCs, Home,
                Configs, Stores
  <2> QED
    BY <2>1, <2>2, <2>3, <2>4, <2>5, <2>6
<1>2. CASE RebindRescanned(c)
  <2>1. home \in Stores
    BY DEF TypeOK
  <2>2. /\ Grows(disk', home)
        /\ \A t \in Stores : disk'[t].built => t \in consent'
        /\ disk'[home].rows = "all" /\ disk'[home].built
    BY <1>2, <2>1, FilledGrows DEF RebindRescanned, Asked, Grows, TypeOK
  <2>3. TypeOK'
    BY <1>2, <2>1, <2>2 DEF RebindRescanned, Goto, Leave, Inside, TypeOK, BootPCs,
                            CallPCs, Home, Configs, Stores, Kinds, Grows
  <2>4. Locks'
    BY <1>2, <2>1, <2>2 DEF RebindRescanned, Goto, Leave, Inside, TypeOK, Locks,
                            InPCs
  <2>5. Down'
    BY <1>2, <2>1, <2>2 DEF RebindRescanned, Goto, Leave, Inside, TypeOK, Down,
                            Locks
  <2>6. Asked'
    BY <1>2, <2>1, <2>2 DEF RebindRescanned, Goto, Leave, Inside, TypeOK, Asked,
                            Locks, Down, InPCs, Home, Unbuilt, Configs, Stores,
                            Grows, Bindings
  <2>7. Bindings'
    <3>0. disk'[home].rows = "all" /\ disk'[home].built
      BY <2>2
    <3>1. /\ pc[c] = "rebind" /\ pc' = [pc EXCEPT ![c] = "rebound"]
          /\ graph' = "project"
          /\ UNCHANGED <<home, boot, degraded, bound, env, identity, saved>>
      BY <1>2 DEF RebindRescanned, Goto
    <3>2. lock = c /\ \A e \in Calls \ {c} : pc[e] \notin InPCs
      BY <3>1 DEF Locks, InPCs
    <3>3. pc'[c] = "rebound" /\ \A e \in Calls \ {c} : pc'[e] = pc[e]
      BY <3>1 DEF TypeOK
    <3> QED
      BY <3>0, <3>1, <3>2, <3>3 DEF Bindings, InPCs
  <2>8. Index'
    BY <1>2, <2>1, <2>2 DEF RebindRescanned, Goto, Leave, Inside, TypeOK, Index,
                            Locks, InPCs, Home, Configs, Stores, Grows, Bindings
  <2> QED
    BY <2>3, <2>4, <2>5, <2>6, <2>7, <2>8
<1>3. CASE Recovered(c)
  <2>1. TypeOK'
    BY <1>3 DEF Recovered, Goto, Leave, Inside, TypeOK, BootPCs, CallPCs, Home,
                Configs, Stores, Kinds
  <2>2. Locks'
    BY <1>3 DEF Recovered, Goto, Leave, Inside, TypeOK, Locks, InPCs
  <2>3. Down'
    BY <1>3 DEF Recovered, Goto, Leave, Inside, TypeOK, Down, Locks
  <2>4. Asked'
    BY <1>3 DEF Recovered, Goto, Leave, Inside, TypeOK, Asked, Locks, Down, InPCs,
                Home, Unbuilt, Configs, Stores, Bindings
  <2>5. Bindings'
    BY <1>3 DEF Recovered, Goto, Leave, Inside, TypeOK, Bindings, Locks, Down,
                InPCs, Home, Configs, Stores
  <2>6. Index'
    BY <1>3 DEF Recovered, Goto, Leave, Inside, TypeOK, Index, Locks, InPCs, Home,
                Configs, Stores, Bindings
  <2> QED
    BY <2>1, <2>2, <2>3, <2>4, <2>5, <2>6
<1>4. CASE RolledBack(c)
  <2>1. home \in Stores
    BY DEF TypeOK
  <2>2. /\ Grows(disk', home)
        /\ \A t \in Stores : disk'[t].built => t \in consent'
    BY <1>4, <2>1, PartialGrows DEF RolledBack, Asked, Grows, TypeOK
  <2>3. TypeOK'
    BY <1>4, <2>1, <2>2, ZenonT(60)
    DEF RolledBack, Goto, Leave, Inside, TypeOK, BootPCs,
                            CallPCs, Home, Configs, Stores, Kinds, Grows
  <2>4. Locks'
    BY <1>4, <2>1, <2>2 DEF RolledBack, Goto, Leave, Inside, TypeOK, Locks, InPCs
  <2>5. Down'
    BY <1>4, <2>1, <2>2 DEF RolledBack, Goto, Leave, Inside, TypeOK, Down, Locks
  <2>6. Asked'
    BY <1>4, <2>1, <2>2 DEF RolledBack, Goto, Leave, Inside, TypeOK, Asked, Locks,
                            Down, InPCs, Home, Unbuilt, Configs, Stores, Grows,
                            Bindings
  <2>7. Bindings'
    BY <1>4, <2>1, <2>2 DEF RolledBack, Goto, Leave, Inside, TypeOK, Bindings,
                            Locks, Down, InPCs, Home, Configs, Stores, Grows
  <2>8. Index'
    BY <1>4, <2>1, <2>2 DEF RolledBack, Goto, Leave, Inside, TypeOK, Index, Locks,
                            InPCs, Home, Configs, Stores, Grows, Bindings
  <2> QED
    BY <2>3, <2>4, <2>5, <2>6, <2>7, <2>8
<1> QED
  BY <1>1, <1>2, <1>3, <1>4

\* A call begins.
LEMMA CallKeeps ==
  ASSUME IInv, NEW c \in Calls, NEW k \in Kinds, Call(c, k)
  PROVE  IInv'
<1> USE DEF IInv, durable, process, Call, Goto
<1>1. TypeOK'
  BY DEF TypeOK, CallPCs, Kinds
<1>2. Locks' /\ Down'
  BY DEF TypeOK, Locks, Down, InPCs
<1>3. Asked'
  BY DEF TypeOK, Asked, Home
<1>4. Bindings' /\ Index'
  BY DEF TypeOK, Bindings, Index, Home
<1> QED
  BY <1>1, <1>2, <1>3, <1>4

LEMMA Inductive == IInv /\ [Next]_vars => IInv'
<1> SUFFICES ASSUME IInv, [Next]_vars PROVE IInv'
  OBVIOUS
<1>1. CASE UNCHANGED vars
  BY <1>1 DEF vars, durable, process, calls, IInv, TypeOK, Locks, Down, Asked,
              Bindings, Index, Home
<1>2. CASE Next
  BY <1>2, BootKeeps, AroundKeeps, EntryKeeps, InsideKeeps, RecoveryKeeps, CallKeeps
     DEF Next, BootThread, CallStep
<1> QED
  BY <1>1, <1>2

LEMMA Invariant == Spec => []IInv
BY Initially, Inductive, PTL DEF Spec

\* The type invariant of the boot gate.
THEOREM BootTyped == Spec => []TypeOK
<1>1. IInv => TypeOK
  BY DEF IInv
<1> QED
  BY <1>1, Invariant, PTL

\* No process builds a store under the plain defaults unless an asked-for
\* build completed there, and no store has rows nobody asked for
\* (server._boot_index, _scope_unbuilt).
THEOREM ConsentFirst == Spec => []BootNeedsConsent
<1>1. IInv => BootNeedsConsent
  BY DEF IInv, Asked, BootNeedsConsent
<1> QED
  BY <1>1, Invariant, PTL

\* A failed recovery leaves no trace of the config it tried: outside the lock
\* identity, graph and environment agree with the bound config
\* (server._boot_recovery).
THEOREM OneBinding == Spec => []BoundWhole
<1>1. IInv => BoundWhole
  BY DEF IInv, Locks, Bindings, InPCs, BoundWhole
<1> QED
  BY <1>1, Invariant, PTL

\* A session that answers from the index has rows to answer from.
THEOREM AnswersHaveRows == Spec => []ServesAnIndex
<1>1. IInv => ServesAnIndex
  BY DEF IInv, Locks, Bindings, Index, InPCs, ServesAnIndex
<1> QED
  BY <1>1, Invariant, PTL

\* Guidance ends with a completed build of the store the session is bound to
\* (server._boot_recovery's last lines and the explicit rescan's).
THEOREM GuidanceEnds == Spec => GuidanceEndsBuilt
<1> DEFINE Built == /\ disk'[identity'].built /\ disk'[identity'].rows = "all"
                    /\ identity' = (IF bound' = "plain" THEN "own" ELSE home')
                    /\ graph' = bound'
<1>1. ASSUME IInv, NEW c \in Calls, Recovered(c) PROVE Built
  BY <1>1 DEF IInv, Recovered, Bindings, durable
<1>2. ASSUME IInv, NEW c \in Calls, Rebuilt(c) PROVE Built
  <2>1. /\ Filled(Home(bound))[Home(bound)].rows = "all"
        /\ Filled(Home(bound))[Home(bound)].built
    <3>1. TypeOK /\ Home(bound) \in Stores
      BY <1>2, HomeStore DEF IInv, TypeOK
    <3> QED
      BY <3>1, FilledGrows
  <2>2. lock = c /\ \A e \in Calls : pc[e] \notin {"rebind", "rebound"}
    BY <1>2 DEF IInv, Rebuilt, Locks, InPCs
  <2>3. identity = Home(bound)
    BY <1>2, <2>2 DEF IInv, Bindings, Down
  <2> QED
    BY <1>2, <2>1, <2>3 DEF Rebuilt, Home
<1>3. ASSUME Next, degraded # NULL, degraded' = NULL, boot' # "down"
      PROVE  \E c \in Calls : Recovered(c) \/ Rebuilt(c)
  BY <1>3 DEF Next, BootThread, CallStep, BootCensus, BootUnbuilt, BootNoMatch,
     BootWarm, BootProbed, BootRescanned, BootRescanEmpty, BootSynced, BootFatal,
     OpenGate, EnterDegraded, Exit, Start, EditConfig, Flip, AwaitBoot,
     AwaitTimeout, Enter, Read, Rescan, Guide, Refuse, Rebind, RebindRescanned,
     RolledBack, RebuildFails, Route, Contact, StaleRead, Call, durable, process, calls
<1>4. IInv /\ [Next]_vars =>
        [degraded # NULL /\ degraded' = NULL /\ boot' # "down" => Built]_vars
  BY <1>1, <1>2, <1>3
<1> QED
  BY <1>4, Invariant, PTL DEF Spec, GuidanceEndsBuilt

=============================================================================
