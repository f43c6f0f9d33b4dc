--------------------------- MODULE UnlockedProofs ---------------------------
(***************************************************************************)
(* Proofs about the two components that write files beside each other      *)
(* without a lock: the predicate cache and onboarding.  They share no      *)
(* state; each has its own part below.                                     *)
(***************************************************************************)
EXTENDS Predicates, Onboard, TLAPS, SequenceTheorems

(***************************************************************************)
(* The predicate cache serves every process its own graph, for any number  *)
(* of processes, worktrees, releases and edits.  A document carries what   *)
(* its fingerprint says, unless its writer was overtaken by an edit or ran *)
(* a release that is not the one it stamped; the fingerprint of a process  *)
(* says what it parsed, unless an edit overtook it.                        *)
(***************************************************************************)
Prints == [stamp : Nat, surface : Surfaces, raw : Tree \cup {NULL}]
Preds  == [code : Nat, surface : Surfaces, rest : Rests,
           mentions : Tree \cup {NULL}]

\* A payload says what a fingerprint says.
Says(d, f) ==
  /\ d.surface = f.surface
  /\ d.code = f.stamp
  /\ floor => d.mentions = f.raw /\ d.rest = f.raw.rest

Types ==
  /\ fp \in [Procs -> Prints \cup {NULL}]
  /\ pred \in [Procs -> Preds \cup {NULL}]
  /\ cache \in [sealed : BOOLEAN, fp : Prints, pred : Preds, tainted : BOOLEAN]
               \cup {NULL}
  /\ \A p \in Procs :
       /\ pc[p] # "off" => parsed[p] \in Tree
       /\ pc[p] \in {"stamped", "derived", "bound"} => stamp[p] \in Nat
       /\ pc[p] \in {"stamped", "derived"} => fp[p] \in Prints
       /\ pc[p] \in {"derived", "bound"} => pred[p] \in Preds

\* The document in the cache.
CacheSays == cache # NULL /\ ~cache.tainted => Says(cache.pred, cache.fp)

\* What a process knows on the way to its payload.
OnTheWay ==
  \A p \in Procs :
    /\ Building(p) /\ ~moved[p] => parsed[p] = tree
    /\ pc[p] \in {"stamped", "derived"} =>
         /\ fp[p].stamp = stamp[p] /\ fp[p].surface = parsed[p].surface
         /\ floor /\ ~moved[p] => fp[p].raw = parsed[p]
    /\ pc[p] = "derived" /\ ~tainted[p] => Says(pred[p], fp[p]) /\ ~moved[p]
    /\ pc[p] = "derived" => pred[p].code = code[p]

IInv == TypeOK /\ Types /\ CacheSays /\ OnTheWay /\ ServesOwnGraph

USE PredicatesAssumption DEF Building

LEMMA Initially == Init => IInv
BY DEF Init, IInv, TypeOK, Types, CacheSays, OnTheWay, ServesOwnGraph, Tree

\* A freshly written or damaged cache, an edit, an upgrade: the environment.
LEMMA EnvironmentKeeps == IInv /\ (Edit \/ Upgrade \/ Damage) => IInv'
<1> SUFFICES ASSUME IInv, Edit \/ Upgrade \/ Damage PROVE IInv'
  OBVIOUS
<1> USE DEF IInv, mem
<1>1. CASE Edit
  <2>1. TypeOK'
    BY <1>1 DEF Edit, TypeOK
  <2>2. Types'
    BY <1>1 DEF Edit, Types
  <2>3. CacheSays'
    BY <1>1 DEF Edit, CacheSays, Says
  <2>4. OnTheWay'
    BY <1>1 DEF Edit, OnTheWay, Says, TypeOK
  <2>5. ServesOwnGraph'
    BY <1>1 DEF Edit, ServesOwnGraph, TypeOK
  <2> QED
    BY <2>1, <2>2, <2>3, <2>4, <2>5
<1>2. CASE Upgrade
  <2>1. TypeOK'
    BY <1>2 DEF Upgrade, TypeOK
  <2>2. Types' /\ CacheSays'
    BY <1>2 DEF Upgrade, Types, CacheSays, Says
  <2>3. OnTheWay' /\ ServesOwnGraph'
    BY <1>2 DEF Upgrade, OnTheWay, Says, ServesOwnGraph
  <2> QED
    BY <2>1, <2>2, <2>3
<1>3. CASE Damage
  <2>1. TypeOK'
    BY <1>3 DEF Damage, TypeOK, Types
  <2>2. Types' /\ CacheSays'
    BY <1>3 DEF Damage, Types, CacheSays, Says
  <2>3. OnTheWay' /\ ServesOwnGraph'
    BY <1>3 DEF Damage, OnTheWay, Says, ServesOwnGraph
  <2> QED
    BY <2>1, <2>2, <2>3
<1> QED
  BY <1>1, <1>2, <1>3

\* One process takes a step.
LEMMA ProcessKeeps ==
  ASSUME IInv, NEW p \in Procs,
         \/ Build(p) \/ Stamp(p) \/ Load(p) \/ Derive(p) \/ Replace(p)
         \/ PersistFails(p) \/ Kill(p)
  PROVE  IInv'
<1> USE DEF IInv, Goto
<1>1. CASE Build(p)
  <2>1. TypeOK'
    BY <1>1 DEF Build, TypeOK
  <2>2. Types' /\ CacheSays'
    BY <1>1 DEF Build, Types, CacheSays, Says, TypeOK
  <2>3. OnTheWay' /\ ServesOwnGraph'
    BY <1>1 DEF Build, OnTheWay, Says, ServesOwnGraph, TypeOK, Types
  <2> QED
    BY <2>1, <2>2, <2>3
<1>2. CASE Stamp(p)
  <2> DEFINE s == IF stamp[p] = NULL THEN installed ELSE stamp[p]
  <2>1. s \in Nat
    BY DEF TypeOK
  <2>2. /\ stamp' = [stamp EXCEPT ![p] = s]
        /\ fp' = [fp EXCEPT ![p] = Fingerprint(p, s)]
    BY <1>2 DEF Stamp
  <2>3. Fingerprint(p, s) \in Prints
    BY <1>2, <2>1 DEF Stamp, Fingerprint, Prints, Tree, TypeOK, Types
  <2> HIDE DEF s
  <2>4. TypeOK'
    BY <1>2, <2>1, <2>2 DEF Stamp, TypeOK
  <2>5. Types' /\ CacheSays'
    BY <1>2, <2>1, <2>2, <2>3 DEF Stamp, Types, CacheSays, Says, TypeOK
  <2>6. OnTheWay' /\ ServesOwnGraph'
    BY <1>2, <2>1, <2>2 DEF Stamp, Fingerprint, OnTheWay, Says, ServesOwnGraph, TypeOK, Types
  <2> QED
    BY <2>4, <2>5, <2>6
<1>3. CASE Load(p)
  <2>1. cache \in [sealed : BOOLEAN, fp : Prints, pred : Preds, tainted : BOOLEAN]
    BY <1>3 DEF Load, Verified, Types
  <2>2. TypeOK'
    BY <1>3, <2>1 DEF Load, TypeOK
  <2>3. Types' /\ CacheSays'
    BY <1>3, <2>1 DEF Load, Types, CacheSays, Says, TypeOK
  <2>4. OnTheWay'
    BY <1>3 DEF Load, OnTheWay, Says, TypeOK, Types
  <2>5. ServesOwnGraph'
    BY <1>3, <2>1 DEF Load, Verified, OnTheWay, CacheSays, Says, ServesOwnGraph, TypeOK, Types
  <2> QED
    BY <2>2, <2>3, <2>4, <2>5
<1>4. CASE Derive(p)
  <2>1. Derived(p) \in Preds
    BY <1>4 DEF Derive, Derived, Preds, Tree, TypeOK, Types
  <2>2. TypeOK'
    BY <1>4 DEF Derive, TypeOK
  <2>3. Types' /\ CacheSays'
    BY <1>4, <2>1 DEF Derive, Types, CacheSays, Says, TypeOK
  <2>4. OnTheWay' /\ ServesOwnGraph'
    <3>1. /\ tainted'[p] <=> moved[p] \/ stamp[p] # code[p]
          /\ pred'[p] = Derived(p) /\ pc'[p] = "derived"
      BY <1>4 DEF Derive, TypeOK, Types
    <3>2. Derived(p).surface = fp[p].surface /\ Derived(p).code = code[p]
      BY <1>4 DEF Derive, Derived, OnTheWay
    <3>3. ~moved[p] /\ stamp[p] = code[p] => Says(Derived(p), fp[p])
      BY <1>4 DEF Derive, Derived, OnTheWay, Says
    <3>4. \A q \in Procs \ {p} : /\ pc'[q] = pc[q] /\ pred'[q] = pred[q]
                                 /\ tainted'[q] = tainted[q]
      BY <1>4 DEF Derive, TypeOK, Types
    <3>5. UNCHANGED <<tree, floor, code, stamp, parsed, fp, moved>>
      BY <1>4 DEF Derive
    <3>6. OnTheWay'
      BY <1>4, <3>1, <3>2, <3>3, <3>4, <3>5 DEF Derive, OnTheWay, Says
    <3>7. ServesOwnGraph'
      BY <3>1, <3>4, <3>5 DEF ServesOwnGraph
    <3> QED
      BY <3>6, <3>7
  <2> QED
    BY <2>2, <2>3, <2>4
<1>5. CASE Replace(p)
  <2>1. TypeOK'
    BY <1>5 DEF Replace, TypeOK
  <2>2. Types'
    <3>1. fp[p] \in Prints /\ pred[p] \in Preds /\ tainted[p] \in BOOLEAN
      BY <1>5 DEF Replace, Types, TypeOK
    <3> QED
      BY <1>5, <3>1 DEF Replace, Types, TypeOK
  <2>3. CacheSays'
    BY <1>5 DEF Replace, CacheSays, OnTheWay, Says
  <2>4. OnTheWay'
    BY <1>5 DEF Replace, OnTheWay, Says, TypeOK, Types
  <2>5. ServesOwnGraph'
    <3>1. ~tainted[p] => Says(pred[p], fp[p]) /\ ~moved[p]
      BY <1>5 DEF Replace, OnTheWay
    <3> QED
      BY <1>5, <3>1 DEF Replace, OnTheWay, Says, ServesOwnGraph, TypeOK, Types
  <2> QED
    BY <2>1, <2>2, <2>3, <2>4, <2>5
<1>6. CASE PersistFails(p)
  <2>1. TypeOK'
    BY <1>6 DEF PersistFails, TypeOK
  <2>2. Types'
    <3>1. fp[p] \in Prints /\ pred[p] \in Preds /\ tainted[p] \in BOOLEAN
      BY <1>6 DEF PersistFails, Types, TypeOK
    <3> QED
      BY <1>6, <3>1 DEF PersistFails, Types, TypeOK
  <2>3. CacheSays'
    BY <1>6 DEF PersistFails, CacheSays, OnTheWay, Says
  <2>4. OnTheWay'
    BY <1>6 DEF PersistFails, OnTheWay, Says, TypeOK, Types
  <2>5. ServesOwnGraph'
    <3>1. ~tainted[p] => Says(pred[p], fp[p]) /\ ~moved[p]
      BY <1>6 DEF PersistFails, OnTheWay
    <3> QED
      BY <1>6, <3>1 DEF PersistFails, OnTheWay, Says, ServesOwnGraph, TypeOK, Types
  <2> QED
    BY <2>1, <2>2, <2>3, <2>4, <2>5
<1>7. CASE Kill(p)
  <2>1. TypeOK'
    BY <1>7 DEF Kill, TypeOK
  <2>2. Types' /\ CacheSays'
    BY <1>7 DEF Kill, Types, CacheSays, Says, TypeOK
  <2>3. OnTheWay' /\ ServesOwnGraph'
    BY <1>7 DEF Kill, OnTheWay, Says, ServesOwnGraph, TypeOK, Types
  <2> QED
    BY <2>1, <2>2, <2>3
<1> QED
  BY <1>1, <1>2, <1>3, <1>4, <1>5, <1>6, <1>7

\* Both properties follow from the invariant.
LEMMA Invariant == Spec => []IInv
<1>1. IInv /\ [Next]_vars => IInv'
  <2> SUFFICES ASSUME IInv, [Next]_vars PROVE IInv'
    OBVIOUS
  <2>1. CASE UNCHANGED vars
    BY <2>1 DEF vars, mem, IInv, TypeOK, Types, CacheSays, OnTheWay, Says, ServesOwnGraph
  <2>2. CASE Next
    BY <2>2, EnvironmentKeeps, ProcessKeeps DEF Next
  <2> QED
    BY <2>1, <2>2
<1> QED
  BY Initially, <1>1, PTL DEF Spec

\* The type invariant of the predicate cache.
THEOREM PredicatesTyped == Spec => []TypeOK
<1>1. IInv => TypeOK
  BY DEF IInv
<1> QED
  BY <1>1, Invariant, PTL

\* Whoever wrote the cache and whatever was edited, upgraded, damaged or
\* killed: a process is served the predicates of its own graph and code
\* (predicates.bind, _load, _persist).
THEOREM ServedOwn == Spec => []ServesOwnGraph
<1>1. IInv => ServesOwnGraph
  BY DEF IInv
<1> QED
  BY <1>1, Invariant, PTL

-----------------------------------------------------------------------------
(***************************************************************************)
(* Onboarding, for any number of processes, projects, pieces, names and    *)
(* edits.  What two scaffolds of one project do to each other is bounded   *)
(* by the ghosts of the model; the invariant says what holds outside them: *)
(* where a command is (Places), what a document that was read is worth     *)
(* (Fresh), and that one scaffold at a time opens the config of a project  *)
(* that none has raced for, before anything pins it (OneScaffold).         *)
(***************************************************************************)
\* Where a command is: a project's scaffold piece, or a leg of its plan.
Places ==
  \A p \in Runners :
    /\ step[p] \in {"check", "open", "write"} =>
         cmd[p] \in Cmds /\ cmd[p].kind # "global-wire" /\ at[p] \in 1..NPieces
    /\ step[p] \in {"ignore", "load"} => cmd[p] \in Cmds /\ cmd[p].kind # "global-wire"
    /\ step[p] \in {"read", "replace"} =>
         /\ cmd[p] \in Cmds /\ cmd[p].kind \in {"wire", "global-wire"}
         /\ at[p] \in 1..Len(Plan(cmd[p]))

\* A document that no write has outdated is what the file says.
Fresh ==
  \A p \in Runners :
    step[p] = "replace" =>
      /\ doc[p] \in Docs
      /\ current[p] => /\ file[leg(p).file] # BAD
                       /\ doc[p] = IF file[leg(p).file] = ABSENT THEN Empty
                                   ELSE file[leg(p).file]

Loaded(q) == piece[q][1] \in {"ok", "own"}

\* Until two scaffolds meet, a config is opened by one of them, where there is
\* none, and nothing unloads it: who reached the legs of wire has loaded it, and so
\* has whoever wrote an entry that is in a file or in a document read from one.
OneScaffold ==
  \A q \in Projects \ raced :
    /\ \A p, o \in Runners :
         /\ step[p] \in {"open", "write"} /\ cmd[p].project = q /\ at[p] = 1
         /\ step[o] \in {"open", "write"} /\ cmd[o].project = q /\ at[o] = 1
         => p = o
    /\ \A p \in Runners :
         /\ (step[p] = "open" /\ cmd[p].project = q /\ at[p] = 1) => piece[q][1] = "none"
         /\ (step[p] \in {"read", "replace"} /\ cmd[p].kind = "wire" /\ cmd[p].project = q)
              => Loaded(q)
         /\ step[p] = "replace" => \A n \in Names : doc[p][n] = q => Loaded(q)

\* The two halves of PinnedConfigLoads.
CutHasWriter ==
  \A q \in Projects, k \in 1..NPieces :
    piece[q][k] = "cut" =>
      \/ <<q, k>> \in torn
      \/ \E p \in Runners : step[p] = "write" /\ cmd[p].project = q /\ at[p] = k
PinLoads ==
  \A q \in Projects \ raced, f \in McpFiles, n \in Names :
    file[f] \notin {ABSENT, BAD} /\ file[f][n] = q => Loaded(q)

OnboardInv ==
  /\ OnboardTypeOK /\ Places /\ Fresh /\ OneScaffold
  /\ WritersAddUp /\ CutHasWriter /\ PinLoads

\* The step of one runner: the others keep their command, place and document.
Others(p) ==
  \A o \in Runners \ {p} :
    step'[o] = step[o] /\ cmd'[o] = cmd[o] /\ at'[o] = at[o] /\ doc'[o] = doc[o]

USE OnboardAssumption, DocsAssumption

-----------------------------------------------------------------------------
LEMMA CmdFields ==
  ASSUME NEW c \in Cmds
  PROVE  /\ c.kind \in {"init", "contact", "wire", "global-wire"}
         /\ c.kind # "global-wire" => c.project \in Projects
         /\ c.kind = "wire" => c.omp \in OmpNames \cup {ABSENT}
BY DEF Cmds

LEMMA EmptyDoc ==
  Empty \in Docs /\ ABSENT \notin Docs /\ BAD \notin Docs
BY DEF Empty, Docs, Entries

LEMMA PlanLegs ==
  ASSUME NEW c \in Cmds, c.kind \in {"wire", "global-wire"}
  PROVE  /\ Len(Plan(c)) \in Nat \ {0}
         /\ \A i \in 1..Len(Plan(c)) :
              /\ Plan(c)[i].file \in McpFiles /\ Plan(c)[i].name \in Names
              /\ Plan(c)[i].entry \in Entries
              /\ Plan(c)[i].entry \in Projects => c.kind = "wire" /\ Plan(c)[i].entry = c.project
<1>1. CASE c.kind = "wire"
  <2>1. c.project \in Projects /\ c.omp \in OmpNames \cup {ABSENT}
    BY <1>1, CmdFields
  <2> DEFINE a == Leg(<<"mcp", c.project>>, "neuronav", c.project)
             b == Leg(<<"opencode", c.project>>, "neuronav", c.project)
             d == Leg(<<"user", "omp">>, c.omp, c.project)
             tail == IF c.omp = ABSENT THEN <<>> ELSE <<d>>
  <2>2. Plan(c) = <<a, b>> \o tail
    BY <1>1 DEF Plan
  <2>3. /\ a.file \in McpFiles /\ a.name \in Names /\ a.entry \in Entries /\ a.entry = c.project
        /\ b.file \in McpFiles /\ b.name \in Names /\ b.entry \in Entries /\ b.entry = c.project
        /\ c.omp # ABSENT => /\ d.file \in McpFiles /\ d.name \in Names
                             /\ d.entry \in Entries /\ d.entry = c.project
    BY <2>1 DEF Leg, McpFiles, Names, Entries
  <2> HIDE DEF a, b, d
  <2>4. Plan(c) = IF c.omp = ABSENT THEN <<a, b>> ELSE <<a, b, d>>
    BY <2>2
  <2>5. CASE c.omp = ABSENT
    <3>1. Plan(c) = <<a, b>>
      BY <2>4, <2>5
    <3> QED  BY <3>1, <2>3, <1>1
  <2>6. CASE c.omp # ABSENT
    <3>1. Plan(c) = <<a, b, d>>
      BY <2>4, <2>6
    <3> QED  BY <3>1, <2>3, <2>6, <1>1
  <2> QED  BY <2>5, <2>6
<1>2. CASE c.kind = "global-wire"
  <2>1. Plan(c) = [i \in 1..4 |-> Leg(<<"user", Harness[i]>>, "neuronav", "uvx")]
    BY <1>2 DEF Plan
  <2>2. Len(Plan(c)) = 4
    BY <2>1
  <2>3. \A i \in 1..4 : Harness[i] \in {"omp", "opencode", "kilocode", "zcode"}
    BY DEF Harness
  <2> QED  BY <2>1, <2>2, <2>3 DEF Leg, McpFiles, Names, Entries
<1> QED  BY <1>1, <1>2

\* The leg a wiring process is at.
LEMMA LegOf ==
  ASSUME Places, NEW p \in Runners, step[p] \in {"read", "replace"}
  PROVE  /\ leg(p).file \in McpFiles /\ leg(p).name \in Names /\ leg(p).entry \in Entries
         /\ leg(p).entry \in Projects => cmd[p].kind = "wire" /\ leg(p).entry = cmd[p].project
BY PlanLegs DEF Places, leg

\* Until its next read, a runner that is not at a replace has nothing to be fresh.
LEMMA FreshFrame ==
  ASSUME Fresh, NEW p \in Runners, Others(p), file' = file,
         \A o \in Runners \ {p} : current'[o] = current[o], step'[p] # "replace"
  PROVE  Fresh'
<1> SUFFICES ASSUME NEW o \in Runners, step'[o] = "replace"
             PROVE  /\ doc'[o] \in Docs
                    /\ current'[o] => /\ file[leg(o)'.file] # BAD
                       /\ doc'[o] = IF file[leg(o)'.file] = ABSENT THEN Empty
                                    ELSE file[leg(o)'.file]
  BY DEF Fresh
<1>1. o # p
  OBVIOUS
<1>2. leg(o)' = leg(o) /\ step[o] = "replace" /\ doc'[o] = doc[o] /\ current'[o] = current[o]
  BY <1>1 DEF Others, leg
<1> QED  BY <1>2 DEF Fresh

\* What is not written adds up as before.
LEMMA FilesFrame ==
  ASSUME file' = file, sum' = sum, clobbered' = clobbered, WritersAddUp
  PROVE  WritersAddUp'
BY DEF WritersAddUp

LEMMA BeginKeepsOnboard ==
  ASSUME OnboardInv, NEW p \in Runners, Begin(p)
  PROVE  OnboardInv'
<1> USE DEF Begin, Proceed, disk, ghosts
<1>1. /\ OnboardTypeOK /\ Places /\ Fresh /\ OneScaffold
      /\ WritersAddUp /\ CutHasWriter /\ PinLoads
  BY DEF OnboardInv
<1>2. Others(p) /\ \A o \in Runners \ {p} : current'[o] = current[o]
  BY <1>1 DEF Others, OnboardTypeOK
<1>3. OnboardTypeOK'
  BY <1>1, CmdFields DEF OnboardTypeOK, Places
<1>4. Places'
  <2>1. PICK c \in Cmds : cmd' = [cmd EXCEPT ![p] = c]
                         /\ step'[p] \in {"read", "load", "check"} /\ at'[p] = 1
                         /\ (step'[p] = "read" => c.kind = "global-wire")
                         /\ (step'[p] # "read" => c.kind # "global-wire")
    BY <1>1 DEF OnboardTypeOK
  <2>2. \A o \in Runners \ {p} : cmd'[o] = cmd[o] /\ step'[o] = step[o] /\ at'[o] = at[o]
    BY <1>2 DEF Others
  <2>3. cmd'[p] = c /\ 1 \in 1..NPieces
    BY <2>1, <1>1 DEF OnboardTypeOK
  <2>4. step'[p] = "read" => 1 \in 1..Len(Plan(c))
    BY <2>1, PlanLegs
  <2> QED  BY <1>1, <2>1, <2>2, <2>3, <2>4 DEF Places
<1>5. Fresh'
  BY <1>1, <1>2, FreshFrame DEF OnboardTypeOK
<1>6. OneScaffold'
  BY <1>1 DEF OnboardTypeOK, Places, OneScaffold, Loaded
<1>7. WritersAddUp'
  BY <1>1, FilesFrame
<1>8. CutHasWriter'
  BY <1>1 DEF OnboardTypeOK, Places, CutHasWriter
<1>9. PinLoads'
  BY <1>1 DEF OnboardTypeOK, Places, PinLoads, Loaded
<1> QED BY <1>3, <1>4, <1>5, <1>6, <1>7, <1>8, <1>9 DEF OnboardInv

LEMMA CheckKeepsOnboard ==
  ASSUME OnboardInv, NEW p \in Runners, Check(p)
  PROVE  OnboardInv'
<1> USE DEF Check, Proceed, disk, ghosts
<1>1. /\ OnboardTypeOK /\ Places /\ Fresh /\ OneScaffold
      /\ WritersAddUp /\ CutHasWriter /\ PinLoads
  BY DEF OnboardInv
<1>2. Others(p) /\ \A o \in Runners \ {p} : current'[o] = current[o]
  BY <1>1 DEF Others, OnboardTypeOK
<1>3. OnboardTypeOK'
  <2>1. cmd[p].project \in Projects /\ at[p] \in Nat
    BY <1>1, CmdFields DEF OnboardTypeOK, Places
  <2>2. raced' \subseteq Projects
    BY <1>1, <2>1 DEF OnboardTypeOK
  <2>3. PICK w \in {"open", "check", "ignore"}, i \in Nat :
          step' = [step EXCEPT ![p] = w] /\ at' = [at EXCEPT ![p] = i]
    BY <2>1
  <2>4. /\ step' \in [Runners -> {"idle", "check", "open", "write", "ignore", "load",
                               "read", "replace"}]
        /\ at' \in [Runners -> Nat]
    BY <1>1, <2>3 DEF OnboardTypeOK
  <2> QED  BY <1>1, <2>2, <2>4 DEF OnboardTypeOK
<1>4. Places'
  BY <1>1 DEF OnboardTypeOK, Places
<1>5. Fresh'
  BY <1>1, <1>2, FreshFrame DEF OnboardTypeOK
<1>6. OneScaffold'
  <2>1. /\ \A o \in Runners \ {p} : step'[o] = step[o] /\ cmd'[o] = cmd[o]
                                       /\ at'[o] = at[o] /\ doc'[o] = doc[o]
        /\ cmd' = cmd /\ piece' = piece /\ raced \subseteq raced'
    BY <1>1, <1>2 DEF Others
  <2>2. step'[p] \in {"open", "check", "ignore"}
    BY <1>1 DEF OnboardTypeOK
  <2>3. ASSUME step'[p] = "open"
        PROVE  /\ at'[p] = at[p] /\ piece[cmd[p].project][at[p]] = "none"
               /\ cmd[p].project \notin raced' =>
                    \A o \in Runners \ {p} :
                      step[o] \in {"open", "write"} /\ cmd[o].project = cmd[p].project
                        => at[o] # at[p]
    BY <2>3, <1>1 DEF OnboardTypeOK
  <2>4. SUFFICES ASSUME NEW q \in Projects \ raced'
                 PROVE  /\ \A o, r \in Runners :
                             /\ step'[o] \in {"open", "write"} /\ cmd'[o].project = q /\ at'[o] = 1
                             /\ step'[r] \in {"open", "write"} /\ cmd'[r].project = q /\ at'[r] = 1
                             => o = r
                        /\ \A o \in Runners :
                             /\ (step'[o] = "open" /\ cmd'[o].project = q /\ at'[o] = 1)
                                  => piece'[q][1] = "none"
                             /\ (step'[o] \in {"read", "replace"} /\ cmd'[o].kind = "wire"
                                    /\ cmd'[o].project = q) => Loaded(q)'
                             /\ step'[o] = "replace" =>
                                  \A n \in Names : doc'[o][n] = q => Loaded(q)'
    BY DEF OneScaffold
  <2>5. q \in Projects \ raced /\ (Loaded(q)' <=> Loaded(q))
    BY <2>1 DEF Loaded
  <2> HIDE DEF Check, Proceed
  <2> QED  BY <1>1, <2>1, <2>2, <2>3, <2>5 DEF OneScaffold
<1>7. WritersAddUp'
  BY <1>1, FilesFrame
<1>8. CutHasWriter'
  BY <1>1 DEF OnboardTypeOK, Places, CutHasWriter
<1>9. PinLoads'
  BY <1>1 DEF OnboardTypeOK, Places, PinLoads, Loaded
<1> QED BY <1>3, <1>4, <1>5, <1>6, <1>7, <1>8, <1>9 DEF OnboardInv

LEMMA OpenKeepsOnboard ==
  ASSUME OnboardInv, NEW p \in Runners, Open(p)
  PROVE  OnboardInv'
<1> USE DEF Open, Proceed, disk, ghosts
<1>1. /\ OnboardTypeOK /\ Places /\ Fresh /\ OneScaffold
      /\ WritersAddUp /\ CutHasWriter /\ PinLoads
  BY DEF OnboardInv
<1>2. Others(p) /\ \A o \in Runners \ {p} : current'[o] = current[o]
  BY <1>1 DEF Others, OnboardTypeOK
<1>3. OnboardTypeOK'
  BY <1>1, CmdFields DEF OnboardTypeOK, Places
<1>4. Places'
  BY <1>1 DEF OnboardTypeOK, Places
<1>5. Fresh'
  BY <1>1, <1>2, FreshFrame DEF OnboardTypeOK
<1>6. OneScaffold'
  BY <1>1 DEF OnboardTypeOK, Places, OneScaffold, Loaded
<1>7. WritersAddUp'
  BY <1>1, FilesFrame
<1>8. CutHasWriter'
  BY <1>1 DEF OnboardTypeOK, Places, CutHasWriter
<1>9. PinLoads'
  <2>1. cmd[p].project \in Projects /\ at[p] \in 1..NPieces /\ 1 \in 1..NPieces
    BY <1>1, CmdFields DEF Places
  <2>2. ASSUME NEW q \in Projects \ raced, Loaded(q) PROVE Loaded(q)'
    BY <2>1, <2>2, <1>1 DEF OnboardTypeOK, OneScaffold, Loaded
  <2> QED  BY <1>1, <2>2 DEF PinLoads
<1> QED BY <1>3, <1>4, <1>5, <1>6, <1>7, <1>8, <1>9 DEF OnboardInv

LEMMA WriteKeepsOnboard ==
  ASSUME OnboardInv, NEW p \in Runners, Write(p)
  PROVE  OnboardInv'
<1> USE DEF Write, Proceed, disk, ghosts
<1>1. /\ OnboardTypeOK /\ Places /\ Fresh /\ OneScaffold
      /\ WritersAddUp /\ CutHasWriter /\ PinLoads
  BY DEF OnboardInv
<1>2. Others(p) /\ \A o \in Runners \ {p} : current'[o] = current[o]
  BY <1>1 DEF Others, OnboardTypeOK
<1>3. OnboardTypeOK'
  BY <1>1, CmdFields DEF OnboardTypeOK, Places
<1>4. Places'
  BY <1>1 DEF OnboardTypeOK, Places
<1>5. Fresh'
  BY <1>1, <1>2, FreshFrame DEF OnboardTypeOK
<1>6. OneScaffold'
  BY <1>1 DEF OnboardTypeOK, Places, OneScaffold, Loaded
<1>7. WritersAddUp'
  BY <1>1, FilesFrame
<1>8. CutHasWriter'
  <2>1. cmd[p].project \in Projects /\ at[p] \in 1..NPieces
    BY <1>1, CmdFields DEF Places
  <2>2. \A q \in Projects, k \in 1..NPieces :
          piece'[q][k] = "cut" => piece[q][k] = "cut" /\ ~(q = cmd[p].project /\ k = at[p])
    BY <2>1, <1>1 DEF OnboardTypeOK
  <2> HIDE DEF Write
  <2>3. torn' = torn
    BY DEF Write
  <2> QED  BY <1>1, <1>2, <2>2, <2>3 DEF CutHasWriter, Others
<1>9. PinLoads'
  BY <1>1 DEF OnboardTypeOK, Places, PinLoads, Loaded
<1> QED BY <1>3, <1>4, <1>5, <1>6, <1>7, <1>8, <1>9 DEF OnboardInv

LEMMA IgnoreKeepsOnboard ==
  ASSUME OnboardInv, NEW p \in Runners, Ignore(p)
  PROVE  OnboardInv'
<1> USE DEF Ignore, Proceed, disk, ghosts
<1>1. /\ OnboardTypeOK /\ Places /\ Fresh /\ OneScaffold
      /\ WritersAddUp /\ CutHasWriter /\ PinLoads
  BY DEF OnboardInv
<1>2. Others(p) /\ \A o \in Runners \ {p} : current'[o] = current[o]
  BY <1>1 DEF Others, OnboardTypeOK
<1>3. OnboardTypeOK'
  BY <1>1, CmdFields DEF OnboardTypeOK, Places
<1>4. Places'
  BY <1>1 DEF OnboardTypeOK, Places
<1>5. Fresh'
  BY <1>1, <1>2, FreshFrame DEF OnboardTypeOK
<1>6. OneScaffold'
  BY <1>1 DEF OnboardTypeOK, Places, OneScaffold, Loaded
<1>7. WritersAddUp'
  BY <1>1, FilesFrame
<1>8. CutHasWriter'
  <2>1. piece' = piece /\ torn' = torn /\ step[p] = "ignore"
    OBVIOUS
  <2> QED  BY <1>1, <1>2, <2>1 DEF CutHasWriter, Others
<1>9. PinLoads'
  BY <1>1 DEF OnboardTypeOK, Places, PinLoads, Loaded
<1> QED BY <1>3, <1>4, <1>5, <1>6, <1>7, <1>8, <1>9 DEF OnboardInv

LEMMA LoadsKeepsOnboard ==
  ASSUME OnboardInv, NEW p \in Runners, Loads(p)
  PROVE  OnboardInv'
<1> USE DEF Loads, Proceed, disk, ghosts, ConfigLoads
<1>1. /\ OnboardTypeOK /\ Places /\ Fresh /\ OneScaffold
      /\ WritersAddUp /\ CutHasWriter /\ PinLoads
  BY DEF OnboardInv
<1>2. Others(p) /\ \A o \in Runners \ {p} : current'[o] = current[o]
  BY <1>1 DEF Others, OnboardTypeOK
<1>3. OnboardTypeOK'
  BY <1>1, CmdFields DEF OnboardTypeOK, Places
<1>4. Places'
  <2>1. cmd[p] \in Cmds /\ cmd[p].kind = "wire" /\ cmd' = cmd /\ at'[p] = 1 /\ step'[p] = "read"
    BY <1>1 DEF OnboardTypeOK, Places
  <2>2. 1 \in 1..Len(Plan(cmd[p]))
    BY <2>1, PlanLegs
  <2> QED  BY <1>1, <1>2, <2>1, <2>2 DEF Places, Others
<1>5. Fresh'
  BY <1>1, <1>2, FreshFrame DEF OnboardTypeOK
<1>6. OneScaffold'
  BY <1>1 DEF OnboardTypeOK, Places, OneScaffold, Loaded
<1>7. WritersAddUp'
  BY <1>1, FilesFrame
<1>8. CutHasWriter'
  BY <1>1 DEF OnboardTypeOK, Places, CutHasWriter
<1>9. PinLoads'
  BY <1>1 DEF OnboardTypeOK, Places, PinLoads, Loaded
<1> QED BY <1>3, <1>4, <1>5, <1>6, <1>7, <1>8, <1>9 DEF OnboardInv

LEMMA StopsKeepsOnboard ==
  ASSUME OnboardInv, NEW p \in Runners, Stops(p)
  PROVE  OnboardInv'
<1> USE DEF Stops, Proceed, disk, ghosts, Gone, ConfigLoads
<1>1. /\ OnboardTypeOK /\ Places /\ Fresh /\ OneScaffold
      /\ WritersAddUp /\ CutHasWriter /\ PinLoads
  BY DEF OnboardInv
<1>2. Others(p) /\ \A o \in Runners \ {p} : current'[o] = current[o]
  BY <1>1 DEF Others, OnboardTypeOK
<1>3. OnboardTypeOK'
  BY <1>1, CmdFields DEF OnboardTypeOK, Places
<1>4. Places'
  BY <1>1 DEF OnboardTypeOK, Places
<1>5. Fresh'
  BY <1>1, <1>2, FreshFrame DEF OnboardTypeOK
<1>6. OneScaffold'
  BY <1>1 DEF OnboardTypeOK, Places, OneScaffold, Loaded
<1>7. WritersAddUp'
  BY <1>1, FilesFrame
<1>8. CutHasWriter'
  BY <1>1 DEF OnboardTypeOK, Places, CutHasWriter
<1>9. PinLoads'
  BY <1>1 DEF OnboardTypeOK, Places, PinLoads, Loaded
<1> QED BY <1>3, <1>4, <1>5, <1>6, <1>7, <1>8, <1>9 DEF OnboardInv

LEMMA RefusedKeepsOnboard ==
  ASSUME OnboardInv, NEW p \in Runners, Refused(p)
  PROVE  OnboardInv'
<1> USE DEF Refused, Proceed, disk, ghosts, Gone
<1>1. /\ OnboardTypeOK /\ Places /\ Fresh /\ OneScaffold
      /\ WritersAddUp /\ CutHasWriter /\ PinLoads
  BY DEF OnboardInv
<1>2. Others(p) /\ \A o \in Runners \ {p} : current'[o] = current[o]
  BY <1>1 DEF Others, OnboardTypeOK
<1>3. OnboardTypeOK'
  BY <1>1, CmdFields DEF OnboardTypeOK, Places
<1>4. Places'
  BY <1>1 DEF OnboardTypeOK, Places
<1>5. Fresh'
  BY <1>1, <1>2, FreshFrame DEF OnboardTypeOK
<1>6. OneScaffold'
  BY <1>1 DEF OnboardTypeOK, Places, OneScaffold, Loaded
<1>7. WritersAddUp'
  BY <1>1, FilesFrame
<1>8. CutHasWriter'
  BY <1>1 DEF OnboardTypeOK, Places, CutHasWriter
<1>9. PinLoads'
  BY <1>1 DEF OnboardTypeOK, Places, PinLoads, Loaded
<1> QED BY <1>3, <1>4, <1>5, <1>6, <1>7, <1>8, <1>9 DEF OnboardInv

LEMMA StopKeepsOnboard ==
  ASSUME OnboardInv, NEW p \in Runners, Stop(p)
  PROVE  OnboardInv'
<1> USE DEF Stop, Proceed, disk, ghosts, Gone
<1>1. /\ OnboardTypeOK /\ Places /\ Fresh /\ OneScaffold
      /\ WritersAddUp /\ CutHasWriter /\ PinLoads
  BY DEF OnboardInv
<1>2. Others(p) /\ \A o \in Runners \ {p} : current'[o] = current[o]
  BY <1>1 DEF Others, OnboardTypeOK
<1>3. OnboardTypeOK'
  BY <1>1, CmdFields DEF OnboardTypeOK, Places
<1>4. Places'
  BY <1>1 DEF OnboardTypeOK, Places
<1>5. Fresh'
  BY <1>1, <1>2, FreshFrame DEF OnboardTypeOK
<1>6. OneScaffold'
  BY <1>1 DEF OnboardTypeOK, Places, OneScaffold, Loaded
<1>7. WritersAddUp'
  BY <1>1, FilesFrame
<1>8. CutHasWriter'
  <2>1. /\ piece' = piece /\ torn \subseteq torn'
        /\ step[p] = "write" => <<cmd[p].project, at[p]>> \in torn'
    OBVIOUS
  <2> HIDE DEF Stop
  <2> QED  BY <1>1, <1>2, <2>1 DEF CutHasWriter, Others
<1>9. PinLoads'
  BY <1>1 DEF OnboardTypeOK, Places, PinLoads, Loaded
<1> QED BY <1>3, <1>4, <1>5, <1>6, <1>7, <1>8, <1>9 DEF OnboardInv

\* What a document read from a file pins, the file pinned before it.
LEMMA ReadKeepsOnboard ==
  ASSUME OnboardInv, NEW p \in Runners, Read(p)
  PROVE  OnboardInv'
<1> USE DEF Read, Proceed, disk
<1>1. /\ OnboardTypeOK /\ Places /\ Fresh /\ OneScaffold
      /\ WritersAddUp /\ CutHasWriter /\ PinLoads
  BY DEF OnboardInv
<1>2. Others(p) /\ \A o \in Runners \ {p} : current'[o] = current[o]
  BY <1>1 DEF Others, OnboardTypeOK
<1> DEFINE f == leg(p).file
           d == IF file[f] \in {ABSENT, BAD} THEN Empty ELSE file[f]
<1>3. f \in McpFiles /\ file[f] # BAD /\ d \in Docs /\ doc'[p] = d /\ step[p] = "read"
      /\ step'[p] = "replace" /\ cmd' = cmd /\ at'[p] = at[p] /\ file' = file /\ current'[p] = TRUE
  BY <1>1, LegOf, EmptyDoc DEF OnboardTypeOK, Mergeable
<1>4. leg(p)' = leg(p)
  BY <1>3 DEF leg
<1>5. OnboardTypeOK'
  BY <1>1, <1>3 DEF OnboardTypeOK
<1>6. Places'
  BY <1>1, <1>2, <1>3 DEF Places, Others
<1>7. Fresh'
  <2> SUFFICES ASSUME NEW o \in Runners, step'[o] = "replace"
               PROVE  /\ doc'[o] \in Docs
                      /\ current'[o] => /\ file'[leg(o)'.file] # BAD
                         /\ doc'[o] = IF file'[leg(o)'.file] = ABSENT THEN Empty
                                      ELSE file'[leg(o)'.file]
    BY DEF Fresh
  <2>1. CASE o = p
    BY <2>1, <1>3, <1>4
  <2>2. CASE o # p
    <3>1. leg(o)' = leg(o) /\ step[o] = "replace" /\ doc'[o] = doc[o] /\ current'[o] = current[o]
      BY <1>2, <2>2 DEF Others, leg
    <3> QED  BY <1>1, <1>3, <3>1 DEF Fresh
  <2> QED  BY <2>1, <2>2
<1>8. OneScaffold'
  <2>1. piece' = piece /\ raced' = raced
    OBVIOUS
  <2>2. ASSUME NEW q \in Projects \ raced, NEW n \in Names, d[n] = q
        PROVE  Loaded(q)
    <3>1. file[f] \notin {ABSENT, BAD} /\ file[f][n] = q
      BY <2>2, <1>3 DEF Empty
    <3> QED  BY <1>1, <1>3, <3>1 DEF PinLoads
  <2> HIDE DEF d, f, Read
  <2> QED  BY <1>1, <1>2, <1>3, <2>1, <2>2 DEF OneScaffold, Others, Loaded
<1>9. WritersAddUp'
  BY <1>1, FilesFrame
<1>10. CutHasWriter'
  <2>1. piece' = piece /\ torn' = torn /\ step[p] = "read"
    OBVIOUS
  <2> QED  BY <1>1, <1>2, <2>1 DEF CutHasWriter, Others
<1>11. PinLoads'
  <2>1. piece' = piece /\ raced' = raced /\ file' = file
    OBVIOUS
  <2> QED  BY <1>1, <2>1 DEF PinLoads, Loaded
<1> QED BY <1>5, <1>6, <1>7, <1>8, <1>9, <1>10, <1>11 DEF OnboardInv

\* The end of a leg: the next one, or the command is done.
LEMMA AdvanceKeeps ==
  ASSUME OnboardTypeOK, Places, NEW p \in Runners, Advance(p),
         step[p] \in {"read", "replace"}
  PROVE  /\ Others(p) /\ step'[p] \in {"read", "idle"}
         /\ step' \in [Runners -> {"idle", "check", "open", "write", "ignore", "load",
                                   "read", "replace"}]
         /\ cmd' \in [Runners -> Cmds \cup {NoCmd}] /\ at' \in [Runners -> Nat]
         /\ doc' \in [Runners -> Docs \cup {ABSENT}]
         /\ step'[p] = "read" => cmd'[p] = cmd[p]
         /\ Places'
<1> USE DEF Advance, Proceed
<1>1. cmd[p] \in Cmds /\ cmd[p].kind \in {"wire", "global-wire"} /\ at[p] \in 1..Len(Plan(cmd[p]))
  BY DEF Places
<1>2. Len(Plan(cmd[p])) \in Nat
  BY <1>1, PlanLegs
<1>3. Others(p) /\ step'[p] \in {"read", "idle"} /\ (step'[p] = "read" => cmd'[p] = cmd[p])
  BY DEF OnboardTypeOK, Others
<1>4. step'[p] = "read" => at'[p] \in 1..Len(Plan(cmd[p]))
  BY <1>1, <1>2 DEF OnboardTypeOK
<1>5. Places'
  BY <1>1, <1>3, <1>4 DEF Places, Others
<1>6. PICK w \in {"read", "idle"}, i \in Nat :
        step' = [step EXCEPT ![p] = w] /\ at' = [at EXCEPT ![p] = i]
  BY <1>1
<1>7. step' \in [Runners -> {"idle", "check", "open", "write", "ignore", "load",
                             "read", "replace"}] /\ at' \in [Runners -> Nat]
  BY <1>6 DEF OnboardTypeOK
<1>8. cmd' \in [Runners -> Cmds \cup {NoCmd}] /\ doc' \in [Runners -> Docs \cup {ABSENT}]
  BY DEF OnboardTypeOK
<1> QED  BY <1>3, <1>5, <1>7, <1>8

LEMMA SkipLegKeepsOnboard ==
  ASSUME OnboardInv, NEW p \in Runners, SkipLeg(p)
  PROVE  OnboardInv'
<1> USE DEF SkipLeg, disk, ghosts
<1>1. /\ OnboardTypeOK /\ Places /\ Fresh /\ OneScaffold
      /\ WritersAddUp /\ CutHasWriter /\ PinLoads
  BY DEF OnboardInv
<1>2. /\ Others(p) /\ step'[p] \in {"read", "idle"} /\ Places' /\ current' = current
      /\ step'[p] = "read" => cmd'[p] = cmd[p]
  BY <1>1, AdvanceKeeps
<1>3. OnboardTypeOK'
  BY <1>1, AdvanceKeeps DEF OnboardTypeOK
<1>4. Fresh'
  BY <1>1, <1>2, FreshFrame
<1>5. step[p] = "read" /\ piece' = piece /\ file' = file /\ raced' = raced /\ torn' = torn
  OBVIOUS
<1> HIDE DEF SkipLeg
<1>6. OneScaffold'
  BY <1>1, <1>2, <1>5 DEF OneScaffold, Others, Loaded
<1>7. WritersAddUp'
  BY <1>1, FilesFrame DEF SkipLeg
<1>8. CutHasWriter'
  BY <1>1, <1>2, <1>5 DEF CutHasWriter, Others
<1>9. PinLoads'
  BY <1>1, <1>5 DEF PinLoads, Loaded
<1> QED BY <1>2, <1>3, <1>4, <1>6, <1>7, <1>8, <1>9 DEF OnboardInv

LEMMA ReplacesKeepsOnboard ==
  ASSUME OnboardInv, NEW p \in Runners, Replaces(p)
  PROVE  OnboardInv'
<1> USE DEF Replaces
<1>1. /\ OnboardTypeOK /\ Places /\ Fresh /\ OneScaffold
      /\ WritersAddUp /\ CutHasWriter /\ PinLoads
  BY DEF OnboardInv
<1> DEFINE l == leg(p)
           f == l.file
<1>2. /\ Others(p) /\ step'[p] \in {"read", "idle"} /\ Places'
      /\ step'[p] = "read" => cmd'[p] = cmd[p]
  BY <1>1, AdvanceKeeps
<1>3. /\ f \in McpFiles /\ l.name \in Names /\ l.entry \in Entries
      /\ l.entry \in Projects => cmd[p].kind = "wire" /\ l.entry = cmd[p].project
  BY <1>1, LegOf
<1>4. doc[p] \in Docs /\ Merged(doc[p], l) \in Docs
  BY <1>1, <1>3 DEF Fresh, Merged, Docs
<1>5. /\ step[p] = "replace" /\ piece' = piece /\ raced' = raced /\ torn' = torn
      /\ gitignore' = gitignore /\ users' = users /\ cmds' = cmds
      /\ current' = Touch(f)
      /\ file' = [file EXCEPT ![f] = Merged(doc[p], l)]
      /\ sum' = [sum EXCEPT ![f] = IF @ = BAD THEN BAD
                                   ELSE Merged(IF @ = ABSENT THEN Empty ELSE @, l)]
      /\ clobbered' = IF current[p] THEN clobbered ELSE clobbered \cup {f}
  BY DEF Merged
<1>6. \A d \in Docs : Merged(d, l) \in Docs
  BY <1>3 DEF Merged, Docs
<1>7. OnboardTypeOK'
  <2>1. sum[f] # BAD => (IF sum[f] = ABSENT THEN Empty ELSE sum[f]) \in Docs
    BY <1>1, <1>3, EmptyDoc DEF OnboardTypeOK
  <2>2. /\ sum' \in [McpFiles -> Docs \cup {ABSENT, BAD}]
        /\ file' \in [McpFiles -> Docs \cup {ABSENT, BAD}]
    <3> HIDE DEF l, f, Replaces
    <3> QED BY <1>1, <1>4, <1>5, <1>6, <2>1 DEF OnboardTypeOK
  <2>3. clobbered' \subseteq McpFiles /\ current' \in [Runners -> BOOLEAN]
    BY <1>1, <1>3, <1>5 DEF OnboardTypeOK, Touch
  <2> QED  BY <1>1, <1>5, <2>2, <2>3, AdvanceKeeps DEF OnboardTypeOK
<1> HIDE DEF Replaces
<1>8. Fresh'
  <2> SUFFICES ASSUME NEW o \in Runners, step'[o] = "replace"
               PROVE  /\ doc'[o] \in Docs
                      /\ current'[o] => /\ file'[leg(o)'.file] # BAD
                         /\ doc'[o] = IF file'[leg(o)'.file] = ABSENT THEN Empty
                                      ELSE file'[leg(o)'.file]
    BY DEF Fresh
  <2>1. o # p
    BY <1>2
  <2>2. leg(o)' = leg(o) /\ step[o] = "replace" /\ doc'[o] = doc[o]
    BY <1>2, <2>1 DEF Others, leg
  <2>3. current'[o] => current[o] /\ leg(o).file # f
    BY <1>5, <2>2 DEF Touch
  <2>4. leg(o).file # f => file'[leg(o).file] = file[leg(o).file]
    BY <1>1, <1>3, <1>5, <2>2, LegOf DEF OnboardTypeOK
  <2> QED  BY <1>1, <2>2, <2>3, <2>4 DEF Fresh
<1>9. \A q \in Projects : Loaded(q)' <=> Loaded(q)
  BY <1>5 DEF Loaded
<1>10. OneScaffold'
  BY <1>1, <1>2, <1>5, <1>9 DEF OneScaffold, Others
<1>11. WritersAddUp'
  <2> SUFFICES ASSUME NEW g \in McpFiles \ clobbered' PROVE file'[g] = sum'[g]
    BY DEF WritersAddUp
  <2>1. file[g] = sum[g]
    BY <1>1, <1>5 DEF WritersAddUp
  <2>2. CASE g # f
    BY <1>1, <1>3, <1>5, <2>1, <2>2 DEF OnboardTypeOK
  <2>3. CASE g = f
    <3>1. current[p]
      BY <1>5, <2>3
    <3>2. file[f] # BAD /\ doc[p] = IF file[f] = ABSENT THEN Empty ELSE file[f]
      BY <1>1, <1>5, <3>1 DEF Fresh
    <3>3. /\ file'[f] = Merged(doc[p], l)
          /\ sum'[f] = IF sum[f] = BAD THEN BAD
                       ELSE Merged(IF sum[f] = ABSENT THEN Empty ELSE sum[f], l)
      <4> HIDE DEF f, l
      <4> QED BY <1>1, <1>3, <1>5 DEF OnboardTypeOK
    <3> QED  BY <2>1, <2>3, <3>2, <3>3
  <2> QED  BY <2>2, <2>3
<1>12. CutHasWriter'
  BY <1>1, <1>2, <1>5 DEF CutHasWriter, Others
<1>13. PinLoads'
  <2> SUFFICES ASSUME NEW q \in Projects \ raced, NEW g \in McpFiles, NEW n \in Names,
                      file'[g] \notin {ABSENT, BAD}, file'[g][n] = q
               PROVE  Loaded(q)
    BY <1>5, <1>9 DEF PinLoads
  <2>1. CASE g # f
    <3>1. file'[g] = file[g]
      BY <1>1, <1>3, <1>5, <2>1 DEF OnboardTypeOK
    <3> QED  BY <1>1, <3>1 DEF PinLoads
  <2>2. CASE g = f
    <3>1. file'[g] = Merged(doc[p], l)
      <4> HIDE DEF f, l
      <4> QED BY <1>1, <1>3, <1>5, <2>2 DEF OnboardTypeOK
    <3>2. CASE n = l.name
      <4>1. q = l.entry
        BY <1>3, <1>4, <3>1, <3>2 DEF Merged, Docs
      <4> QED  BY <1>1, <1>3, <1>5, <4>1 DEF OneScaffold
    <3>3. CASE n # l.name
      <4>1. q = doc[p][n]
        BY <1>3, <1>4, <3>1, <3>3 DEF Merged, Docs
      <4> QED  BY <1>1, <1>5, <4>1 DEF OneScaffold
    <3> QED  BY <3>2, <3>3
  <2> QED  BY <2>1, <2>2
<1> QED BY <1>2, <1>7, <1>8, <1>10, <1>11, <1>12, <1>13 DEF OnboardInv

LEMMA UserWiresKeepsOnboard ==
  ASSUME OnboardInv, NEW f \in McpFiles, UserWires(f)
  PROVE  OnboardInv'
<1>1. /\ OnboardTypeOK /\ Places /\ Fresh /\ OneScaffold
      /\ WritersAddUp /\ CutHasWriter /\ PinLoads
  BY DEF OnboardInv
<1>2. PICK d \in {BAD, ABSENT, [Empty EXCEPT !["other"] = "theirs"]}
                 \cup {[e EXCEPT !["other"] = "theirs"] : e \in {file[f]} \ {BAD, ABSENT}} :
        file' = [file EXCEPT ![f] = d] /\ sum' = [sum EXCEPT ![f] = d]
  BY DEF UserWires
<1>3. /\ piece' = piece /\ gitignore' = gitignore /\ cmds' = cmds /\ raced' = raced /\ torn' = torn
      /\ step' = step /\ cmd' = cmd /\ at' = at /\ doc' = doc
      /\ current' = Touch(f) /\ clobbered' = clobbered \ {f}
  BY DEF UserWires, runner
<1>4. users' \in 0..MaxUser
  BY <1>1 DEF UserWires, OnboardTypeOK
<1>5. \A e \in Docs : /\ [e EXCEPT !["other"] = "theirs"] \in Docs
                      /\ \A n \in Names, q \in Projects :
                           [e EXCEPT !["other"] = "theirs"][n] = q => e[n] = q
  BY DEF Docs, Names, Entries
<1>6. /\ d \in Docs \cup {ABSENT, BAD}
      /\ \A n \in Names, q \in Projects :
           d \notin {ABSENT, BAD} /\ d[n] = q => file[f] \notin {ABSENT, BAD} /\ file[f][n] = q
  <2>1. CASE d \in {ABSENT, BAD}
    BY <2>1
  <2>2. CASE d = [Empty EXCEPT !["other"] = "theirs"]
    BY <2>2, <1>5, EmptyDoc DEF Empty
  <2>3. CASE file[f] \notin {BAD, ABSENT} /\ d = [file[f] EXCEPT !["other"] = "theirs"]
    <3>1. file[f] \in Docs
      BY <1>1, <2>3 DEF OnboardTypeOK
    <3> QED  BY <2>3, <3>1, <1>5
  <2> QED  BY <1>2, <2>1, <2>2, <2>3
<1>7. OnboardTypeOK'
  BY <1>1, <1>2, <1>3, <1>4, <1>6 DEF OnboardTypeOK, Touch
<1>8. Places'
  BY <1>1, <1>3 DEF Places
<1>9. Fresh'
  <2> SUFFICES ASSUME NEW o \in Runners, step'[o] = "replace"
               PROVE  /\ doc'[o] \in Docs
                      /\ current'[o] => /\ file'[leg(o)'.file] # BAD
                         /\ doc'[o] = IF file'[leg(o)'.file] = ABSENT THEN Empty
                                      ELSE file'[leg(o)'.file]
    BY DEF Fresh
  <2>1. leg(o)' = leg(o) /\ step[o] = "replace" /\ doc'[o] = doc[o]
    BY <1>3 DEF leg
  <2>2. current'[o] => current[o] /\ leg(o).file # f
    BY <1>3, <2>1 DEF Touch
  <2>3. leg(o).file # f => file'[leg(o).file] = file[leg(o).file]
    BY <1>1, <1>2, <2>1, LegOf DEF OnboardTypeOK
  <2> QED  BY <1>1, <2>1, <2>2, <2>3 DEF Fresh
<1>10. OneScaffold'
  BY <1>1, <1>3 DEF OneScaffold, Loaded
<1>11. WritersAddUp'
  BY <1>1, <1>2, <1>3 DEF WritersAddUp, OnboardTypeOK
<1>12. CutHasWriter'
  BY <1>1, <1>3 DEF CutHasWriter
<1>13. PinLoads'
  <2>1. \A g \in McpFiles \ {f} : file'[g] = file[g]
    BY <1>1, <1>2 DEF OnboardTypeOK
  <2>2. file'[f] = d
    BY <1>1, <1>2 DEF OnboardTypeOK
  <2> QED  BY <1>1, <1>3, <1>6, <2>1, <2>2 DEF PinLoads, Loaded
<1> QED BY <1>7, <1>8, <1>9, <1>10, <1>11, <1>12, <1>13 DEF OnboardInv

LEMMA UserConfiguresKeepsOnboard ==
  ASSUME OnboardInv, NEW r \in Projects, UserConfigures(r)
  PROVE  OnboardInv'
<1> USE DEF UserConfigures, runner, ghosts
<1>1. /\ OnboardTypeOK /\ Places /\ Fresh /\ OneScaffold
      /\ WritersAddUp /\ CutHasWriter /\ PinLoads
  BY DEF OnboardInv
<1>2. /\ file' = file /\ sum' = sum /\ clobbered' = clobbered /\ raced' = raced /\ torn' = torn
      /\ step' = step /\ cmd' = cmd /\ at' = at /\ doc' = doc /\ current' = current
      /\ 1 \in 1..NPieces
  OBVIOUS
<1>3. /\ piece' \in [Projects -> [1..NPieces -> {"none", "cut", "ok", "own"}]]
      /\ \A q \in Projects, k \in 1..NPieces :
           /\ piece'[q][k] = "cut" => piece[q][k] = "cut"
           /\ piece[q][k] = "none" => piece'[q][k] = "none"
      /\ \A q \in Projects : Loaded(q) => Loaded(q)'
  BY <1>1, <1>2 DEF OnboardTypeOK, Loaded
<1>4. OnboardTypeOK'
  BY <1>1, <1>3 DEF OnboardTypeOK
<1> HIDE DEF UserConfigures
<1>5. Places'
  BY <1>1, <1>2 DEF Places
<1>6. Fresh'
  BY <1>1, <1>2 DEF Fresh, leg
<1>7. OneScaffold'
  BY <1>1, <1>2, <1>3 DEF OneScaffold
<1>8. WritersAddUp'
  BY <1>1, <1>2, FilesFrame
<1>9. CutHasWriter'
  BY <1>1, <1>2, <1>3 DEF CutHasWriter
<1>10. PinLoads'
  BY <1>1, <1>2, <1>3 DEF PinLoads
<1> QED BY <1>4, <1>5, <1>6, <1>7, <1>8, <1>9, <1>10 DEF OnboardInv

LEMMA OnboardStart == OnboardInit => OnboardInv
<1> SUFFICES ASSUME OnboardInit PROVE OnboardInv
  OBVIOUS
<1> USE DEF OnboardInit
<1>1. OnboardTypeOK
  BY DEF OnboardTypeOK, NoCmd
<1> QED  BY <1>1 DEF OnboardInv, Places, Fresh, OneScaffold, WritersAddUp, CutHasWriter, PinLoads

LEMMA OnboardStutter ==
  ASSUME OnboardInv, UNCHANGED onboardVars PROVE OnboardInv'
<1> USE DEF onboardVars, disk, runner, ghosts
<1>1. OnboardTypeOK' /\ Places'
  BY DEF OnboardInv, OnboardTypeOK, Places
<1>2. Fresh'
  BY DEF OnboardInv, Fresh, leg
<1>3. OneScaffold'
  BY DEF OnboardInv, OneScaffold, Loaded
<1>4. WritersAddUp' /\ CutHasWriter' /\ PinLoads'
  BY DEF OnboardInv, WritersAddUp, CutHasWriter, PinLoads, Loaded
<1> QED  BY <1>1, <1>2, <1>3, <1>4 DEF OnboardInv

LEMMA OnboardStep == OnboardInv /\ [OnboardNext]_onboardVars => OnboardInv'
<1> SUFFICES ASSUME OnboardInv, [OnboardNext]_onboardVars PROVE OnboardInv'
  OBVIOUS
<1>1. ASSUME NEW p \in Runners,
             \/ Begin(p) \/ Check(p) \/ Open(p) \/ Write(p) \/ Ignore(p) \/ Loads(p) \/ Stops(p)
             \/ Read(p) \/ SkipLeg(p) \/ Refused(p) \/ Replaces(p) \/ Stop(p)
      PROVE  OnboardInv'
  BY <1>1, BeginKeepsOnboard, CheckKeepsOnboard, OpenKeepsOnboard, WriteKeepsOnboard,
     IgnoreKeepsOnboard, LoadsKeepsOnboard, StopsKeepsOnboard, ReadKeepsOnboard,
     SkipLegKeepsOnboard, RefusedKeepsOnboard, ReplacesKeepsOnboard, StopKeepsOnboard
<1> QED  BY <1>1, UserWiresKeepsOnboard, UserConfiguresKeepsOnboard, OnboardStutter
         DEF OnboardNext

LEMMA OnboardInductive == OnboardSpec => []OnboardInv
BY OnboardStart, OnboardStep, PTL DEF OnboardSpec

\* The type invariant of onboarding.
THEOREM OnboardTyped == OnboardSpec => []OnboardTypeOK
<1>1. OnboardInv => OnboardTypeOK
  BY DEF OnboardInv
<1> QED  BY <1>1, OnboardInductive, PTL

\* Whatever runs at once, stops in the middle or is refused half way, an MCP
\* file that was not replaced from an outdated document holds what all its
\* writers wrote, the user among them (_read_merge_json, _write_json_atomic).
THEOREM OnboardAddsUp == OnboardSpec => []WritersAddUp
<1>1. OnboardInv => WritersAddUp
  BY DEF OnboardInv
<1> QED  BY <1>1, OnboardInductive, PTL

\* A cut piece has a writer or a writer that stopped, and a pinned project
\* has a config that loads, unless two scaffolds met (scaffold, wire,
\* global_wire).
THEOREM OnboardLoads == OnboardSpec => []PinnedConfigLoads
<1>1. OnboardInv => PinnedConfigLoads
  BY DEF OnboardInv, CutHasWriter, PinLoads, PinnedConfigLoads, Loaded
<1> QED  BY <1>1, OnboardInductive, PTL
=============================================================================
