------------------------------ MODULE Onboard ------------------------------
(***************************************************************************)
(* Onboarding (onboard.py): init scaffolds a project, wire pins it in the  *)
(* MCP files of the project and of the omp harness, global-wire puts one   *)
(* entry in the user files of every harness; a server's first contact with *)
(* a fresh directory runs the same scaffold.  Nothing is locked: several   *)
(* of them run at once beside a user who edits the same files, and any may *)
(* be killed between two steps.  (--index, a rescan and a bake that touch  *)
(* none of these files, is left out.)                                      *)
(***************************************************************************)
EXTENDS Naturals, Sequences

CONSTANTS Runners, Projects,
          OmpNames,   \* server names in the omp file: neuronav-<basename>
                      \* of a project, or an --omp-name
          NPieces,    \* the files scaffold writes where there are none: config
                      \* first, then .neuroignore and the memories README
          MaxCmds,    \* bound: commands started
          MaxUser,    \* bound: edits by the user
          BAD, ABSENT

ASSUME OnboardAssumption == /\ NPieces \in Nat \ {0} /\ MaxCmds \in Nat
                            /\ MaxUser \in Nat /\ BAD # ABSENT
                            /\ {"uvx", "theirs", ABSENT} \cap Projects = {}
                            /\ ABSENT \notin {"init", "contact", "wire", "global-wire"}

Harness == <<"omp", "opencode", "kilocode", "zcode">>

McpFiles == ({"mcp", "opencode"} \X Projects)
            \cup {<<"user", h>> : h \in {"omp", "opencode", "kilocode", "zcode"}}
Names   == OmpNames \cup {"neuronav", "other"}
Entries == Projects \cup {"uvx", "theirs", ABSENT}
Docs    == [Names -> Entries]
Empty   == [n \in Names |-> ABSENT]

ASSUME DocsAssumption == BAD \notin Docs /\ ABSENT \notin Docs

VARIABLES
  piece,      \* per project and piece: none, cut, ok, or the user's own
  gitignore,  \* per project: the .gitignore, if there is one, has the line
  file,       \* per MCP file: ABSENT, BAD (not what wire can merge), or entries
  users,      \* edits by the user so far
  cmds,       \* commands started so far
  step,       \* per process
  cmd,        \* per process: the command it runs
  at,         \* per process: the piece, or the leg of the plan, it is at
  doc,        \* per process: the document _read_merge_json returned
  current,    \* ghost, per process: nobody wrote that file since
  sum,        \* ghost, per MCP file: what all its writers together say
  clobbered,  \* ghost: MCP files replaced from a document no longer current
  torn,       \* ghost: pieces <<q, k>> whose writer stopped in the middle
  raced       \* ghost: projects two scaffolds found without a config at once

disk   == <<piece, gitignore, file>>
runner == <<step, cmd, at, doc>>
ghosts == <<current, sum, clobbered, torn, raced>>
onboardVars == <<disk, users, cmds, runner, ghosts>>

NoCmd == [kind |-> ABSENT]
Cmds  == [kind : {"init", "contact"}, project : Projects]
         \cup [kind : {"wire"}, project : Projects, omp : OmpNames \cup {ABSENT}]
         \cup {[kind |-> "global-wire"]}

\* The legs of a command: a file, the entry's name and the entry.
Leg(f, n, e) == [file |-> f, name |-> n, entry |-> e]
Plan(c) ==
  IF c.kind = "wire"
    THEN <<Leg(<<"mcp", c.project>>, "neuronav", c.project),
           Leg(<<"opencode", c.project>>, "neuronav", c.project)>>
         \o IF c.omp = ABSENT THEN <<>>
            ELSE <<Leg(<<"user", "omp">>, c.omp, c.project)>>
    ELSE [i \in 1..4 |-> Leg(<<"user", Harness[i]>>, "neuronav", "uvx")]

leg(p) == Plan(cmd[p])[at[p]]

OnboardTypeOK ==
  /\ piece \in [Projects -> [1..NPieces -> {"none", "cut", "ok", "own"}]]
  /\ gitignore \in [Projects -> BOOLEAN]
  /\ file \in [McpFiles -> Docs \cup {ABSENT, BAD}] /\ users \in 0..MaxUser
  /\ cmds \in 0..MaxCmds
  /\ step \in [Runners -> {"idle", "check", "open", "write", "ignore", "load", "read",
                       "replace"}]
  /\ cmd \in [Runners -> Cmds \cup {NoCmd}] /\ at \in [Runners -> Nat]
  /\ doc \in [Runners -> Docs \cup {ABSENT}]
  /\ current \in [Runners -> BOOLEAN] /\ sum \in [McpFiles -> Docs \cup {ABSENT, BAD}]
  /\ clobbered \subseteq McpFiles /\ torn \subseteq Projects \X (1..NPieces)
  /\ raced \subseteq Projects

Proceed(p, where, i) ==
  /\ step' = [step EXCEPT ![p] = where] /\ at' = [at EXCEPT ![p] = i]

\* The process is gone: finished, refused or killed.
Gone(p) ==
  /\ Proceed(p, "idle", 1)
  /\ cmd' = [cmd EXCEPT ![p] = NoCmd] /\ doc' = [doc EXCEPT ![p] = ABSENT]
  /\ current' = [current EXCEPT ![p] = FALSE]

-----------------------------------------------------------------------------
\* init and first contact scaffold; wire only where there is no config;
\* global-wire has no project.
Begin(p) ==
  /\ step[p] = "idle" /\ cmds < MaxCmds /\ cmds' = cmds + 1
  /\ \E c \in Cmds :
       /\ cmd' = [cmd EXCEPT ![p] = c]
       /\ Proceed(p, IF c.kind = "global-wire" THEN "read"
                  ELSE IF c.kind = "wire" /\ piece[c.project][1] # "none"
                    THEN "load" ELSE "check", 1)
  /\ UNCHANGED <<disk, users, doc, ghosts>>

\* The existence guard of one piece.
Check(p) ==
  /\ step[p] = "check"
  /\ LET q == cmd[p].project
     IN  IF piece[q][at[p]] = "none"
           THEN /\ Proceed(p, "open", at[p])
                /\ raced' = IF \E o \in Runners \ {p} : /\ step[o] \in {"open", "write"}
                                                      /\ cmd[o].project = q
                                                      /\ at[o] = at[p]
                              THEN raced \cup {q} ELSE raced
           ELSE /\ Proceed(p, IF at[p] < NPieces THEN "check" ELSE "ignore",
                        IF at[p] < NPieces THEN at[p] + 1 ELSE 1)
                /\ UNCHANGED raced
  /\ UNCHANGED <<disk, users, cmds, cmd, doc, current, sum, clobbered, torn>>

\* write_text opens and truncates...
Open(p) ==
  /\ step[p] = "open"
  /\ piece' = [piece EXCEPT ![cmd[p].project][at[p]] = "cut"]
  /\ Proceed(p, "write", at[p])
  /\ UNCHANGED <<gitignore, file, users, cmds, cmd, doc, ghosts>>

\* ...then writes.
Write(p) ==
  /\ step[p] = "write"
  /\ piece' = [piece EXCEPT ![cmd[p].project][at[p]] = "ok"]
  /\ Proceed(p, IF at[p] < NPieces THEN "check" ELSE "ignore", IF at[p] < NPieces THEN at[p] + 1 ELSE 1)
  /\ UNCHANGED <<gitignore, file, users, cmds, cmd, doc, ghosts>>

\* The .gitignore line, where there is a .gitignore.
Ignore(p) ==
  /\ step[p] = "ignore"
  /\ gitignore' = [gitignore EXCEPT ![cmd[p].project] = TRUE]
  /\ Proceed(p, "load", 1)
  /\ UNCHANGED <<piece, file, users, cmds, cmd, doc, ghosts>>

\* Mutant of ConfigLoads: a config that is there is taken for good.
ConfigIsThere(q) == piece[q][1] # "none"

\* navconfig.use_config parses the config, and a cut one does not.
ConfigLoads(q) == piece[q][1] \in {"ok", "own"}

\* use_config (a first contact goes on elsewhere); wire has its entries to
\* write.
Loads(p) ==
  /\ step[p] = "load" /\ cmd[p].kind = "wire" /\ ConfigLoads(cmd[p].project)
  /\ Proceed(p, "read", 1)
  /\ UNCHANGED <<disk, users, cmds, cmd, doc, ghosts>>

Stops(p) ==
  /\ step[p] = "load" /\ (cmd[p].kind # "wire" \/ ~ConfigLoads(cmd[p].project))
  /\ Gone(p)
  /\ UNCHANGED <<disk, users, cmds, sum, clobbered, torn, raced>>

-----------------------------------------------------------------------------
\* The end of a leg.
Advance(p) ==
  IF at[p] < Len(Plan(cmd[p]))
    THEN /\ Proceed(p, "read", at[p] + 1)
         /\ doc' = [doc EXCEPT ![p] = ABSENT]
         /\ UNCHANGED cmd
    ELSE /\ Proceed(p, "idle", 1)
         /\ cmd' = [cmd EXCEPT ![p] = NoCmd] /\ doc' = [doc EXCEPT ![p] = ABSENT]

\* Mutant of Mergeable: a body that does not parse reads as no entries.
MergeableOrFresh(f) == TRUE

\* _read_merge_json parses; what is no object of objects ends the command.
Mergeable(f) == file[f] # BAD

\* An opencode.json of the project is merged only if there is one; every
\* other file is made.
Optional(f) == f[1] = "opencode"

Read(p) ==
  /\ step[p] = "read"
  /\ LET f == leg(p).file
     IN  /\ ~(Optional(f) /\ file[f] = ABSENT) /\ Mergeable(f)
         /\ doc' = [doc EXCEPT ![p] = IF file[f] \in {ABSENT, BAD} THEN Empty ELSE file[f]]
  /\ current' = [current EXCEPT ![p] = TRUE]
  /\ Proceed(p, "replace", at[p])
  /\ UNCHANGED <<disk, users, cmds, cmd, sum, clobbered, torn, raced>>

SkipLeg(p) ==
  /\ step[p] = "read" /\ Optional(leg(p).file) /\ file[leg(p).file] = ABSENT
  /\ Advance(p)
  /\ UNCHANGED <<disk, users, cmds, ghosts>>

\* SystemExit: the legs before this one stay.
Refused(p) ==
  /\ step[p] = "read" /\ ~Mergeable(leg(p).file)
  /\ Gone(p)
  /\ UNCHANGED <<disk, users, cmds, sum, clobbered, torn, raced>>

\* setdefault(container)[name] = entry
Merged(d, l) == [d EXCEPT ![l.name] = l.entry]

\* Everyone who read f before this write holds an older document.
Touch(f) == [o \in Runners |-> current[o] /\ ~(step[o] = "replace" /\ leg(o).file = f)]

\* _write_json_atomic: a temp file of its own, then os.replace.
Replaces(p) ==
  /\ step[p] = "replace"
  /\ LET l == leg(p)
     IN  /\ file' = [file EXCEPT ![l.file] = Merged(doc[p], l)]
         /\ sum' = [sum EXCEPT ![l.file] =
                      IF @ = BAD THEN BAD
                      ELSE [(IF @ = ABSENT THEN Empty ELSE @) EXCEPT ![l.name] = l.entry]]
         /\ clobbered' = IF current[p] THEN clobbered ELSE clobbered \cup {l.file}
         /\ current' = Touch(l.file)
  /\ Advance(p)
  /\ UNCHANGED <<piece, gitignore, users, cmds, torn, raced>>

\* Killed, or the write of the temp file fails: os.replace never ran.
Stop(p) ==
  /\ step[p] # "idle"
  /\ torn' = IF step[p] = "write" THEN torn \cup {<<cmd[p].project, at[p]>>} ELSE torn
  /\ Gone(p)
  /\ UNCHANGED <<disk, users, cmds, sum, clobbered, raced>>

-----------------------------------------------------------------------------
\* The user, or a harness, rewrites an MCP file: breaks it, mends it by
\* hand or deletes it.
UserWires(f) ==
  /\ users < MaxUser /\ users' = users + 1
  /\ \E d \in {BAD, ABSENT, [Empty EXCEPT !["other"] = "theirs"]}
             \cup {[e EXCEPT !["other"] = "theirs"] : e \in {file[f]} \ {BAD, ABSENT}} :
       /\ file' = [file EXCEPT ![f] = d] /\ sum' = [sum EXCEPT ![f] = d]
  /\ clobbered' = clobbered \ {f}
  /\ current' = Touch(f)
  /\ UNCHANGED <<piece, gitignore, cmds, runner, torn, raced>>

\* The user edits a config, or deletes one that does not load.
UserConfigures(q) ==
  /\ users < MaxUser /\ users' = users + 1
  /\ piece[q][1] # "none"
  /\ \E v \in {"own", "none"} :
       /\ v = "none" => piece[q][1] = "cut"
       /\ piece' = [piece EXCEPT ![q][1] = v]
  /\ UNCHANGED <<gitignore, file, cmds, runner, ghosts>>

OnboardInit ==
  /\ piece = [q \in Projects |-> [k \in 1..NPieces |-> "none"]]
  /\ gitignore = [q \in Projects |-> FALSE]
  /\ file = [f \in McpFiles |-> ABSENT] /\ users = 0 /\ cmds = 0
  /\ step = [p \in Runners |-> "idle"] /\ cmd = [p \in Runners |-> NoCmd]
  /\ at = [p \in Runners |-> 1] /\ doc = [p \in Runners |-> ABSENT]
  /\ current = [p \in Runners |-> FALSE]
  /\ sum = file /\ clobbered = {} /\ torn = {} /\ raced = {}

OnboardNext ==
  \/ \E p \in Runners :
       \/ Begin(p) \/ Check(p) \/ Open(p) \/ Write(p) \/ Ignore(p)
       \/ Loads(p) \/ Stops(p)
       \/ Read(p) \/ SkipLeg(p) \/ Refused(p) \/ Replaces(p) \/ Stop(p)
  \/ \E f \in McpFiles : UserWires(f)
  \/ \E q \in Projects : UserConfigures(q)

OnboardSpec == OnboardInit /\ [][OnboardNext]_onboardVars

-----------------------------------------------------------------------------
(***************************************************************************)
(* Properties.                                                             *)
(***************************************************************************)
\* _read_merge_json and _write_json_atomic: whatever runs at once, stops in
\* the middle or is refused half way, an MCP file holds what its writers
\* together wrote - the user's entries and every pin - and a file the user
\* broke is left alone, unless it was replaced from a document another write
\* had outdated.
WritersAddUp == \A f \in McpFiles \ clobbered : file[f] = sum[f]

\* scaffold and wire: a piece is cut only while somebody writes it or after
\* a writer stopped in the middle, and a project is pinned somewhere only with
\* a config that loads, unless two scaffolds met.
PinnedConfigLoads ==
  /\ \A q \in Projects, k \in 1..NPieces :
       piece[q][k] = "cut" =>
         \/ <<q, k>> \in torn
         \/ \E p \in Runners : step[p] = "write" /\ cmd[p].project = q /\ at[p] = k
  /\ \A q \in Projects \ raced, f \in McpFiles, n \in Names :
       file[f] \notin {ABSENT, BAD} /\ file[f][n] = q => piece[q][1] \in {"ok", "own"}
=============================================================================
