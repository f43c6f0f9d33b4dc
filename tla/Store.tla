-------------------------------- MODULE Store --------------------------------
(***************************************************************************)
(* The vector store of one checkout (navstore.py) under the rescan that    *)
(* fills it (navindex.py): a collection opened by name outside the write   *)
(* lock, its stamp checked, a re-stamp that copies it into a temp and      *)
(* swaps the names in two steps, the orphaned temp adopted on a later      *)
(* open, and the rescan that re-embeds everything when the stamp names     *)
(* another vector space.  Several processes share the store; one may be    *)
(* killed between any two steps and come back under another config.        *)
(*                                                                         *)
(* A vector space is a model (strictly checked: another one refuses) and a *)
(* shape (embed mode and document shape: another one re-embeds).           *)
(***************************************************************************)
EXTENDS Naturals, FiniteSets

CONSTANTS Procs, Files, Models, Shapes,
          Ids,         \* bound: collections that exist or are held at once
          MaxStarts,   \* bound: configs a process comes back under
          NULL

Space == [model : Models, shape : Shapes]

\* A collection: its stamp, whether its metadata is complete, and its rows, each
\* the space its vector is in.
Objects == [stamp : Space, full : BOOLEAN, rows : [Files -> Space \cup {NULL}]]

ASSUME StoreAssumption ==
  /\ IsFiniteSet(Files) /\ NULL \notin Procs /\ NULL \notin Ids
  /\ NULL \notin Shapes /\ NULL \notin Space /\ NULL \notin Objects
  /\ NULL \notin {"opened", "adopted", "raced"} /\ MaxStarts \in Nat

VARIABLES
  conf,     \* per process: the space its config embeds into
  objs,     \* collections by id: NULL or a stamp, the rows, complete metadata
  name,     \* the collection's name and "<name>-restamp": an id or NULL
  lock,     \* holder of the store write lock
  pc,       \* per process
  op,       \* per process: query or rescan
  handle,   \* per process: the collection object it holds
  kept,     \* per process: whether the lock was held before the swap began
  want,     \* per process: the shape a re-stamp writes
  todo,     \* per process: files the rescan has not reached
  via,      \* per process: how the open came by its collection
  starts,   \* restarts so far
  indexed,  \* ghost: files a rescan has put into the collection
  torn      \* ghost: a re-embed stopped before its stamp was written

mem  == <<conf, pc, op, handle, kept, want, todo, via>>
ghost == <<indexed, torn>>
vars == <<mem, objs, name, lock, starts, ghost>>

Names  == {"main", "temp"}
NoRows == [f \in Files |-> NULL]
Held(o) == {f \in Files : o.rows[f] # NULL}
Alive(p) == handle[p] # NULL /\ objs[handle[p]] # NULL
Obj(p) == objs[handle[p]]

WithRow(o, f, s) == [stamp |-> o.stamp, full |-> o.full,
                     rows |-> [o.rows EXCEPT ![f] = s]]

\* An id no name and no process refers to.
Fresh == {i \in Ids : objs[i] = NULL /\ \A p \in Procs : handle[p] # i}

Born(p) == [stamp |-> conf[p], full |-> TRUE, rows |-> NoRows]

PCs == {"idle", "open", "check", "probe", "adopt", "adoptRename", "restamp",
        "copy", "rename", "use", "embed"}

TypeOK ==
  /\ conf \in [Procs -> Space]
  /\ objs \in [Ids -> Objects \cup {NULL}]
  /\ name \in [Names -> Ids \cup {NULL}]
  /\ lock \in Procs \cup {NULL}
  /\ pc \in [Procs -> PCs]
  /\ op \in [Procs -> {"query", "rescan"}]
  /\ handle \in [Procs -> Ids \cup {NULL}]
  /\ kept \in [Procs -> BOOLEAN]
  /\ want \in [Procs -> Shapes \cup {NULL}]
  /\ todo \in [Procs -> SUBSET Files]
  /\ via \in [Procs -> {"opened", "adopted", "raced", NULL}]
  /\ starts \in Nat
  /\ indexed \subseteq Files
  /\ torn \in BOOLEAN

-----------------------------------------------------------------------------
Goto(p, where) == pc' = [pc EXCEPT ![p] = where]

\* The operation ends, normally or by an exception: every lock it took goes.
End(p) ==
  /\ Goto(p, "idle")
  /\ lock' = IF lock = p THEN NULL ELSE lock
  /\ handle' = [handle EXCEPT ![p] = NULL]
  /\ want' = [want EXCEPT ![p] = NULL]
  /\ todo' = [todo EXCEPT ![p] = {}]
  /\ via' = [via EXCEPT ![p] = NULL]
  /\ UNCHANGED <<conf, op, kept>>

ReembedAll(p) == Obj(p).stamp.shape # conf[p].shape

\* A re-embed that has written rows and not yet its stamp.
Reembedding(p) ==
  /\ op[p] = "rescan" /\ Alive(p) /\ ReembedAll(p)
  /\ \/ pc[p] = "embed" /\ todo[p] # Files
     \/ pc[p] \in {"restamp", "copy"} /\ want[p] # NULL

Raise(p) ==
  /\ End(p)
  /\ torn' = (torn \/ Reembedding(p))
  /\ UNCHANGED <<objs, name, starts, indexed>>

Begin(p, o) ==
  /\ pc[p] = "idle"
  /\ op' = [op EXCEPT ![p] = o]
  /\ o = "rescan" => lock = NULL
  /\ lock' = IF o = "rescan" THEN p ELSE lock
  /\ Goto(p, "open")
  /\ UNCHANGED <<conf, handle, kept, want, todo, via, objs, name, starts, ghost>>

\* _named_collection: get_or_create, not under the write lock.
Open(p) ==
  /\ pc[p] = "open"
  /\ IF name["main"] # NULL
       THEN /\ handle' = [handle EXCEPT ![p] = name["main"]]
            /\ UNCHANGED <<objs, name>>
       ELSE \E i \in Fresh :
              /\ objs' = [objs EXCEPT ![i] = Born(p)]
              /\ name' = [name EXCEPT !["main"] = i]
              /\ handle' = [handle EXCEPT ![p] = i]
  /\ via' = [via EXCEPT ![p] = "opened"]
  /\ Goto(p, "check")
  /\ UNCHANGED <<conf, op, kept, want, todo, lock, starts, ghost>>

\* _check_model, on the metadata of the collection object opened.
CheckRefuses(p) ==
  /\ pc[p] = "check" /\ Alive(p) /\ Obj(p).stamp.model # conf[p].model
  /\ Raise(p)

\* Mutant of CheckPasses: the model of the stamp is not compared.
CheckPassesAny(p) ==
  /\ pc[p] = "check" /\ Alive(p)
  /\ Goto(p, IF Obj(p).full THEN "probe" ELSE "restamp")
  /\ UNCHANGED <<conf, op, handle, kept, want, todo, via, objs, name, lock, starts,
                 ghost>>

CheckPasses(p) ==
  /\ pc[p] = "check" /\ Alive(p) /\ Obj(p).stamp.model = conf[p].model
  /\ Goto(p, IF Obj(p).full THEN "probe" ELSE "restamp")
  /\ UNCHANGED <<conf, op, handle, kept, want, todo, via, objs, name, lock, starts,
                 ghost>>

\* The object was dropped by a swap meanwhile: the next read of it raises.
HandleGone(p) ==
  /\ pc[p] \in {"check", "use"} /\ ~Alive(p)
  /\ Raise(p)

\* Mutant of Probe: an orphaned temp is never looked for.
ProbeNever(p) ==
  /\ pc[p] = "probe" /\ Goto(p, "use")
  /\ UNCHANGED <<conf, op, handle, kept, want, todo, via, objs, name, lock, starts,
                 ghost>>

\* _adopt_orphan's unlocked probe: no temp is the common path.
Probe(p) ==
  /\ pc[p] = "probe"
  /\ Goto(p, IF name["temp"] = NULL THEN "use" ELSE "adopt")
  /\ UNCHANGED <<conf, op, handle, kept, want, todo, via, objs, name, lock, starts,
                 ghost>>

MayLock(p) == lock \in {NULL, p}

\* The lock is left again only by the level that took it.
Unlock(p) == lock' = IF kept[p] THEN p ELSE NULL

\* Under the lock: the temp or the collection is gone, settled by another
\* process: loud.
AdoptRaced(p) ==
  /\ pc[p] = "adopt" /\ MayLock(p)
  /\ name["temp"] = NULL \/ ~Alive(p)
  /\ Raise(p)

\* A temp that is no richer is garbage of a copy that never finished.
AdoptPoorer(p) ==
  /\ pc[p] = "adopt" /\ MayLock(p) /\ name["temp"] # NULL /\ Alive(p)
  /\ Cardinality(Held(objs[name["temp"]])) <= Cardinality(Held(Obj(p)))
  /\ objs' = [objs EXCEPT ![name["temp"]] = NULL]
  /\ name' = [name EXCEPT !["temp"] = NULL]
  /\ Goto(p, "use")
  /\ UNCHANGED <<conf, op, handle, kept, want, todo, via, lock, starts, ghost>>

\* A strictly richer one wins the name back, in two steps.
AdoptRicher(p) ==
  /\ pc[p] = "adopt" /\ MayLock(p) /\ name["temp"] # NULL /\ Alive(p)
  /\ Cardinality(Held(objs[name["temp"]])) > Cardinality(Held(Obj(p)))
  /\ objs' = IF name["main"] = NULL THEN objs
             ELSE [objs EXCEPT ![name["main"]] = NULL]
  /\ name' = [name EXCEPT !["main"] = NULL]
  /\ kept' = [kept EXCEPT ![p] = lock = p]
  /\ lock' = p
  /\ Goto(p, "adoptRename")
  /\ UNCHANGED <<conf, op, handle, want, todo, via, starts, ghost>>

\* A rename onto a name somebody re-created meanwhile raises.
AdoptRename(p) ==
  /\ pc[p] = "adoptRename" /\ name["main"] = NULL
  /\ name' = [name EXCEPT !["main"] = name["temp"], !["temp"] = NULL]
  /\ handle' = [handle EXCEPT ![p] = name["temp"]]
  /\ via' = [via EXCEPT ![p] = "adopted"]
  /\ Unlock(p)
  /\ Goto(p, "use")
  /\ UNCHANGED <<conf, op, kept, want, todo, objs, starts, ghost>>

RenameRefused(p) ==
  /\ pc[p] \in {"adoptRename", "rename"} /\ name["main"] # NULL
  /\ Raise(p)

-----------------------------------------------------------------------------
(***************************************************************************)
(* _restamp: copy into a temp with the full stamp, then swap the names.    *)
(***************************************************************************)
\* Another process finished the re-stamp first: re-open what it left.
RestampRaced(p) ==
  /\ pc[p] = "restamp" /\ MayLock(p) /\ ~Alive(p)
  /\ IF /\ name["main"] # NULL
        /\ objs[name["main"]].full
        /\ objs[name["main"]].stamp.model = conf[p].model
       THEN /\ handle' = [handle EXCEPT ![p] = name["main"]]
            /\ via' = [via EXCEPT ![p] = "raced"]
            /\ Goto(p, "use")
            /\ UNCHANGED <<conf, op, kept, want, todo, objs, name, lock, starts,
                           ghost>>
       ELSE Raise(p)

\* A stale temp goes, a new one is born with the stamp, still empty.
RestampTemp(p) ==
  /\ pc[p] = "restamp" /\ MayLock(p) /\ Alive(p)
  /\ LET gone == IF name["temp"] = NULL THEN objs
                 ELSE [objs EXCEPT ![name["temp"]] = NULL]
         shape == IF want[p] = NULL THEN Obj(p).stamp.shape ELSE want[p]
     IN  \E i \in {j \in Ids : gone[j] = NULL /\ \A q \in Procs : handle[q] # j} :
           /\ objs' = [gone EXCEPT ![i] =
                [stamp |-> [model |-> conf[p].model, shape |-> shape],
                 full |-> TRUE, rows |-> NoRows]]
           /\ name' = [name EXCEPT !["temp"] = i]
  /\ kept' = [kept EXCEPT ![p] = lock = p]
  /\ lock' = p
  /\ Goto(p, "copy")
  /\ UNCHANGED <<conf, op, handle, want, todo, via, starts, ghost>>

\* One batch of the copy.
CopyBatch(p) ==
  /\ pc[p] = "copy"
  /\ \E f \in Held(Obj(p)) \ Held(objs[name["temp"]]) :
       objs' = [objs EXCEPT ![name["temp"]] = WithRow(@, f, Obj(p).rows[f])]
  /\ UNCHANGED <<mem, name, lock, starts, ghost>>

\* An add failed: the partial temp goes, the source is untouched.
CopyFails(p) ==
  /\ pc[p] = "copy"
  /\ objs' = [objs EXCEPT ![name["temp"]] = NULL]
  /\ name' = [name EXCEPT !["temp"] = NULL]
  /\ End(p)
  /\ torn' = (torn \/ Reembedding(p))
  /\ UNCHANGED <<starts, indexed>>

\* Mutant of SwapOut: the copy is not counted.
SwapOutUncounted(p) ==
  /\ pc[p] = "copy"
  /\ objs' = [objs EXCEPT ![handle[p]] = NULL]
  /\ name' = [name EXCEPT !["main"] = NULL]
  /\ Goto(p, "rename")
  /\ UNCHANGED <<conf, op, handle, kept, want, todo, via, lock, starts, ghost>>

\* Count-checked, then the source goes; the temp has no name of its own yet.
SwapOut(p) ==
  /\ pc[p] = "copy" /\ Held(objs[name["temp"]]) = Held(Obj(p))
  /\ objs' = [objs EXCEPT ![handle[p]] = NULL]
  /\ name' = [name EXCEPT !["main"] = NULL]
  /\ Goto(p, "rename")
  /\ UNCHANGED <<conf, op, handle, kept, want, todo, via, lock, starts, ghost>>

SwapIn(p) ==
  /\ pc[p] = "rename" /\ name["main"] = NULL
  /\ name' = [name EXCEPT !["main"] = name["temp"], !["temp"] = NULL]
  /\ torn' = (torn /\ want[p] = NULL)
  /\ IF want[p] # NULL      \* the re-embed's own re-stamp is its last step
       THEN End(p)
       ELSE /\ handle' = [handle EXCEPT ![p] = name["temp"]]
            /\ Unlock(p)
            /\ Goto(p, "use")
            /\ UNCHANGED <<conf, op, kept, want, todo, via>>
  /\ UNCHANGED <<objs, starts, indexed>>

-----------------------------------------------------------------------------
(***************************************************************************)
(* The two users of an open collection.                                    *)
(***************************************************************************)
Query(p) ==
  /\ pc[p] = "use" /\ op[p] = "query" /\ Alive(p)
  /\ End(p)
  /\ UNCHANGED <<objs, name, starts, ghost>>

RescanStart(p) ==
  /\ pc[p] = "use" /\ op[p] = "rescan" /\ Alive(p)
  /\ todo' = [todo EXCEPT ![p] = Files]
  /\ Goto(p, "embed")
  /\ UNCHANGED <<conf, op, handle, kept, want, via, objs, name, lock, starts, ghost>>

\* Mutant of Skips: only the bytes count.
SkipsBySha(p, f) == Obj(p).rows[f] # NULL

\* A file whose bytes did not change keeps its vector, unless everything is
\* re-embedded.
Skips(p, f) == ~ReembedAll(p) /\ Obj(p).rows[f] # NULL

RescanFile(p) ==
  /\ pc[p] = "embed" /\ Alive(p)
  /\ \E f \in todo[p] :
       /\ todo' = [todo EXCEPT ![p] = @ \ {f}]
       /\ objs' = IF Skips(p, f) THEN objs
                  ELSE [objs EXCEPT ![handle[p]] = WithRow(@, f, conf[p])]
       /\ indexed' = indexed \cup {f}
  /\ UNCHANGED <<conf, pc, op, handle, kept, want, via, name, lock, starts, torn>>

\* The embed backend fails: what was flushed stays.
EmbedFails(p) == pc[p] = "embed" /\ todo[p] # {} /\ Alive(p) /\ Raise(p)

RescanDone(p) ==
  /\ pc[p] = "embed" /\ Alive(p) /\ todo[p] = {}
  /\ IF ReembedAll(p)
       THEN /\ want' = [want EXCEPT ![p] = conf[p].shape]
            /\ Goto(p, "restamp")
            /\ UNCHANGED <<conf, op, handle, kept, todo, via, lock>>
       ELSE End(p)
  /\ UNCHANGED <<objs, name, starts, ghost>>

-----------------------------------------------------------------------------
\* Killed: the lock is released with the process, the store stays as it is.
\* It comes back under any config.
Kill(p) ==
  /\ starts < MaxStarts
  /\ starts' = starts + 1
  /\ pc' = [pc EXCEPT ![p] = "idle"]
  /\ lock' = IF lock = p THEN NULL ELSE lock
  /\ handle' = [handle EXCEPT ![p] = NULL]
  /\ kept' = [kept EXCEPT ![p] = FALSE]
  /\ want' = [want EXCEPT ![p] = NULL]
  /\ todo' = [todo EXCEPT ![p] = {}]
  /\ via' = [via EXCEPT ![p] = NULL]
  /\ torn' = (torn \/ Reembedding(p))
  /\ \E s \in Space : conf' = [conf EXCEPT ![p] = s]
  /\ UNCHANGED <<op, objs, name, indexed>>

\* A store that does not exist yet, or one whose metadata lacks the keys
\* later versions stamp.
Init ==
  /\ conf \in [Procs -> Space]
  /\ \/ /\ objs = [i \in Ids |-> NULL]
        /\ name = [n \in Names |-> NULL]
        /\ indexed = {}
     \/ \E legacy \in Space, first \in Ids :
          /\ objs = [i \in Ids |->
               IF i = first THEN [stamp |-> legacy, full |-> FALSE,
                                  rows |-> [f \in Files |-> legacy]]
               ELSE NULL]
          /\ name = [n \in Names |-> IF n = "main" THEN first ELSE NULL]
          /\ indexed = Files
  /\ lock = NULL
  /\ pc = [p \in Procs |-> "idle"]
  /\ op = [p \in Procs |-> "query"]
  /\ handle = [p \in Procs |-> NULL]
  /\ kept = [p \in Procs |-> FALSE]
  /\ want = [p \in Procs |-> NULL]
  /\ todo = [p \in Procs |-> {}]
  /\ via = [p \in Procs |-> NULL]
  /\ starts = 0
  /\ torn = FALSE

Step(p) ==
  \/ \E o \in {"query", "rescan"} : Begin(p, o)
  \/ Open(p) \/ CheckRefuses(p) \/ CheckPasses(p) \/ HandleGone(p) \/ Probe(p)
  \/ AdoptRaced(p) \/ AdoptPoorer(p) \/ AdoptRicher(p) \/ AdoptRename(p)
  \/ RenameRefused(p)
  \/ RestampRaced(p) \/ RestampTemp(p) \/ CopyBatch(p) \/ CopyFails(p)
  \/ SwapOut(p) \/ SwapIn(p)
  \/ Query(p) \/ RescanStart(p) \/ RescanFile(p) \/ EmbedFails(p)
  \/ RescanDone(p) \/ Kill(p)

Next == \E p \in Procs : Step(p)

Spec == Init /\ [][Next]_vars

-----------------------------------------------------------------------------
(***************************************************************************)
(* Properties.                                                             *)
(***************************************************************************)
Named(n) == name[n] # NULL
RowsOf(n) == IF Named(n) THEN Held(objs[name[n]]) ELSE {}

\* Whatever is killed or refused, wherever, every file a rescan put into the
\* collection is still in the one that has the name or in the temp that can
\* win it back.
NothingLost == indexed \subseteq RowsOf("main") \/ indexed \subseteq RowsOf("temp")

\* An open that returns a live collection returns one with every file that was indexed,
\* never the truncated one a crash in the swap window leaves.  The race branch of the
\* re-stamp may (OpensWhole), but to a query alone, and the temp still has every file.
NoTruncatedOpen ==
  \A p \in Procs : pc[p] \in {"use", "embed"} /\ Alive(p) =>
    \/ indexed \subseteq Held(Obj(p))
    \/ via[p] = "raced" /\ op[p] = "query" /\ indexed \subseteq RowsOf("temp")

Coherent(o) == \A f \in Files : o.rows[f] = o.stamp

\* A collection in use carries the model its process embeds with, or it is an adopted
\* temp, returned unchecked (UsesOwnModel): that one has every file, and all its vectors
\* are in the space it is stamped with, but while a re-embed is on its way or after one
\* was cut short.
CheckedModel ==
  \A p \in Procs : pc[p] \in {"use", "embed"} /\ Alive(p) =>
    \/ Obj(p).stamp.model = conf[p].model
    \/ /\ via[p] = "adopted" /\ Held(Obj(p)) = Files
       /\ torn \/ (\E q \in Procs : Reembedding(q)) \/ Coherent(Obj(p))

\* A rescan that got through leaves every vector in its own space, or, in a temp it
\* adopted unchecked, in the space of the temp's stamp: never two spaces side by side,
\* unless an earlier re-embed was cut short before its stamp (OneSpace).
OneSpaceUntorn ==
  \A p \in Procs : pc[p] = "embed" /\ todo[p] = {} /\ Alive(p) /\ ~torn =>
    \/ \A f \in Files : Obj(p).rows[f] = conf[p]
    \/ via[p] = "adopted" /\ Coherent(Obj(p))

-----------------------------------------------------------------------------
(***************************************************************************)
(* What the repository says and the code does not keep.                    *)
(***************************************************************************)
\* _adopt_orphan: a re-stamp that crashed mid-swap is healed, a truncated
\* index is never served.
OpensWhole ==
  \A p \in Procs : pc[p] \in {"use", "embed"} /\ Alive(p)
    => indexed \subseteq Held(Obj(p))

\* _check_model: a changed model demands a re-embed.
UsesOwnModel ==
  \A p \in Procs : pc[p] \in {"use", "embed"} /\ Alive(p)
    => Obj(p).stamp.model = conf[p].model

\* embed_mode: a rescan in the other mode re-embeds instead of silently
\* reusing vectors from the wrong space.
OneSpace ==
  \A p \in Procs : pc[p] = "embed" /\ todo[p] = {} /\ Alive(p)
    => \A f \in Files : Obj(p).rows[f].shape = conf[p].shape
=============================================================================
