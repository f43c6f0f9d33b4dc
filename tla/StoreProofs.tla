----------------------------- MODULE StoreProofs -----------------------------
(***************************************************************************)
(* What was indexed is never lost, whoever is killed where, for any number *)
(* of processes, files, models and shapes.  The write lock's holder is the *)
(* only one to drop a collection; a live collection a process holds is the *)
(* named one; and whenever the named collection misses a file, it is empty *)
(* and the temp has them all, so that "strictly richer" tells a truncated  *)
(* collection from a partial copy.  Second, that a vector is in the space  *)
(* its collection is stamped with, unless a re-embed was cut short.        *)
(***************************************************************************)
EXTENDS Store, FiniteSetTheorems, TLAPS

\* The rescan holds the write lock throughout, a swap from its first step.
Locks ==
  \A p \in Procs :
    /\ pc[p] \in {"adoptRename", "copy", "rename"} => lock = p
    /\ (op[p] = "rescan" /\ pc[p] # "idle") => lock = p
    /\ (op[p] = "rescan" /\ pc[p] \in {"adoptRename", "copy", "rename"}) => kept[p]
    /\ pc[p] = "embed" => op[p] = "rescan"

\* What the names and the processes hold on to.
Handles ==
  /\ \A n \in Names : name[n] # NULL => objs[name[n]] # NULL
  /\ name["main"] # NULL => name["main"] # name["temp"]
  /\ \A p \in Procs :
       /\ Alive(p) => handle[p] = name["main"]
       /\ pc[p] \in {"copy", "embed"} => Alive(p)
       /\ (op[p] = "rescan" /\ pc[p] \in {"check", "probe", "adopt", "restamp", "use"})
            => Alive(p)
       /\ pc[p] \in {"adoptRename", "copy", "rename"} => name["temp"] # NULL
       /\ via[p] = "raced" => (pc[p] = "use" /\ op[p] = "query")

\* A collection without rows is no loss while the temp has them all.
Rows ==
  /\ \A i \in Ids : objs[i] # NULL =>
       /\ Held(objs[i]) \subseteq indexed
       /\ ~objs[i].full => Held(objs[i]) = Files
  /\ \/ indexed \subseteq RowsOf("main")
     \/ RowsOf("main") = {} /\ indexed \subseteq RowsOf("temp")

\* What a process knows of the collection it works on.
Works ==
  \A p \in Procs :
    /\ pc[p] = "embed" => Files \ todo[p] \subseteq Held(Obj(p))
    /\ (pc[p] \in {"restamp", "copy"} /\ Alive(p)) => Held(Obj(p)) = Files
    /\ pc[p] \in {"adoptRename", "rename"} => indexed \subseteq RowsOf("temp")

\* The open is checked against the config, and so is the copy it makes.
Checked ==
  \A p \in Procs :
    /\ (pc[p] \in {"probe", "adopt", "restamp", "copy", "use", "embed"}
          /\ Alive(p) /\ via[p] # "adopted")
         => Obj(p).stamp.model = conf[p].model
    /\ pc[p] \in {"copy", "rename"} =>
         objs[name["temp"]].stamp.model = conf[p].model

\* What is in use has every indexed file, but after a race of the re-stamp.
Healed ==
  \A p \in Procs :
    pc[p] \in {"use", "embed"} /\ Alive(p) /\ via[p] # "raced"
      => indexed \subseteq Held(Obj(p))

IInv == /\ TypeOK /\ Locks /\ Handles /\ Rows /\ Works /\ Checked
        /\ Healed

USE StoreAssumption DEF Names, PCs

-----------------------------------------------------------------------------
(***************************************************************************)
(* Collections and the rows they hold.                                     *)
(***************************************************************************)
\* A row written leaves the stamp alone and adds one file to what is held.
LEMMA RowAdded ==
  ASSUME NEW o \in Objects, NEW f \in Files, NEW s \in Space
  PROVE  /\ WithRow(o, f, s) \in Objects
         /\ WithRow(o, f, s).stamp = o.stamp /\ WithRow(o, f, s).full = o.full
         /\ Held(WithRow(o, f, s)) = Held(o) \cup {f}
  BY DEF WithRow, Objects, Held

\* A collection is born empty.
LEMMA BornEmpty ==
  ASSUME NEW st \in Space
  PROVE  /\ [stamp |-> st, full |-> TRUE, rows |-> NoRows] \in Objects
         /\ Held([stamp |-> st, full |-> TRUE, rows |-> NoRows]) = {}
  BY DEF Objects, NoRows, Held

\* A collection no richer than an empty one is empty, and one within another
\* is no richer than it.
LEMMA Richer ==
  ASSUME NEW S \in SUBSET Files, NEW T \in SUBSET Files
  PROVE  /\ (Cardinality(T) <= Cardinality(S) /\ S = {}) => T = {}
         /\ T \subseteq S => ~(Cardinality(T) > Cardinality(S))
<1>1. IsFiniteSet(S) /\ IsFiniteSet(T)
  BY FS_Subset
<1>2. Cardinality(S) \in Nat /\ Cardinality(T) \in Nat
  BY <1>1, FS_CardinalityType
<1>3. S = {} => Cardinality(S) = 0
  BY FS_EmptySet
<1>4. Cardinality(T) = 0 => T = {}
  BY <1>1, FS_EmptySet
<1>5. T \subseteq S => Cardinality(T) <= Cardinality(S)
  BY <1>1, FS_Subset
<1> QED  BY <1>2, <1>3, <1>4, <1>5

-----------------------------------------------------------------------------
(***************************************************************************)
(* Each operation.                                                         *)
(***************************************************************************)

\* An operation that ends, by its own or by an exception, lets go of what it
\* held and leaves the store.
LEMMA EndKeeps ==
  ASSUME IInv, NEW p \in Procs, End(p), torn' \in BOOLEAN,
         UNCHANGED <<objs, name, starts, indexed>>
  PROVE  IInv'
<1> USE DEF IInv, End, Goto, TypeOK, Locks, Handles, Alive
<1>1. TypeOK'
  OBVIOUS
<1>2. Locks'
  OBVIOUS
<1>3. Handles'
  OBVIOUS
<1>4. Rows'
  BY DEF Rows, RowsOf, Named, Held
<1>5. Works'
  BY DEF Works, RowsOf, Named, Obj, Held
<1>6. Checked'
  BY DEF Checked, Obj
<1>7. Healed'
  BY DEF Obj, Held, Healed
<1> QED  BY <1>1, <1>2, <1>3, <1>4, <1>5, <1>6, <1>7 DEF IInv

LEMMA CheckRefusesKeeps ==
  ASSUME IInv, NEW p \in Procs, CheckRefuses(p)
  PROVE  IInv'
BY EndKeeps DEF CheckRefuses, Raise, Reembedding, IInv, TypeOK

LEMMA HandleGoneKeeps ==
  ASSUME IInv, NEW p \in Procs, HandleGone(p)
  PROVE  IInv'
BY EndKeeps DEF HandleGone, Raise, Reembedding, IInv, TypeOK

LEMMA AdoptRacedKeeps ==
  ASSUME IInv, NEW p \in Procs, AdoptRaced(p)
  PROVE  IInv'
BY EndKeeps DEF AdoptRaced, Raise, Reembedding, IInv, TypeOK

LEMMA RenameRefusedKeeps ==
  ASSUME IInv, NEW p \in Procs, RenameRefused(p)
  PROVE  IInv'
BY EndKeeps DEF RenameRefused, Raise, Reembedding, IInv, TypeOK

LEMMA EmbedFailsKeeps ==
  ASSUME IInv, NEW p \in Procs, EmbedFails(p)
  PROVE  IInv'
BY EndKeeps DEF EmbedFails, Raise, Reembedding, IInv, TypeOK

LEMMA QueryKeeps ==
  ASSUME IInv, NEW p \in Procs, Query(p)
  PROVE  IInv'
BY EndKeeps DEF Query, ghost, IInv, TypeOK

LEMMA BeginKeeps ==
  ASSUME IInv, NEW p \in Procs, NEW o \in {"query", "rescan"}, Begin(p, o)
  PROVE  IInv'
<1> USE DEF IInv, Begin, End, Goto, ghost, TypeOK, Locks, Handles, Alive
<1>1. TypeOK'
  BY DEF Objects
<1>2. Locks'
  OBVIOUS
<1>3. Handles'
  OBVIOUS
<1>4. Rows'
  BY DEF Rows, Works, RowsOf, Named, Obj, Held
<1>5. Works'
  BY DEF Rows, Works, RowsOf, Named, Obj, Held
<1>6. Checked'
  BY DEF Checked, Obj, Objects
<1>7. Healed'
  BY DEF Rows, Works, RowsOf, Named, Obj, Held, Healed
<1> QED  BY <1>1, <1>2, <1>3, <1>4, <1>5, <1>6, <1>7 DEF IInv

LEMMA OpenKeeps ==
  ASSUME IInv, NEW p \in Procs, Open(p)
  PROVE  IInv'
<1>1. TypeOK'
  <2>1. CASE name["main"] # NULL
    BY <2>1 DEF IInv, Open, Goto, ghost, TypeOK
  <2>2. CASE name["main"] = NULL
    <3>1. PICK i \in Ids : /\ objs' = [objs EXCEPT ![i] = Born(p)]
                           /\ name' = [name EXCEPT !["main"] = i]
                           /\ handle' = [handle EXCEPT ![p] = i]
      BY <2>2 DEF Open, Fresh
    <3>2. Born(p) \in Objects
      BY BornEmpty DEF IInv, TypeOK, Born
    <3> QED  BY <3>1, <3>2 DEF IInv, Open, Goto, ghost, TypeOK
  <2> QED  BY <2>1, <2>2
<1>2. Locks'
  BY DEF IInv, Open, Fresh, Born, NoRows, Goto, ghost, TypeOK, Locks
<1>3. Handles'
  <2>1. CASE name["main"] # NULL
    BY <2>1 DEF IInv, Open, Goto, ghost, TypeOK, Handles, Alive
  <2>2. CASE name["main"] = NULL
    <3>1. PICK i \in Ids : /\ objs[i] = NULL /\ \A q \in Procs : handle[q] # i
                           /\ objs' = [objs EXCEPT ![i] = Born(p)]
                           /\ name' = [name EXCEPT !["main"] = i]
                           /\ handle' = [handle EXCEPT ![p] = i]
      BY <2>2 DEF Open, Fresh
    <3>2. Born(p) # NULL
      BY BornEmpty DEF IInv, TypeOK, Born
    <3> QED  BY <2>2, <3>1, <3>2 DEF IInv, Open, Goto, ghost, TypeOK, Handles,
                                     Alive
  <2> QED  BY <2>1, <2>2
<1>4. Rows'
  BY DEF IInv, Open, Fresh, Born, NoRows, Goto, ghost, TypeOK, Locks, Handles,
         Rows, Works, RowsOf, Named, Alive, Obj, Held
<1>5. Works'
  BY DEF IInv, Open, Fresh, Born, NoRows, Goto, ghost, TypeOK, Locks, Handles,
         Rows, Works, RowsOf, Named, Alive, Obj, Held
<1>6. Checked'
  BY DEF IInv, Open, Fresh, Born, NoRows, Goto, ghost, TypeOK, Locks, Handles,
         Checked, Alive, Obj, Objects
<1>7. Healed'
  BY DEF IInv, Open, Fresh, Born, NoRows, Goto, ghost, TypeOK, Locks, Handles,
         Rows, Works, RowsOf, Named, Alive, Obj, Held, Healed
<1> QED  BY <1>1, <1>2, <1>3, <1>4, <1>5, <1>6, <1>7 DEF IInv

LEMMA CheckPassesKeeps ==
  ASSUME IInv, NEW p \in Procs, CheckPasses(p)
  PROVE  IInv'
<1> USE DEF IInv, CheckPasses, Goto, ghost, TypeOK, Locks, Handles, Alive
<1>1. TypeOK'
  BY DEF Objects
<1>2. Locks'
  OBVIOUS
<1>3. Handles'
  OBVIOUS
<1>4. Rows'
  BY DEF Rows, Works, RowsOf, Named, Obj, Held
<1>5. Works'
  BY DEF Rows, Works, RowsOf, Named, Obj, Held
<1>6. Checked'
  BY DEF Checked, Obj, Objects
<1>7. Healed'
  BY DEF Rows, Works, RowsOf, Named, Obj, Held, Healed
<1> QED  BY <1>1, <1>2, <1>3, <1>4, <1>5, <1>6, <1>7 DEF IInv

LEMMA ProbeKeeps ==
  ASSUME IInv, NEW p \in Procs, Probe(p)
  PROVE  IInv'
<1> USE DEF IInv, Probe, Goto, ghost, TypeOK, Locks, Handles, Alive
<1>1. TypeOK'
  BY DEF Objects
<1>2. Locks'
  OBVIOUS
<1>3. Handles'
  OBVIOUS
<1>4. Rows'
  BY DEF Rows, Works, RowsOf, Named, Obj, Held
<1>5. Works'
  BY DEF Rows, Works, RowsOf, Named, Obj, Held
<1>6. Checked'
  BY DEF Checked, Obj, Objects
<1>7. Healed'
  BY DEF Rows, Works, RowsOf, Named, Obj, Held, Healed
<1> QED  BY <1>1, <1>2, <1>3, <1>4, <1>5, <1>6, <1>7 DEF IInv

LEMMA AdoptPoorerKeeps ==
  ASSUME IInv, NEW p \in Procs, AdoptPoorer(p)
  PROVE  IInv'
<1>a. RowsOf("temp") = {} \/ indexed \subseteq RowsOf("main")
  <2>1. /\ objs[name["main"]] \in Objects /\ objs[name["temp"]] \in Objects
        /\ Obj(p) = objs[name["main"]] /\ name["main"] # NULL
    BY DEF IInv, AdoptPoorer, TypeOK, Handles, Alive, Obj
  <2>2. /\ RowsOf("main") = Held(Obj(p)) /\ RowsOf("main") \in SUBSET Files
        /\ RowsOf("temp") = Held(objs[name["temp"]]) /\ RowsOf("temp") \in SUBSET Files
    BY <2>1 DEF AdoptPoorer, RowsOf, Named, Held
  <2>3. RowsOf("main") = {} => RowsOf("temp") = {}
    BY <2>2, Richer DEF AdoptPoorer
  <2> QED  BY <2>3 DEF IInv, Rows
<1>1. TypeOK'
  BY DEF IInv, AdoptPoorer, MayLock, Goto, ghost, TypeOK, Objects
<1>2. Locks'
  BY DEF IInv, AdoptPoorer, MayLock, Goto, ghost, TypeOK, Locks
<1>3. Handles'
  BY DEF IInv, AdoptPoorer, MayLock, Goto, ghost, TypeOK, Locks, Handles, Alive
<1>4. Rows'
  BY <1>a DEF IInv, AdoptPoorer, MayLock, Goto, ghost, TypeOK, Handles, Rows,
              RowsOf, Named, Held
<1>5. Works'
  BY DEF IInv, AdoptPoorer, MayLock, Goto, ghost, TypeOK, Locks, Handles, Rows,
         Works, RowsOf, Named, Alive, Obj, Held
<1>6. Checked'
  BY DEF IInv, AdoptPoorer, MayLock, Goto, ghost, TypeOK, Locks, Handles,
         Checked, Alive, Obj, Objects
<1>7. Healed'
  BY <1>a DEF IInv, AdoptPoorer, Goto, ghost, TypeOK, Handles, Rows, RowsOf,
              Named, Alive, Obj, Held, Healed
<1> QED  BY <1>1, <1>2, <1>3, <1>4, <1>5, <1>6, <1>7 DEF IInv

LEMMA AdoptRicherKeeps ==
  ASSUME IInv, NEW p \in Procs, AdoptRicher(p)
  PROVE  IInv'
<1>a. indexed \subseteq RowsOf("temp")
  <2>1. /\ objs[name["main"]] \in Objects /\ objs[name["temp"]] \in Objects
        /\ Obj(p) = objs[name["main"]] /\ name["main"] # NULL
    BY DEF IInv, AdoptRicher, TypeOK, Handles, Alive, Obj
  <2>2. /\ RowsOf("main") = Held(Obj(p)) /\ RowsOf("main") \in SUBSET Files
        /\ RowsOf("temp") = Held(objs[name["temp"]]) /\ RowsOf("temp") \in SUBSET Files
    BY <2>1 DEF AdoptRicher, RowsOf, Named, Held
  <2>3. ~(RowsOf("temp") \subseteq RowsOf("main"))
    BY <2>2, Richer DEF AdoptRicher
  <2>4. RowsOf("temp") \subseteq indexed
    BY <2>1, <2>2 DEF IInv, Rows, TypeOK, AdoptRicher
  <2> QED  BY <2>3, <2>4 DEF IInv, Rows
<1>1. TypeOK'
  BY DEF IInv, AdoptRicher, MayLock, Goto, ghost, TypeOK, Objects
<1>2. Locks'
  BY DEF IInv, AdoptRicher, MayLock, Goto, ghost, TypeOK, Locks
<1>3. Handles'
  BY DEF IInv, AdoptRicher, MayLock, Goto, ghost, TypeOK, Locks, Handles, Alive
<1>4. Rows'
  BY <1>a DEF IInv, AdoptRicher, MayLock, Goto, ghost, TypeOK, Handles, Rows,
              RowsOf, Named, Held, Alive
<1>5. Works'
  BY <1>a DEF IInv, AdoptRicher, MayLock, Goto, ghost, TypeOK, Locks, Handles,
              Works, RowsOf, Named, Held, Alive, Obj
<1>6. Checked'
  BY DEF IInv, AdoptRicher, MayLock, Goto, ghost, TypeOK, Locks, Handles,
         Checked, Alive, Obj, Objects
<1>7. Healed'
  BY DEF IInv, AdoptRicher, MayLock, Goto, ghost, TypeOK, Locks, Handles, Rows,
         Works, RowsOf, Named, Alive, Obj, Held, Healed
<1> QED  BY <1>1, <1>2, <1>3, <1>4, <1>5, <1>6, <1>7 DEF IInv

LEMMA AdoptRenameKeeps ==
  ASSUME IInv, NEW p \in Procs, AdoptRename(p)
  PROVE  IInv'
<1> USE DEF IInv, AdoptRename, Unlock, Goto, ghost, TypeOK, Locks, Handles,
            Alive
<1>1. TypeOK'
  BY DEF Objects
<1>2. Locks'
  OBVIOUS
<1>3. Handles'
  OBVIOUS
<1>4. Rows'
  BY DEF Rows, Works, RowsOf, Named, Obj, Held
<1>5. Works'
  BY DEF Rows, Works, RowsOf, Named, Obj, Held
<1>6. Checked'
  BY DEF Checked, Obj, Objects
<1>7. Healed'
  BY DEF Rows, Works, RowsOf, Named, Obj, Held, Healed
<1> QED  BY <1>1, <1>2, <1>3, <1>4, <1>5, <1>6, <1>7 DEF IInv

LEMMA RestampRacedKeeps ==
  ASSUME IInv, NEW p \in Procs, RestampRaced(p)
  PROVE  IInv'
<1>1. TypeOK'
  BY DEF IInv, RestampRaced, MayLock, Raise, End, Goto, ghost, TypeOK, Objects
<1>2. Locks'
  BY DEF IInv, RestampRaced, MayLock, Raise, End, Goto, ghost, TypeOK, Locks
<1>3. Handles'
  BY DEF IInv, RestampRaced, MayLock, Raise, End, Goto, ghost, TypeOK, Locks,
         Handles, Alive
<1>4. Rows'
  BY DEF IInv, RestampRaced, MayLock, Raise, End, Goto, ghost, TypeOK, Locks,
         Handles, Rows, Works, RowsOf, Named, Alive, Obj, Held
<1>5. Works'
  BY DEF IInv, RestampRaced, MayLock, Raise, End, Goto, ghost, TypeOK, Locks,
         Handles, Rows, Works, RowsOf, Named, Alive, Obj, Held
<1>6. Checked'
  BY DEF IInv, RestampRaced, MayLock, Raise, End, Goto, ghost, TypeOK, Locks,
         Handles, Checked, Alive, Obj, Objects
<1>7. Healed'
  BY DEF IInv, RestampRaced, MayLock, Raise, End, Goto, ghost, TypeOK, Locks,
         Handles, Rows, Works, RowsOf, Named, Alive, Obj, Held, Healed
<1> QED  BY <1>1, <1>2, <1>3, <1>4, <1>5, <1>6, <1>7 DEF IInv

\* What the new temp is: the process's model, the shape that is kept or wanted.
LEMMA TempBorn ==
  ASSUME IInv, NEW p \in Procs, RestampTemp(p)
  PROVE  \E i \in Ids, st \in Space :
           /\ objs' = [(IF name["temp"] = NULL THEN objs
                        ELSE [objs EXCEPT ![name["temp"]] = NULL])
                       EXCEPT ![i] = [stamp |-> st, full |-> TRUE, rows |-> NoRows]]
           /\ st.model = conf[p].model
           /\ st.shape = IF want[p] = NULL THEN Obj(p).stamp.shape ELSE want[p]
           /\ objs[i] = NULL \/ i = name["temp"]
           /\ \A q \in Procs : handle[q] # i
           /\ name' = [name EXCEPT !["temp"] = i]
<1> DEFINE gone == IF name["temp"] = NULL THEN objs
                   ELSE [objs EXCEPT ![name["temp"]] = NULL]
           st == [model |-> conf[p].model,
                  shape |-> IF want[p] = NULL THEN Obj(p).stamp.shape ELSE want[p]]
<1>1. st \in Space /\ st.model = conf[p].model
  BY DEF IInv, RestampTemp, TypeOK, Alive, Obj, Objects, Space
<1>2. PICK i \in Ids :
        /\ gone[i] = NULL /\ \A q \in Procs : handle[q] # i
        /\ objs' = [gone EXCEPT ![i] = [stamp |-> st, full |-> TRUE, rows |-> NoRows]]
        /\ name' = [name EXCEPT !["temp"] = i]
  BY DEF RestampTemp
<1>3. objs[i] = NULL \/ i = name["temp"]
  BY <1>2 DEF IInv, TypeOK
<1>4. st.shape = IF want[p] = NULL THEN Obj(p).stamp.shape ELSE want[p]
  OBVIOUS
<1> HIDE DEF st
<1> QED  BY <1>1, <1>2, <1>3, <1>4

LEMMA RestampTempKeeps ==
  ASSUME IInv, NEW p \in Procs, RestampTemp(p)
  PROVE  IInv'
<1>a. PICK i \in Ids, st \in Space :
        /\ objs' = [(IF name["temp"] = NULL THEN objs
                     ELSE [objs EXCEPT ![name["temp"]] = NULL])
                    EXCEPT ![i] = [stamp |-> st, full |-> TRUE, rows |-> NoRows]]
        /\ st.model = conf[p].model
        /\ objs[i] = NULL \/ i = name["temp"]
        /\ \A q \in Procs : handle[q] # i
        /\ name' = [name EXCEPT !["temp"] = i]
  BY TempBorn
<1> DEFINE new == [stamp |-> st, full |-> TRUE, rows |-> NoRows]
<1>b. new \in Objects /\ Held(new) = {} /\ new.stamp = st /\ new.full /\ new # NULL
  BY BornEmpty
<1>c. /\ objs' \in [Ids -> Objects \cup {NULL}]
      /\ objs'[i] = new
      /\ \A j \in Ids \ {i} : objs'[j] = IF j = name["temp"] THEN NULL ELSE objs[j]
      /\ name'["temp"] = i /\ name'["main"] = name["main"]
      /\ name' \in [Names -> Ids \cup {NULL}]
  BY <1>a, <1>b DEF IInv, TypeOK
<1>d. /\ lock' = p /\ kept' = [kept EXCEPT ![p] = (lock = p)]
      /\ pc' = [pc EXCEPT ![p] = "copy"]
      /\ UNCHANGED <<conf, op, handle, want, todo, via, starts, indexed, torn>>
      /\ pc[p] = "restamp" /\ lock \in {NULL, p} /\ Alive(p)
  BY DEF RestampTemp, Goto, MayLock, ghost
<1>e. /\ pc'[p] = "copy" /\ (lock = p => kept'[p])
      /\ \A q \in Procs \ {p} : pc'[q] = pc[q] /\ kept'[q] = kept[q]
  BY <1>d DEF IInv, TypeOK
<1>f. /\ name["main"] = handle[p] /\ name["main"] \in Ids /\ objs[name["main"]] # NULL
      /\ name["main"] # name["temp"] /\ name["main"] # i
      /\ objs'[name["main"]] = objs[name["main"]]
      /\ Held(objs[name["main"]]) = Files
  BY <1>a, <1>d DEF IInv, TypeOK, Handles, Works, Alive, Obj
<1>g. \A q \in Procs : (Alive(q)' <=> Alive(q)) /\ (Alive(q) => Obj(q)' = Obj(q))
  BY <1>a, <1>c, <1>d, <1>f DEF IInv, TypeOK, Handles, Alive, Obj
<1> HIDE DEF new
<1>1. TypeOK'
  BY <1>a, <1>b, <1>c, <1>d DEF IInv, TypeOK
<1>2. Locks'
  BY <1>d, <1>e DEF IInv, TypeOK, Locks
<1>3. Handles'
  <2>1. \A n \in Names : name'[n] # NULL => objs'[name'[n]] # NULL
    BY <1>b, <1>c, <1>f
  <2>2. name'["main"] # NULL => name'["main"] # name'["temp"]
    BY <1>c, <1>f
  <2>3. name'["temp"] # NULL
    BY <1>c, <1>a
  <2>4. \A q \in Procs : pc'[q] \in {"copy", "embed"} => Alive(q)'
    BY <1>d, <1>e, <1>g DEF IInv, Handles
  <2> QED  BY <1>c, <1>d, <1>e, <1>g, <2>1, <2>2, <2>3, <2>4 DEF IInv, Handles
<1>4. Rows'
  <2>1. \A j \in Ids : objs'[j] # NULL => j = i \/ objs'[j] = objs[j]
    BY <1>c
  <2>2. /\ Held(new) \subseteq indexed /\ (~new.full => Held(new) = Files)
    BY <1>b
  <2>3. RowsOf("main")' = Files
    BY <1>c, <1>f DEF RowsOf, Named, Held, IInv, TypeOK
  <2> QED  BY <1>c, <1>d, <2>1, <2>2, <2>3 DEF IInv, Rows, TypeOK
<1>5. Works'
  BY <1>a, <1>b, <1>c, <1>d DEF IInv, TypeOK, Locks, Handles, Rows, Works,
                                RowsOf, Named, Alive, Obj
<1>6. Checked'
  BY <1>a, <1>b, <1>c, <1>d DEF IInv, TypeOK, Locks, Handles, Checked, Alive,
                                Obj
<1>7. Healed'
  BY <1>a, <1>b, <1>c, <1>d DEF IInv, TypeOK, Locks, Handles, Rows, Works,
                                RowsOf, Named, Alive, Obj, Healed
<1> QED  BY <1>1, <1>2, <1>3, <1>4, <1>5, <1>6, <1>7 DEF IInv

LEMMA CopyBatchKeeps ==
  ASSUME IInv, NEW p \in Procs, CopyBatch(p)
  PROVE  IInv'
<1> DEFINE t == name["temp"]
<1>a. PICK f \in Held(Obj(p)) \ Held(objs[t]) :
        objs' = [objs EXCEPT ![t] = WithRow(objs[t], f, Obj(p).rows[f])]
  BY DEF CopyBatch
<1>b. /\ t \in Ids /\ objs[t] \in Objects /\ Alive(p) /\ t # handle[p]
      /\ handle[p] = name["main"] /\ Obj(p) \in Objects
  BY DEF IInv, CopyBatch, TypeOK, Handles, Alive, Obj
<1>c. f \in Files /\ Obj(p).rows[f] \in Space
  BY <1>b DEF Held, Objects
<1> DEFINE new == WithRow(objs[t], f, Obj(p).rows[f])
<1>d. /\ new \in Objects /\ new # NULL /\ new.stamp = objs[t].stamp
      /\ new.full = objs[t].full /\ Held(new) = Held(objs[t]) \cup {f}
  BY <1>b, <1>c, RowAdded
<1>e. /\ objs' \in [Ids -> Objects \cup {NULL}]
      /\ objs'[t] = new
      /\ \A j \in Ids \ {t} : objs'[j] = objs[j]
  BY <1>a, <1>b, <1>d DEF IInv, TypeOK
<1>f. /\ UNCHANGED <<conf, pc, op, handle, kept, want, todo, via, name, lock, starts,
                     indexed, torn>>
      /\ pc[p] = "copy"
  BY DEF CopyBatch, mem, ghost
<1> HIDE DEF new
<1>1. TypeOK'
  BY <1>b, <1>c, <1>d, <1>e, <1>f DEF IInv, TypeOK
<1>2. Locks'
  BY <1>b, <1>c, <1>d, <1>e, <1>f DEF IInv, TypeOK, Locks
<1>3. Handles'
  BY <1>b, <1>c, <1>d, <1>e, <1>f DEF IInv, TypeOK, Locks, Handles, Alive
<1>4. Rows'
  BY <1>b, <1>c, <1>d, <1>e, <1>f DEF IInv, TypeOK, Locks, Handles, Rows,
                                      Works, RowsOf, Named, Alive, Obj
<1>5. Works'
  BY <1>b, <1>c, <1>d, <1>e, <1>f DEF IInv, TypeOK, Locks, Handles, Rows,
                                      Works, RowsOf, Named, Alive, Obj
<1>6. Checked'
  BY <1>b, <1>c, <1>d, <1>e, <1>f DEF IInv, TypeOK, Locks, Handles, Checked,
                                      Alive, Obj
<1>7. Healed'
  BY <1>b, <1>c, <1>d, <1>e, <1>f DEF IInv, TypeOK, Locks, Handles, Rows,
                                      Works, RowsOf, Named, Alive, Obj,
                                      Healed
<1> QED  BY <1>1, <1>2, <1>3, <1>4, <1>5, <1>6, <1>7 DEF IInv

LEMMA CopyFailsKeeps ==
  ASSUME IInv, NEW p \in Procs, CopyFails(p)
  PROVE  IInv'
<1> USE DEF IInv, CopyFails, End, Goto, ghost, TypeOK, Locks, Handles, Alive
<1>1. TypeOK'
  BY DEF Objects
<1>2. Locks'
  OBVIOUS
<1>3. Handles'
  OBVIOUS
<1>4. Rows'
  BY DEF Rows, Works, RowsOf, Named, Obj, Held
<1>5. Works'
  BY DEF Rows, Works, RowsOf, Named, Obj, Held
<1>6. Checked'
  BY DEF Checked, Obj, Objects
<1>7. Healed'
  BY DEF Rows, Works, RowsOf, Named, Obj, Held, Healed
<1> QED  BY <1>1, <1>2, <1>3, <1>4, <1>5, <1>6, <1>7 DEF IInv

LEMMA SwapOutKeeps ==
  ASSUME IInv, NEW p \in Procs, SwapOut(p)
  PROVE  IInv'
<1> USE DEF IInv, SwapOut, Goto, ghost, TypeOK, Locks, Handles, Alive
<1>1. TypeOK'
  BY DEF Objects
<1>2. Locks'
  OBVIOUS
<1>3. Handles'
  OBVIOUS
<1>4. Rows'
  BY DEF Rows, Works, RowsOf, Named, Obj, Held
<1>5. Works'
  BY DEF Rows, Works, RowsOf, Named, Obj, Held
<1>6. Checked'
  BY DEF Checked, Obj, Objects
<1>7. Healed'
  BY DEF Rows, Works, RowsOf, Named, Obj, Held, Healed
<1> QED  BY <1>1, <1>2, <1>3, <1>4, <1>5, <1>6, <1>7 DEF IInv

LEMMA SwapInKeeps ==
  ASSUME IInv, NEW p \in Procs, SwapIn(p)
  PROVE  IInv'
<1> USE DEF IInv, SwapIn, End, Unlock, Goto, ghost, TypeOK, Locks, Handles,
            Alive
<1>1. TypeOK'
  BY DEF Objects
<1>2. Locks'
  OBVIOUS
<1>3. Handles'
  OBVIOUS
<1>4. Rows'
  BY DEF Rows, Works, RowsOf, Named, Obj, Held
<1>5. Works'
  BY DEF Rows, Works, RowsOf, Named, Obj, Held
<1>6. Checked'
  BY DEF Checked, Obj, Objects
<1>7. Healed'
  BY DEF Rows, Works, RowsOf, Named, Obj, Held, Healed
<1> QED  BY <1>1, <1>2, <1>3, <1>4, <1>5, <1>6, <1>7 DEF IInv

LEMMA RescanStartKeeps ==
  ASSUME IInv, NEW p \in Procs, RescanStart(p)
  PROVE  IInv'
<1> USE DEF IInv, RescanStart, Goto, ghost, TypeOK, Locks, Handles, Alive
<1>1. TypeOK'
  BY DEF Objects
<1>2. Locks'
  OBVIOUS
<1>3. Handles'
  OBVIOUS
<1>4. Rows'
  BY DEF Rows, Works, RowsOf, Named, Obj, Held
<1>5. Works'
  BY DEF Rows, Works, RowsOf, Named, Obj, Held
<1>6. Checked'
  BY DEF Checked, Obj, Objects
<1>7. Healed'
  BY DEF Rows, Works, RowsOf, Named, Obj, Held, Healed
<1> QED  BY <1>1, <1>2, <1>3, <1>4, <1>5, <1>6, <1>7 DEF IInv

LEMMA RescanFileKeeps ==
  ASSUME IInv, NEW p \in Procs, RescanFile(p)
  PROVE  IInv'
<1> DEFINE m == handle[p]
<1>a. PICK f \in todo[p] :
        /\ todo' = [todo EXCEPT ![p] = @ \ {f}]
        /\ objs' = IF Skips(p, f) THEN objs
                   ELSE [objs EXCEPT ![m] = WithRow(objs[m], f, conf[p])]
        /\ indexed' = indexed \cup {f}
  BY DEF RescanFile
<1>b. /\ m \in Ids /\ objs[m] \in Objects /\ m = name["main"] /\ f \in Files
      /\ conf[p] \in Space /\ m # name["temp"]
  BY DEF IInv, RescanFile, TypeOK, Handles, Alive
<1> DEFINE new == IF Skips(p, f) THEN objs[m] ELSE WithRow(objs[m], f, conf[p])
<1>c. /\ new \in Objects /\ new # NULL /\ new.stamp = objs[m].stamp
      /\ new.full = objs[m].full /\ Held(new) = Held(objs[m]) \cup {f}
  <2>1. CASE Skips(p, f)
    BY <1>b, <2>1 DEF Skips, Held, Obj
  <2>2. CASE ~Skips(p, f)
    BY <1>b, <2>2, RowAdded
  <2> QED  BY <2>1, <2>2
<1>d. /\ objs' \in [Ids -> Objects \cup {NULL}]
      /\ objs'[m] = new
      /\ \A j \in Ids \ {m} : objs'[j] = objs[j]
  BY <1>a, <1>b, <1>c DEF IInv, TypeOK
<1>e. /\ UNCHANGED <<conf, pc, op, handle, kept, want, via, name, lock, starts, torn>>
      /\ pc[p] = "embed" /\ Alive(p) /\ op[p] = "rescan" /\ lock = p
      /\ via[p] # "raced" /\ Held(objs[m]) \subseteq indexed
      /\ indexed \subseteq Held(objs[m])
  BY <1>b DEF RescanFile, IInv, Locks, Handles, Rows, Healed, Obj
<1> HIDE DEF new
<1>1. TypeOK'
  BY <1>a, <1>b, <1>c, <1>d, <1>e DEF IInv, TypeOK
<1>2. Locks'
  BY <1>a, <1>b, <1>c, <1>d, <1>e DEF IInv, TypeOK, Locks
<1>3. Handles'
  BY <1>a, <1>b, <1>c, <1>d, <1>e DEF IInv, TypeOK, Locks, Handles, Alive
<1>4. Rows'
  <2>1. RowsOf("main")' = Held(new)
    BY <1>b, <1>c, <1>d, <1>e DEF RowsOf, Named, Held, IInv, TypeOK
  <2>2. \A j \in Ids : objs'[j] # NULL =>
          Held(objs'[j]) \subseteq indexed' /\ (~objs'[j].full => Held(objs'[j]) = Files)
    <3> SUFFICES ASSUME NEW j \in Ids, objs'[j] # NULL
                 PROVE  /\ Held(objs'[j]) \subseteq indexed'
                        /\ ~objs'[j].full => Held(objs'[j]) = Files
      OBVIOUS
    <3>0. ~objs[m].full => Held(objs[m]) = Files
      BY <1>b, <1>e DEF IInv, Rows, Alive
    <3>1. CASE j = m
      BY <1>a, <1>b, <1>c, <1>d, <1>e, <3>0, <3>1
    <3>2. CASE j # m
      BY <1>a, <1>d, <3>2 DEF IInv, Rows
    <3> QED  BY <3>1, <3>2
  <2>3. indexed' \subseteq RowsOf("main")'
    BY <1>a, <1>c, <1>e, <2>1
  <2> QED  BY <2>2, <2>3 DEF Rows
<1>5. Works'
  <2>1. \A q \in Procs : pc[q] \notin {"adoptRename", "rename"}
    BY <1>e DEF IInv, Locks
  <2>2. \A q \in Procs : Alive(q)' <=> Alive(q)
    BY <1>b, <1>c, <1>d, <1>e DEF IInv, TypeOK, Alive
  <2>3. \A q \in Procs : Alive(q) => handle[q] = m /\ Obj(q) = objs[m] /\ Obj(q)' = new
    BY <1>b, <1>d, <1>e DEF IInv, Handles, Obj
  <2>4. \A q \in Procs : pc[q] = "embed" => Files \ todo'[q] \subseteq Held(Obj(q)')
    <3> SUFFICES ASSUME NEW q \in Procs, pc[q] = "embed"
                 PROVE  Files \ todo'[q] \subseteq Held(Obj(q)')
      OBVIOUS
    <3>1. q = p
      BY <1>e DEF IInv, Locks
    <3>2. todo'[p] = todo[p] \ {f} /\ Files \ todo[p] \subseteq Held(objs[m])
      BY <1>a, <1>e, <2>3 DEF IInv, TypeOK, Works
    <3> QED  BY <1>c, <1>e, <2>3, <3>1, <3>2
  <2>5. \A q \in Procs : (pc[q] \in {"restamp", "copy"} /\ Alive(q)) => Held(Obj(q)') = Files
    BY <1>b, <1>c, <2>3 DEF IInv, Works
  <2>6. \A q \in Procs : Held(Obj(q)') = Held(Obj(q))'
    BY DEF Held
  <2> QED  BY <1>e, <2>1, <2>2, <2>4, <2>5, <2>6 DEF Works
<1>6. Checked'
  BY <1>a, <1>b, <1>c, <1>d, <1>e DEF IInv, TypeOK, Locks, Handles, Checked,
                                      Alive, Obj
<1>7. Healed'
  BY <1>a, <1>b, <1>c, <1>d, <1>e DEF IInv, TypeOK, Locks, Handles, Rows,
                                      Works, RowsOf, Named, Alive, Obj,
                                      Healed
<1> QED  BY <1>1, <1>2, <1>3, <1>4, <1>5, <1>6, <1>7 DEF IInv

LEMMA RescanDoneKeeps ==
  ASSUME IInv, NEW p \in Procs, RescanDone(p)
  PROVE  IInv'
<1>1. TypeOK'
  <2>1. conf[p].shape \in Shapes
    BY DEF IInv, TypeOK, Space
  <2> QED  BY <2>1 DEF IInv, RescanDone, End, Goto, ghost, TypeOK
<1>2. Locks'
  BY DEF IInv, RescanDone, End, Goto, ghost, TypeOK, Locks
<1>3. Handles'
  BY DEF IInv, RescanDone, End, Goto, ghost, TypeOK, Locks, Handles, Alive
<1>4. Rows'
  BY DEF IInv, RescanDone, End, Goto, ghost, TypeOK, Locks, Handles, Rows,
         Works, RowsOf, Named, Alive, Obj, Held
<1>5. Works'
  BY DEF IInv, RescanDone, End, Goto, ghost, TypeOK, Locks, Handles, Rows,
         Works, RowsOf, Named, Alive, Obj, Held
<1>6. Checked'
  BY DEF IInv, RescanDone, End, Goto, ghost, TypeOK, Locks, Handles, Checked,
         Alive, Obj, Objects
<1>7. Healed'
  BY DEF IInv, RescanDone, End, Goto, ghost, TypeOK, Locks, Handles, Rows,
         Works, RowsOf, Named, Alive, Obj, Held, Healed
<1> QED  BY <1>1, <1>2, <1>3, <1>4, <1>5, <1>6, <1>7 DEF IInv

LEMMA KillKeeps ==
  ASSUME IInv, NEW p \in Procs, Kill(p)
  PROVE  IInv'
<1> USE DEF IInv, Kill, Goto, ghost, TypeOK, Locks, Handles, Alive
<1>1. TypeOK'
  BY DEF Objects
<1>2. Locks'
  OBVIOUS
<1>3. Handles'
  OBVIOUS
<1>4. Rows'
  BY DEF Rows, Works, RowsOf, Named, Obj, Held
<1>5. Works'
  BY DEF Rows, Works, RowsOf, Named, Obj, Held
<1>6. Checked'
  BY DEF Checked, Obj, Objects
<1>7. Healed'
  BY DEF Rows, Works, RowsOf, Named, Obj, Held, Healed
<1> QED  BY <1>1, <1>2, <1>3, <1>4, <1>5, <1>6, <1>7 DEF IInv

-----------------------------------------------------------------------------
(***************************************************************************)
(* The store as a whole.                                                   *)
(***************************************************************************)
LEMMA Start == Init => IInv
<1> SUFFICES ASSUME Init PROVE IInv
  OBVIOUS
<1>0. /\ objs \in [Ids -> Objects \cup {NULL}] /\ name \in [Names -> Ids \cup {NULL}]
      /\ name["temp"] = NULL
      /\ name["main"] # NULL => objs[name["main"]] # NULL
  <2>1. ASSUME NEW legacy \in Space
        PROVE  [stamp |-> legacy, full |-> FALSE, rows |-> [f \in Files |-> legacy]] \in Objects
    BY DEF Objects
  <2> QED  BY <2>1 DEF Init
<1>1. TypeOK
  BY <1>0 DEF Init, TypeOK
<1>2. Locks /\ Checked /\ Healed
  BY DEF Init, Locks, Checked, Healed, Alive
<1>3. Handles
  BY <1>0 DEF Init, Handles, Alive
<1>4. Rows
  BY DEF Init, Rows, RowsOf, Named, Held
<1>5. Works
  BY DEF Init, Works, Alive
<1> QED  BY <1>1, <1>2, <1>3, <1>4, <1>5 DEF IInv

\* A step that changes nothing keeps the invariant.
LEMMA StutterKeeps == IInv /\ UNCHANGED vars => IInv'
BY DEF IInv, vars, mem, ghost, TypeOK, Locks, Handles, Rows, Works, Checked,
       Healed, Alive, Obj, RowsOf, Named, Held

LEMMA StepKeeps == ASSUME IInv, Next PROVE IInv'
<1>1. PICK p \in Procs : Step(p)
  BY DEF Next
<1> QED
  BY <1>1, BeginKeeps, OpenKeeps, CheckRefusesKeeps, CheckPassesKeeps,
     HandleGoneKeeps, ProbeKeeps, AdoptRacedKeeps, AdoptPoorerKeeps,
     AdoptRicherKeeps, AdoptRenameKeeps, RenameRefusedKeeps, RestampRacedKeeps,
     RestampTempKeeps, CopyBatchKeeps, CopyFailsKeeps, SwapOutKeeps,
     SwapInKeeps, QueryKeeps, RescanStartKeeps, RescanFileKeeps,
     EmbedFailsKeeps, RescanDoneKeeps, KillKeeps DEF Step

\* The invariant above holds in every state.
LEMMA Inductive == Spec => []IInv
<1>1. IInv /\ [Next]_vars => IInv'
  BY StepKeeps, StutterKeeps
<1> QED  BY Start, <1>1, PTL DEF Spec

\* Every variable keeps its type.
THEOREM StoreTyped == Spec => []TypeOK
<1>1. IInv => TypeOK
  BY DEF IInv
<1> QED  BY Inductive, <1>1, PTL

\* NothingLost: whoever is killed or refused wherever, every file a rescan put
\* into the collection is in the one that has the name or in the temp.
THEOREM IndexedIsKept == Spec => []NothingLost
<1>1. IInv => NothingLost
  BY DEF IInv, Rows, NothingLost
<1> QED  BY Inductive, <1>1, PTL

\* NoTruncatedOpen: an open never returns the truncated collection that a kill in the
\* swap window leaves, but to a query that lost a race of the re-stamp; the rows are then
\* in the temp.
THEOREM OpenIsHealed == Spec => []NoTruncatedOpen
<1>1. IInv => NoTruncatedOpen
  <2> SUFFICES ASSUME IInv, NEW p \in Procs, pc[p] \in {"use", "embed"}, Alive(p)
               PROVE  \/ indexed \subseteq Held(Obj(p))
                      \/ /\ via[p] = "raced" /\ op[p] = "query"
                         /\ indexed \subseteq RowsOf("temp")
    BY DEF NoTruncatedOpen
  <2>1. CASE via[p] # "raced"
    BY <2>1 DEF IInv, Healed
  <2>2. CASE via[p] = "raced"
    <3>1. op[p] = "query" /\ handle[p] = name["main"] /\ name["main"] # NULL
      BY <2>2 DEF IInv, Handles, Alive
    <3>2. RowsOf("main") = Held(Obj(p))
      BY <3>1 DEF RowsOf, Named, Obj
    <3> QED  BY <2>2, <3>1, <3>2 DEF IInv, Rows
  <2> QED  BY <2>1, <2>2
<1> QED  BY Inductive, <1>1, PTL

-----------------------------------------------------------------------------
(***************************************************************************)
(* The space of the vectors.  A collection's rows are in the space of its  *)
(* stamp, but while a rescan re-embeds them; what that rescan has reached  *)
(* is in its own space, also after an earlier one was cut short, so that   *)
(* the stamp it writes last is true of every row.  An adopted temp has     *)
(* every file, so nothing is embedded under a stamp no open has checked.   *)
(***************************************************************************)
\* Every vector is in the space the collection is stamped with.
Pure(o) == \A f \in Held(o) : o.rows[f] = o.stamp

Untorn ==
  ~torn => /\ Named("temp") => Pure(objs[name["temp"]])
           /\ (Named("main") /\ \A p \in Procs : ~Reembedding(p))
                => Pure(objs[name["main"]])

\* What a re-embed has reached, up to the copy that carries its stamp.
Reembeds ==
  \A p \in Procs :
    /\ want[p] # NULL => /\ op[p] = "rescan" /\ pc[p] \in {"restamp", "copy", "rename"}
                         /\ want[p] = conf[p].shape
    /\ (pc[p] = "embed" /\ ReembedAll(p)) =>
         \A f \in Files \ todo[p] : Obj(p).rows[f] = conf[p]
    /\ (pc[p] \in {"restamp", "copy"} /\ want[p] # NULL) =>
         ReembedAll(p) /\ \A f \in Files : Obj(p).rows[f] = conf[p]
    /\ (pc[p] \in {"copy", "rename"} /\ want[p] # NULL) =>
         LET t == objs[name["temp"]]
         IN  t.stamp = conf[p] /\ \A f \in Held(t) : t.rows[f] = conf[p]
    /\ (pc[p] = "copy" /\ want[p] = NULL) => objs[name["temp"]].stamp = Obj(p).stamp

\* A temp with rows copies a collection that had every file.
Whole ==
  /\ RowsOf("temp") # {} => indexed = Files
  /\ \A p \in Procs :
       /\ pc[p] = "check" => via[p] = "opened"
       /\ (pc[p] \in {"restamp", "copy"} /\ want[p] = NULL) => via[p] = "opened"
       /\ pc[p] \in {"adoptRename", "rename"} => RowsOf("temp") = Files
       /\ (via[p] = "adopted" /\ Alive(p)) => Held(Obj(p)) = Files

Spaces == Untorn /\ Reembeds /\ Whole

LEMMA EndKeepsSpaces ==
  ASSUME IInv, Spaces, NEW p \in Procs, End(p), torn' = (torn \/ Reembedding(p)),
         UNCHANGED <<objs, name, starts, indexed>>
  PROVE  Spaces'
<1> USE DEF IInv, End, Goto, TypeOK, Locks, Handles, Alive
<1>1. Untorn'
  <2> SUFFICES ASSUME ~torn' PROVE /\ Named("temp")' => Pure(objs[name["temp"]])'
                                   /\ Named("main")' /\ (\A q \in Procs : ~Reembedding(q)')
                                        => Pure(objs[name["main"]])'
    BY DEF Untorn
  <2>1. ~torn /\ ~Reembedding(p)
    OBVIOUS
  <2>2. \A q \in Procs \ {p} : Reembedding(q)' <=> Reembedding(q)
    BY DEF Reembedding, ReembedAll, Obj
  <2> QED
    BY <2>1, <2>2 DEF Spaces, Untorn, Pure, Named, Held
<1>2. Reembeds'
  BY DEF Spaces, Reembeds, Obj, ReembedAll, Held
<1>3. Whole'
  BY DEF Spaces, Whole, RowsOf, Named, Held, Obj
<1> QED  BY <1>1, <1>2, <1>3 DEF Spaces

LEMMA CheckRefusesKeepsSpaces ==
  ASSUME IInv, Spaces, NEW p \in Procs, CheckRefuses(p)
  PROVE  Spaces'
BY EndKeepsSpaces DEF CheckRefuses, Raise

LEMMA HandleGoneKeepsSpaces ==
  ASSUME IInv, Spaces, NEW p \in Procs, HandleGone(p)
  PROVE  Spaces'
BY EndKeepsSpaces DEF HandleGone, Raise

LEMMA AdoptRacedKeepsSpaces ==
  ASSUME IInv, Spaces, NEW p \in Procs, AdoptRaced(p)
  PROVE  Spaces'
BY EndKeepsSpaces DEF AdoptRaced, Raise

LEMMA RenameRefusedKeepsSpaces ==
  ASSUME IInv, Spaces, NEW p \in Procs, RenameRefused(p)
  PROVE  Spaces'
BY EndKeepsSpaces DEF RenameRefused, Raise

LEMMA EmbedFailsKeepsSpaces ==
  ASSUME IInv, Spaces, NEW p \in Procs, EmbedFails(p)
  PROVE  Spaces'
BY EndKeepsSpaces DEF EmbedFails, Raise

LEMMA QueryKeepsSpaces ==
  ASSUME IInv, Spaces, NEW p \in Procs, Query(p)
  PROVE  Spaces'
BY EndKeepsSpaces DEF Query, ghost, Reembedding, IInv, TypeOK

LEMMA CopyFailsKeepsSpaces ==
  ASSUME IInv, Spaces, NEW p \in Procs, CopyFails(p)
  PROVE  Spaces'
<1> USE DEF IInv, CopyFails, End, Goto, TypeOK, Locks, Handles, Alive
<1>1. Untorn'
  BY DEF Spaces, Untorn, Reembedding, Pure, Named, Held, Obj, ReembedAll
<1>2. Reembeds'
  BY DEF Spaces, Reembeds, Obj, ReembedAll, Held
<1>3. Whole'
  BY DEF Spaces, Whole, RowsOf, Named, Held, Obj
<1> QED  BY <1>1, <1>2, <1>3 DEF Spaces

LEMMA CheckPassesKeepsSpaces ==
  ASSUME IInv, IInv', Spaces, NEW p \in Procs, CheckPasses(p)
  PROVE  Spaces'
<1> USE DEF IInv, CheckPasses, Goto, MayLock, ghost, TypeOK, Locks, Handles, Alive
<1>1. Untorn'
  BY DEF Spaces, Untorn, Works, Checked, Reembeds, Whole, Reembedding, Pure, Named, Held, Obj, ReembedAll, Objects, Space
<1>2. Reembeds'
  BY DEF Spaces, Reembeds, Works, Checked, Obj, ReembedAll, Held, Objects, Space
<1>3. Whole'
  BY DEF Spaces, Whole, Works, Rows, RowsOf, Named, Held, Obj, Objects
<1> QED  BY <1>1, <1>2, <1>3 DEF Spaces

LEMMA OpenKeepsSpaces ==
  ASSUME IInv, IInv', Spaces, NEW p \in Procs, Open(p)
  PROVE  Spaces'
<1> USE DEF IInv, Open, Goto, MayLock, ghost, TypeOK, Locks, Handles, Alive, Fresh, Born, NoRows
<1>1. Untorn'
  BY DEF Spaces, Untorn, Works, Checked, Reembeds, Whole, Reembedding, Pure, Named, Held, Obj, ReembedAll, Objects, Space
<1>2. Reembeds'
  BY DEF Spaces, Reembeds, Works, Checked, Obj, ReembedAll, Held, Objects, Space
<1>3. Whole'
  BY DEF Spaces, Whole, Works, Rows, RowsOf, Named, Held, Obj, Objects
<1> QED  BY <1>1, <1>2, <1>3 DEF Spaces

LEMMA ProbeKeepsSpaces ==
  ASSUME IInv, IInv', Spaces, NEW p \in Procs, Probe(p)
  PROVE  Spaces'
<1> USE DEF IInv, Probe, Goto, MayLock, ghost, TypeOK, Locks, Handles, Alive
<1>1. Untorn'
  BY DEF Spaces, Untorn, Works, Checked, Reembeds, Whole, Reembedding, Pure, Named, Held, Obj, ReembedAll, Objects, Space
<1>2. Reembeds'
  BY DEF Spaces, Reembeds, Works, Checked, Obj, ReembedAll, Held, Objects, Space
<1>3. Whole'
  BY DEF Spaces, Whole, Works, Rows, RowsOf, Named, Held, Obj, Objects
<1> QED  BY <1>1, <1>2, <1>3 DEF Spaces

LEMMA AdoptPoorerKeepsSpaces ==
  ASSUME IInv, IInv', Spaces, NEW p \in Procs, AdoptPoorer(p)
  PROVE  Spaces'
<1> USE DEF IInv, AdoptPoorer, Goto, MayLock, ghost, TypeOK, Locks, Handles, Alive
<1>1. Untorn'
  BY DEF Spaces, Untorn, Works, Checked, Reembeds, Whole, Reembedding, Pure, Named, Held, Obj, ReembedAll, Objects, Space
<1>2. Reembeds'
  BY DEF Spaces, Reembeds, Works, Checked, Obj, ReembedAll, Held, Objects, Space
<1>3. Whole'
  BY DEF Spaces, Whole, Works, Rows, RowsOf, Named, Held, Obj, Objects
<1> QED  BY <1>1, <1>2, <1>3 DEF Spaces

LEMMA AdoptRicherKeepsSpaces ==
  ASSUME IInv, IInv', Spaces, NEW p \in Procs, AdoptRicher(p)
  PROVE  Spaces'
<1> USE DEF IInv, AdoptRicher, Goto, MayLock, ghost, TypeOK, Locks, Handles, Alive
<1>1. Untorn'
  BY DEF Spaces, Untorn, Reembedding, Pure, Named, Held, Obj, ReembedAll
<1>2. Reembeds'
  BY DEF Spaces, Reembeds, Obj, ReembedAll, Held
<1>3. Whole'
  <2>1. /\ objs[name["main"]] \in Objects /\ objs[name["temp"]] \in Objects
        /\ Obj(p) = objs[name["main"]]
    BY DEF Obj
  <2>2. Held(Obj(p)) \in SUBSET Files /\ Held(objs[name["temp"]]) \in SUBSET Files
    BY DEF Held
  <2>3. Held(objs[name["temp"]]) # {}
    BY <2>2, Richer
  <2>4. indexed = Files /\ RowsOf("temp")' = RowsOf("temp")
    BY <2>1, <2>3 DEF Spaces, Whole, RowsOf, Named, Held
  <2>5. RowsOf("temp")' = Files
    BY <2>2, <2>4 DEF Works, RowsOf, Named, Held
  <2>6. indexed' = Files
    BY <2>4
  <2> QED
    BY <2>4, <2>5, <2>6 DEF Spaces, Whole, Obj, RowsOf, Named, Held
<1> QED  BY <1>1, <1>2, <1>3 DEF Spaces

LEMMA AdoptRenameKeepsSpaces ==
  ASSUME IInv, IInv', Spaces, NEW p \in Procs, AdoptRename(p)
  PROVE  Spaces'
<1> USE DEF IInv, AdoptRename, Goto, MayLock, ghost, TypeOK, Locks, Handles, Alive, Unlock
<1>1. Untorn'
  BY DEF Spaces, Untorn, Works, Checked, Reembeds, Whole, Reembedding, Pure, Named, Held, Obj, ReembedAll, Objects, Space
<1>2. Reembeds'
  BY DEF Spaces, Reembeds, Works, Checked, Obj, ReembedAll, Held, Objects, Space
<1>3. Whole'
  BY DEF Spaces, Whole, Works, Rows, RowsOf, Named, Held, Obj, Objects
<1> QED  BY <1>1, <1>2, <1>3 DEF Spaces

LEMMA RestampRacedKeepsSpaces ==
  ASSUME IInv, IInv', Spaces, NEW p \in Procs, RestampRaced(p)
  PROVE  Spaces'
<1> USE DEF IInv, RestampRaced, Goto, MayLock, ghost, TypeOK, Locks, Handles, Alive, Raise, End
<1>1. Untorn'
  BY DEF Spaces, Untorn, Works, Checked, Reembeds, Whole, Reembedding, Pure, Named, Held, Obj, ReembedAll, Objects, Space
<1>2. Reembeds'
  BY DEF Spaces, Reembeds, Works, Checked, Obj, ReembedAll, Held, Objects, Space
<1>3. Whole'
  BY DEF Spaces, Whole, Works, Rows, RowsOf, Named, Held, Obj, Objects
<1> QED  BY <1>1, <1>2, <1>3 DEF Spaces

LEMMA RestampTempKeepsSpaces ==
  ASSUME IInv, IInv', Spaces, NEW p \in Procs, RestampTemp(p)
  PROVE  Spaces'
<1>a. PICK i \in Ids, st \in Space :
        /\ objs' = [(IF name["temp"] = NULL THEN objs
                     ELSE [objs EXCEPT ![name["temp"]] = NULL])
                    EXCEPT ![i] = [stamp |-> st, full |-> TRUE, rows |-> NoRows]]
        /\ st.model = conf[p].model
        /\ st.shape = IF want[p] = NULL THEN Obj(p).stamp.shape ELSE want[p]
        /\ objs[i] = NULL \/ i = name["temp"]
        /\ \A q \in Procs : handle[q] # i
        /\ name' = [name EXCEPT !["temp"] = i]
  BY TempBorn
<1> DEFINE new == [stamp |-> st, full |-> TRUE, rows |-> NoRows]
<1>b. new \in Objects /\ Held(new) = {} /\ new.stamp = st /\ new # NULL
  BY BornEmpty
<1>c. /\ objs'[i] = new /\ name'["temp"] = i /\ name'["main"] = name["main"]
      /\ name["main"] # NULL => objs'[name["main"]] = objs[name["main"]]
      /\ lock \in {NULL, p} /\ lock' = p /\ pc[p] = "restamp"
      /\ pc' = [pc EXCEPT ![p] = "copy"] /\ Alive(p)
      /\ UNCHANGED <<conf, op, handle, want, todo, via, indexed, torn>>
  BY <1>a DEF RestampTemp, Goto, MayLock, ghost, IInv, TypeOK, Handles
<1>d. \A q \in Procs : (Alive(q)' <=> Alive(q)) /\ (Alive(q) => Obj(q)' = Obj(q))
  BY <1>a, <1>b, <1>c DEF IInv, TypeOK, Handles, Alive, Obj
<1>e. /\ \A q \in Procs \ {p} : pc'[q] = pc[q] /\ pc[q] \notin {"adoptRename", "rename", "copy"}
      /\ pc'[p] = "copy" /\ \A q \in Procs \ {p} : ~(op[q] = "rescan" /\ pc[q] # "idle")
  BY <1>c DEF IInv, TypeOK, Locks
<1>f. \A q \in Procs : (Reembedding(q)' <=> Reembedding(q)) /\ (Alive(q) => (ReembedAll(q)' <=> ReembedAll(q)))
  BY <1>c, <1>d, <1>e DEF Reembedding, ReembedAll
<1> HIDE DEF new
<1>1. Untorn'
  BY <1>b, <1>c, <1>f DEF Spaces, Untorn, Named, Pure, Held
<1>2. Reembeds'
  <2>1. want[p] = NULL => st = Obj(p).stamp
    <3>1. Obj(p).stamp.model = conf[p].model \/ want[p] # NULL
      BY <1>c DEF IInv, Checked, Spaces, Whole
    <3>2. Obj(p).stamp \in Space
      BY <1>c DEF IInv, TypeOK, Alive, Obj, Objects
    <3> QED  BY <1>a, <3>1, <3>2 DEF Space
  <2>2. want[p] # NULL => st = conf[p]
    <3>1. want[p] # NULL => want[p] = conf[p].shape
      BY DEF Spaces, Reembeds
    <3> QED  BY <1>a, <3>1 DEF Space, IInv, TypeOK
  <2>3. \A q \in Procs : want[q] # NULL => op[q] = "rescan" /\ pc[q] # "idle"
    BY DEF Spaces, Reembeds
  <2>4. \A q \in Procs \ {p} : want[q] = NULL
    BY <1>e, <2>3
  <2> QED
    BY <1>b, <1>c, <1>d, <1>e, <1>f, <2>1, <2>2, <2>4 DEF Spaces, Reembeds, Held, IInv, Locks, Handles
<1>3. Whole'
  <2>1. RowsOf("temp")' = {}
    BY <1>b, <1>c DEF RowsOf, Named, Held
  <2>2. \A q \in Procs : Alive(q) => Held(Obj(q))' = Held(Obj(q))
    BY <1>d DEF Held
  <2> QED
    BY <1>c, <1>d, <1>e, <2>1, <2>2 DEF Spaces, Whole
<1> QED  BY <1>1, <1>2, <1>3 DEF Spaces

LEMMA CopyBatchKeepsSpaces ==
  ASSUME IInv, IInv', Spaces, NEW p \in Procs, CopyBatch(p)
  PROVE  Spaces'
<1> DEFINE t == name["temp"]
<1>a. PICK f \in Held(Obj(p)) \ Held(objs[t]) :
        objs' = [objs EXCEPT ![t] = WithRow(objs[t], f, Obj(p).rows[f])]
  BY DEF CopyBatch
<1>b. /\ t \in Ids /\ objs[t] \in Objects /\ Alive(p) /\ t # handle[p]
      /\ handle[p] = name["main"] /\ Obj(p) \in Objects
  BY DEF IInv, CopyBatch, TypeOK, Handles, Alive, Obj
<1>c. f \in Files /\ Obj(p).rows[f] \in Space
  BY <1>b DEF Held, Objects
<1> DEFINE new == WithRow(objs[t], f, Obj(p).rows[f])
<1>d. /\ new \in Objects /\ new # NULL /\ new.stamp = objs[t].stamp
      /\ Held(new) = Held(objs[t]) \cup {f}
      /\ new.rows = [objs[t].rows EXCEPT ![f] = Obj(p).rows[f]]
  BY <1>b, <1>c, RowAdded DEF WithRow
<1>e. /\ objs'[t] = new
      /\ \A j \in Ids \ {t} : objs'[j] = objs[j]
  BY <1>a, <1>b, <1>d DEF IInv, TypeOK
<1>f. /\ UNCHANGED <<conf, pc, op, handle, kept, want, todo, via, name, lock, starts,
                     indexed, torn>>
      /\ pc[p] = "copy" /\ lock = p /\ Held(Obj(p)) = Files
  BY <1>b DEF CopyBatch, mem, ghost, IInv, Locks, Works
<1>g. \A q \in Procs : /\ Alive(q)' <=> Alive(q)
                       /\ Alive(q) => Obj(q)' = Obj(q)
  BY <1>b, <1>d, <1>e, <1>f DEF IInv, TypeOK, Handles, Alive, Obj
<1> HIDE DEF new
<1>1. Untorn'
  <2> SUFFICES ASSUME ~torn
               PROVE  /\ Pure(new)
                      /\ (Named("main") /\ \A q \in Procs : ~Reembedding(q)')
                           => Pure(objs[name["main"]])
    <3>1. /\ name["main"] # NULL => objs'[name["main"]] = objs[name["main"]]
          /\ objs'[name["temp"]] = new /\ name' = name /\ torn' = torn
      BY <1>b, <1>e, <1>f DEF IInv, TypeOK
    <3> QED  BY <3>1 DEF Untorn, Named, Pure, Held
  <2>1. \A q \in Procs : Reembedding(q)' <=> Reembedding(q)
    BY <1>f, <1>g DEF Reembedding, ReembedAll
  <2>2. Obj(p).rows[f] = objs[t].stamp
    <3>1. CASE want[p] # NULL
      BY <1>c, <1>f, <3>1 DEF Spaces, Reembeds
    <3>2. CASE want[p] = NULL
      <4>1. \A q \in Procs : ~Reembedding(q)
        BY <1>f, <3>2 DEF Reembedding, IInv, Locks, Handles
      <4>2. Pure(Obj(p))
        BY <1>b, <4>1 DEF Spaces, Untorn, Named, Obj, IInv, Handles, Alive
      <4>3. objs[t].stamp = Obj(p).stamp
        BY <1>f, <3>2 DEF Spaces, Reembeds
      <4> QED  BY <1>c, <4>2, <4>3 DEF Pure, Held
    <3> QED  BY <3>1, <3>2
  <2> QED
    BY <1>b, <1>c, <1>d, <1>f, <2>1, <2>2 DEF Spaces, Untorn, Named, Pure, IInv, Held, Objects
<1>2. Reembeds'
  BY <1>b, <1>c, <1>d, <1>e, <1>f, <1>g DEF Spaces, Reembeds, Held, ReembedAll, IInv, Locks, Objects
<1>3. Whole'
  <2>0. handle[p] \in Ids /\ objs[handle[p]] # NULL /\ Obj(p) = objs[handle[p]]
    BY <1>b DEF Alive, Obj, IInv, TypeOK
  <2>1. indexed = Files
    <3>1. Held(objs[handle[p]]) \subseteq indexed
      BY <2>0 DEF IInv, Rows
    <3>2. indexed \subseteq Files
      BY DEF IInv, TypeOK
    <3> QED  BY <1>f, <2>0, <3>1, <3>2
  <2>2. \A q \in Procs : pc[q] \notin {"adoptRename", "rename"}
    BY <1>f DEF IInv, Locks
  <2>3. \A q \in Procs : Alive(q) => Held(Obj(q))' = Held(Obj(q))
    BY <1>g DEF Held
  <2> QED
    BY <1>f, <1>g, <2>1, <2>2, <2>3 DEF Spaces, Whole
<1> QED  BY <1>1, <1>2, <1>3 DEF Spaces

LEMMA SwapOutKeepsSpaces ==
  ASSUME IInv, IInv', Spaces, NEW p \in Procs, SwapOut(p)
  PROVE  Spaces'
<1> USE DEF IInv, SwapOut, Goto, MayLock, ghost, TypeOK, Locks, Handles, Alive
<1>1. Untorn'
  BY DEF Spaces, Untorn, Works, Checked, Reembeds, Whole, Reembedding, Pure, Named, Held, Obj, ReembedAll, Objects, Space
<1>2. Reembeds'
  BY DEF Spaces, Reembeds, Works, Checked, Obj, ReembedAll, Held, Objects, Space
<1>3. Whole'
  BY DEF Spaces, Whole, Works, Rows, RowsOf, Named, Held, Obj, Objects
<1> QED  BY <1>1, <1>2, <1>3 DEF Spaces

LEMMA SwapInKeepsSpaces ==
  ASSUME IInv, IInv', Spaces, NEW p \in Procs, SwapIn(p)
  PROVE  Spaces'
<1> USE DEF IInv, SwapIn, Goto, MayLock, ghost, TypeOK, Locks, Handles, Alive, End, Unlock
<1>1. Untorn'
  BY DEF Spaces, Untorn, Works, Checked, Reembeds, Whole, Reembedding, Pure, Named, Held, Obj, ReembedAll, Objects, Space
<1>2. Reembeds'
  BY DEF Spaces, Reembeds, Works, Checked, Obj, ReembedAll, Held, Objects, Space
<1>3. Whole'
  BY DEF Spaces, Whole, Works, Rows, RowsOf, Named, Held, Obj, Objects
<1> QED  BY <1>1, <1>2, <1>3 DEF Spaces

LEMMA RescanStartKeepsSpaces ==
  ASSUME IInv, IInv', Spaces, NEW p \in Procs, RescanStart(p)
  PROVE  Spaces'
<1> USE DEF IInv, RescanStart, Goto, MayLock, ghost, TypeOK, Locks, Handles, Alive
<1>1. Untorn'
  BY DEF Spaces, Untorn, Works, Checked, Reembeds, Whole, Reembedding, Pure, Named, Held, Obj, ReembedAll, Objects, Space
<1>2. Reembeds'
  BY DEF Spaces, Reembeds, Works, Checked, Obj, ReembedAll, Held, Objects, Space
<1>3. Whole'
  BY DEF Spaces, Whole, Works, Rows, RowsOf, Named, Held, Obj, Objects
<1> QED  BY <1>1, <1>2, <1>3 DEF Spaces

LEMMA RescanFileKeepsSpaces ==
  ASSUME IInv, IInv', Spaces, NEW p \in Procs, RescanFile(p)
  PROVE  Spaces'
<1> DEFINE m == handle[p]
<1>a. PICK f \in todo[p] :
        /\ todo' = [todo EXCEPT ![p] = @ \ {f}]
        /\ objs' = IF Skips(p, f) THEN objs
                   ELSE [objs EXCEPT ![m] = WithRow(objs[m], f, conf[p])]
        /\ indexed' = indexed \cup {f}
  BY DEF RescanFile
<1>b. /\ m \in Ids /\ objs[m] \in Objects /\ m = name["main"] /\ f \in Files
      /\ conf[p] \in Space /\ m # name["temp"] /\ Obj(p) = objs[m]
  BY DEF IInv, RescanFile, TypeOK, Handles, Alive, Obj
<1> DEFINE new == IF Skips(p, f) THEN objs[m] ELSE WithRow(objs[m], f, conf[p])
<1>c. /\ new \in Objects /\ new # NULL /\ new.stamp = objs[m].stamp
      /\ Held(new) = Held(objs[m]) \cup {f}
      /\ \A g \in Files : new.rows[g] = IF g = f /\ ~Skips(p, f) THEN conf[p] ELSE objs[m].rows[g]
  <2>1. CASE Skips(p, f)
    BY <1>b, <2>1 DEF Skips, Held, Obj
  <2>2. CASE ~Skips(p, f)
    <3>1. objs[m].rows \in [Files -> Space \cup {NULL}]
      BY <1>b DEF Objects
    <3> QED  BY <1>b, <2>2, <3>1, RowAdded DEF WithRow
  <2> QED  BY <2>1, <2>2
<1>d. /\ objs'[m] = new
      /\ \A j \in Ids \ {m} : objs'[j] = objs[j]
  BY <1>a, <1>b, <1>c DEF IInv, TypeOK
<1>e. /\ UNCHANGED <<conf, pc, op, handle, kept, want, via, name, lock, starts, torn>>
      /\ pc[p] = "embed" /\ Alive(p) /\ op[p] = "rescan" /\ lock = p
      /\ \A q \in Procs : (op[q] = "rescan" /\ pc[q] # "idle") => q = p
      /\ \A q \in Procs : pc[q] \notin {"adoptRename", "rename", "copy"}
      /\ \A q \in Procs \ {p} : todo'[q] = todo[q]
      /\ todo'[p] = todo[p] \ {f}
  BY <1>a, <1>b DEF RescanFile, IInv, Locks, Handles, TypeOK
<1>g. \A q \in Procs : /\ Alive(q)' <=> Alive(q)
                       /\ Alive(q) => Obj(q) = objs[m] /\ Obj(q)' = new
  BY <1>b, <1>c, <1>d, <1>e DEF IInv, TypeOK, Handles, Alive, Obj
<1>h. ReembedAll(p) => new.rows[f] = conf[p]
  BY <1>b, <1>c DEF Skips
<1> HIDE DEF new
<1>1. Untorn'
  <2> SUFFICES ASSUME ~torn, \A q \in Procs : ~Reembedding(q)'
               PROVE  Pure(new)
    BY <1>b, <1>c, <1>d, <1>e DEF Spaces, Untorn, Named, Pure, Held, IInv, TypeOK, Handles
  <2>1. ~ReembedAll(p)
    <3>1. ReembedAll(p)' = ReembedAll(p)
      BY <1>c, <1>e, <1>g DEF ReembedAll
    <3>2. todo'[p] # Files
      BY <1>b, <1>e
    <3> QED  BY <1>e, <1>g, <3>1, <3>2 DEF Reembedding
  <2>2. \A q \in Procs : ~Reembedding(q)
    BY <1>e, <2>1 DEF Reembedding
  <2>3. Pure(objs[m])
    BY <1>b, <1>e, <2>2 DEF Spaces, Untorn, Named, Alive
  <2>4. ~Skips(p, f) => conf[p] = objs[m].stamp
    <3>1. CASE via[p] = "adopted"
      BY <1>b, <1>e, <2>1, <3>1 DEF Skips, Spaces, Whole, Held
    <3>2. CASE via[p] # "adopted"
      <4>1. objs[m].stamp.model = conf[p].model /\ objs[m].stamp.shape = conf[p].shape
        BY <1>b, <1>e, <2>1, <3>2 DEF IInv, Checked, ReembedAll
      <4> QED  BY <1>b, <4>1 DEF Space, Objects
    <3> QED  BY <3>1, <3>2
  <2> QED
    BY <1>b, <1>c, <2>3, <2>4 DEF Pure, Skips, Held
<1>2. Reembeds'
  <2>1. \A q \in Procs : ReembedAll(q)' = ReembedAll(q) \/ ~Alive(q)
    BY <1>c, <1>e, <1>g DEF ReembedAll
  <2>2. ReembedAll(p) => \A g \in Files \ todo'[p] : new.rows[g] = conf[p]
    BY <1>b, <1>c, <1>e, <1>h DEF Spaces, Reembeds
  <2>3. \A q \in Procs : pc[q] = "embed" => q = p
    BY <1>e DEF IInv, Locks
  <2>4. \A q \in Procs : want[q] = NULL \/ pc[q] \notin {"restamp", "copy", "rename"}
    BY <1>e DEF Spaces, Reembeds
  <2> QED
    BY <1>e, <1>g, <2>1, <2>2, <2>3, <2>4 DEF Spaces, Reembeds
<1>3. Whole'
  <2>0. name["temp"] # NULL => name["temp"] \in Ids \ {m}
    BY <1>b DEF IInv, TypeOK
  <2>1. RowsOf("temp")' = RowsOf("temp")
    BY <1>d, <1>e, <2>0 DEF RowsOf, Named, Held
  <2>2. indexed = Files => indexed' = Files
    BY <1>a, <1>b
  <2>3. \A q \in Procs : (via[q] = "adopted" /\ Alive(q)) => Held(Obj(q)') = Files
    BY <1>b, <1>c, <1>g DEF Spaces, Whole
  <2>4. \A q \in Procs : Held(Obj(q))' = Held(Obj(q)')
    BY DEF Held
  <2> QED
    BY <1>e, <1>g, <2>1, <2>2, <2>3, <2>4 DEF Spaces, Whole
<1> QED  BY <1>1, <1>2, <1>3 DEF Spaces

LEMMA RescanDoneKeepsSpaces ==
  ASSUME IInv, IInv', Spaces, NEW p \in Procs, RescanDone(p)
  PROVE  Spaces'
<1> USE DEF IInv, RescanDone, Goto, MayLock, ghost, TypeOK, Locks, Handles, Alive, End
<1>1. Untorn'
  BY DEF Spaces, Untorn, Works, Checked, Reembeds, Whole, Reembedding, Pure, Named, Held, Obj, ReembedAll, Objects, Space
<1>2. Reembeds'
  BY DEF Spaces, Reembeds, Works, Checked, Obj, ReembedAll, Held, Objects, Space
<1>3. Whole'
  <2>1. conf[p].shape \in Shapes
    BY DEF Space
  <2> QED
    BY <2>1 DEF Spaces, Whole, RowsOf, Named, Held, Obj
<1> QED  BY <1>1, <1>2, <1>3 DEF Spaces

LEMMA KillKeepsSpaces ==
  ASSUME IInv, IInv', Spaces, NEW p \in Procs, Kill(p)
  PROVE  Spaces'
<1> USE DEF IInv, Kill, Goto, MayLock, ghost, TypeOK, Locks, Handles, Alive
<1>1. Untorn'
  <2>1. \A q \in Procs \ {p} : Reembedding(q)' <=> Reembedding(q)
    BY DEF Reembedding, ReembedAll, Obj
  <2>2. ~torn' => ~torn /\ ~Reembedding(p)
    OBVIOUS
  <2> QED
    BY <2>1, <2>2 DEF Spaces, Untorn, Pure, Named, Held
<1>2. Reembeds'
  BY DEF Spaces, Reembeds, Works, Checked, Obj, ReembedAll, Held, Objects, Space
<1>3. Whole'
  BY DEF Spaces, Whole, Works, Rows, RowsOf, Named, Held, Obj, Objects
<1> QED  BY <1>1, <1>2, <1>3 DEF Spaces

LEMMA BeginKeepsSpaces ==
  ASSUME IInv, IInv', Spaces, NEW p \in Procs, NEW o \in {"query", "rescan"}, Begin(p, o)
  PROVE  Spaces'
<1> USE DEF IInv, Begin, Goto, MayLock, ghost, TypeOK, Locks, Handles, Alive
<1>1. Untorn'
  BY DEF Spaces, Untorn, Works, Checked, Reembeds, Whole, Reembedding, Pure, Named, Held, Obj, ReembedAll, Objects, Space
<1>2. Reembeds'
  BY DEF Spaces, Reembeds, Works, Checked, Obj, ReembedAll, Held, Objects, Space
<1>3. Whole'
  BY DEF Spaces, Whole, Works, Rows, RowsOf, Named, Held, Obj, Objects
<1> QED  BY <1>1, <1>2, <1>3 DEF Spaces

LEMMA SpacesStart == Init => Spaces
<1> SUFFICES ASSUME Init PROVE Spaces
  OBVIOUS
<1>1. Untorn
  BY DEF Init, Untorn, Named, Pure, Held
<1>2. Reembeds
  BY DEF Init, Reembeds
<1>3. Whole
  BY DEF Init, Whole, RowsOf, Named, Held, Alive
<1> QED  BY <1>1, <1>2, <1>3 DEF Spaces

LEMMA StutterKeepsSpaces == Spaces /\ UNCHANGED vars => Spaces'
BY DEF vars, mem, ghost, Spaces, Untorn, Reembeds, Whole, Reembedding,
       ReembedAll, Pure, Named, RowsOf, Held, Alive, Obj

LEMMA StepKeepsSpaces == ASSUME IInv, IInv', Spaces, Next PROVE Spaces'
<1>1. PICK p \in Procs : Step(p)
  BY DEF Next
<1> QED
  BY <1>1,
     BeginKeepsSpaces, OpenKeepsSpaces, CheckRefusesKeepsSpaces,
     CheckPassesKeepsSpaces, HandleGoneKeepsSpaces, ProbeKeepsSpaces,
     AdoptRacedKeepsSpaces, AdoptPoorerKeepsSpaces,
     AdoptRicherKeepsSpaces, AdoptRenameKeepsSpaces,
     RenameRefusedKeepsSpaces, RestampRacedKeepsSpaces,
     RestampTempKeepsSpaces, CopyBatchKeepsSpaces, CopyFailsKeepsSpaces,
     SwapOutKeepsSpaces, SwapInKeepsSpaces, QueryKeepsSpaces,
     RescanStartKeepsSpaces, RescanFileKeepsSpaces,
     EmbedFailsKeepsSpaces, RescanDoneKeepsSpaces, KillKeepsSpaces DEF Step

LEMMA SpacesInductive == Spec => [](IInv /\ Spaces)
<1>1. IInv /\ IInv' /\ Spaces /\ [Next]_vars => Spaces'
  BY StepKeepsSpaces, StutterKeepsSpaces
<1> QED  BY Inductive, SpacesStart, <1>1, PTL DEF Spec

\* With nobody re-embedding, a collection that has every file is coherent.
LEMMA WholeIsCoherent ==
  ASSUME IInv, Spaces, ~torn, \A q \in Procs : ~Reembedding(q),
         NEW p \in Procs, Alive(p), Held(Obj(p)) = Files
  PROVE  Coherent(Obj(p))
<1>1. name["main"] = handle[p] /\ name["main"] # NULL
  BY DEF IInv, Handles, Alive
<1> QED  BY <1>1 DEF Spaces, Untorn, Named, Obj, Pure, Coherent

\* CheckedModel: a collection in use carries the model its process embeds with, or is an
\* adopted temp that has every file, and in one space unless a re-embed is half way.
THEOREM OpenIsChecked == Spec => []CheckedModel
<1>1. IInv /\ Spaces => CheckedModel
  <2> SUFFICES ASSUME IInv, Spaces, NEW p \in Procs, pc[p] \in {"use", "embed"}, Alive(p),
                      Obj(p).stamp.model # conf[p].model
               PROVE  /\ via[p] = "adopted" /\ Held(Obj(p)) = Files
                      /\ \/ torn \/ (\E q \in Procs : Reembedding(q))
                         \/ Coherent(Obj(p))
    BY DEF CheckedModel
  <2>1. via[p] = "adopted"
    BY DEF IInv, Checked
  <2>2. Held(Obj(p)) = Files
    BY <2>1 DEF Spaces, Whole
  <2> QED  BY <2>1, <2>2, WholeIsCoherent
<1> QED  BY SpacesInductive, <1>1, PTL

\* OneSpaceUntorn: a rescan that got through leaves every vector in one space, its own or
\* that of the temp it adopted, whatever models and shapes others open the store with,
\* and wherever they are killed outside a re-embed.
THEOREM VectorsInOneSpace == Spec => []OneSpaceUntorn
<1>1. IInv /\ Spaces => OneSpaceUntorn
  <2> SUFFICES ASSUME IInv, Spaces, NEW p \in Procs, pc[p] = "embed", todo[p] = {},
                      Alive(p), ~torn
               PROVE  \/ \A f \in Files : Obj(p).rows[f] = conf[p]
                      \/ via[p] = "adopted" /\ Coherent(Obj(p))
    BY DEF OneSpaceUntorn
  <2>1. CASE ReembedAll(p)
    BY <2>1 DEF Spaces, Reembeds
  <2>2. CASE ~ReembedAll(p)
    <3>1. \A q \in Procs : ~Reembedding(q)
      BY <2>2 DEF Reembedding, IInv, Locks
    <3>2. Held(Obj(p)) = Files
      BY DEF IInv, Works, Held
    <3>3. Coherent(Obj(p))
      BY <3>1, <3>2, WholeIsCoherent
    <3>4. CASE via[p] # "adopted"
      <4>1. Obj(p).stamp \in Space /\ conf[p] \in Space
        BY DEF IInv, TypeOK, Alive, Obj, Objects
      <4>2. Obj(p).stamp = conf[p]
        BY <2>2, <3>4, <4>1 DEF ReembedAll, Space, IInv, Checked
      <4> QED  BY <3>3, <4>2 DEF Coherent
    <3> QED  BY <3>3, <3>4
  <2> QED  BY <2>1, <2>2
<1> QED  BY SpacesInductive, <1>1, PTL
=============================================================================
