----------------------------- MODULE AtomicBase -----------------------------
(***************************************************************************)
(* What export_base promises a checkout of its tracked base: it is one     *)
(* value.  An export replaces it in one step by a newer generation that    *)
(* holds exactly what is indexed at that moment, and everything else, an   *)
(* export that fails or is killed included, leaves it as it is.            *)
(***************************************************************************)
EXTENDS Naturals

CONSTANTS Files,
          NULL      \* no row, or no base yet

VARIABLES rows,     \* the index: the vector space of each file's row, or NULL
          base      \* the base, live or set aside

vars == <<rows, base>>

Held(r) == {f \in Files : r[f] # NULL}

\* A base claims the shards it has.
Complete(d) == d.manifest.of = Held(d.shards)

Init ==
  /\ rows = [f \in Files |-> NULL]
  /\ base # NULL => Complete(base)

\* d holds the rows as they are, and its manifest the model they were all
\* embedded by.
DumpOf(d) ==
  /\ d.shards = rows /\ Complete(d)
  /\ \A f \in Held(rows) : rows[f].model = d.manifest.model

Export ==
  /\ Held(rows) # {}
  /\ base' # NULL /\ DumpOf(base')
  /\ base # NULL => base'.gen > base.gen
  /\ UNCHANGED rows

\* A rescan, a drop or an import.
Index == UNCHANGED base

Next == Export \/ Index

Spec == Init /\ [][Next]_vars
=============================================================================
