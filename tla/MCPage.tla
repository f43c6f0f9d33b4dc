------------------------------- MODULE MCPage -------------------------------
(***************************************************************************)
(* Three files in a row, the last two of one cluster; the last hangs on    *)
(* by an instance link only.                                               *)
(***************************************************************************)
EXTENDS Page

CONSTANTS core, ui   \* clusters

MCLinks == {[s |-> 1, t |-> 2, inst |-> FALSE], [s |-> 2, t |-> 3, inst |-> TRUE]}
MCClusterOf == <<core, ui, ui>>
=============================================================================
