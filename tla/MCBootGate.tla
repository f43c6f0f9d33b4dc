----------------------------- MODULE MCBootGate -----------------------------
(***************************************************************************)
(* A session as its user meets it: the boot of the server and the page it  *)
(* bakes.  They share no state; a behaviour is one of either.              *)
(*                                                                         *)
(* Two calls in flight, two processes over the same disk; the page over    *)
(* three files in a row, the last two of one cluster, the last linked by   *)
(* an instance only.                                                       *)
(***************************************************************************)
EXTENDS BootGate, Page, TLC

CONSTANTS core, ui   \* clusters of the page

MCLinks == {[s |-> 1, t |-> 2, inst |-> FALSE], [s |-> 2, t |-> 3, inst |-> TRUE]}
MCClusterOf == <<core, ui, ui>>

VARIABLE part

Symmetry == Permutations(Calls)

NoSession == Init /\ cfg = "none" /\ down = {} /\ home = CHOOSE s \in Stores : TRUE

SessionInit ==
  /\ PageInit
  /\ \/ part = "boot" /\ Init
     \/ part = "page" /\ NoSession

SessionNext ==
  /\ UNCHANGED part
  /\ \/ part = "boot" /\ Next /\ UNCHANGED page
     \/ part = "page" /\ PageNext /\ UNCHANGED vars

SessionSpec == SessionInit /\ [][SessionNext]_<<part, vars, page>>
=============================================================================
