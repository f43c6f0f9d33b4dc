---------------------------- MODULE MCBakeQueue ----------------------------
(***************************************************************************)
(* Two calls in flight together, the boot store and one other checkout,    *)
(* three calls in all: a third finds a queue, a dead baker or a drained    *)
(* one.                                                                    *)
(***************************************************************************)
EXTENDS BakeQueue
=============================================================================
