------------------------------ MODULE MCRouting ------------------------------
(***************************************************************************)
(* The boot store and one other checkout.                                  *)
(***************************************************************************)
EXTENDS Routing
=============================================================================
