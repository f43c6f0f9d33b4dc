------------------------------ MODULE MCStore ------------------------------
(***************************************************************************)
(* Two processes over one store of two files.                              *)
(***************************************************************************)
EXTENDS Store, TLC

Symmetry == Permutations(Procs) \cup Permutations(Files) \cup Permutations(Ids)
=============================================================================
