---------------------------- MODULE MCBaseShards ----------------------------
(***************************************************************************)
(* Two files, two models and two shapes, three generations.                *)
(***************************************************************************)
EXTENDS BaseShards, TLC

Symmetry == Permutations(Files) \cup Permutations(Models) \cup Permutations(Shapes)
=============================================================================
