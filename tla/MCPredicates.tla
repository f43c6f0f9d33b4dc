---------------------------- MODULE MCPredicates ----------------------------
(***************************************************************************)
(* The files processes write beside each other without a lock: the         *)
(* predicate cache and what onboarding writes.  They share no state; a     *)
(* behaviour is one of either.                                             *)
(*                                                                         *)
(* The cache under two processes, two releases and two versions of each    *)
(* part of the worktree; two onboarding commands at once over two projects *)
(* with one edit by the user.                                              *)
(***************************************************************************)
EXTENDS Predicates, Onboard, TLC

VARIABLE part

\* Procs and Runners, and Surfaces and Projects, take the same values: one
\* permutation renames both.
Symmetry == Permutations(Procs) \cup Permutations(Surfaces) \cup Permutations(Rests)

NoPredicates ==
  /\ tree = NULL /\ floor = FALSE /\ installed = 1 /\ edits = 0 /\ cache = NULL
  /\ pc = [p \in Procs |-> "off"] /\ code = [p \in Procs |-> 1]
  /\ stamp = NULL /\ parsed = NULL /\ fp = NULL /\ pred = NULL
  /\ moved = FALSE /\ tainted = FALSE

UnlockedInit ==
  /\ OnboardInit
  /\ \/ part = "predicates" /\ Init
     \/ part = "onboard" /\ NoPredicates

UnlockedNext ==
  /\ UNCHANGED part
  /\ \/ part = "predicates" /\ Next /\ UNCHANGED onboardVars
     \/ part = "onboard" /\ OnboardNext /\ UNCHANGED vars

UnlockedSpec == UnlockedInit /\ [][UnlockedNext]_<<part, vars, onboardVars>>
=============================================================================
