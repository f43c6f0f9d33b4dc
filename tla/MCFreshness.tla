---------------------------- MODULE MCFreshness ----------------------------
(***************************************************************************)
(* A server over two files, small enough for every interleaving of edits,  *)
(* TTL and cooldown expiry, failures, the watcher and another process.     *)
(***************************************************************************)
EXTENDS Freshness, TLC

Symmetry == Permutations(Files)

\* The watcher and the second process are explored one at a time.
OneExtra == ~(peered /\ wpc # "off")
=============================================================================
