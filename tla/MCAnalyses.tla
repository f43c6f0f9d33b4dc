----------------------------- MODULE MCAnalyses -----------------------------
(***************************************************************************)
(* What is made of a snapshot: the code graph and the clusters.  They      *)
(* share no state; a behaviour is one of either.                           *)
(*                                                                         *)
(* The code graph over three classes, one method name beside the entry     *)
(* point, two call sites; the clusters of seven files, four of them scenes *)
(* of two packs, with a weld that holds a scene of each.                   *)
(***************************************************************************)
EXTENDS CallGraph, Clusters, TLC

CONSTANTS a1, a2, b1, b2,   \* scenes of two packs
          s1, s2, s3,       \* scripts
          packA, packB

MCPaths  == {a1, a2, b1, b2, s1, s2, s3}
MCScenes == {a1, a2, b1, b2}
MCPackOf == [q \in MCPaths |-> IF q \in {a1, a2} THEN packA
                              ELSE IF q \in {b1, b2} THEN packB ELSE None]
MCWelds  == {{a1, b1, s1}}

VARIABLE part

Symmetry == Permutations(Files)

NoGraph ==
  /\ phase = "none"
  /\ extends = [c \in Files |-> Engine] /\ funcs = [c \in Files |-> {}] /\ sites = {}
  /\ spelt = [c \in Methods |-> "plain"]
  /\ edges = {} /\ roots = {} /\ referenced = {} /\ names = {} /\ queue = {} /\ seen = {}

NoClusters ==
  /\ pass = "none"
  /\ units = {} /\ parts = <<>> /\ todo = <<Of(Paths)>>
  /\ round = 0 /\ moved = FALSE /\ counts = None /\ left = {} /\ gather = None

AnalysesInit ==
  \/ part = "graph" /\ Init /\ NoClusters
  \/ part = "clusters" /\ ClusterInit /\ NoGraph

AnalysesNext ==
  /\ UNCHANGED part
  /\ \/ part = "graph" /\ Next /\ UNCHANGED clusterVars
     \/ part = "clusters" /\ ClusterNext /\ UNCHANGED vars

AnalysesSpec == AnalysesInit /\ [][AnalysesNext]_<<part, vars, clusterVars>>
=============================================================================
