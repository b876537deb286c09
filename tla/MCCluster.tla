----------------------------- MODULE MCCluster -----------------------------
(***************************************************************************)
(* Instances of Cluster for TLC.                                           *)
(***************************************************************************)
EXTENDS Cluster, TLC

\* The renamings of nodes under which the root sets are the same.
Symmetry == {f \in Permutations(Nodes) : {{f[n] : n \in R} : R \in RootSets} = RootSets}
=============================================================================
