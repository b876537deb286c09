---------------------------- MODULE MCDagHistory ----------------------------
(***************************************************************************)
(* Instances of DagHistory for TLC.                                        *)
(***************************************************************************)
EXTENDS DagHistory, TLC

Symmetry == Permutations(Dags) \cup Permutations(Versions)
                \cup Permutations(Requests) \cup Permutations(Jobs)
=============================================================================
