---------------------------- MODULE MCShareLinks ----------------------------
(***************************************************************************)
(* Instances of ShareLinks for TLC.                                        *)
(***************************************************************************)
EXTENDS ShareLinks, TLC

Symmetry == Permutations(Dags) \cup Permutations(Links) \cup Permutations(Requests)
=============================================================================
