---------------------------- MODULE MCCollabHub ----------------------------
(***************************************************************************)
(* Instances of CollabHub for TLC.                                         *)
(***************************************************************************)
EXTENDS CollabHub, TLC

Symmetry == Permutations(Dags) \cup Permutations(Clients) \cup Permutations(Saves)
=============================================================================
