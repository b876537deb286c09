--------------------------- MODULE MCOrganisation ---------------------------
(***************************************************************************)
(* Instances of Organisation for TLC.                                      *)
(***************************************************************************)
EXTENDS Organisation, TLC

Symmetry == Permutations(Users) \cup Permutations(Groups) \cup Permutations(Requests)
=============================================================================
