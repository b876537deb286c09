------------------------------- MODULE MCRows -------------------------------
(***************************************************************************)
(* An instance of Rows for TLC: two diagrams and two menus (nodes and      *)
(* edges are diagrams that nothing changes).                               *)
(***************************************************************************)
EXTENDS Rows, TLC

CONSTANTS d1, d2, m1, m2

MCIds == {d1, d2, m1, m2}
MCTableOf == [i \in MCIds |-> IF i \in {d1, d2} THEN "dags" ELSE "menus"]

Symmetry ==
    Permutations({d1, d2}) \cup Permutations({m1, m2})
        \cup Permutations(Names) \cup Permutations(Requests)
=============================================================================
