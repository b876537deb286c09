-------------------------- MODULE MCElementShares --------------------------
(***************************************************************************)
(* Instances of ElementShares for TLC.                                     *)
(***************************************************************************)
EXTENDS ElementShares, TLC

CONSTANTS v, c, g

Offer(kind, ids, catalog) == [kind |-> kind, ids |-> ids, catalog |-> catalog]

\* Everyone, in the catalog, a user, a company, which does not belong in the
\* catalog, and a group.
EveryKind ==
    {Offer("", {}, TRUE), Offer("user", {v}, FALSE),
     Offer("company", {c}, TRUE), Offer("group", {g}, FALSE)}

Symmetry == Permutations(Requests)
=============================================================================
