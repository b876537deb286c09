-------------------------------- MODULE Grants ------------------------------
(***************************************************************************)
(* What a grant that can be taken back promises: whoever gets something    *)
(* from it, gets it at a moment when the grant was given and not closed.   *)
(* Closing it takes nothing away from those who have it by then.           *)
(*                                                                         *)
(* ElementShares is shown to implement it.                                 *)
(***************************************************************************)
CONSTANTS Links, Users

VARIABLES
    given,      \* the grants there are
    closed,     \* the grants taken back
    holding     \* pairs of a user and the grant the user got something from

vars == <<given, closed, holding>>

Init == given = {} /\ closed = {} /\ holding = {}

Give(l) ==
    /\ l \notin given
    /\ given' = given \cup {l}
    /\ UNCHANGED <<closed, holding>>

Close(l) ==
    /\ l \in given \ closed
    /\ closed' = closed \cup {l}
    /\ UNCHANGED <<given, holding>>

Hold(u, l) ==
    /\ l \in given \ closed
    /\ holding' = holding \cup {<<u, l>>}
    /\ UNCHANGED <<given, closed>>

Drop(u) ==
    /\ \E h \in holding : h[1] = u
    /\ holding' = {h \in holding : h[1] # u}
    /\ UNCHANGED <<given, closed>>

Next ==
    \/ \E l \in Links : Give(l) \/ Close(l)
    \/ \E u \in Users : Drop(u) \/ \E l \in Links : Hold(u, l)

Spec == Init /\ [][Next]_vars
=============================================================================
