------------------------------ MODULE Admission -----------------------------
(***************************************************************************)
(* What a link that can be taken back promises to those outside, who see   *)
(* links handed out, requests, answers, and no denylist: whoever gets      *)
(* something under a link had asked for it before the owner was told that  *)
(* the link is closed.  A request that is under way by then may still go   *)
(* through, and nothing is taken from those who have it.                   *)
(*                                                                         *)
(* This is weaker than Grants, where a grant is open at the moment of      *)
(* getting.  ShareLinks is shown to implement it.                          *)
(***************************************************************************)
CONSTANTS Links, Users

VARIABLES
    given,      \* the links handed out
    closed,     \* the links whose owner was told that they are closed
    asking,     \* pairs of a user and the link of a request under way
    holding     \* pairs of a user and the link the user got something under

vars == <<given, closed, asking, holding>>

Init == given = {} /\ closed = {} /\ asking = {} /\ holding = {}

Give(l) ==
    /\ l \notin given
    /\ given' = given \cup {l}
    /\ UNCHANGED <<closed, asking, holding>>

Close(l) ==
    /\ l \in given \ closed
    /\ closed' = closed \cup {l}
    /\ UNCHANGED <<given, asking, holding>>

Ask(u, l) ==
    /\ l \in given \ closed
    /\ asking' = asking \cup {<<u, l>>}
    /\ UNCHANGED <<given, closed, holding>>

\* The link may have been closed since it was asked.
Hold(u, l) ==
    /\ <<u, l>> \in asking
    /\ asking' = asking \ {<<u, l>>}
    /\ holding' = holding \cup {<<u, l>>}
    /\ UNCHANGED <<given, closed>>

Quit(u) ==
    /\ asking' = {a \in asking : a[1] # u}
    /\ holding' = {h \in holding : h[1] # u}
    /\ UNCHANGED <<given, closed>>

Next ==
    \/ \E l \in Links : Give(l) \/ Close(l)
    \/ \E u \in Users : Quit(u) \/ \E l \in Links : Ask(u, l) \/ Hold(u, l)

Spec == Init /\ [][Next]_vars
=============================================================================
