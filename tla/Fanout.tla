-------------------------------- MODULE Fanout ------------------------------
(***************************************************************************)
(* What a hub with rooms promises: a post is owed to all who are in the    *)
(* room at one moment, but for the poster, and to nobody else; each of     *)
(* them is served once; and nobody who is owed a post leaves before that.  *)
(*                                                                         *)
(* CollabHub is shown to implement it, with a lock in the place of the     *)
(* moment and a loop over the room in the place of the posts.              *)
(***************************************************************************)
CONSTANTS Members, Rooms, Posters

VARIABLES
    present,    \* pairs of a member and the room it is in
    owed        \* pairs of a poster and a member its post is owed to

vars == <<present, owed>>

Audience(d) == {c \in Members : <<c, d>> \in present}

Init == present = {} /\ owed = {}

\* A member is in one room at most.
Enter(c, d) ==
    /\ \A e \in Rooms : <<c, e>> \notin present
    /\ present' = present \cup {<<c, d>>}
    /\ UNCHANGED owed

Quit(c, d) ==
    /\ <<c, d>> \in present
    /\ \A p \in Posters : <<p, c>> \notin owed
    /\ present' = present \ {<<c, d>>}
    /\ UNCHANGED owed

\* One post at a time.  A member posts to its own room only.
Post(p, d) ==
    /\ \A c \in Members : <<p, c>> \notin owed
    /\ p \in Members => <<p, d>> \in present
    /\ owed' = owed \cup {<<p, c>> : c \in Audience(d) \ {p}}
    /\ UNCHANGED present

Serve(p, c) ==
    /\ <<p, c>> \in owed
    /\ owed' = owed \ {<<p, c>>}
    /\ UNCHANGED present

Next ==
    \/ \E c \in Members, d \in Rooms : Enter(c, d) \/ Quit(c, d)
    \/ \E p \in Posters : (\E d \in Rooms : Post(p, d)) \/ (\E c \in Members : Serve(p, c))

Spec == Init /\ [][Next]_vars
=============================================================================
