------------------------------ MODULE ShareLinks ----------------------------
(***************************************************************************)
(* Share links of a diagram: createShare, revokeShare and exchangeShare of *)
(* app/controllers/shares.go over tables shares and share_denylist, and    *)
(* the handlers of app/controllers/dag.go that open or write a diagram     *)
(* under a share token: dagWS, updateDAG and restoreDAGHistory.            *)
(*                                                                         *)
(* Of the handlers that the middleware lets a share token into, dagWS      *)
(* alone asks the denylist, updateDAG alone the role, and none compares    *)
(* the diagram of the token with that of its path.  createShare,           *)
(* revokeShare, createDAG and deleteDAG ask a token for nothing: their     *)
(* actions are anybody's, somebody's with a share token included.          *)
(*                                                                         *)
(* A link is known by its jti.  Its token is signed, never stored, and     *)
(* carries the diagram, the role and the time it runs out.  Every SQL      *)
(* statement is one step, and so is the check of a token, which reads the  *)
(* clock.                                                                  *)
(***************************************************************************)
CONSTANTS
    Links,      \* jtis, which are fresh UUIDs
    Dags,       \* diagram ids
    Requests,   \* handlers that run at once, open sockets included
    Absent      \* no such row, no such token

Roles == {"view", "edit"}

Claims == [dag : Dags, role : Roles]

ASSUME AbsentAssumption == Absent \notin Claims

VARIABLES
    dags,       \* the diagrams there are
    share,      \* table shares
    denied,     \* table share_denylist
    token,      \* the tokens that were handed out
    expired,    \* links whose token has run out
    req,        \* where each handler is
    made,       \* history variable: jtis ever used
    lost,       \* history variable: links whose diagram was deleted
    editors,    \* history variable: links that were asked for with role "edit"
    ended       \* history variable: links whose revocation was answered

table == <<dags, share, denied>>
ghost == <<made, lost, editors, ended>>
vars == <<table, token, expired, req, ghost>>
-----------------------------------------------------------------------------
Idle == [op |-> "idle"]

\* Handlers that the denylist has let in, and then what they answer or open.
LetIn == {"naming", "opening", "exchanged", "joined"}
Got == {"exchanged", "joined"}

\* What a token can be presented for, and all that comes of it.
Uses == {"exchanging", "upgrading", "updating", "restoring"}
Presented == Uses \cup LetIn \cup {"saving", "restored"}

Request ==
         {Idle}
    \cup [op : {"made"}, link : Links, token : Claims]
    \cup [op : {"revoked"}, link : Links]
    \cup [op : Presented, link : Links, late : BOOLEAN]

Proceed(r, now) == req' = [req EXCEPT ![r] = now]

\* Mutant: the default is the other role.
RoleOrEdit(role) == IF role \in Roles THEN role ELSE "edit"

\* A role that is neither is "view".
NormalRole(role) == IF role \in Roles THEN role ELSE "view"

Init ==
    /\ dags = Dags
    /\ share = [l \in Links |-> Absent]
    /\ denied = {}
    /\ token = [l \in Links |-> Absent]
    /\ expired = {}
    /\ req = [r \in Requests |-> Idle]
    /\ made = {} /\ lost = {} /\ editors = {} /\ ended = {}
-----------------------------------------------------------------------------
\* Mutant: an error of CreateShare is ignored.
CreateUnrecorded(r, l, d, role, past) ==
    /\ req[r] = Idle
    /\ l \notin made
    /\ LET claims == [dag |-> d, role |-> NormalRole(role)]
       IN  /\ share' = IF d \in dags THEN [share EXCEPT ![l] = claims] ELSE share
           /\ Proceed(r, [op |-> "made", link |-> l, token |-> claims])
    /\ made' = made \cup {l}
    /\ editors' = IF role = "edit" THEN editors \cup {l} ELSE editors
    /\ expired' = IF past THEN expired \cup {l} ELSE expired
    /\ UNCHANGED <<dags, denied, token, lost, ended>>

\* createShare signs a token and inserts the row, which a foreign key refuses
\* if the diagram is gone.  The number of days is the client's and may be past
\* what a time.Duration holds, so that the link has run out from the start.
Create(r, l, d, role, past) ==
    /\ req[r] = Idle
    /\ l \notin made
    /\ d \in dags
    /\ LET claims == [dag |-> d, role |-> NormalRole(role)]
       IN  /\ share' = [share EXCEPT ![l] = claims]
           /\ Proceed(r, [op |-> "made", link |-> l, token |-> claims])
    /\ made' = made \cup {l}
    /\ editors' = IF role = "edit" THEN editors \cup {l} ELSE editors
    /\ expired' = IF past THEN expired \cup {l} ELSE expired
    /\ UNCHANGED <<dags, denied, token, lost, ended>>

\* ... and hands the token out with the answer.
HandOut(r) ==
    /\ req[r].op = "made"
    /\ token' = [token EXCEPT ![req[r].link] = req[r].token]
    /\ Proceed(r, Idle)
    /\ UNCHANGED <<table, expired, ghost>>

\* Mutant: an error of RevokeShare is ignored.
RevokeUnrecorded(r, l) ==
    /\ req[r] = Idle
    /\ token[l] # Absent
    /\ denied' \in {denied, denied \cup {l}}
    /\ Proceed(r, [op |-> "revoked", link |-> l])
    /\ UNCHANGED <<dags, share, token, expired, ghost>>

\* RevokeShare inserts the jti, or renews its time.
Revoke(r, l) ==
    /\ req[r] = Idle
    /\ token[l] # Absent
    /\ denied' = denied \cup {l}
    /\ Proceed(r, [op |-> "revoked", link |-> l])
    /\ UNCHANGED <<dags, share, token, expired, ghost>>

Confirm(r) ==
    /\ req[r].op = "revoked"
    /\ ended' = ended \cup {req[r].link}
    /\ Proceed(r, Idle)
    /\ UNCHANGED <<table, token, expired, made, lost, editors>>

\* Somebody has the token of the link, and it has not run out.
Valid(l) == token[l] # Absent /\ l \notin expired

\* A request with the token of a link, which exchangeShare itself checks, and
\* the JWT middleware for the handlers of dag.go.
Present(r, l, op) ==
    /\ req[r] = Idle
    /\ Valid(l)
    /\ op \in Uses
    /\ Proceed(r, [op |-> op, link |-> l, late |-> l \in ended])
    /\ UNCHANGED <<table, token, expired, ghost>>

IsRevoked(l) == l \in denied

\* Mutant: the socket is opened without a look at the denylist.
AdmitSockets(r) ==
    /\ \/ /\ req[r].op = "exchanging"
          /\ ~ IsRevoked(req[r].link)
          /\ Proceed(r, [req[r] EXCEPT !.op = "naming"])
       \/ /\ req[r].op = "upgrading"
          /\ Proceed(r, [req[r] EXCEPT !.op = "opening"])
    /\ UNCHANGED <<table, token, expired, ghost>>

\* The denylist is asked once, by exchangeShare and by dagWS; what it says may
\* be old when the handler goes on.
Admit(r) ==
    /\ req[r].op \in {"exchanging", "upgrading"}
    /\ ~ IsRevoked(req[r].link)
    /\ Proceed(r, [req[r] EXCEPT !.op = IF @ = "exchanging" THEN "naming" ELSE "opening"])
    /\ UNCHANGED <<table, token, expired, ghost>>

\* dagWS upgrades the connection and joins the room, where the client stays
\* until the socket ends, whatever becomes of the link.
Open(r) ==
    /\ req[r].op = "opening"
    /\ Proceed(r, [req[r] EXCEPT !.op = "joined"])
    /\ UNCHANGED <<table, token, expired, ghost>>

\* exchangeShare answers with what the token says, and the name in the row.
Name(r) ==
    /\ req[r].op = "naming"
    /\ share[req[r].link] # Absent
    /\ Proceed(r, [req[r] EXCEPT !.op = "exchanged"])
    /\ UNCHANGED <<table, token, expired, ghost>>

\* updateDAG asks the token for the role, and does not ask the denylist.
CheckRole(r) ==
    /\ req[r].op = "updating"
    /\ token[req[r].link].role = "edit"
    /\ Proceed(r, [req[r] EXCEPT !.op = "saving"])
    /\ UNCHANGED <<table, token, expired, ghost>>

\* restoreDAGHistory writes the diagram and asks neither role nor denylist.
Restore(r) ==
    /\ req[r].op = "restoring"
    /\ Proceed(r, [req[r] EXCEPT !.op = "restored"])
    /\ UNCHANGED <<table, token, expired, ghost>>

\* The answer is sent, or is an error; the socket is closed; a statement fails
\* or the process stops, and what was not answered never will be.
End(r) ==
    /\ req[r] # Idle
    /\ Proceed(r, Idle)
    /\ UNCHANGED <<table, token, expired, ghost>>
-----------------------------------------------------------------------------
\* The clock passes the exp of a token.
Expire(l) ==
    /\ l \in made
    /\ expired' = expired \cup {l}
    /\ UNCHANGED <<table, token, req, ghost>>

\* createDAG, which may be given the id of a diagram that was deleted.
CreateDag(d) ==
    /\ dags' = dags \cup {d}
    /\ UNCHANGED <<share, denied, token, expired, req, ghost>>

\* The links of diagram d.
LinksOf(d) == {l \in Links : share[l] # Absent /\ share[l].dag = d}

\* Mutant: shares has no ON DELETE CASCADE.
DeleteDagOnly(d) ==
    /\ dags' = dags \ {d}
    /\ lost' = lost \cup LinksOf(d)
    /\ UNCHANGED <<share, denied, token, expired, req, made, editors, ended>>

\* deleteDAG; the foreign key of shares cascades.  Tokens and denylist stay.
DeleteDag(d) ==
    /\ dags' = dags \ {d}
    /\ share' = [l \in Links |-> IF l \in LinksOf(d) THEN Absent ELSE share[l]]
    /\ lost' = lost \cup LinksOf(d)
    /\ UNCHANGED <<denied, token, expired, req, made, editors, ended>>

Handler(r) ==
    \/ \E l \in Links :
          \/ \E d \in Dags, role \in Roles \cup {"other"}, past \in BOOLEAN :
                Create(r, l, d, role, past)
          \/ Revoke(r, l)
          \/ \E op \in Uses : Present(r, l, op)
    \/ HandOut(r) \/ Confirm(r) \/ Admit(r) \/ Name(r) \/ Open(r)
    \/ CheckRole(r) \/ Restore(r) \/ End(r)

Next ==
    \/ \E r \in Requests : Handler(r)
    \/ \E l \in Links : Expire(l)
    \/ \E d \in Dags : CreateDag(d) \/ DeleteDag(d)

Spec == Init /\ [][Next]_vars
-----------------------------------------------------------------------------
TypeOK ==
    /\ dags \subseteq Dags
    /\ share \in [Links -> Claims \cup {Absent}]
    /\ token \in [Links -> Claims \cup {Absent}]
    /\ req \in [Requests -> Request]
    /\ denied \subseteq Links /\ expired \subseteq Links
    /\ made \subseteq Links /\ lost \subseteq Links
    /\ editors \subseteq Links /\ ended \subseteq Links

\* "Revoked JTIs are ... checked on WS upgrade and token exchange": a request
\* that comes after a revocation was answered is not let in, by dagWS or by
\* exchangeShare, whatever became of the diagram and of the row of the link.
RevokedOpensNothing == \A r \in Requests : req[r].op \in LetIn => ~ req[r].late

\* A link lives no longer than its diagram, not even one that is made while
\* the diagram is being deleted.
NoOrphanLinks == \A l \in Links : share[l] # Absent => share[l].dag \in dags

\* A token in somebody's hands says what the row says, so that its exchange
\* finds a name, or else its diagram was deleted since it was made.
TokensRecorded == \A l \in Links : token[l] # Absent => share[l] = token[l] \/ l \in lost

\* "view - POST /dag/:dag/update returns 403": updateDAG saves only under a link
\* that somebody asked to be one for editing; neither the default of createShare
\* nor the claims of another link get a viewer past its check of the role.  It
\* is a promise of that one route: Restore writes under any link.
ViewersDoNotUpdate == \A r \in Requests : req[r].op = "saving" => req[r].link \in editors

\* Seen from outside, where there is no denylist: whoever is answered by
\* exchangeShare or has a socket of dagWS had asked before the owner was told
\* that the link is revoked, though a revocation may come at any moment between
\* the checks of the handler and what it does after them.
Door == INSTANCE Admission WITH
    Users <- Requests,
    given <- {l \in Links : token[l] # Absent},
    closed <- ended,
    asking <- {<<r, req[r].link>> : r \in {q \in Requests :
                  req[q].op \in {"exchanging", "upgrading", "naming", "opening"} /\ ~ req[q].late}},
    holding <- {<<r, req[r].link>> : r \in {q \in Requests : req[q].op \in Got}}
ImplementsAdmission == Door!Spec
=============================================================================
