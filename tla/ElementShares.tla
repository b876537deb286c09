---------------------------- MODULE ElementShares ---------------------------
(***************************************************************************)
(* Shares of a part of a diagram: the handlers of                          *)
(* app/controllers/element_shares.go over table element_shares, with the   *)
(* audience check of app/auth/membership and the denylist of share links.  *)
(*                                                                         *)
(* Each SQL statement of a handler is one step.  Between them others       *)
(* revoke, import, delete the diagram, or leave the company or group a     *)
(* share was made for.                                                     *)
(***************************************************************************)
EXTENDS Naturals, Sequences, FiniteSets

CONSTANTS
    Shares,     \* share ids, which are fresh UUIDs
    Dags,       \* diagram ids
    Users,      \* user names
    Companies,  \* company ids
    Groups,     \* group ids
    Offers,     \* whom a request may name, and whether for the catalog
    MaxJoined,  \* bound on the pairs of a user and a company or group
    Requests,   \* handlers that run at once
    Absent,     \* no such row
    Nobody,     \* a caller without authentication
    NoDag       \* source_dag_id IS NULL

\* The ids of an audience are user names, companies or groups, by its kind.
Audience(kinds) ==
    [kind : kinds, ids : SUBSET (Users \cup Companies \cup Groups), catalog : BOOLEAN]

\* Kinds of audience in the table, "other" for any string without a meaning.
Kinds == {"public", "user", "company", "group", "other"}

Row == [to : Audience(Kinds), by : Users, source : Dags \cup {NoDag}, revoked : BOOLEAN,
        importedBy : Seq(Users)]

ASSUME OffersAssumption == Offers \subseteq Audience(Kinds \cup {""})
ASSUME ValuesAssumption == Absent \notin Row /\ Nobody \notin Users /\ NoDag \notin Dags

VARIABLES
    share,      \* table element_shares
    expired,    \* shares whose expires_at has passed
    denied,     \* shares whose jti is in share_denylist
    dags,       \* the diagrams there are
    belongs,    \* memberships and group_members: pairs of a user and an id
    req,        \* what each handler has found so far, or answered
    ended,      \* history variable: shares whose revocation was answered
    once        \* history variable: pairs that are or were in belongs

table == <<share, expired, denied, dags, belongs>>
ghost == <<ended, once>>
vars == <<table, req, ghost>>
-----------------------------------------------------------------------------
Idle == [op |-> "idle"]

Request ==
         {Idle}
    \cup [op : {"creating"}, by : Users, source : Dags, to : Audience(Kinds)]
    \cup [op : {"exchanging"}, user : {Nobody}, share : Shares, late : BOOLEAN]
    \cup [op : {"getting", "importing", "appending", "imported"},
          user : Users, share : Shares, late : BOOLEAN]
    \cup [op : {"opened"}, user : Users \cup {Nobody}, share : Shares, late : BOOLEAN]
    \cup [op : {"revoking", "denying"}, share : Shares]
    \cup [op : {"grouping"}, user : Users, companies : SUBSET Companies]
    \cup [op : {"listing"}, user : Users, companies : SUBSET Companies, groups : SUBSET Groups]
    \cup [op : {"listed"}, user : Users \cup {Nobody}, shares : SUBSET Shares]

Proceed(r, now) == req' = [req EXCEPT ![r] = now]

Exists(s) == share[s] # Absent

IsPublic(s) == share[s].to.kind = "public"

\* Mutant: the query has no WHERE.
IdsOfAnyone(u, kind) == {i \in kind : \E v \in Users : <<v, i>> \in belongs}

\* What GetUserCompanyIds or GetUserGroupIds returns, for companies or groups.
IdsOf(u, kind) == {i \in kind : <<u, i>> \in belongs}

\* Mutant: the audiences of companies are compared with no one.
InAudienceButCompany(u, to) ==
    \/ to.kind = "public"
    \/ to.kind = "user" /\ u \in to.ids
    \/ to.kind = "group" /\ IdsOf(u, Groups) \cap to.ids # {}

\* UserInAudience
InAudience(u, to) ==
    \/ to.kind = "public"
    \/ to.kind = "user" /\ u \in to.ids
    \/ to.kind = "company" /\ IdsOf(u, Companies) \cap to.ids # {}
    \/ to.kind = "group" /\ IdsOf(u, Groups) \cap to.ids # {}

Init ==
    /\ share = [s \in Shares |-> Absent]
    /\ expired = {} /\ denied = {}
    /\ dags = Dags
    /\ belongs = {}
    /\ req = [r \in Requests |-> Idle]
    /\ ended = {} /\ once = {}
-----------------------------------------------------------------------------
\* A request without an audience means everyone.
Normal(to) == IF to.kind = "" THEN [to EXCEPT !.kind = "public"] ELSE to

\* createElementShare reads the diagram and extracts the part of it ...
CreateRead(r, u, d, to) ==
    /\ req[r] = Idle
    /\ d \in dags
    /\ Proceed(r, [op |-> "creating", by |-> u, source |-> d, to |-> Normal(to)])
    /\ UNCHANGED <<table, ghost>>

\* Mutant: source_dag_id is no foreign key.
CreateUnchecked(r, s) ==
    /\ req[r].op = "creating"
    /\ ~ Exists(s)
    /\ share' = [share EXCEPT ![s] =
                    [to |-> req[r].to, by |-> req[r].by, source |-> req[r].source,
                     revoked |-> FALSE, importedBy |-> <<>>]]
    /\ Proceed(r, Idle)
    /\ UNCHANGED <<expired, denied, dags, belongs, ghost>>

\* ... and inserts the share, which a foreign key refuses if the diagram was
\* deleted since.  A public share has a jti, and a token with it.
Create(r, s) ==
    /\ req[r].op = "creating"
    /\ req[r].source \in dags
    /\ ~ Exists(s)
    /\ share' = [share EXCEPT ![s] =
                    [to |-> req[r].to, by |-> req[r].by, source |-> req[r].source,
                     revoked |-> FALSE, importedBy |-> <<>>]]
    /\ Proceed(r, Idle)
    /\ UNCHANGED <<expired, denied, dags, belongs, ghost>>

\* exchangeElementShare: the token has not run out, and is not denied ...
ExchangeCheck(r, s) ==
    /\ req[r] = Idle
    /\ Exists(s) /\ IsPublic(s)
    /\ s \notin expired
    /\ s \notin denied
    /\ Proceed(r, [op |-> "exchanging", user |-> Nobody, share |-> s, late |-> s \in ended])
    /\ UNCHANGED <<table, ghost>>

\* Mutant: the denylist alone decides.
ExchangeDenylistOnly(r) ==
    /\ req[r].op = "exchanging"
    /\ Proceed(r, [req[r] EXCEPT !.op = "opened"])
    /\ UNCHANGED <<table, ghost>>

\* ... and the row is not revoked.
Exchange(r) ==
    /\ req[r].op = "exchanging"
    /\ ~ share[req[r].share].revoked
    /\ Proceed(r, [req[r] EXCEPT !.op = "opened"])
    /\ UNCHANGED <<table, ghost>>

\* getElementShare and importElementShare begin alike.  Neither looks at
\* expires_at.
GetRow(r, u, s, op) ==
    /\ op \in {"getting", "importing"}
    /\ req[r] = Idle
    /\ Exists(s)
    /\ ~ share[s].revoked
    /\ Proceed(r, [op |-> op, user |-> u, share |-> s, late |-> s \in ended])
    /\ UNCHANGED <<table, ghost>>

\* The audience of a share never changes, but who is in it may have by now.
CheckAudience(r) ==
    /\ req[r].op \in {"getting", "importing"}
    /\ LET row == share[req[r].share]
       IN  InAudience(req[r].user, row.to) \/ row.by = req[r].user
    /\ Proceed(r, [req[r] EXCEPT !.op = IF @ = "getting" THEN "opened" ELSE "appending"])
    /\ UNCHANGED <<table, ghost>>

\* Mutant: the UPDATE lost its condition.
AppendAlways(seq, u) == Append(seq, u)

\* array_append(imported_by, u) WHERE NOT (u = ANY(imported_by))
AppendOnce(seq, u) == IF \E i \in DOMAIN seq : seq[i] = u THEN seq ELSE Append(seq, u)

\* AppendImportedBy, whether or not the share was revoked since.
Import(r) ==
    /\ req[r].op = "appending"
    /\ share' = [share EXCEPT ![req[r].share].importedBy = AppendOnce(@, req[r].user)]
    /\ Proceed(r, [req[r] EXCEPT !.op = "imported"])
    /\ UNCHANGED <<expired, denied, dags, belongs, ghost>>

\* revokeElementShare, for whoever made the share ...
RevokeRead(r, u, s) ==
    /\ req[r] = Idle
    /\ Exists(s)
    /\ share[s].by = u
    /\ Proceed(r, [op |-> "revoking", share |-> s])
    /\ UNCHANGED <<table, ghost>>

Revoke(r) ==
    /\ req[r].op = "revoking"
    /\ share' = [share EXCEPT ![req[r].share].revoked = TRUE]
    /\ Proceed(r, [op |-> "denying", share |-> req[r].share])
    /\ UNCHANGED <<expired, denied, dags, belongs, ghost>>

\* ... then the denylist, for a share with a link.  An error is ignored.
Deny(r) ==
    /\ req[r].op = "denying"
    /\ \/ IsPublic(req[r].share) /\ denied' = denied \cup {req[r].share}
       \/ denied' = denied
    /\ ended' = ended \cup {req[r].share}
    /\ Proceed(r, Idle)
    /\ UNCHANGED <<share, expired, dags, belongs, once>>
-----------------------------------------------------------------------------
\* listInbox asks for the companies of the caller, then for their groups; one
\* statement or the other may see them before a change.
InboxCompanies(r, u) ==
    /\ req[r] = Idle
    /\ Proceed(r, [op |-> "grouping", user |-> u, companies |-> IdsOf(u, Companies)])
    /\ UNCHANGED <<table, ghost>>

InboxGroups(r) ==
    /\ req[r].op = "grouping"
    /\ Proceed(r, [op |-> "listing", user |-> req[r].user, companies |-> req[r].companies,
                   groups |-> IdsOf(req[r].user, Groups)])
    /\ UNCHANGED <<table, ghost>>

\* The condition of ListInboxShares.
ForInbox(to, by, u, companies, groups) ==
    \/ to.kind = "user" /\ u \in to.ids
    \/ to.kind = "company" /\ by # u /\ to.ids \cap companies # {}
    \/ to.kind = "group" /\ by # u /\ to.ids \cap groups # {}

Live(s) == Exists(s) /\ ~ share[s].revoked /\ s \notin expired

Inbox(r) ==
    /\ req[r].op = "listing"
    /\ Proceed(r, [op |-> "listed", user |-> req[r].user,
                   shares |-> {s \in Shares : Live(s) /\ ForInbox(share[s].to, share[s].by,
                                              req[r].user, req[r].companies, req[r].groups)}])
    /\ UNCHANGED <<table, ghost>>

\* listCatalog, which hands out a new token for each entry.
Catalog(r) ==
    /\ req[r] = Idle
    /\ Proceed(r, [op |-> "listed", user |-> Nobody,
                   shares |-> {s \in Shares : Live(s) /\ share[s].to.catalog /\ IsPublic(s)}])
    /\ UNCHANGED <<table, ghost>>

\* The answer is sent; or a check or a statement fails, and the answer is an
\* error; or the process stops.
End(r) ==
    /\ req[r] # Idle
    /\ Proceed(r, Idle)
    /\ UNCHANGED <<table, ghost>>
-----------------------------------------------------------------------------
\* expires_at passes.
Expire(s) ==
    /\ Exists(s)
    /\ expired' = expired \cup {s}
    /\ UNCHANGED <<share, denied, dags, belongs, req, ghost>>

\* deleteDAG: the shares of the diagram stay and forget where they are from.
DeleteDag(d) ==
    /\ d \in dags
    /\ dags' = dags \ {d}
    /\ share' = [s \in Shares |-> IF Exists(s) /\ share[s].source = d
                                  THEN [share[s] EXCEPT !.source = NoDag]
                                  ELSE share[s]]
    /\ UNCHANGED <<expired, denied, belongs, req, ghost>>

\* A membership of a company or group comes and goes.
Joins(u, i) ==
    /\ Cardinality(once \cup {<<u, i>>}) <= MaxJoined
    /\ belongs' = belongs \cup {<<u, i>>}
    /\ once' = once \cup {<<u, i>>}
    /\ UNCHANGED <<share, expired, denied, dags, req, ended>>

Leaves(u, i) ==
    /\ <<u, i>> \in belongs
    /\ belongs' = belongs \ {<<u, i>>}
    /\ UNCHANGED <<share, expired, denied, dags, req, ghost>>

Handler(r) ==
    \/ \E u \in Users, d \in Dags, to \in Offers : CreateRead(r, u, d, to)
    \/ \E s \in Shares :
          \/ Create(r, s) \/ ExchangeCheck(r, s)
          \/ \E u \in Users : RevokeRead(r, u, s)
          \/ \E u \in Users, op \in {"getting", "importing"} : GetRow(r, u, s, op)
    \/ Exchange(r) \/ CheckAudience(r) \/ Import(r) \/ Revoke(r) \/ Deny(r)
    \/ \E u \in Users : InboxCompanies(r, u)
    \/ InboxGroups(r) \/ Inbox(r) \/ Catalog(r) \/ End(r)

Next ==
    \/ \E r \in Requests : Handler(r)
    \/ \E s \in Shares : Expire(s)
    \/ \E d \in Dags : DeleteDag(d)
    \/ \E u \in Users, i \in Companies \cup Groups : Joins(u, i) \/ Leaves(u, i)

Spec == Init /\ [][Next]_vars
-----------------------------------------------------------------------------
TypeOK ==
    /\ share \in [Shares -> Row \cup {Absent}]
    /\ expired \subseteq Shares /\ denied \subseteq Shares /\ ended \subseteq Shares
    /\ dags \subseteq Dags
    /\ belongs \subseteq once
    /\ once \subseteq Users \X (Companies \cup Groups)
    /\ req \in [Requests -> Request]

\* A deleted diagram is the source of no share, not even of one that was being
\* made meanwhile.
SourceExists == \A s \in Shares : Exists(s) => share[s].source \in dags \cup {NoDag}

\* Every user whose import was answered is counted, once.
ImportsCounted ==
    /\ \A s \in Shares : Exists(s) =>
          \A i, j \in DOMAIN share[s].importedBy :
              share[s].importedBy[i] = share[s].importedBy[j] => i = j
    /\ \A r \in Requests : req[r].op = "imported" =>
          \E i \in DOMAIN share[req[r].share].importedBy :
              share[req[r].share].importedBy[i] = req[r].user

\* Once a revocation was answered, no request that comes later opens the share
\* or imports it, although the denylist may have missed it.
RevokedStaysClosed ==
    \A r \in Requests : req[r].op \in {"opened", "appending", "imported"} => ~ req[r].late

\* The share was made by u, for everyone, for u, or for what u is or was in.
For(s, u) ==
    \/ share[s].by = u
    \/ share[s].to.kind = "public"
    \/ share[s].to.kind = "user" /\ u \in share[s].to.ids
    \/ /\ share[s].to.kind \in {"company", "group"}
       /\ \E i \in share[s].to.ids : <<u, i>> \in once

\* Nobody gets to see a share, in the inbox or the catalog, by a link or by
\* importing it, whom it was not made for.
AudienceOnly ==
    /\ \A r \in Requests :
          /\ req[r].op \in {"opened", "imported"} => For(req[r].share, req[r].user)
          /\ req[r].op = "listed" => \A s \in req[r].shares : For(s, req[r].user)
    /\ \A s \in Shares : Exists(s) =>
          \A i \in DOMAIN share[s].importedBy : For(s, share[s].importedBy[i])

\* The inbox, which decides in SQL, lists what UserInAudience lets a user open
\* and nothing else, apart from public shares and from their own.
InboxAgrees ==
    \A s \in Shares, u \in Users : Exists(s) /\ ~ IsPublic(s) /\ share[s].by # u =>
        (InAudience(u, share[s].to)
            <=> ForInbox(share[s].to, share[s].by, u, IdsOf(u, Companies), IdsOf(u, Groups)))

\* Whoever has the answer to a look at the row, by an exchange or by the id,
\* has it from a moment when the share was not revoked.
Grant == INSTANCE Grants WITH
    Links <- Shares,
    Users <- Requests,
    given <- {s \in Shares : Exists(s)},
    closed <- {s \in Shares : Exists(s) /\ share[s].revoked},
    holding <- {<<r, req[r].share>> : r \in {q \in Requests : req[q].op \in
                    {"getting", "importing", "appending", "opened", "imported"}}}
ImplementsGrants == Grant!Spec
=============================================================================
