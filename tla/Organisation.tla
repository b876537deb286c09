---------------------------- MODULE Organisation ----------------------------
(***************************************************************************)
(* Companies, their members, their groups and the members of those: the    *)
(* handlers of app/controllers/companies.go and groups.go, and the groups  *)
(* a login through LDAP brings along (app/auth/ldap/ldap.go), over the     *)
(* tables companies, memberships, user_groups and group_members.           *)
(*                                                                         *)
(* A handler is a few SQL statements, each of them one step.  What it read *)
(* with one of them it holds in req while others change the tables.        *)
(***************************************************************************)
EXTENDS Naturals, FiniteSets

CONSTANTS
    Companies,  \* company ids, which are UUIDs: none is used twice
    Groups,     \* group ids, likewise
    Users,      \* user names
    Refs,       \* distinguished names of groups of the directory
    LdapCompany,\* ldap_company_id of the configuration
    Requests,   \* handlers that run at once
    Fresh,      \* an id not given out yet
    Gone,       \* the id of a deleted row
    None        \* no external_ref

ASSUME CompaniesAssumption == LdapCompany \in Companies
ASSUME ValuesAssumption ==
    /\ Fresh # Gone
    /\ {Fresh, Gone} \cap (Users \cup [company : Companies, ref : Refs \cup {None}]) = {}
    /\ None \notin Refs

VARIABLES
    company,    \* table companies: created_by of each row
    member,     \* table memberships: pairs of a user and a company
    group,      \* table user_groups: company_id and external_ref of each row
    gmember,    \* table group_members: pairs of a group and a user
    req,        \* what each handler has found so far
    known,      \* companies whose creation was answered: others have the id
    removed     \* history variable: members whom an owner has removed

table == <<company, member, group, gmember>>
ghost == <<known, removed>>
vars == <<table, req, ghost>>
-----------------------------------------------------------------------------
Group == [company : Companies, ref : Refs \cup {None}]

Idle == [op |-> "idle"]

Request ==
         {Idle}
    \cup [op : {"enroll"}, by : Users, company : Companies]
    \cup [op : {"owner", "member"}, by : Users, company : Companies]
    \cup [op : {"group"}, by : Users, group : Groups, company : Companies]
    \cup [op : {"change"}, group : Groups, company : Companies, refused : BOOLEAN]
    \cup [op : {"join"}, group : Groups, user : Users, refused : BOOLEAN]
    \cup [op : {"sync"}, user : Users, left : SUBSET Refs]
    \cup [op : {"synced"}, user : Users, left : SUBSET Refs, group : Groups]

Exists(c) == company[c] \in Users

GroupExists(g) == group[g] \in Group

Proceed(r, now) == req' = [req EXCEPT ![r] = now]

Init ==
    /\ company = [c \in Companies |-> Fresh]
    /\ member = {}
    /\ group = [g \in Groups |-> Fresh]
    /\ gmember = {}
    /\ req = [r \in Requests |-> Idle]
    /\ known = {}
    /\ removed = {}
-----------------------------------------------------------------------------
\* createCompany: the company first ...
CreateCompany(r, u, c) ==
    /\ req[r] = Idle
    /\ company[c] = Fresh
    /\ company' = [company EXCEPT ![c] = u]
    /\ Proceed(r, [op |-> "enroll", by |-> u, company |-> c])
    /\ UNCHANGED <<member, group, gmember, ghost>>

\* ... then its creator as a member, and the answer.
Enroll(r) ==
    /\ req[r].op = "enroll"
    /\ member' = member \cup {<<req[r].by, req[r].company>>}
    /\ known' = known \cup {req[r].company}
    /\ Proceed(r, Idle)
    /\ UNCHANGED <<company, group, gmember, removed>>

\* GetCompany in addMember, removeMember and deleteCompany: the caller is the
\* owner, or the request ends here.
CheckOwner(r, u, c) ==
    /\ req[r] = Idle
    /\ c \in known
    /\ company[c] = u
    /\ Proceed(r, [op |-> "owner", by |-> u, company |-> c])
    /\ UNCHANGED <<table, ghost>>

\* Mutant: memberships does not refer to companies.
AddMemberUnchecked(r, u) ==
    /\ req[r].op = "owner"
    /\ member' = member \cup {<<u, req[r].company>>}
    /\ Proceed(r, Idle)
    /\ UNCHANGED <<company, group, gmember, ghost>>

\* The foreign key refuses the row of a company deleted since.
AddMember(r, u) ==
    /\ req[r].op = "owner"
    /\ Exists(req[r].company)
    /\ member' = member \cup {<<u, req[r].company>>}
    /\ Proceed(r, Idle)
    /\ UNCHANGED <<company, group, gmember, ghost>>

\* Mutant: the owner may remove themselves.
RemoveAnyMember(r, u) ==
    /\ req[r].op = "owner"
    /\ member' = member \ {<<u, req[r].company>>}
    /\ removed' = removed \cup {<<u, req[r].company>>}
    /\ Proceed(r, Idle)
    /\ UNCHANGED <<company, group, gmember, known>>

\* Memberships of groups are left alone.
RemoveMember(r, u) ==
    /\ req[r].op = "owner"
    /\ u # req[r].by
    /\ member' = member \ {<<u, req[r].company>>}
    /\ removed' = removed \cup {<<u, req[r].company>>}
    /\ Proceed(r, Idle)
    /\ UNCHANGED <<company, group, gmember, known>>

\* Everything that refers to the company goes with it.
DeleteCompany(r) ==
    /\ req[r].op = "owner"
    /\ LET c == req[r].company
           theirs == {g \in Groups : GroupExists(g) /\ group[g].company = c}
       IN  /\ company' = [company EXCEPT ![c] = Gone]
           /\ member' = {m \in member : m[2] # c}
           /\ group' = [g \in Groups |-> IF g \in theirs THEN Gone ELSE group[g]]
           /\ gmember' = {m \in gmember : m[1] \notin theirs}
    /\ Proceed(r, Idle)
    /\ UNCHANGED ghost
-----------------------------------------------------------------------------
\* createGroup: any member of the company may.
CheckMember(r, u, c) ==
    /\ req[r] = Idle
    /\ <<u, c>> \in member
    /\ Proceed(r, [op |-> "member", by |-> u, company |-> c])
    /\ UNCHANGED <<table, ghost>>

CreateGroup(r, g) ==
    /\ req[r].op = "member"
    /\ Exists(req[r].company)
    /\ group[g] = Fresh
    /\ group' = [group EXCEPT ![g] = [company |-> req[r].company, ref |-> None]]
    /\ Proceed(r, Idle)
    /\ UNCHANGED <<company, member, gmember, ghost>>

\* GetGroup in addGroupMember, removeGroupMember and deleteGroup.
GetGroup(r, u, g) ==
    /\ req[r] = Idle
    /\ GroupExists(g)
    /\ Proceed(r, [op |-> "group", by |-> u, group |-> g, company |-> group[g].company])
    /\ UNCHANGED <<table, ghost>>

\* requireGroupOrCompanyOwner answers 403 to anyone but the owner, and 500 if
\* the company is gone or could not be read.  What it then returns is what
\* ctx.JSON returned, which is nil, so that the handler goes on.
RequireOwner(r) ==
    /\ req[r].op = "group"
    /\ \E failed \in BOOLEAN :
          Proceed(r, [op |-> "change", group |-> req[r].group, company |-> req[r].company,
                      refused |-> failed \/ company[req[r].company] # req[r].by])
    /\ UNCHANGED <<table, ghost>>

\* Mutant: the new member need not belong to the company.
CheckNoJoiner(r, u) ==
    /\ req[r].op = "change"
    /\ Proceed(r, [op |-> "join", group |-> req[r].group, user |-> u,
                   refused |-> req[r].refused])
    /\ UNCHANGED <<table, ghost>>

\* addGroupMember: "New member must already belong to the company."
CheckJoiner(r, u) ==
    /\ req[r].op = "change"
    /\ <<u, req[r].company>> \in member
    /\ Proceed(r, [op |-> "join", group |-> req[r].group, user |-> u,
                   refused |-> req[r].refused])
    /\ UNCHANGED <<table, ghost>>

AddGroupMember(r) ==
    /\ req[r].op = "join"
    /\ GroupExists(req[r].group)
    /\ gmember' = gmember \cup {<<req[r].group, req[r].user>>}
    /\ Proceed(r, Idle)
    /\ UNCHANGED <<company, member, group, ghost>>

RemoveGroupMember(r, u) ==
    /\ req[r].op = "change"
    /\ gmember' = gmember \ {<<req[r].group, u>>}
    /\ Proceed(r, Idle)
    /\ UNCHANGED <<company, member, group, ghost>>

\* The row may be gone by now; the statement succeeds then, too.
DeleteGroup(r) ==
    /\ req[r].op = "change"
    /\ group' = [group EXCEPT ![req[r].group] = Gone]
    /\ gmember' = {m \in gmember : m[1] # req[r].group}
    /\ Proceed(r, Idle)
    /\ UNCHANGED <<company, member, ghost>>
-----------------------------------------------------------------------------
\* Authenticate has let u in and goes through their groups in the directory.
Login(r, u, refs) ==
    /\ req[r] = Idle
    /\ Proceed(r, [op |-> "sync", user |-> u, left |-> refs])
    /\ UNCHANGED <<table, ghost>>

Row(x) == [company |-> LdapCompany, ref |-> x]

\* Mutant: the INSERT has no ON CONFLICT and no unique index to meet.
UpsertAlwaysInserts(r, x, g) ==
    /\ req[r].op = "sync"
    /\ x \in req[r].left
    /\ Exists(LdapCompany)
    /\ group[g] = Fresh
    /\ group' = [group EXCEPT ![g] = Row(x)]
    /\ Proceed(r, [op |-> "synced", user |-> req[r].user, left |-> req[r].left \ {x}, group |-> g])
    /\ UNCHANGED <<company, member, gmember, ghost>>

\* UpsertGroupByExternalRef: a new row, or the one with that external_ref.
Upsert(r, x, g) ==
    /\ req[r].op = "sync"
    /\ x \in req[r].left
    /\ \/ group[g] = Row(x)
       \/ /\ Exists(LdapCompany)
          /\ group[g] = Fresh
          /\ \A other \in Groups : group[other] # Row(x)
    /\ group' = [group EXCEPT ![g] = Row(x)]
    /\ Proceed(r, [op |-> "synced", user |-> req[r].user, left |-> req[r].left \ {x}, group |-> g])
    /\ UNCHANGED <<company, member, gmember, ghost>>

\* A group that cannot be upserted is passed over.
UpsertFails(r, x) ==
    /\ req[r].op = "sync"
    /\ x \in req[r].left
    /\ Proceed(r, [req[r] EXCEPT !.left = @ \ {x}])
    /\ UNCHANGED <<table, ghost>>

\* AddGroupMember after the upsert.  An error, such as that of the foreign key
\* if the group was deleted since, is ignored.
SyncMember(r) ==
    /\ req[r].op = "synced"
    /\ gmember' \in {gmember} \cup
           (IF GroupExists(req[r].group) THEN {gmember \cup {<<req[r].group, req[r].user>>}} ELSE {})
    /\ Proceed(r, [op |-> "sync", user |-> req[r].user, left |-> req[r].left])
    /\ UNCHANGED <<company, member, group, ghost>>

\* A statement fails and the handler answers 500, a foreign key included; or
\* the sync is through; or the process stops.
End(r) ==
    /\ req[r] # Idle
    /\ Proceed(r, Idle)
    /\ UNCHANGED <<table, ghost>>

Handler(r) ==
    \/ \E u \in Users, c \in Companies :
          CreateCompany(r, u, c) \/ CheckOwner(r, u, c) \/ CheckMember(r, u, c)
    \/ \E u \in Users :
          AddMember(r, u) \/ RemoveMember(r, u) \/ CheckJoiner(r, u) \/ RemoveGroupMember(r, u)
    \/ Enroll(r) \/ DeleteCompany(r) \/ RequireOwner(r) \/ AddGroupMember(r) \/ DeleteGroup(r)
    \/ \E g \in Groups : CreateGroup(r, g) \/ \E u \in Users : GetGroup(r, u, g)
    \/ \E u \in Users, refs \in SUBSET Refs : Login(r, u, refs)
    \/ \E x \in Refs : UpsertFails(r, x) \/ \E g \in Groups : Upsert(r, x, g)
    \/ SyncMember(r) \/ End(r)

Next == \E r \in Requests : Handler(r)

Spec == Init /\ [][Next]_vars
-----------------------------------------------------------------------------
TypeOK ==
    /\ company \in [Companies -> Users \cup {Fresh, Gone}]
    /\ member \subseteq Users \X Companies
    /\ group \in [Groups -> Group \cup {Fresh, Gone}]
    /\ gmember \subseteq Groups \X Users
    /\ req \in [Requests -> Request]
    /\ known \subseteq Companies
    /\ removed \subseteq Users \X Companies

\* No row refers to one that is not there, although handlers insert long after
\* they have seen the company or the group they insert for.
NoOrphans ==
    /\ \A m \in member : Exists(m[2])
    /\ \A g \in Groups : GroupExists(g) => Exists(group[g].company)
    /\ \A m \in gmember : GroupExists(m[1])

\* "Creator is automatically a member", and stays one as long as the company is
\* there; a company whose second statement failed is known to nobody.
OwnerIsMember ==
    \A c \in known : Exists(c) => <<company[c], c>> \in member

\* Whoever is in a group made here belongs to its company, unless an owner has
\* removed them since: that does not take them out of the groups.
MembersOrRemoved ==
    \A m \in gmember :
        GroupExists(m[1]) /\ group[m[1]].ref = None =>
            <<m[2], group[m[1]].company>> \in member \cup removed

\* However many logins bring the same group along, there is one row for it, so
\* that they all end up in the same group.
OneGroupPerRef ==
    \A g, h \in Groups :
        GroupExists(g) /\ GroupExists(h) /\ g # h /\ group[g] = group[h] => group[g].ref = None

Refused(r) == req[r].op \in {"change", "join"} /\ req[r].refused

\* "requireGroupOrCompanyOwner returns a 403 JSON response (and the error)":
\* a request that was answered like that changes nothing any more.
RefusedChangesNothing ==
    [][\A r \in Requests : Refused(r) /\ req'[r] # req[r] => UNCHANGED table]_vars
=============================================================================
