------------------------- MODULE OrganisationProofs -------------------------
(***************************************************************************)
(* Proofs about Organisation, for any number of users, companies, groups   *)
(* and handlers.                                                           *)
(***************************************************************************)
EXTENDS Organisation, TLAPS

USE CompaniesAssumption, ValuesAssumption

-----------------------------------------------------------------------------
\* What a handler remembers is out of date only in that a row it has found may
\* be gone: rows are not given to another owner or company, and ids not reused.
Company(r) == req[r].company
OfGroup(r) == req[r].group

RememberedBy(r) ==
    /\ req[r].op = "enroll" => company[Company(r)] = req[r].by /\ Company(r) \notin known
    /\ req[r].op = "owner" => company[Company(r)] \in {req[r].by, Gone}
    /\ req[r].op \in {"group", "change"} =>
          \/ group[OfGroup(r)] = Gone
          \/ group[OfGroup(r)] \in Group /\ group[OfGroup(r)].company = Company(r)
    /\ req[r].op = "join" =>
          \/ group[OfGroup(r)] = Gone
          \/ /\ group[OfGroup(r)] \in Group
             /\ <<req[r].user, group[OfGroup(r)].company>> \in member \cup removed
    /\ req[r].op = "synced" =>
          \/ group[OfGroup(r)] = Gone
          \/ group[OfGroup(r)] \in Group /\ group[OfGroup(r)].ref # None

Remembered == \A r \in Requests : RememberedBy(r)

\* A handler that is to enroll the owner is the only one that does, and nobody
\* knows the company before.
NotYetKnown ==
    /\ \A c \in known : company[c] # Fresh
    /\ \A r \in Requests : req[r].op = "owner" => Company(r) \in known
    /\ \A q, r \in Requests :
          req[q].op = "enroll" /\ req[r].op = "enroll" /\ Company(q) = Company(r) => q = r

\* Groups with an external_ref belong to the company of the configuration.
Synced == \A g \in Groups : GroupExists(g) /\ group[g].ref # None => group[g].company = LdapCompany

OrgInv ==
    /\ TypeOK /\ Remembered /\ NotYetKnown /\ Synced
    /\ NoOrphans /\ OwnerIsMember /\ MembersOrRemoved /\ OneGroupPerRef

\* A row is told from an id that has none.
LEMMA Apart ==
    /\ Fresh \notin Group /\ Gone \notin Group
    /\ Fresh \notin Users /\ Gone \notin Users /\ Fresh # Gone
  BY DEF Group

\* A step of one handler leaves the others where they are.
LEMMA OneMoves ==
    ASSUME TypeOK, NEW r \in Requests, NEW now, Proceed(r, now)
    PROVE  req'[r] = now /\ \A q \in Requests \ {r} : req'[q] = req[q]
BY DEF Proceed, TypeOK

\* The fields that a handler's phase promises.
LEMMA Fields ==
    ASSUME TypeOK, NEW r \in Requests
    PROVE  /\ req[r].op \in {"enroll", "owner", "member"} =>
                 req[r] \in [op : {"enroll", "owner", "member"}, by : Users, company : Companies]
           /\ req[r].op = "group" =>
                 req[r] \in [op : {"group"}, by : Users, group : Groups, company : Companies]
           /\ req[r].op = "change" =>
                 req[r] \in [op : {"change"}, group : Groups, company : Companies, refused : BOOLEAN]
           /\ req[r].op = "join" =>
                 req[r] \in [op : {"join"}, group : Groups, user : Users, refused : BOOLEAN]
           /\ req[r].op = "sync" => req[r] \in [op : {"sync"}, user : Users, left : SUBSET Refs]
           /\ req[r].op = "synced" =>
                 req[r] \in [op : {"synced"}, user : Users, left : SUBSET Refs, group : Groups]
<1>1. req[r] \in Request
  BY DEF TypeOK
<1> QED BY <1>1 DEF Request, Idle

\* What the tables keep true and what the handlers of companies.go and groups.go
\* remember of them.
THEOREM OrganisationInvariant == Spec => []OrgInv
<1>1. Init => OrgInv
  <2> SUFFICES ASSUME Init PROVE OrgInv
    OBVIOUS
  <2>1. TypeOK
    BY DEF Init, TypeOK, Request
  <2>2. \A r \in Requests : req[r].op = "idle"
    BY DEF Init, Idle
  <2>3. Remembered /\ NotYetKnown
    BY <2>2 DEF Init, Remembered, RememberedBy, NotYetKnown
  <2>4. \A g \in Groups : ~ GroupExists(g)
    BY Apart DEF Init, GroupExists
  <2>5. Synced /\ NoOrphans /\ OwnerIsMember /\ MembersOrRemoved /\ OneGroupPerRef
    BY <2>4 DEF Init, Synced, NoOrphans, OwnerIsMember, MembersOrRemoved, OneGroupPerRef
  <2> QED BY <2>1, <2>3, <2>5 DEF OrgInv
<1>2. OrgInv /\ [Next]_vars => OrgInv'
  <2> SUFFICES ASSUME OrgInv, [Next]_vars PROVE OrgInv'
    OBVIOUS
  <2> USE DEF OrgInv
  <2>1. ASSUME NEW r \in Requests, NEW u \in Users, NEW c \in Companies, CreateCompany(r, u, c)
        PROVE  OrgInv'
    <3>1. req'[r] = [op |-> "enroll", by |-> u, company |-> c] /\ \A q \in Requests \ {r} : req'[q] = req[q]
      BY <2>1, OneMoves DEF CreateCompany
    <3>2. TypeOK'
      BY <2>1, <3>1 DEF CreateCompany, TypeOK, Request, ghost, Proceed
    <3>3. \A d \in Companies : Exists(d) => Exists(d)'
      BY <2>1 DEF CreateCompany, Exists, TypeOK
    <3>4. c \notin known /\ \A q \in Requests : req[q].op \in {"enroll", "owner"} => Company(q) # c
      <4>1. \A q \in Requests : req[q].op \in {"enroll", "owner"} => company[Company(q)] # Fresh
        BY Fields, Apart DEF Remembered, RememberedBy
      <4> QED BY <2>1, <4>1 DEF CreateCompany, NotYetKnown
    <3>5. Remembered'
      BY <2>1, <3>1, <3>4, Fields DEF CreateCompany, Remembered, RememberedBy, ghost, GroupExists, Company, OfGroup, TypeOK
    <3>6. NotYetKnown'
      BY <2>1, <3>1, <3>4, Fields DEF CreateCompany, NotYetKnown, ghost, Company, TypeOK
    <3>7. Synced' /\ MembersOrRemoved' /\ OneGroupPerRef'
      BY <2>1 DEF CreateCompany, ghost, Synced, MembersOrRemoved, OneGroupPerRef, GroupExists
    <3>8. NoOrphans'
      BY <2>1, <3>3 DEF CreateCompany, NoOrphans, GroupExists, TypeOK, Group
    <3>9. OwnerIsMember'
      BY <2>1, <3>4 DEF CreateCompany, ghost, OwnerIsMember, Exists, TypeOK
    <3> QED BY <3>2, <3>5, <3>6, <3>7, <3>8, <3>9
  <2>2. ASSUME NEW r \in Requests, Enroll(r) PROVE OrgInv'
    <3>1. req'[r] = Idle /\ \A q \in Requests \ {r} : req'[q] = req[q]
      BY <2>2, OneMoves DEF Enroll
    <3>2. req[r].by \in Users /\ Company(r) \in Companies /\ company[Company(r)] = req[r].by
      BY <2>2, Fields DEF Enroll, Remembered, RememberedBy, Company
    <3>3. TypeOK'
      BY <2>2, <3>1, <3>2 DEF Enroll, TypeOK, Request, Proceed, Company
    <3>4. Remembered'
      BY <2>2, <3>1, <3>2 DEF Enroll, Remembered, RememberedBy, NotYetKnown, GroupExists, Company, OfGroup, Idle
    <3>5. NotYetKnown'
      BY <2>2, <3>1, <3>2 DEF Enroll, NotYetKnown, Company, Idle
    <3>6. Synced' /\ MembersOrRemoved' /\ OneGroupPerRef'
      BY <2>2 DEF Enroll, Synced, MembersOrRemoved, OneGroupPerRef, GroupExists
    <3>7. NoOrphans' /\ OwnerIsMember'
      BY <2>2, <3>2 DEF Enroll, NoOrphans, OwnerIsMember, Exists, GroupExists, Company
    <3> QED BY <3>3, <3>4, <3>5, <3>6, <3>7
  <2>3. ASSUME NEW r \in Requests, NEW u \in Users, NEW c \in Companies, CheckOwner(r, u, c)
        PROVE  OrgInv'
    <3>1. req'[r] = [op |-> "owner", by |-> u, company |-> c] /\ \A q \in Requests \ {r} : req'[q] = req[q]
      BY <2>3, OneMoves DEF CheckOwner
    <3>2. TypeOK'
      BY <2>3, <3>1 DEF CheckOwner, TypeOK, Request, table, ghost, Proceed
    <3>3. Remembered' /\ NotYetKnown'
      BY <2>3, <3>1, Fields DEF CheckOwner, table, ghost, Remembered, RememberedBy, NotYetKnown, GroupExists, Company, OfGroup
    <3>4. Synced' /\ MembersOrRemoved' /\ OneGroupPerRef' /\ NoOrphans' /\ OwnerIsMember'
      BY <2>3 DEF CheckOwner, table, ghost, Synced, MembersOrRemoved, OneGroupPerRef, NoOrphans, OwnerIsMember,
                  GroupExists, Exists
    <3> QED BY <3>2, <3>3, <3>4
  <2>4. ASSUME NEW r \in Requests, NEW u \in Users, AddMember(r, u) PROVE OrgInv'
    <3>1. req'[r] = Idle /\ \A q \in Requests \ {r} : req'[q] = req[q]
      BY <2>4, OneMoves DEF AddMember
    <3>2. Company(r) \in Companies
      BY <2>4, Fields DEF AddMember, Company
    <3>3. TypeOK'
      BY <2>4, <3>1, <3>2 DEF AddMember, TypeOK, Request, ghost, Proceed, Company
    <3>4. Remembered' /\ NotYetKnown'
      BY <2>4, <3>1 DEF AddMember, ghost, Remembered, RememberedBy, NotYetKnown, GroupExists, Company, OfGroup, Idle
    <3>5. Synced' /\ MembersOrRemoved' /\ OneGroupPerRef' /\ OwnerIsMember'
      BY <2>4 DEF AddMember, ghost, Synced, MembersOrRemoved, OneGroupPerRef, OwnerIsMember, GroupExists, Exists
    <3>6. NoOrphans'
      BY <2>4, <3>2 DEF AddMember, NoOrphans, Exists, GroupExists, Company
    <3> QED BY <3>3, <3>4, <3>5, <3>6
  <2>5. ASSUME NEW r \in Requests, NEW u \in Users, RemoveMember(r, u) PROVE OrgInv'
    <3>1. req'[r] = Idle /\ \A q \in Requests \ {r} : req'[q] = req[q]
      BY <2>5, OneMoves DEF RemoveMember
    <3>2. Company(r) \in Companies /\ req[r].by \in Users /\ company[Company(r)] \in {req[r].by, Gone}
      BY <2>5, Fields DEF RemoveMember, Company, Remembered, RememberedBy
    <3>3. member \cup removed \subseteq (member \cup removed)'
      BY <2>5 DEF RemoveMember
    <3>4. TypeOK'
      BY <2>5, <3>1, <3>2 DEF RemoveMember, TypeOK, Request, Proceed, Company
    <3>5. Remembered' /\ NotYetKnown'
      BY <2>5, <3>1, <3>3 DEF RemoveMember, Remembered, RememberedBy, NotYetKnown, GroupExists, Company, OfGroup, Idle
    <3>6. Synced' /\ OneGroupPerRef' /\ NoOrphans' /\ MembersOrRemoved'
      BY <2>5, <3>3 DEF RemoveMember, Synced, MembersOrRemoved, OneGroupPerRef, NoOrphans, GroupExists, Exists
    <3>7. OwnerIsMember'
      BY <2>5, <3>2 DEF RemoveMember, OwnerIsMember, Exists, Company, TypeOK
    <3> QED BY <3>4, <3>5, <3>6, <3>7
  <2>6. ASSUME NEW r \in Requests, DeleteCompany(r) PROVE OrgInv'
    <3>1. req'[r] = Idle /\ \A q \in Requests \ {r} : req'[q] = req[q]
      BY <2>6, OneMoves DEF DeleteCompany
    <3>2. PICK c \in Companies, theirs \in SUBSET Groups :
              /\ c = Company(r)
              /\ theirs = {g \in Groups : GroupExists(g) /\ group[g].company = c}
              /\ company' = [company EXCEPT ![c] = Gone]
              /\ member' = {m \in member : m[2] # c}
              /\ group' = [g \in Groups |-> IF g \in theirs THEN Gone ELSE group[g]]
              /\ gmember' = {m \in gmember : m[1] \notin theirs}
      BY <2>6, Fields DEF DeleteCompany, Company
    <3>3. TypeOK'
      BY <2>6, <3>1, <3>2 DEF DeleteCompany, TypeOK, Request, ghost, Proceed
    <3>4. \A g \in Groups :
              /\ GroupExists(g)' <=> GroupExists(g) /\ group[g].company # c
              /\ GroupExists(g)' => group'[g] = group[g]
              /\ group[g] = Gone => group'[g] = Gone
              /\ GroupExists(g) /\ ~ GroupExists(g)' => group'[g] = Gone
      BY <3>2, Apart DEF GroupExists, TypeOK
    <3>5. \A d \in Companies : Exists(d)' <=> Exists(d) /\ d # c
      BY <3>2 DEF Exists, TypeOK
    <3>6. c \in known /\ \A q \in Requests : req[q].op = "enroll" => Company(q) # c
      BY <2>6, <3>2 DEF DeleteCompany, NotYetKnown, Remembered, RememberedBy, Company
    <3>7. Remembered'
      <4>0. RememberedBy(r)'
        BY <3>1 DEF RememberedBy, Idle
      <4> SUFFICES ASSUME NEW q \in Requests, q # r PROVE RememberedBy(q)'
        BY <4>0 DEF Remembered
      <4>1. req'[q] = req[q] /\ Company(q)' = Company(q) /\ OfGroup(q)' = OfGroup(q)
        BY <3>1 DEF Company, OfGroup
      <4>2. req[q].op = "enroll" => company'[Company(q)] = company[Company(q)]
        BY <3>2, <3>6, Fields DEF Company, TypeOK
      <4>3. req[q].op = "owner" => company'[Company(q)] \in {company[Company(q)], Gone}
        BY <3>2, Fields DEF Company, TypeOK
      <4>4. req[q].op \in {"group", "change", "join", "synced"} => OfGroup(q) \in Groups
        BY Fields DEF OfGroup
      <4>5. req[q].op = "join" => req[q].user \in Users
        BY Fields
      <4>6. known' = known /\ removed' = removed
        BY <2>6 DEF DeleteCompany, ghost
      <4>7. ASSUME req[q].op = "join", group'[OfGroup(q)] \in Group
            PROVE  <<req[q].user, group'[OfGroup(q)].company>> \in member' \cup removed'
        <5>1. group'[OfGroup(q)] = group[OfGroup(q)] /\ group[OfGroup(q)] \in Group /\ group[OfGroup(q)].company # c
          BY <3>4, <4>4, <4>7 DEF GroupExists
        <5>2. <<req[q].user, group[OfGroup(q)].company>> \in member \cup removed
          BY <4>7, <5>1, Apart DEF Remembered, RememberedBy
        <5> QED BY <3>2, <4>6, <5>1, <5>2
      <4>8. req[q].op = "join" => \/ group'[OfGroup(q)] = Gone
                                  \/ /\ group'[OfGroup(q)] \in Group
                                     /\ <<req[q].user, group'[OfGroup(q)].company>> \in member' \cup removed'
        BY <3>4, <4>4, <4>7 DEF Remembered, RememberedBy, GroupExists
      <4>9. req[q].op \in {"group", "change", "synced"} =>
                group'[OfGroup(q)] \in {group[OfGroup(q)], Gone}
        BY <3>4, <4>4 DEF Remembered, RememberedBy, GroupExists
      <4>10. RememberedBy(q)
        BY DEF Remembered
      <4>11. CASE req[q].op = "enroll"
        BY <4>1, <4>2, <4>6, <4>10, <4>11 DEF RememberedBy
      <4>12. CASE req[q].op = "owner"
        BY <4>1, <4>3, <4>10, <4>12 DEF RememberedBy
      <4>13. CASE req[q].op \in {"group", "change", "synced"}
        BY <4>1, <4>9, <4>10, <4>13 DEF RememberedBy
      <4>14. CASE req[q].op = "join"
        BY <4>1, <4>8, <4>14 DEF RememberedBy
      <4>15. CASE req[q].op \notin {"enroll", "owner", "group", "change", "synced", "join"}
        BY <4>1, <4>15 DEF RememberedBy
      <4> QED BY <4>11, <4>12, <4>13, <4>14, <4>15
    <3>8. NotYetKnown'
      BY <2>6, <3>1, <3>2 DEF DeleteCompany, ghost, NotYetKnown, Company, Idle, TypeOK
    <3>9. Synced' /\ OneGroupPerRef'
      BY <3>4 DEF Synced, OneGroupPerRef
    <3>10. NoOrphans'
      <4>1. \A m \in member' : Exists(m[2])'
        BY <3>2, <3>5 DEF NoOrphans, TypeOK
      <4>2. \A g \in Groups : GroupExists(g)' => company'[group'[g].company] \in Users
        <5> SUFFICES ASSUME NEW g \in Groups, GroupExists(g)' PROVE company'[group'[g].company] \in Users
          OBVIOUS
        <5>1. GroupExists(g) /\ group[g].company # c /\ group'[g] = group[g] /\ group[g].company \in Companies
          BY <3>4 DEF GroupExists, Group
        <5> QED BY <3>5, <5>1 DEF NoOrphans, Exists
      <4>3. \A m \in gmember' : GroupExists(m[1])'
        BY <3>2, <3>4 DEF NoOrphans, TypeOK
      <4> QED BY <4>1, <4>2, <4>3 DEF NoOrphans, Exists
    <3>11. OwnerIsMember'
      BY <2>6, <3>2, <3>5 DEF DeleteCompany, ghost, OwnerIsMember, TypeOK
    <3>12. MembersOrRemoved'
      BY <2>6, <3>2, <3>4 DEF DeleteCompany, ghost, MembersOrRemoved, TypeOK
    <3> QED BY <3>3, <3>7, <3>8, <3>9, <3>10, <3>11, <3>12
  <2>7. ASSUME NEW r \in Requests, NEW u \in Users, NEW c \in Companies, CheckMember(r, u, c)
        PROVE  OrgInv'
    <3>1. req'[r] = [op |-> "member", by |-> u, company |-> c] /\ \A q \in Requests \ {r} : req'[q] = req[q]
      BY <2>7, OneMoves DEF CheckMember
    <3>2. TypeOK'
      BY <2>7, <3>1 DEF CheckMember, TypeOK, Request, table, ghost, Proceed
    <3>3. Remembered' /\ NotYetKnown'
      BY <2>7, <3>1, Fields DEF CheckMember, table, ghost, Remembered, RememberedBy, NotYetKnown, GroupExists, Company, OfGroup
    <3>4. Synced' /\ MembersOrRemoved' /\ OneGroupPerRef' /\ NoOrphans' /\ OwnerIsMember'
      BY <2>7 DEF CheckMember, table, ghost, Synced, MembersOrRemoved, OneGroupPerRef, NoOrphans, OwnerIsMember,
                  GroupExists, Exists
    <3> QED BY <3>2, <3>3, <3>4
  <2>8. ASSUME NEW r \in Requests, NEW g \in Groups, CreateGroup(r, g) PROVE OrgInv'
    <3>1. req'[r] = Idle /\ \A q \in Requests \ {r} : req'[q] = req[q]
      BY <2>8, OneMoves DEF CreateGroup
    <3>2. Company(r) \in Companies /\ group' = [group EXCEPT ![g] = [company |-> Company(r), ref |-> None]]
      BY <2>8, Fields DEF CreateGroup, Company
    <3>3. TypeOK'
      BY <2>8, <3>1, <3>2 DEF CreateGroup, TypeOK, Request, Group, ghost, Proceed
    <3>4. Fresh \notin Group /\ Gone \notin Group /\ group[g] = Fresh
      BY <2>8 DEF CreateGroup, Group
    <3>5. \A h \in Groups : h # g => group'[h] = group[h] /\ (GroupExists(h)' <=> GroupExists(h))
      BY <3>2 DEF GroupExists, TypeOK
    <3>6. GroupExists(g)' /\ group'[g].ref = None /\ group'[g].company = Company(r)
      BY <3>2 DEF GroupExists, Group, TypeOK
    <3>7. \A q \in Requests : req[q].op \in {"group", "change", "join", "synced"} => OfGroup(q) # g
      BY <3>4 DEF Remembered, RememberedBy, GroupExists
    <3>8. \A m \in gmember : m[1] # g
      BY <3>4 DEF NoOrphans, GroupExists
    <3>9. Remembered'
      <4>0. RememberedBy(r)'
        BY <3>1 DEF RememberedBy, Idle
      <4> SUFFICES ASSUME NEW q \in Requests, q # r PROVE RememberedBy(q)'
        BY <4>0 DEF Remembered
      <4>1. req'[q] = req[q] /\ Company(q)' = Company(q) /\ OfGroup(q)' = OfGroup(q) /\ RememberedBy(q)
        BY <3>1 DEF Company, OfGroup, Remembered
      <4>2. company' = company /\ member' = member /\ known' = known /\ removed' = removed
        BY <2>8 DEF CreateGroup, ghost
      <4>3. req[q].op \in {"group", "change", "join", "synced"} => group'[OfGroup(q)] = group[OfGroup(q)]
        BY <3>5, <3>7, Fields DEF OfGroup
      <4> QED BY <4>1, <4>2, <4>3 DEF RememberedBy
    <3>10. NotYetKnown'
      BY <2>8, <3>1 DEF CreateGroup, ghost, NotYetKnown, Company, Idle
    <3>11. Synced' /\ OneGroupPerRef'
      BY <3>5, <3>6 DEF Synced, OneGroupPerRef
    <3>12. NoOrphans' /\ OwnerIsMember'
      BY <2>8, <3>5, <3>6 DEF CreateGroup, ghost, NoOrphans, OwnerIsMember, Exists, Company, TypeOK
    <3>13. MembersOrRemoved'
      BY <2>8, <3>5, <3>8 DEF CreateGroup, ghost, MembersOrRemoved, TypeOK
    <3> QED BY <3>3, <3>9, <3>10, <3>11, <3>12, <3>13
  <2>9. ASSUME NEW r \in Requests, NEW u \in Users, NEW g \in Groups, GetGroup(r, u, g) PROVE OrgInv'
    <3>1. /\ req'[r] = [op |-> "group", by |-> u, group |-> g, company |-> group[g].company]
          /\ \A q \in Requests \ {r} : req'[q] = req[q]
      BY <2>9, OneMoves DEF GetGroup
    <3>2. TypeOK'
      BY <2>9, <3>1 DEF GetGroup, TypeOK, Request, Group, GroupExists, table, ghost, Proceed
    <3>3. Remembered' /\ NotYetKnown'
      BY <2>9, <3>1, Fields DEF GetGroup, table, ghost, Remembered, RememberedBy, NotYetKnown, GroupExists, Company, OfGroup
    <3>4. Synced' /\ MembersOrRemoved' /\ OneGroupPerRef' /\ NoOrphans' /\ OwnerIsMember'
      BY <2>9 DEF GetGroup, table, ghost, Synced, MembersOrRemoved, OneGroupPerRef, NoOrphans, OwnerIsMember,
                  GroupExists, Exists
    <3> QED BY <3>2, <3>3, <3>4
  <2>10. ASSUME NEW r \in Requests, RequireOwner(r) PROVE OrgInv'
    <3>1. PICK now : /\ now \in [op : {"change"}, group : Groups, company : Companies, refused : BOOLEAN]
                     /\ now.group = OfGroup(r) /\ now.company = Company(r)
                     /\ Proceed(r, now)
      <4>1. OfGroup(r) \in Groups /\ Company(r) \in Companies
        BY <2>10, Fields DEF RequireOwner, OfGroup, Company
      <4>2. PICK failed \in BOOLEAN :
                Proceed(r, [op |-> "change", group |-> OfGroup(r), company |-> Company(r),
                            refused |-> failed \/ company[Company(r)] # req[r].by])
        BY <2>10 DEF RequireOwner, OfGroup, Company
      <4> QED BY <4>1, <4>2
    <3>2. req'[r] = now /\ \A q \in Requests \ {r} : req'[q] = req[q]
      BY <3>1, OneMoves
    <3>3. TypeOK'
      BY <2>10, <3>1, <3>2 DEF RequireOwner, TypeOK, Request, table, ghost, Proceed
    <3>4. Remembered' /\ NotYetKnown'
      <4>1. RememberedBy(r)'
        BY <2>10, <3>1, <3>2 DEF RequireOwner, table, Remembered, RememberedBy, Company, OfGroup
      <4>2. ASSUME NEW q \in Requests, q # r PROVE RememberedBy(q)'
        BY <2>10, <3>2, <4>2 DEF RequireOwner, table, ghost, Remembered, RememberedBy, Company, OfGroup
      <4>3. NotYetKnown'
        BY <2>10, <3>1, <3>2 DEF RequireOwner, table, ghost, NotYetKnown, Company
      <4> QED BY <4>1, <4>2, <4>3 DEF Remembered
    <3>5. Synced' /\ MembersOrRemoved' /\ OneGroupPerRef' /\ NoOrphans' /\ OwnerIsMember'
      BY <2>10 DEF RequireOwner, table, ghost, Synced, MembersOrRemoved, OneGroupPerRef, NoOrphans, OwnerIsMember,
                   GroupExists, Exists
    <3> QED BY <3>3, <3>4, <3>5
  <2>11. ASSUME NEW r \in Requests, NEW u \in Users, CheckJoiner(r, u) PROVE OrgInv'
    <3>1. /\ req'[r] = [op |-> "join", group |-> OfGroup(r), user |-> u, refused |-> req[r].refused]
          /\ \A q \in Requests \ {r} : req'[q] = req[q]
      BY <2>11, OneMoves DEF CheckJoiner, OfGroup
    <3>2. OfGroup(r) \in Groups /\ req[r].refused \in BOOLEAN
      BY <2>11, Fields DEF CheckJoiner, OfGroup
    <3>3. TypeOK'
      BY <2>11, <3>1, <3>2 DEF CheckJoiner, TypeOK, Request, table, ghost, Proceed
    <3>4. Remembered' /\ NotYetKnown'
      <4>1. RememberedBy(r)'
        <5>1. \/ group[OfGroup(r)] = Gone
              \/ group[OfGroup(r)] \in Group /\ group[OfGroup(r)].company = Company(r)
          BY <2>11 DEF CheckJoiner, Remembered, RememberedBy
        <5>2. <<u, Company(r)>> \in member
          BY <2>11 DEF CheckJoiner, Company
        <5>3. OfGroup(r)' = OfGroup(r) /\ req'[r].op = "join" /\ req'[r].user = u
          BY <3>1 DEF OfGroup
        <5> QED BY <2>11, <5>1, <5>2, <5>3 DEF CheckJoiner, table, ghost, RememberedBy
      <4>2. ASSUME NEW q \in Requests, q # r PROVE RememberedBy(q)'
        BY <2>11, <3>1, <4>2 DEF CheckJoiner, table, ghost, Remembered, RememberedBy, Company, OfGroup
      <4>3. NotYetKnown'
        BY <2>11, <3>1 DEF CheckJoiner, table, ghost, NotYetKnown, Company
      <4> QED BY <4>1, <4>2, <4>3 DEF Remembered
    <3>5. Synced' /\ MembersOrRemoved' /\ OneGroupPerRef' /\ NoOrphans' /\ OwnerIsMember'
      BY <2>11 DEF CheckJoiner, table, ghost, Synced, MembersOrRemoved, OneGroupPerRef, NoOrphans, OwnerIsMember,
                   GroupExists, Exists
    <3> QED BY <3>3, <3>4, <3>5
  <2>12. ASSUME NEW r \in Requests, AddGroupMember(r) PROVE OrgInv'
    <3>1. req'[r] = Idle /\ \A q \in Requests \ {r} : req'[q] = req[q]
      BY <2>12, OneMoves DEF AddGroupMember
    <3>2. OfGroup(r) \in Groups /\ req[r].user \in Users
      BY <2>12, Fields DEF AddGroupMember, OfGroup
    <3>3. TypeOK'
      BY <2>12, <3>1, <3>2 DEF AddGroupMember, TypeOK, Request, ghost, Proceed, OfGroup
    <3>4. Remembered' /\ NotYetKnown'
      BY <2>12, <3>1 DEF AddGroupMember, ghost, Remembered, RememberedBy, NotYetKnown, GroupExists, Company, OfGroup, Idle
    <3>5. Synced' /\ OneGroupPerRef' /\ NoOrphans' /\ OwnerIsMember'
      BY <2>12 DEF AddGroupMember, ghost, Synced, OneGroupPerRef, NoOrphans, OwnerIsMember, GroupExists, Exists
    <3>6. GroupExists(OfGroup(r)) /\ <<req[r].user, group[OfGroup(r)].company>> \in member \cup removed
      BY <2>12 DEF AddGroupMember, Remembered, RememberedBy, OfGroup, GroupExists, Group
    <3>7. MembersOrRemoved'
      BY <2>12, <3>2, <3>6 DEF AddGroupMember, ghost, MembersOrRemoved, GroupExists, OfGroup
    <3> QED BY <3>3, <3>4, <3>5, <3>7
  <2>13. ASSUME NEW r \in Requests, NEW u \in Users, RemoveGroupMember(r, u) PROVE OrgInv'
    <3>1. req'[r] = Idle /\ \A q \in Requests \ {r} : req'[q] = req[q]
      BY <2>13, OneMoves DEF RemoveGroupMember
    <3>2. TypeOK'
      BY <2>13, <3>1 DEF RemoveGroupMember, TypeOK, Request, ghost, Proceed
    <3>3. Remembered' /\ NotYetKnown'
      BY <2>13, <3>1 DEF RemoveGroupMember, ghost, Remembered, RememberedBy, NotYetKnown, GroupExists, Company, OfGroup, Idle
    <3>4. Synced' /\ MembersOrRemoved' /\ OneGroupPerRef' /\ NoOrphans' /\ OwnerIsMember'
      BY <2>13 DEF RemoveGroupMember, ghost, Synced, MembersOrRemoved, OneGroupPerRef, NoOrphans, OwnerIsMember,
                   GroupExists, Exists
    <3> QED BY <3>2, <3>3, <3>4
  <2>14. ASSUME NEW r \in Requests, DeleteGroup(r) PROVE OrgInv'
    <3>1. req'[r] = Idle /\ \A q \in Requests \ {r} : req'[q] = req[q]
      BY <2>14, OneMoves DEF DeleteGroup
    <3>2. PICK h \in Groups : /\ h = OfGroup(r)
                              /\ group' = [group EXCEPT ![h] = Gone]
                              /\ gmember' = {m \in gmember : m[1] # h}
      BY <2>14, Fields DEF DeleteGroup, OfGroup
    <3>3. TypeOK'
      BY <2>14, <3>1, <3>2 DEF DeleteGroup, TypeOK, Request, ghost, Proceed
    <3>4. \A g \in Groups : g # h => group'[g] = group[g] /\ (GroupExists(g)' <=> GroupExists(g))
      BY <3>2 DEF GroupExists, TypeOK
    <3>5. group'[h] = Gone /\ ~ GroupExists(h)'
      BY <3>2, Apart DEF GroupExists, TypeOK
    <3>7. Remembered'
      <4>0. RememberedBy(r)'
        BY <3>1 DEF RememberedBy, Idle
      <4> SUFFICES ASSUME NEW q \in Requests, q # r PROVE RememberedBy(q)'
        BY <4>0 DEF Remembered
      <4>1. req'[q] = req[q] /\ Company(q)' = Company(q) /\ OfGroup(q)' = OfGroup(q)
        BY <3>1 DEF Company, OfGroup
      <4>2. company' = company /\ member' = member /\ known' = known /\ removed' = removed
        BY <2>14 DEF DeleteGroup, ghost
      <4>3. req[q].op \in {"group", "change", "join", "synced"} => OfGroup(q) \in Groups
        BY Fields DEF OfGroup
      <4>4. req[q].op \in {"group", "change", "join", "synced"} =>
                group'[OfGroup(q)] \in {group[OfGroup(q)], Gone}
        BY <3>2, <4>3 DEF TypeOK
      <4>5. RememberedBy(q)
        BY DEF Remembered
      <4> QED BY <4>1, <4>2, <4>4, <4>5 DEF RememberedBy
    <3>8. NotYetKnown'
      BY <2>14, <3>1 DEF DeleteGroup, ghost, NotYetKnown, Company, Idle
    <3>9. Synced' /\ OneGroupPerRef'
      BY <3>4, <3>5 DEF Synced, OneGroupPerRef
    <3>10. NoOrphans' /\ OwnerIsMember'
      BY <2>14, <3>2, <3>4, <3>5 DEF DeleteGroup, ghost, NoOrphans, OwnerIsMember, Exists, TypeOK
    <3>11. MembersOrRemoved'
      BY <2>14, <3>2, <3>4, <3>5 DEF DeleteGroup, ghost, MembersOrRemoved, TypeOK
    <3> QED BY <3>3, <3>7, <3>8, <3>9, <3>10, <3>11
  <2>15. ASSUME NEW r \in Requests, NEW u \in Users, NEW refs \in SUBSET Refs, Login(r, u, refs)
         PROVE  OrgInv'
    <3>1. req'[r] = [op |-> "sync", user |-> u, left |-> refs] /\ \A q \in Requests \ {r} : req'[q] = req[q]
      BY <2>15, OneMoves DEF Login
    <3>2. TypeOK'
      BY <2>15, <3>1 DEF Login, TypeOK, Request, table, ghost, Proceed
    <3>3. Remembered' /\ NotYetKnown'
      BY <2>15, <3>1 DEF Login, table, ghost, Remembered, RememberedBy, NotYetKnown, GroupExists, Company, OfGroup
    <3>4. Synced' /\ MembersOrRemoved' /\ OneGroupPerRef' /\ NoOrphans' /\ OwnerIsMember'
      BY <2>15 DEF Login, table, ghost, Synced, MembersOrRemoved, OneGroupPerRef, NoOrphans, OwnerIsMember,
                   GroupExists, Exists
    <3> QED BY <3>2, <3>3, <3>4
  <2>16. ASSUME NEW r \in Requests, NEW x \in Refs, NEW g \in Groups, Upsert(r, x, g) PROVE OrgInv'
    <3>1. /\ req'[r] = [op |-> "synced", user |-> req[r].user, left |-> req[r].left \ {x}, group |-> g]
          /\ \A q \in Requests \ {r} : req'[q] = req[q]
      BY <2>16, OneMoves DEF Upsert
    <3>2. req[r].user \in Users /\ req[r].left \in SUBSET Refs
      BY <2>16, Fields DEF Upsert
    <3>3. Row(x) \in Group /\ Row(x).company = LdapCompany /\ Row(x).ref = x /\ x # None
      BY DEF Row, Group
    <3>4. TypeOK'
      BY <2>16, <3>1, <3>2, <3>3 DEF Upsert, TypeOK, Request, ghost, Proceed
    <3>5. CASE group[g] = Row(x)
      <4>1. group' = group
        BY <2>16, <3>5 DEF Upsert, TypeOK
      <4>2. Remembered' /\ NotYetKnown'
        BY <2>16, <3>1, <3>3, <3>5, <4>1, Fields DEF Upsert, ghost, Remembered, RememberedBy, NotYetKnown, GroupExists, Company, OfGroup
      <4>3. Synced' /\ MembersOrRemoved' /\ OneGroupPerRef' /\ NoOrphans' /\ OwnerIsMember'
        BY <2>16, <4>1 DEF Upsert, ghost, Synced, MembersOrRemoved, OneGroupPerRef, NoOrphans, OwnerIsMember,
                           GroupExists, Exists
      <4> QED BY <3>4, <4>2, <4>3
    <3>6. CASE Exists(LdapCompany) /\ group[g] = Fresh /\ \A other \in Groups : group[other] # Row(x)
      <4>1. \A h \in Groups : h # g => group'[h] = group[h] /\ (GroupExists(h)' <=> GroupExists(h))
        BY <2>16 DEF Upsert, GroupExists, TypeOK
      <4>2. GroupExists(g)' /\ group'[g] = Row(x) /\ ~ GroupExists(g) /\ group[g] # Gone
        BY <2>16, <3>3, <3>6 DEF Upsert, GroupExists, TypeOK, Group
      <4>3. \A q \in Requests : req[q].op \in {"group", "change", "join", "synced"} => OfGroup(q) # g
        BY <4>2 DEF Remembered, RememberedBy, GroupExists
      <4>4. \A m \in gmember : m[1] # g
        BY <4>2 DEF NoOrphans
      <4>5. Remembered'
        <5>1. RememberedBy(r)'
          BY <3>1, <3>3, <4>2 DEF RememberedBy, OfGroup
        <5>2. ASSUME NEW q \in Requests, q # r PROVE RememberedBy(q)'
          <6>1. req'[q] = req[q] /\ Company(q)' = Company(q) /\ OfGroup(q)' = OfGroup(q) /\ RememberedBy(q)
            BY <3>1, <5>2 DEF Company, OfGroup, Remembered
          <6>2. company' = company /\ member' = member /\ known' = known /\ removed' = removed
            BY <2>16 DEF Upsert, ghost
          <6>3. req[q].op \in {"group", "change", "join", "synced"} => group'[OfGroup(q)] = group[OfGroup(q)]
            BY <4>1, <4>3, Fields DEF OfGroup
          <6> QED BY <6>1, <6>2, <6>3 DEF RememberedBy
        <5> QED BY <5>1, <5>2 DEF Remembered, RememberedBy
      <4>6. NotYetKnown'
        BY <2>16, <3>1 DEF Upsert, ghost, NotYetKnown, Company
      <4>7. Synced'
        BY <3>3, <4>1, <4>2 DEF Synced
      <4>8. OneGroupPerRef'
        BY <3>6, <4>1, <4>2 DEF OneGroupPerRef
      <4>9. NoOrphans' /\ OwnerIsMember'
        BY <2>16, <3>3, <3>6, <4>1, <4>2 DEF Upsert, ghost, NoOrphans, OwnerIsMember, Exists, TypeOK
      <4>10. MembersOrRemoved'
        BY <2>16, <4>1, <4>4 DEF Upsert, ghost, MembersOrRemoved, TypeOK
      <4> QED BY <3>4, <4>5, <4>6, <4>7, <4>8, <4>9, <4>10
    <3> QED BY <2>16, <3>5, <3>6 DEF Upsert
  <2>17. ASSUME NEW r \in Requests, NEW x \in Refs, UpsertFails(r, x) PROVE OrgInv'
    <3>1. req[r] \in [op : {"sync"}, user : Users, left : SUBSET Refs]
      BY <2>17, Fields DEF UpsertFails
    <3>2. /\ req'[r] = [op |-> "sync", user |-> req[r].user, left |-> req[r].left \ {x}]
          /\ \A q \in Requests \ {r} : req'[q] = req[q]
      BY <2>17, <3>1, OneMoves DEF UpsertFails
    <3>3. TypeOK'
      BY <2>17, <3>1, <3>2 DEF UpsertFails, TypeOK, Request, table, ghost, Proceed
    <3>4. Remembered' /\ NotYetKnown'
      BY <2>17, <3>2 DEF UpsertFails, table, ghost, Remembered, RememberedBy, NotYetKnown, GroupExists, Company, OfGroup
    <3>5. Synced' /\ MembersOrRemoved' /\ OneGroupPerRef' /\ NoOrphans' /\ OwnerIsMember'
      BY <2>17 DEF UpsertFails, table, ghost, Synced, MembersOrRemoved, OneGroupPerRef, NoOrphans, OwnerIsMember,
                   GroupExists, Exists
    <3> QED BY <3>3, <3>4, <3>5
  <2>18. ASSUME NEW r \in Requests, SyncMember(r) PROVE OrgInv'
    <3>1. req[r] \in [op : {"synced"}, user : Users, left : SUBSET Refs, group : Groups]
      BY <2>18, Fields DEF SyncMember
    <3>2. /\ req'[r] = [op |-> "sync", user |-> req[r].user, left |-> req[r].left]
          /\ \A q \in Requests \ {r} : req'[q] = req[q]
      BY <2>18, OneMoves DEF SyncMember
    <3>3. \/ gmember' = gmember
          \/ GroupExists(OfGroup(r)) /\ gmember' = gmember \cup {<<OfGroup(r), req[r].user>>}
      BY <2>18 DEF SyncMember, OfGroup
    <3>4. TypeOK'
      BY <2>18, <3>1, <3>2, <3>3 DEF SyncMember, TypeOK, Request, ghost, Proceed, OfGroup
    <3>5. Remembered' /\ NotYetKnown'
      BY <2>18, <3>2 DEF SyncMember, ghost, Remembered, RememberedBy, NotYetKnown, GroupExists, Company, OfGroup
    <3>6. Synced' /\ OneGroupPerRef' /\ OwnerIsMember'
      BY <2>18 DEF SyncMember, ghost, Synced, OneGroupPerRef, OwnerIsMember, GroupExists, Exists
    <3>7. NoOrphans'
      BY <2>18, <3>3 DEF SyncMember, NoOrphans, GroupExists, Exists
    <3>8. GroupExists(OfGroup(r)) => group[OfGroup(r)].ref # None
      BY <2>18 DEF SyncMember, Remembered, RememberedBy, GroupExists, Group
    <3>9. MembersOrRemoved'
      BY <2>18, <3>3, <3>8 DEF SyncMember, ghost, MembersOrRemoved, GroupExists
    <3> QED BY <3>4, <3>5, <3>6, <3>7, <3>9
  <2>19. ASSUME NEW r \in Requests, End(r) PROVE OrgInv'
    <3>1. req'[r] = Idle /\ \A q \in Requests \ {r} : req'[q] = req[q]
      BY <2>19, OneMoves DEF End
    <3>2. TypeOK'
      BY <2>19, <3>1 DEF End, TypeOK, Request, table, ghost, Proceed
    <3>3. Remembered' /\ NotYetKnown'
      BY <2>19, <3>1 DEF End, table, ghost, Remembered, RememberedBy, NotYetKnown, GroupExists, Company, OfGroup, Idle
    <3>4. Synced' /\ MembersOrRemoved' /\ OneGroupPerRef' /\ NoOrphans' /\ OwnerIsMember'
      BY <2>19 DEF End, table, ghost, Synced, MembersOrRemoved, OneGroupPerRef, NoOrphans, OwnerIsMember,
                   GroupExists, Exists
    <3> QED BY <3>2, <3>3, <3>4
  <2>20. CASE UNCHANGED vars
    BY <2>20 DEF vars, table, ghost, TypeOK, Remembered, RememberedBy, NotYetKnown, Synced, NoOrphans, OwnerIsMember,
                 MembersOrRemoved, OneGroupPerRef, GroupExists, Exists, Company, OfGroup
  <2> QED BY <2>1, <2>2, <2>3, <2>4, <2>5, <2>6, <2>7, <2>8, <2>9, <2>10, <2>11, <2>12, <2>13, <2>14,
             <2>15, <2>16, <2>17, <2>18, <2>19, <2>20 DEF Next, Handler
<1> QED BY <1>1, <1>2, PTL DEF Spec

-----------------------------------------------------------------------------
\* Tables and handlers keep their types.
THEOREM TypeCorrect == Spec => []TypeOK
BY OrganisationInvariant, PTL DEF OrgInv

\* The foreign keys suffice, however stale what a handler has read.
THEOREM RowsHaveParents == Spec => []NoOrphans
BY OrganisationInvariant, PTL DEF OrgInv

\* No interleaving takes the owner out of a company that others know of.
THEOREM OwnersStay == Spec => []OwnerIsMember
BY OrganisationInvariant, PTL DEF OrgInv

\* The check and the insert of addGroupMember are two statements; a removal in
\* between is the only way to a group member who is not in the company.
THEOREM JoinersBelonged == Spec => []MembersOrRemoved
BY OrganisationInvariant, PTL DEF OrgInv

\* Any number of logins share one row for a group of the directory.
THEOREM RefsAreUnique == Spec => []OneGroupPerRef
BY OrganisationInvariant, PTL DEF OrgInv
=============================================================================
