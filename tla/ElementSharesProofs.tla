------------------------ MODULE ElementSharesProofs ------------------------
(***************************************************************************)
(* Proofs about ElementShares, for any number of shares, users, companies, *)
(* groups and handlers.                                                    *)
(***************************************************************************)
EXTENDS ElementShares, SequenceTheorems, TLAPS

-----------------------------------------------------------------------------
Imports(s, u) == \E i \in DOMAIN share[s].importedBy : share[s].importedBy[i] = u

\* What is true of a share, whoever is at work.
Sound(s) ==
    /\ Exists(s) =>
          /\ share[s].source \in dags \cup {NoDag}
          /\ \A i, j \in DOMAIN share[s].importedBy :
                share[s].importedBy[i] = share[s].importedBy[j] => i = j
          /\ \A i \in DOMAIN share[s].importedBy : For(s, share[s].importedBy[i])
    /\ s \in ended => Exists(s) /\ share[s].revoked

\* What a handler knows of the share it works on.  The row stays, keeps its
\* audience, and once revoked stays so; who joined once is not forgotten.
Knows(r) ==
    /\ req[r].op \in {"exchanging", "getting", "importing", "appending", "opened", "imported",
                      "revoking", "denying"} => Exists(req[r].share)
    /\ req[r].op = "exchanging" =>
          IsPublic(req[r].share) /\ (req[r].late => share[req[r].share].revoked)
    /\ req[r].op \in {"getting", "importing", "appending", "opened", "imported"} => ~ req[r].late
    /\ req[r].op \in {"appending", "opened", "imported"} => For(req[r].share, req[r].user)
    /\ req[r].op = "imported" => Imports(req[r].share, req[r].user)
    /\ req[r].op = "denying" => share[req[r].share].revoked
    /\ req[r].op \in {"grouping", "listing"} =>
          \A i \in req[r].companies : <<req[r].user, i>> \in once
    /\ req[r].op = "listing" => \A i \in req[r].groups : <<req[r].user, i>> \in once
    /\ req[r].op = "listed" => \A s \in req[r].shares : Exists(s) /\ For(s, req[r].user)

ShareInv ==
    /\ TypeOK
    /\ \A s \in Shares : Sound(s)
    /\ \A r \in Requests : Knows(r)

\* A step only adds to what handlers know: see Keeps below.
Keeps ==
    /\ once \subseteq once'
    /\ \A s \in Shares : Exists(s) =>
          /\ Exists(s)'
          /\ share'[s].to = share[s].to /\ share'[s].by = share[s].by
          /\ share[s].revoked => share'[s].revoked
          /\ \A u \in Users : Imports(s, u) => Imports(s, u)'

\* The fields that a handler's phase promises.
LEMMA Fields ==
    ASSUME TypeOK, NEW r \in Requests
    PROVE
    /\ req[r].op = "creating" =>
          req[r] \in [op : {"creating"}, by : Users, source : Dags, to : Audience(Kinds)]
    /\ req[r].op = "exchanging" =>
          req[r] \in [op : {"exchanging"}, user : {Nobody}, share : Shares, late : BOOLEAN]
    /\ req[r].op \in {"getting", "importing", "appending", "imported"} =>
          req[r] \in [op : {"getting", "importing", "appending", "imported"},
                     user : Users, share : Shares, late : BOOLEAN]
    /\ req[r].op = "opened" =>
          req[r] \in [op : {"opened"}, user : Users \cup {Nobody}, share : Shares, late : BOOLEAN]
    /\ req[r].op \in {"revoking", "denying"} =>
          req[r] \in [op : {"revoking", "denying"}, share : Shares]
    /\ req[r].op = "grouping" =>
          req[r] \in [op : {"grouping"}, user : Users, companies : SUBSET Companies]
    /\ req[r].op = "listing" =>
          req[r] \in [op : {"listing"}, user : Users, companies : SUBSET Companies, groups : SUBSET Groups]
    /\ req[r].op = "listed" =>
          req[r] \in [op : {"listed"}, user : Users \cup {Nobody}, shares : SUBSET Shares]
<1> DEFINE Creating == [op : {"creating"}, by : Users, source : Dags, to : Audience(Kinds)]
           Exchanging == [op : {"exchanging"}, user : {Nobody}, share : Shares, late : BOOLEAN]
           Importing == [op : {"getting", "importing", "appending", "imported"},
                            user : Users, share : Shares, late : BOOLEAN]
           Opened == [op : {"opened"}, user : Users \cup {Nobody}, share : Shares, late : BOOLEAN]
           Revoking == [op : {"revoking", "denying"}, share : Shares]
           Grouping == [op : {"grouping"}, user : Users, companies : SUBSET Companies]
           Listing == [op : {"listing"}, user : Users, companies : SUBSET Companies, groups : SUBSET Groups]
           Listed == [op : {"listed"}, user : Users \cup {Nobody}, shares : SUBSET Shares]
<1>1. req[r] \in {Idle} \cup Creating \cup Exchanging \cup Importing \cup Opened \cup Revoking \cup Grouping \cup Listing \cup Listed
  BY DEF TypeOK, Request
<1>2. Idle.op = "idle"
  BY DEF Idle
<1>3. \A x \in Creating : x.op = "creating"
  OBVIOUS
<1>4. \A x \in Exchanging : x.op = "exchanging"
  OBVIOUS
<1>5. \A x \in Importing : x.op \in {"getting", "importing", "appending", "imported"}
  OBVIOUS
<1>6. \A x \in Opened : x.op = "opened"
  OBVIOUS
<1>7. \A x \in Revoking : x.op \in {"revoking", "denying"}
  OBVIOUS
<1>8. \A x \in Grouping : x.op = "grouping"
  OBVIOUS
<1>9. \A x \in Listing : x.op = "listing"
  OBVIOUS
<1>10. \A x \in Listed : x.op = "listed"
  OBVIOUS
<1> HIDE DEF Creating, Exchanging, Importing, Opened, Revoking, Grouping, Listing, Listed
<1>11. /\ req[r].op = "creating" => req[r] \in Creating
       /\ req[r].op = "exchanging" => req[r] \in Exchanging
       /\ req[r].op \in {"getting", "importing", "appending", "imported"} => req[r] \in Importing
       /\ req[r].op = "opened" => req[r] \in Opened
       /\ req[r].op \in {"revoking", "denying"} => req[r] \in Revoking
       /\ req[r].op = "grouping" => req[r] \in Grouping
       /\ req[r].op = "listing" => req[r] \in Listing
       /\ req[r].op = "listed" => req[r] \in Listed
  BY <1>1, <1>2, <1>3, <1>4, <1>5, <1>6, <1>7, <1>8, <1>9, <1>10
<1> QED BY <1>11 DEF Creating, Exchanging, Importing, Opened, Revoking, Grouping, Listing, Listed

\* A step of one handler leaves the others where they are.
LEMMA OneMoves ==
    ASSUME TypeOK, NEW r \in Requests, NEW now, Proceed(r, now)
    PROVE  req'[r] = now /\ \A q \in Requests \ {r} : req'[q] = req[q]
BY DEF Proceed, TypeOK

\* A share stays made for those it was made for.
LEMMA ForStays ==
    ASSUME Keeps, NEW s \in Shares, Exists(s), NEW u, For(s, u)
    PROVE  For(s, u)'
BY DEF Keeps, For

\* What a handler knows stays true while it waits.
LEMMA KnowledgeStays ==
    ASSUME TypeOK, Keeps, NEW r \in Requests, Knows(r), req'[r] = req[r]
    PROVE  Knows(r)'
<1>1. \A s \in Shares : \A u : Exists(s) /\ For(s, u) => For(s, u)'
  BY ForStays
<1>2. req[r].op \in {"exchanging", "getting", "importing", "appending", "opened", "imported",
                     "revoking", "denying"} => req[r].share \in Shares
  BY Fields
<1>3. req[r].op = "imported" => req[r].user \in Users
  BY Fields
<1>4. req[r].op = "listed" => req[r].shares \in SUBSET Shares
  BY Fields
<1> QED BY <1>1, <1>2, <1>3, <1>4 DEF Knows, Keeps, IsPublic

\* AppendOnce adds the user, once, and takes nobody out.
LEMMA AppendedOnce ==
    ASSUME NEW seq \in Seq(Users), NEW u \in Users,
           \A i, j \in DOMAIN seq : seq[i] = seq[j] => i = j
    PROVE  /\ AppendOnce(seq, u) \in Seq(Users)
           /\ \A i, j \in DOMAIN AppendOnce(seq, u) :
                 AppendOnce(seq, u)[i] = AppendOnce(seq, u)[j] => i = j
           /\ \A i \in DOMAIN AppendOnce(seq, u) :
                 \/ AppendOnce(seq, u)[i] = u
                 \/ \E j \in DOMAIN seq : AppendOnce(seq, u)[i] = seq[j]
           /\ \A v \in Users : (v = u \/ \E i \in DOMAIN seq : seq[i] = v)
                                  => \E i \in DOMAIN AppendOnce(seq, u) : AppendOnce(seq, u)[i] = v
<1>1. CASE \E i \in DOMAIN seq : seq[i] = u
  BY <1>1 DEF AppendOnce
<1>2. CASE ~ \E i \in DOMAIN seq : seq[i] = u
  <2> DEFINE new == Append(seq, u)
  <2>1. AppendOnce(seq, u) = new
    BY <1>2 DEF AppendOnce
  <2>2. new \in Seq(Users) /\ Len(new) = Len(seq) + 1
    BY AppendProperties
  <2>3. new[Len(seq) + 1] = u /\ \A i \in 1 .. Len(seq) : new[i] = seq[i]
    BY AppendProperties
  <2>4. DOMAIN seq = 1 .. Len(seq) /\ Len(seq) \in Nat
    BY LenProperties
  <2> HIDE DEF new
  <2>5. DOMAIN new = 1 .. Len(new)
    BY <2>2, LenProperties
  <2>6. DOMAIN new = DOMAIN seq \cup {Len(seq) + 1}
    BY <2>2, <2>4, <2>5
  <2> QED BY <1>2, <2>1, <2>2, <2>3, <2>4, <2>6
<1> QED BY <1>1, <1>2
-----------------------------------------------------------------------------
\* A step of a handler is as good as what it does to its own knowledge and to
\* the rows: the other handlers keep what they know.
LEMMA HandlerStep ==
    ASSUME ShareInv, NEW r \in Requests, NEW now, Proceed(r, now), Keeps, TypeOK', Knows(r)',
           \A s \in Shares : Sound(s)'
    PROVE  ShareInv'
BY OneMoves, KnowledgeStays DEF ShareInv

\* Most steps of a handler only read.
LEMMA ReadingStep ==
    ASSUME ShareInv, NEW r \in Requests, NEW now \in Request, Proceed(r, now),
           UNCHANGED <<table, ghost>>, Knows(r)'
    PROVE  ShareInv'
<1>1. Keeps
  BY DEF Keeps, table, ghost, Exists, Imports
<1>2. TypeOK'
  BY DEF ShareInv, TypeOK, Proceed, table, ghost
<1>3. \A s \in Shares : Sound(s)'
  BY DEF ShareInv, Sound, Exists, For, table, ghost
<1> QED BY <1>1, <1>2, <1>3, HandlerStep

\* A step of the surroundings leaves the handlers alone.
LEMMA OutsideStep ==
    ASSUME ShareInv, UNCHANGED req, Keeps, TypeOK', \A s \in Shares : Sound(s)'
    PROVE  ShareInv'
BY KnowledgeStays DEF ShareInv

\* The row of a share has the fields of the table.
LEMMA RowFields ==
    ASSUME TypeOK, NEW s \in Shares, Exists(s)
    PROVE  share[s] \in Row
BY DEF TypeOK, Exists
-----------------------------------------------------------------------------
\* What is true of the shares and what the handlers of element_shares.go know
\* of them, in every order of their statements.
THEOREM ShareInvariant == Spec => []ShareInv
<1>1. Init => ShareInv
  <2> SUFFICES ASSUME Init PROVE ShareInv
    OBVIOUS
  <2>1. TypeOK
    BY DEF Init, TypeOK, Request
  <2>2. \A s \in Shares : Sound(s)
    BY DEF Init, Sound, Exists
  <2>3. \A r \in Requests : Knows(r)
    BY DEF Init, Idle, Knows
  <2> QED BY <2>1, <2>2, <2>3 DEF ShareInv
<1>2. ShareInv /\ [Next]_vars => ShareInv'
  <2> SUFFICES ASSUME ShareInv, [Next]_vars PROVE ShareInv'
    OBVIOUS
  <2>1. TypeOK /\ (\A s \in Shares : Sound(s)) /\ \A r \in Requests : Knows(r)
    BY DEF ShareInv
  <2>2. ASSUME NEW r \in Requests, NEW u \in Users, NEW d \in Dags, NEW to \in Offers,
               CreateRead(r, u, d, to)
        PROVE  ShareInv'
    <3> DEFINE now == [op |-> "creating", by |-> u, source |-> d, to |-> Normal(to)]
    <3>1. Normal(to) \in Audience(Kinds)
      BY OffersAssumption DEF Normal, Audience, Kinds
    <3>2. now \in Request
      BY <3>1 DEF Request
    <3>3. Proceed(r, now) /\ req'[r].op = "creating"
      BY <2>1, <2>2, OneMoves DEF CreateRead
    <3> QED BY <2>2, <3>2, <3>3, ReadingStep DEF CreateRead, Knows
  <2>3. ASSUME NEW r \in Requests, NEW s \in Shares, Create(r, s)
        PROVE  ShareInv'
    <3> DEFINE new == [to |-> req[r].to, by |-> req[r].by, source |-> req[r].source,
                       revoked |-> FALSE, importedBy |-> <<>>]
    <3>1. new \in Row
      <4>1. req[r] \in [op : {"creating"}, by : Users, source : Dags, to : Audience(Kinds)]
        BY <2>1, <2>3, Fields DEF Create
      <4>2. <<>> \in Seq(Users)
        OBVIOUS
      <4> QED BY <4>1, <4>2 DEF Row
    <3>2. /\ share'[s] = new /\ \A t \in Shares \ {s} : share'[t] = share[t]
          /\ s \notin ended
      BY <2>1, <2>3 DEF Create, TypeOK, Sound, Exists
    <3>3. new.source \in dags /\ new.importedBy = <<>>
      BY <2>3 DEF Create
    <3>4. Keeps
      BY <2>3, <3>2 DEF Create, Keeps, Exists, ghost, Imports
    <3>5. TypeOK'
      BY <2>1, <2>3, <3>1 DEF Create, TypeOK, ghost, Proceed, Request
    <3>6. \A t \in Shares : Sound(t)'
      <4>1. Sound(s)'
        BY <2>3, <3>2, <3>3 DEF Create, Sound, ghost
      <4>2. \A t \in Shares \ {s} : Sound(t)'
        BY <2>1, <2>3, <3>2 DEF Create, Sound, ghost, Exists, For
      <4> QED BY <4>1, <4>2
    <3>7. req'[r] = Idle /\ Proceed(r, Idle)
      BY <2>1, <2>3, OneMoves DEF Create
    <3>8. Knows(r)'
      BY <3>7 DEF Knows, Idle
    <3> QED BY <3>4, <3>5, <3>6, <3>7, <3>8, HandlerStep
  <2>4. ASSUME NEW r \in Requests, NEW s \in Shares, ExchangeCheck(r, s)
        PROVE  ShareInv'
    <3> DEFINE now == [op |-> "exchanging", user |-> Nobody, share |-> s, late |-> s \in ended]
    <3>1. now \in Request
      BY DEF Request
    <3>5. now.op = "exchanging" /\ now.share = s /\ (now.late => s \in ended)
      BY Zenon
    <3>2. Proceed(r, now) /\ req'[r] = now
      BY <2>1, <2>4, OneMoves DEF ExchangeCheck
    <3>4. Exists(s) /\ IsPublic(s) /\ (s \in ended => share[s].revoked) /\ share' = share
      BY <2>1, <2>4 DEF ExchangeCheck, Sound, table
    <3> HIDE DEF now
    <3>3. Knows(r)'
      BY <3>2, <3>4, <3>5 DEF Knows, Exists, IsPublic
    <3> QED BY <2>4, <3>1, <3>2, <3>3, ReadingStep DEF ExchangeCheck
  <2>5. ASSUME NEW r \in Requests, Exchange(r)
        PROVE  ShareInv'
    <3> DEFINE now == [req[r] EXCEPT !.op = "opened"]
    <3>1. req[r] \in [op : {"exchanging"}, user : {Nobody}, share : Shares, late : BOOLEAN]
      BY <2>1, <2>5, Fields DEF Exchange
    <3>2. /\ now \in [op : {"opened"}, user : Users \cup {Nobody}, share : Shares, late : BOOLEAN]
          /\ now.op = "opened" /\ now.user = req[r].user /\ now.share = req[r].share
          /\ now.late = req[r].late
      BY <3>1
    <3>3. now \in Request
      BY <3>2 DEF Request
    <3>4. Proceed(r, now) /\ req'[r] = now
      BY <2>1, <2>5, OneMoves DEF Exchange
    <3> HIDE DEF now
    <3>5. Knows(r)'
      BY <2>1, <2>5, <3>1, <3>2, <3>4 DEF Exchange, Knows, table, ghost, Exists, IsPublic, For
    <3> QED BY <2>5, <3>3, <3>4, <3>5, ReadingStep DEF Exchange
  <2>6. ASSUME NEW r \in Requests, NEW u \in Users, NEW s \in Shares,
               NEW op \in {"getting", "importing"}, GetRow(r, u, s, op)
        PROVE  ShareInv'
    <3> DEFINE now == [op |-> op, user |-> u, share |-> s, late |-> s \in ended]
    <3>1. now \in Request
      BY DEF Request
    <3>5. now.op \in {"getting", "importing"} /\ now.share = s /\ (now.late => s \in ended)
      BY Zenon
    <3>2. Proceed(r, now) /\ req'[r] = now
      BY <2>1, <2>6, OneMoves DEF GetRow
    <3>4. Exists(s) /\ s \notin ended /\ share' = share
      BY <2>1, <2>6 DEF GetRow, Sound, table
    <3> HIDE DEF now
    <3>3. Knows(r)'
      BY <3>2, <3>4, <3>5 DEF Knows, Exists
    <3> QED BY <2>6, <3>1, <3>2, <3>3, ReadingStep DEF GetRow
  <2>7. ASSUME NEW r \in Requests, CheckAudience(r)
        PROVE  ShareInv'
    <3> DEFINE now == [req[r] EXCEPT !.op = IF @ = "getting" THEN "opened" ELSE "appending"]
    <3>1. req[r] \in [op : {"getting", "importing", "appending", "imported"},
                      user : Users, share : Shares, late : BOOLEAN]
      BY <2>1, <2>7, Fields DEF CheckAudience
    <3>2. /\ now \in [op : {"opened", "appending"}, user : Users, share : Shares, late : BOOLEAN]
          /\ now.op \in {"opened", "appending"} /\ now.user = req[r].user
          /\ now.share = req[r].share /\ now.late = req[r].late
      BY <3>1
    <3>3. now \in Request
      BY <3>2 DEF Request
    <3>4. Proceed(r, now) /\ req'[r] = now
      BY <2>1, <2>7, OneMoves DEF CheckAudience
    <3>5. For(req[r].share, req[r].user)
      BY <2>1, <2>7, <3>1 DEF CheckAudience, InAudience, IdsOf, For, TypeOK
    <3> HIDE DEF now
    <3>6. Knows(r)'
      BY <2>1, <2>7, <3>1, <3>2, <3>4, <3>5 DEF CheckAudience, Knows, table, ghost, Exists, For
    <3> QED BY <2>7, <3>3, <3>4, <3>6, ReadingStep DEF CheckAudience
  <2>8. ASSUME NEW r \in Requests, Import(r)
        PROVE  ShareInv'
    <3> DEFINE now == [req[r] EXCEPT !.op = "imported"]
    <3>1. req[r] \in [op : {"getting", "importing", "appending", "imported"},
                      user : Users, share : Shares, late : BOOLEAN]
      BY <2>1, <2>8, Fields DEF Import
    <3>0. PICK s \in Shares, u \in Users : s = req[r].share /\ u = req[r].user
      BY <3>1
    <3>2. Exists(s) /\ For(s, u) /\ ~ req[r].late
      BY <2>1, <2>8, <3>0 DEF Import, Knows
    <3>3. PICK old \in Seq(Users) : old = share[s].importedBy /\ share[s] \in Row
      BY <2>1, <3>2, RowFields DEF Row
    <3>4. \A i, j \in DOMAIN old : old[i] = old[j] => i = j
      BY <2>1, <3>2, <3>3 DEF Sound
    <3> DEFINE new == AppendOnce(old, u)
    <3>5. /\ new \in Seq(Users)
          /\ \A i, j \in DOMAIN new : new[i] = new[j] => i = j
          /\ \A i \in DOMAIN new : new[i] = u \/ \E j \in DOMAIN old : new[i] = old[j]
          /\ \A v \in Users : (v = u \/ \E i \in DOMAIN old : old[i] = v) => \E i \in DOMAIN new : new[i] = v
      BY <3>4, AppendedOnce
    <3> HIDE DEF new
    <3>6. /\ share'[s] = [share[s] EXCEPT !.importedBy = new]
          /\ \A t \in Shares \ {s} : share'[t] = share[t]
      BY <2>1, <2>8, <3>0, <3>3 DEF Import, TypeOK, new
    <3>7. /\ share'[s].importedBy = new /\ share'[s] \in Row
          /\ share'[s].to = share[s].to /\ share'[s].by = share[s].by
          /\ share'[s].source = share[s].source /\ share'[s].revoked = share[s].revoked
      BY <3>3, <3>5, <3>6 DEF Row
    <3>8. Exists(s)'
      BY <3>7, ValuesAssumption DEF Exists
    <3> UNCHANGED <<dags, once, ended>>
      BY <2>8 DEF Import, ghost
    <3>9. Keeps
      <4>1. \A v \in Users : Imports(s, v) => Imports(s, v)'
        BY <3>3, <3>5, <3>7 DEF Imports
      <4>2. \A t \in Shares \ {s} : Exists(t) => Exists(t)' /\ \A v \in Users : Imports(t, v) => Imports(t, v)'
        BY <3>6 DEF Exists, Imports
      <4> QED BY <3>6, <3>7, <3>8, <4>1, <4>2 DEF Keeps
    <3>10. now \in [op : {"imported"}, user : Users, share : Shares, late : BOOLEAN]
           /\ now.op = "imported" /\ now.user = u /\ now.share = s /\ now.late = req[r].late
      BY <3>0, <3>1
    <3>11. Proceed(r, now) /\ req'[r] = now
      BY <2>1, <2>8, OneMoves DEF Import
    <3>12. TypeOK'
      <4>1. now \in Request
        BY <3>10 DEF Request
      <4>2. share' \in [Shares -> Row \cup {Absent}]
        BY <2>1, <2>8, <3>0, <3>6, <3>7 DEF Import, TypeOK
      <4> QED BY <2>1, <2>8, <3>11, <4>1, <4>2 DEF Import, TypeOK, ghost, Proceed
    <3> HIDE DEF now
    <3>13. Knows(r)'
      <4>1. Imports(s, u)' /\ For(s, u)'
        BY <3>2, <3>5, <3>7 DEF Imports, For
      <4> QED BY <3>2, <3>8, <3>10, <3>11, <4>1 DEF Knows
    <3>14. \A t \in Shares : Sound(t)'
      <4>1. Sound(s)'
        <5>1. \A i \in DOMAIN new : For(s, new[i])
          BY <2>1, <3>2, <3>3, <3>5 DEF Sound
        <5>2. \A x : For(s, x) => For(s, x)'
          BY <3>7 DEF For
        <5> QED BY <2>1, <3>2, <3>5, <3>7, <3>8, <5>1, <5>2 DEF Sound
      <4>2. ASSUME NEW t \in Shares \ {s} PROVE Sound(t)'
        <5>1. share'[t] = share[t] /\ Sound(t)
          BY <2>1, <3>6
        <5>2. \A x : For(t, x) => For(t, x)'
          BY <5>1 DEF For
        <5> QED BY <5>1, <5>2 DEF Sound, Exists
      <4> QED BY <4>1, <4>2
    <3> QED BY <3>9, <3>11, <3>12, <3>13, <3>14, HandlerStep
  <2>9. ASSUME NEW r \in Requests, NEW u \in Users, NEW s \in Shares, RevokeRead(r, u, s)
        PROVE  ShareInv'
    <3> DEFINE now == [op |-> "revoking", share |-> s]
    <3>1. now \in Request
      BY DEF Request
    <3>2. Proceed(r, now) /\ req'[r] = now
      BY <2>1, <2>9, OneMoves DEF RevokeRead
    <3>3. Knows(r)'
      BY <2>9, <3>2 DEF RevokeRead, Knows, table, Exists
    <3> QED BY <2>9, <3>1, <3>2, <3>3, ReadingStep DEF RevokeRead
  <2>10. ASSUME NEW r \in Requests, Revoke(r)
         PROVE  ShareInv'
    <3>1. req[r] \in [op : {"revoking", "denying"}, share : Shares]
      BY <2>1, <2>10, Fields DEF Revoke
    <3>2. PICK s \in Shares : s = req[r].share
      BY <3>1
    <3> DEFINE now == [op |-> "denying", share |-> s]
    <3>3. Exists(s)
      BY <2>1, <2>10, <3>2 DEF Revoke, Knows
    <3>4. share[s] \in Row
      BY <2>1, <3>3, RowFields
    <3>5. /\ share'[s] = [share[s] EXCEPT !.revoked = TRUE]
          /\ \A t \in Shares \ {s} : share'[t] = share[t]
      BY <2>1, <2>10, <3>2 DEF Revoke, TypeOK
    <3>6. /\ share'[s] \in Row /\ share'[s].revoked
          /\ share'[s].importedBy = share[s].importedBy
          /\ share'[s].to = share[s].to /\ share'[s].by = share[s].by
          /\ share'[s].source = share[s].source
      BY <3>4, <3>5 DEF Row
    <3>7. Exists(s)'
      BY <3>6, ValuesAssumption DEF Exists
    <3> UNCHANGED <<dags, once, ended>>
      BY <2>10 DEF Revoke, ghost
    <3>8. Keeps
      <4>1. \A v \in Users : Imports(s, v) => Imports(s, v)'
        BY <3>6 DEF Imports
      <4>2. \A t \in Shares \ {s} : Exists(t) => Exists(t)' /\ \A v \in Users : Imports(t, v) => Imports(t, v)'
        BY <3>5 DEF Exists, Imports
      <4> QED BY <3>5, <3>6, <3>7, <4>1, <4>2 DEF Keeps
    <3>9. Proceed(r, now) /\ req'[r] = now
      BY <2>1, <2>10, <3>2, OneMoves DEF Revoke
    <3>10. TypeOK'
      <4>1. now \in Request
        BY DEF Request
      <4>2. share' \in [Shares -> Row \cup {Absent}]
        BY <2>1, <2>10, <3>2, <3>5, <3>6 DEF Revoke, TypeOK
      <4> QED BY <2>1, <2>10, <3>9, <4>1, <4>2 DEF Revoke, TypeOK, ghost, Proceed
    <3>11. Knows(r)'
      BY <3>6, <3>7, <3>9 DEF Knows
    <3>12. \A t \in Shares : Sound(t)'
      <4>1. Sound(s)'
        <5>1. \A x : For(s, x) => For(s, x)'
          BY <3>6 DEF For
        <5> QED BY <2>1, <3>3, <3>6, <3>7, <5>1 DEF Sound
      <4>2. ASSUME NEW t \in Shares \ {s} PROVE Sound(t)'
        <5>1. share'[t] = share[t] /\ Sound(t)
          BY <2>1, <3>5
        <5>2. \A x : For(t, x) => For(t, x)'
          BY <5>1 DEF For
        <5> QED BY <5>1, <5>2 DEF Sound, Exists
      <4> QED BY <4>1, <4>2
    <3> QED BY <3>8, <3>9, <3>10, <3>11, <3>12, HandlerStep
  <2>11. ASSUME NEW r \in Requests, Deny(r)
         PROVE  ShareInv'
    <3>1. req[r].share \in Shares
      BY <2>1, <2>11, Fields DEF Deny
    <3>2. Exists(req[r].share) /\ share[req[r].share].revoked
      BY <2>1, <2>11 DEF Deny, Knows
    <3>3. Keeps
      BY <2>11 DEF Deny, Keeps, Exists, Imports
    <3>4. Proceed(r, Idle) /\ req'[r] = Idle
      BY <2>1, <2>11, OneMoves DEF Deny
    <3>5. TypeOK'
      BY <2>1, <2>11, <3>1, <3>4 DEF Deny, TypeOK, Proceed, Request
    <3>6. Knows(r)'
      BY <3>4 DEF Knows, Idle
    <3>7. \A s \in Shares : Sound(s)'
      BY <2>1, <2>11, <3>2 DEF Deny, Sound, Exists, For
    <3> QED BY <3>3, <3>4, <3>5, <3>6, <3>7, HandlerStep
  <2>12. ASSUME NEW r \in Requests, NEW u \in Users, InboxCompanies(r, u)
         PROVE  ShareInv'
    <3> DEFINE now == [op |-> "grouping", user |-> u, companies |-> IdsOf(u, Companies)]
    <3>1. now \in Request
      BY DEF Request, IdsOf
    <3>2. Proceed(r, now) /\ req'[r] = now
      BY <2>1, <2>12, OneMoves DEF InboxCompanies
    <3>3. \A i \in IdsOf(u, Companies) : <<u, i>> \in once'
      BY <2>1, <2>12 DEF InboxCompanies, IdsOf, TypeOK, ghost
    <3>4. now.op = "grouping" /\ now.user = u /\ now.companies = IdsOf(u, Companies)
      OBVIOUS
    <3> HIDE DEF now
    <3>5. Knows(r)'
      BY <3>2, <3>3, <3>4 DEF Knows
    <3> QED BY <2>12, <3>1, <3>2, <3>5, ReadingStep DEF InboxCompanies
  <2>13. ASSUME NEW r \in Requests, InboxGroups(r)
         PROVE  ShareInv'
    <3>1. req[r] \in [op : {"grouping"}, user : Users, companies : SUBSET Companies]
      BY <2>1, <2>13, Fields DEF InboxGroups
    <3> DEFINE now == [op |-> "listing", user |-> req[r].user, companies |-> req[r].companies,
                       groups |-> IdsOf(req[r].user, Groups)]
    <3>2. now \in Request
      BY <3>1 DEF Request, IdsOf
    <3>3. Proceed(r, now) /\ req'[r] = now
      BY <2>1, <2>13, OneMoves DEF InboxGroups
    <3>4. /\ \A i \in now.companies : <<now.user, i>> \in once'
          /\ \A i \in now.groups : <<now.user, i>> \in once'
      BY <2>1, <2>13 DEF InboxGroups, IdsOf, Knows, TypeOK, ghost
    <3>5. now.op = "listing"
      OBVIOUS
    <3> HIDE DEF now
    <3>6. Knows(r)'
      BY <3>3, <3>4, <3>5 DEF Knows
    <3> QED BY <2>13, <3>2, <3>3, <3>6, ReadingStep DEF InboxGroups
  <2>14. ASSUME NEW r \in Requests, Inbox(r)
         PROVE  ShareInv'
    <3>1. req[r] \in [op : {"listing"}, user : Users, companies : SUBSET Companies, groups : SUBSET Groups]
      BY <2>1, <2>14, Fields DEF Inbox
    <3> DEFINE found == {s \in Shares : Live(s) /\ ForInbox(share[s].to, share[s].by, req[r].user,
                                                          req[r].companies, req[r].groups)}
               now == [op |-> "listed", user |-> req[r].user, shares |-> found]
    <3>2. now \in Request
      BY <3>1 DEF Request
    <3>3. Proceed(r, now) /\ req'[r] = now
      BY <2>1, <2>14, OneMoves DEF Inbox
    <3>4. \A s \in found : Exists(s) /\ For(s, req[r].user)
      BY <2>1, <2>14 DEF Inbox, Live, ForInbox, For, Knows
    <3>5. now.op = "listed" /\ now.user = req[r].user /\ now.shares = found
      OBVIOUS
    <3>6. share' = share /\ once' = once
      BY <2>14 DEF Inbox, table, ghost
    <3> HIDE DEF now, found
    <3>7. Knows(r)'
      BY <3>3, <3>4, <3>5, <3>6 DEF Knows, Exists, For
    <3> QED BY <2>14, <3>2, <3>3, <3>7, ReadingStep DEF Inbox, now, found
  <2>15. ASSUME NEW r \in Requests, Catalog(r)
         PROVE  ShareInv'
    <3> DEFINE found == {s \in Shares : Live(s) /\ share[s].to.catalog /\ IsPublic(s)}
               now == [op |-> "listed", user |-> Nobody, shares |-> found]
    <3>1. now \in Request
      BY DEF Request
    <3>2. Proceed(r, now) /\ req'[r] = now
      BY <2>1, <2>15, OneMoves DEF Catalog
    <3>3. \A s \in found : Exists(s) /\ For(s, Nobody)
      BY DEF Live, IsPublic, For
    <3>4. now.op = "listed" /\ now.user = Nobody /\ now.shares = found
      OBVIOUS
    <3>5. share' = share /\ once' = once
      BY <2>15 DEF Catalog, table, ghost
    <3> HIDE DEF now, found
    <3>6. Knows(r)'
      BY <3>2, <3>3, <3>4, <3>5 DEF Knows, Exists, For
    <3> QED BY <2>15, <3>1, <3>2, <3>6, ReadingStep DEF Catalog, now, found
  <2>16. ASSUME NEW r \in Requests, End(r)
         PROVE  ShareInv'
    <3>1. Idle \in Request
      BY DEF Request
    <3>2. Proceed(r, Idle) /\ req'[r] = Idle
      BY <2>1, <2>16, OneMoves DEF End
    <3>3. Knows(r)'
      BY <3>2 DEF Knows, Idle
    <3> QED BY <2>16, <3>1, <3>2, <3>3, ReadingStep DEF End
  <2>17. ASSUME NEW s \in Shares, Expire(s)
         PROVE  ShareInv'
    <3>1. Keeps /\ UNCHANGED req
      BY <2>17 DEF Expire, Keeps, Exists, Imports, ghost
    <3>2. TypeOK'
      BY <2>1, <2>17 DEF Expire, TypeOK, ghost
    <3>3. \A t \in Shares : Sound(t)'
      BY <2>1, <2>17 DEF Expire, Sound, Exists, For, ghost
    <3> QED BY <3>1, <3>2, <3>3, OutsideStep
  <2>18. ASSUME NEW d \in Dags, DeleteDag(d)
         PROVE  ShareInv'
    <3> UNCHANGED <<req, once, ended>>
      BY <2>18 DEF DeleteDag, ghost
    <3>1. \A s \in Shares : Exists(s) =>
             /\ share'[s] \in Row
             /\ share'[s].to = share[s].to /\ share'[s].by = share[s].by
             /\ share'[s].importedBy = share[s].importedBy /\ share'[s].revoked = share[s].revoked
             /\ share'[s].source \in dags' \cup {NoDag}
      <4> SUFFICES ASSUME NEW s \in Shares, Exists(s)
                   PROVE  /\ share'[s] \in Row
                          /\ share'[s].to = share[s].to /\ share'[s].by = share[s].by
                          /\ share'[s].importedBy = share[s].importedBy
                          /\ share'[s].revoked = share[s].revoked
                          /\ share'[s].source \in dags' \cup {NoDag}
        OBVIOUS
      <4>1. share[s] \in Row
        BY <2>1, RowFields
      <4>2. share[s].source \in dags \cup {NoDag} /\ dags' = dags \ {d}
        BY <2>1, <2>18 DEF Sound, DeleteDag
      <4>3. CASE share[s].source = d
        <5>1. share'[s] = [share[s] EXCEPT !.source = NoDag]
          BY <2>18, <4>3 DEF DeleteDag
        <5> QED BY <4>1, <5>1 DEF Row
      <4>4. CASE share[s].source # d
        <5>1. share'[s] = share[s]
          BY <2>18, <4>4 DEF DeleteDag
        <5> QED BY <4>1, <4>2, <4>4, <5>1
      <4> QED BY <4>3, <4>4
    <3>2. \A s \in Shares : Exists(s) <=> Exists(s)'
      <4>1. \A s \in Shares : ~ Exists(s) => share'[s] = Absent
        BY <2>18 DEF DeleteDag, Exists
      <4> QED BY <3>1, <4>1, ValuesAssumption DEF Exists
    <3>3. Keeps
      BY <3>1, <3>2 DEF Keeps, Imports
    <3>4. TypeOK'
      <4>1. DOMAIN share' = Shares /\ share' = [s \in Shares |-> share'[s]]
        BY <2>18 DEF DeleteDag
      <4>2. \A s \in Shares : share'[s] \in Row \cup {Absent}
        BY <3>1, <3>2 DEF Exists
      <4>3. share' \in [Shares -> Row \cup {Absent}]
        BY <4>1, <4>2
      <4> QED BY <2>1, <2>18, <4>3 DEF DeleteDag, TypeOK
    <3>5. \A s \in Shares : Sound(s)'
      <4> SUFFICES ASSUME NEW s \in Shares PROVE Sound(s)'
        OBVIOUS
      <4>1. Exists(s) => \A x : For(s, x) => For(s, x)'
        BY <3>1 DEF For
      <4> QED BY <2>1, <3>1, <3>2, <4>1 DEF Sound
    <3> QED BY <3>3, <3>4, <3>5, OutsideStep
  <2>19. ASSUME NEW u \in Users, NEW i \in Companies \cup Groups, Joins(u, i) \/ Leaves(u, i)
         PROVE  ShareInv'
    <3>1. UNCHANGED <<share, expired, denied, dags, req, ended>> /\ once \subseteq once'
      BY <2>19 DEF Joins, Leaves, ghost
    <3>2. Keeps
      BY <3>1 DEF Keeps, Exists, Imports
    <3>3. TypeOK'
      BY <2>1, <2>19 DEF Joins, Leaves, TypeOK, ghost
    <3>4. \A s \in Shares : Sound(s)'
      BY <2>1, <3>1 DEF Sound, Exists, For
    <3> QED BY <3>1, <3>2, <3>3, <3>4, OutsideStep
  <2>20. CASE UNCHANGED vars
    <3>1. UNCHANGED <<share, expired, denied, dags, belongs, req, ended, once>>
      BY <2>20 DEF vars, table, ghost
    <3>2. Keeps
      BY <3>1 DEF Keeps, Exists, Imports
    <3>3. TypeOK' /\ \A s \in Shares : Sound(s)'
      BY <2>1, <3>1 DEF TypeOK, Sound, Exists, For
    <3> QED BY <3>1, <3>2, <3>3, OutsideStep
  <2> QED
    BY <2>2, <2>3, <2>4, <2>5, <2>6, <2>7, <2>8, <2>9, <2>10, <2>11, <2>12, <2>13, <2>14, <2>15,
       <2>16, <2>17, <2>18, <2>19, <2>20 DEF Next, Handler
<1> QED BY <1>1, <1>2, PTL DEF Spec

\* Rows and handlers keep their types: what createElementShare stores has one of
\* the kinds of audience.
THEOREM TypeCorrect == Spec => []TypeOK
<1>1. ShareInv => TypeOK
  BY DEF ShareInv
<1> QED BY <1>1, ShareInvariant, PTL

\* The foreign key and deleteDAG together leave no share of a deleted diagram.
THEOREM SourcesExist == Spec => []SourceExists
<1>1. ShareInv => SourceExists
  BY DEF ShareInv, Sound, SourceExists
<1> QED BY <1>1, ShareInvariant, PTL

\* AppendImportedBy counts every user whose importElementShare was answered, once,
\* however many of their imports run at once.
THEOREM CountedOnce == Spec => []ImportsCounted
<1>1. ShareInv => ImportsCounted
  BY DEF ShareInv, Sound, Knows, Imports, ImportsCounted
<1> QED BY <1>1, ShareInvariant, PTL

\* After revokeElementShare has answered, no request that comes later opens or
\* imports the share, also if its INSERT into the denylist failed.
THEOREM StaysClosed == Spec => []RevokedStaysClosed
<1>1. ShareInv => RevokedStaysClosed
  BY DEF ShareInv, Knows, RevokedStaysClosed
<1> QED BY <1>1, ShareInvariant, PTL

\* Nobody opens, imports or finds listed a share that was not made for them.
THEOREM OnlyForAudience == Spec => []AudienceOnly
<1>1. ShareInv => AudienceOnly
  BY DEF ShareInv, Sound, Knows, AudienceOnly
<1> QED BY <1>1, ShareInvariant, PTL

\* ListInboxShares and UserInAudience agree on who is in an audience.
THEOREM InboxAgreesAlways == Spec => []InboxAgrees
<1>1. InboxAgrees
  BY DEF InboxAgrees, InAudience, ForInbox, IsPublic
<1> QED BY <1>1, PTL
-----------------------------------------------------------------------------
\* What the abstract grant sees of the state.
InHand == {"getting", "importing", "appending", "opened", "imported"}
Given == {s \in Shares : Exists(s)}
Closed == {s \in Shares : Exists(s) /\ share[s].revoked}
Holding == {<<r, req[r].share>> : r \in {q \in Requests : req[q].op \in InHand}}
NothingSeen == Given' = Given /\ Closed' = Closed /\ Holding' = Holding

\* A handler that gets nothing in hand, and gives nothing away, is seen by nobody.
LEMMA HoldingStays ==
    ASSUME TypeOK, NEW r \in Requests, NEW now, Proceed(r, now),
           \/ req[r].op \notin InHand /\ now.op \notin InHand
           \/ req[r].op \in InHand /\ now.op \in InHand /\ now.share = req[r].share
    PROVE  Holding' = Holding
<1>1. req'[r] = now /\ \A q \in Requests \ {r} : req'[q] = req[q]
  BY OneMoves
<1>2. \A q \in Requests : /\ req'[q].op \in InHand <=> req[q].op \in InHand
                          /\ req[q].op \in InHand => req'[q].share = req[q].share
  BY <1>1
<1>3. {q \in Requests : req'[q].op \in InHand} = {q \in Requests : req[q].op \in InHand}
  BY <1>2
<1> QED BY <1>2, <1>3 DEF Holding

\* The rows as the abstract grant sees them depend on the table alone.
LEMMA RowsStay ==
    ASSUME share' = share
    PROVE  Given' = Given /\ Closed' = Closed
BY DEF Given, Closed, Exists

\* A request that gets something in hand.
LEMMA HoldingGrows ==
    ASSUME TypeOK, NEW r \in Requests, NEW s \in Shares, NEW now, Proceed(r, now),
           req[r].op \notin InHand, now.op \in InHand, now.share = s
    PROVE  Holding' = Holding \cup {<<r, s>>}
<1>1. req'[r] = now /\ \A q \in Requests \ {r} : req'[q] = req[q]
  BY OneMoves
<1> QED BY <1>1 DEF Holding

\* What the handlers of element_shares.go give out implements the abstract grant:
\* the INSERT gives it, revoked = TRUE closes it, and every answer stems from a
\* look at the row while it was not closed.
THEOREM Implements == Spec => ImplementsGrants
<1>1. Init => Grant!Init
  BY DEF Init, Grant!Init, Exists, Idle
<1>2. ShareInv /\ [Next]_vars => [Grant!Next]_(Grant!vars)
  <2> SUFFICES ASSUME ShareInv, [Next]_vars PROVE Grant!Next \/ NothingSeen
    BY DEF Grant!vars, NothingSeen, Given, Closed, Holding, InHand
  <2>1. TypeOK
    BY DEF ShareInv
  <2>2. ASSUME NEW r \in Requests, NEW now, Proceed(r, now), share' = share,
               req[r].op \notin InHand, now.op \notin InHand
        PROVE  NothingSeen
    BY <2>1, <2>2, HoldingStays, RowsStay DEF NothingSeen
  <2>3. ASSUME NEW r \in Requests, NEW s \in Shares, NEW now, Proceed(r, now),
               share' = share, req[r].op \notin InHand, now.op \in InHand, now.share = s,
               Exists(s), ~ share[s].revoked
        PROVE  Grant!Next
    <3>1. Holding' = Holding \cup {<<r, s>>} /\ Given' = Given /\ Closed' = Closed
      BY <2>1, <2>3, HoldingGrows, RowsStay
    <3>2. Grant!Hold(r, s)
      BY <2>3, <3>1 DEF Grant!Hold, Given, Closed, Holding, InHand
    <3> QED BY <3>2 DEF Grant!Next
  <2>4. ASSUME NEW r \in Requests, NEW u \in Users, NEW d \in Dags, NEW to \in Offers,
               CreateRead(r, u, d, to)
        PROVE  NothingSeen
    <3>1. \E now : Proceed(r, now) /\ now.op = "creating"
      BY <2>4 DEF CreateRead
    <3>2. req[r].op = "idle" /\ share' = share
      BY <2>4 DEF CreateRead, Idle, table
    <3> QED BY <2>2, <3>1, <3>2 DEF InHand
  <2>5. ASSUME NEW r \in Requests, NEW s \in Shares, Create(r, s) PROVE Grant!Next
    <3>1. req[r].op = "creating" /\ Proceed(r, Idle) /\ Idle.op = "idle"
      BY <2>5 DEF Create, Idle
    <3>2. Holding' = Holding
      BY <2>1, <3>1, HoldingStays DEF InHand
    <3>3. PICK row \in Row : share' = [share EXCEPT ![s] = row] /\ ~ row.revoked
      <4> DEFINE row == [to |-> req[r].to, by |-> req[r].by, source |-> req[r].source,
                         revoked |-> FALSE, importedBy |-> <<>>]
      <4>1. row \in Row
        BY <2>1, <3>1, Fields, EmptySeq DEF Row, Audience
      <4>2. share' = [share EXCEPT ![s] = row] /\ ~ row.revoked
        BY <2>5 DEF Create
      <4> QED BY <4>1, <4>2
    <3>4. share'[s] = row /\ row # Absent /\ \A t \in Shares \ {s} : share'[t] = share[t]
      BY <2>1, <3>3, ValuesAssumption DEF TypeOK
    <3>5. ~ Exists(s)
      BY <2>5 DEF Create
    <3>6. Given' = Given \cup {s} /\ Closed' = Closed
      BY <3>3, <3>4, <3>5 DEF Given, Closed, Exists
    <3>7. Grant!Give(s)
      BY <3>2, <3>5, <3>6 DEF Grant!Give, Given, Closed, Holding, InHand
    <3> QED BY <3>7 DEF Grant!Next
  <2>6. ASSUME NEW r \in Requests, NEW s \in Shares, ExchangeCheck(r, s) PROVE NothingSeen
    <3>1. \E now : Proceed(r, now) /\ now.op = "exchanging"
      BY <2>6 DEF ExchangeCheck
    <3>2. req[r].op = "idle" /\ share' = share
      BY <2>6 DEF ExchangeCheck, Idle, table
    <3> QED BY <2>2, <3>1, <3>2 DEF InHand
  <2>7. ASSUME NEW r \in Requests, Exchange(r) PROVE Grant!Next
    <3>1. /\ req[r].op = "exchanging" /\ ~ share[req[r].share].revoked
          /\ Proceed(r, [req[r] EXCEPT !.op = "opened"]) /\ share' = share
      BY <2>7 DEF Exchange, table
    <3>2. PICK s \in Shares : s = req[r].share
      BY <2>1, <3>1, Fields
    <3>3. Exists(s)
      BY <3>1, <3>2 DEF ShareInv, Knows
    <3>4. /\ [req[r] EXCEPT !.op = "opened"].op = "opened"
          /\ [req[r] EXCEPT !.op = "opened"].share = s
      BY <2>1, <3>1, <3>2, Fields
    <3> QED BY <2>3, <3>1, <3>2, <3>3, <3>4 DEF InHand
  <2>8. ASSUME NEW r \in Requests, NEW u \in Users, NEW s \in Shares,
               NEW op \in {"getting", "importing"}, GetRow(r, u, s, op)
        PROVE  Grant!Next
    <3>1. \E now : Proceed(r, now) /\ now.op = op /\ now.share = s
      BY <2>8 DEF GetRow
    <3>2. req[r].op = "idle" /\ share' = share /\ Exists(s) /\ ~ share[s].revoked
      BY <2>8 DEF GetRow, Idle, table
    <3> QED BY <2>3, <3>1, <3>2 DEF InHand
  <2>9. ASSUME NEW r \in Requests, CheckAudience(r) PROVE NothingSeen
    <3>1. PICK o \in {"opened", "appending"} : Proceed(r, [req[r] EXCEPT !.op = o])
      BY <2>9 DEF CheckAudience
    <3>2. req[r].op \in {"getting", "importing"} /\ share' = share
      BY <2>9 DEF CheckAudience, table
    <3>3. /\ [req[r] EXCEPT !.op = o].op = o
          /\ [req[r] EXCEPT !.op = o].share = req[r].share
      BY <2>1, <3>2, Fields
    <3> QED BY <2>1, <3>1, <3>2, <3>3, HoldingStays, RowsStay DEF NothingSeen, InHand
  <2>10. ASSUME NEW r \in Requests, Import(r) PROVE NothingSeen
    <3>1. /\ req[r].op = "appending" /\ Proceed(r, [req[r] EXCEPT !.op = "imported"])
          /\ share' = [share EXCEPT ![req[r].share].importedBy = AppendOnce(@, req[r].user)]
      BY <2>10 DEF Import
    <3>2. /\ [req[r] EXCEPT !.op = "imported"].op = "imported"
          /\ [req[r] EXCEPT !.op = "imported"].share = req[r].share
      BY <2>1, <3>1, Fields
    <3>3. Holding' = Holding
      BY <2>1, <3>1, <3>2, HoldingStays DEF InHand
    <3>4. PICK s \in Shares : s = req[r].share
      BY <2>1, <3>1, Fields
    <3>5. Exists(s) /\ share[s] \in Row
      BY <2>1, <3>1, <3>4, RowFields DEF ShareInv, Knows
    <3>6. PICK old \in Seq(Users), u \in Users : old = share[s].importedBy /\ u = req[r].user
      BY <2>1, <3>1, <3>5, Fields DEF Row
    <3>7. AppendOnce(old, u) \in Seq(Users)
      BY <3>5, <3>6, AppendedOnce DEF ShareInv, Sound
    <3>8. /\ share'[s] = [share[s] EXCEPT !.importedBy = AppendOnce(old, u)]
          /\ \A t \in Shares \ {s} : share'[t] = share[t]
      BY <2>1, <3>1, <3>4, <3>6 DEF TypeOK
    <3>9. share'[s] \in Row /\ share'[s].revoked = share[s].revoked
      BY <3>5, <3>7, <3>8 DEF Row
    <3>10. \A t \in Shares : /\ Exists(t)' <=> Exists(t)
                             /\ Exists(t) => share'[t].revoked = share[t].revoked
      BY <3>5, <3>8, <3>9, ValuesAssumption DEF Exists
    <3> QED BY <3>3, <3>10 DEF NothingSeen, Given, Closed
  <2>11. ASSUME NEW r \in Requests, NEW u \in Users, NEW s \in Shares, RevokeRead(r, u, s)
         PROVE  NothingSeen
    <3>1. \E now : Proceed(r, now) /\ now.op = "revoking"
      BY <2>11 DEF RevokeRead
    <3>2. req[r].op = "idle" /\ share' = share
      BY <2>11 DEF RevokeRead, Idle, table
    <3> QED BY <2>2, <3>1, <3>2 DEF InHand
  <2>12. ASSUME NEW r \in Requests, Revoke(r) PROVE Grant!Next \/ NothingSeen
    <3>1. /\ req[r].op = "revoking" /\ Proceed(r, [op |-> "denying", share |-> req[r].share])
          /\ share' = [share EXCEPT ![req[r].share].revoked = TRUE]
      BY <2>12 DEF Revoke
    <3>2. Holding' = Holding
      <4>1. [op |-> "denying", share |-> req[r].share].op = "denying"
        OBVIOUS
      <4> QED BY <2>1, <3>1, <4>1, HoldingStays DEF InHand
    <3>3. PICK s \in Shares : s = req[r].share
      BY <2>1, <3>1, Fields
    <3>4. Exists(s) /\ share[s] \in Row
      BY <2>1, <3>1, <3>3, RowFields DEF ShareInv, Knows
    <3>5. /\ share'[s] = [share[s] EXCEPT !.revoked = TRUE]
          /\ \A t \in Shares \ {s} : share'[t] = share[t]
      BY <2>1, <3>1, <3>3 DEF TypeOK
    <3>6. share'[s] \in Row /\ share'[s].revoked
      BY <3>4, <3>5 DEF Row
    <3>7. Given' = Given /\ Closed' = Closed \cup {s}
      BY <3>4, <3>5, <3>6, ValuesAssumption DEF Given, Closed, Exists
    <3>8. s \notin Closed => Grant!Close(s)
      BY <3>2, <3>4, <3>7 DEF Grant!Close, Given, Closed, Holding, InHand
    <3>9. s \in Closed => NothingSeen
      BY <3>2, <3>7 DEF NothingSeen
    <3> QED BY <3>8, <3>9 DEF Grant!Next
  <2>13. ASSUME NEW r \in Requests, Deny(r) PROVE NothingSeen
    <3>1. req[r].op = "denying" /\ Proceed(r, Idle) /\ Idle.op = "idle" /\ share' = share
      BY <2>13 DEF Deny, Idle
    <3> QED BY <2>2, <3>1 DEF InHand
  <2>14. ASSUME NEW r \in Requests, NEW u \in Users, InboxCompanies(r, u) PROVE NothingSeen
    <3>1. \E now : Proceed(r, now) /\ now.op = "grouping"
      BY <2>14 DEF InboxCompanies
    <3>2. req[r].op = "idle" /\ share' = share
      BY <2>14 DEF InboxCompanies, Idle, table
    <3> QED BY <2>2, <3>1, <3>2 DEF InHand
  <2>15. ASSUME NEW r \in Requests, InboxGroups(r) PROVE NothingSeen
    <3>1. \E now : Proceed(r, now) /\ now.op = "listing"
      BY <2>15 DEF InboxGroups
    <3>2. req[r].op = "grouping" /\ share' = share
      BY <2>15 DEF InboxGroups, table
    <3> QED BY <2>2, <3>1, <3>2 DEF InHand
  <2>16. ASSUME NEW r \in Requests, Inbox(r) \/ Catalog(r) PROVE NothingSeen
    <3>1. \E now : Proceed(r, now) /\ now.op = "listed"
      BY <2>16 DEF Inbox, Catalog
    <3>2. req[r].op \in {"idle", "listing"} /\ share' = share
      BY <2>16 DEF Inbox, Catalog, Idle, table
    <3> QED BY <2>2, <3>1, <3>2 DEF InHand
  <2>17. ASSUME NEW r \in Requests, End(r) PROVE Grant!Next \/ NothingSeen
    <3>1. Proceed(r, Idle) /\ share' = share
      BY <2>17 DEF End, table
    <3>2. req'[r] = Idle /\ \A q \in Requests \ {r} : req'[q] = req[q]
      BY <2>1, <3>1, OneMoves
    <3>3. Holding' = {h \in Holding : h[1] # r}
      BY <3>2 DEF Holding, Idle, InHand
    <3>4. (\E h \in Holding : h[1] = r) => Grant!Drop(r)
      BY <3>1, <3>3, RowsStay DEF Grant!Drop, Given, Closed, Holding, InHand
    <3>5. (\A h \in Holding : h[1] # r) => Holding' = Holding
      BY <3>3
    <3> QED BY <3>1, <3>4, <3>5, RowsStay DEF Grant!Next, NothingSeen
  <2>18. ASSUME share' = share, req' = req PROVE NothingSeen
    BY <2>18, RowsStay DEF NothingSeen, Holding
  <2>19. ASSUME NEW s \in Shares, Expire(s) PROVE share' = share /\ req' = req
    BY <2>19 DEF Expire
  <2>20. ASSUME NEW d \in Dags, DeleteDag(d) PROVE NothingSeen
    <3>1. \A s \in Shares : /\ Exists(s)' <=> Exists(s)
                            /\ Exists(s) => share'[s].revoked = share[s].revoked
      <4> SUFFICES ASSUME NEW s \in Shares
                   PROVE  /\ Exists(s)' <=> Exists(s)
                          /\ Exists(s) => share'[s].revoked = share[s].revoked
        OBVIOUS
      <4>1. CASE Exists(s) /\ share[s].source = d
        <5>1. share'[s] = [share[s] EXCEPT !.source = NoDag]
          BY <2>20, <4>1 DEF DeleteDag
        <5>2. share[s] \in Row
          BY <2>1, <4>1, RowFields
        <5>3. share'[s] \in Row /\ share'[s].revoked = share[s].revoked
          BY <5>1, <5>2 DEF Row
        <5> QED BY <4>1, <5>3, ValuesAssumption DEF Exists
      <4>2. CASE ~ (Exists(s) /\ share[s].source = d)
        <5>1. share'[s] = share[s]
          BY <2>20, <4>2 DEF DeleteDag
        <5> QED BY <5>1 DEF Exists
      <4> QED BY <4>1, <4>2
    <3>2. req' = req
      BY <2>20 DEF DeleteDag
    <3> QED BY <3>1, <3>2 DEF NothingSeen, Given, Closed, Holding
  <2>21. ASSUME NEW u \in Users, NEW i \in Companies \cup Groups, Joins(u, i) \/ Leaves(u, i)
         PROVE  share' = share /\ req' = req
    BY <2>21 DEF Joins, Leaves
  <2>22. CASE UNCHANGED vars
    BY <2>18, <2>22 DEF vars, table
  <2> QED
    BY <2>4, <2>5, <2>6, <2>7, <2>8, <2>9, <2>10, <2>11, <2>12, <2>13, <2>14, <2>15, <2>16,
       <2>17, <2>18, <2>19, <2>20, <2>21, <2>22 DEF Next, Handler
<1> QED BY <1>1, <1>2, ShareInvariant, PTL DEF Spec, ImplementsGrants, Grant!Spec
=============================================================================
