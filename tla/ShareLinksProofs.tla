-------------------------- MODULE ShareLinksProofs --------------------------
(***************************************************************************)
(* Proofs about ShareLinks, for any number of links, diagrams and          *)
(* handlers.                                                               *)
(***************************************************************************)
EXTENDS ShareLinks, TLAPS

-----------------------------------------------------------------------------
\* What is true of a link.  A jti that was never used is in no table, and what
\* the row says is what the token says as long as the row is there.
Sound(l) ==
    /\ share[l] # Absent => l \in made /\ share[l].dag \in dags
    /\ token[l] # Absent => l \in made /\ (share[l] = token[l] \/ l \in lost)
    /\ token[l] # Absent /\ token[l].role = "edit" => l \in editors
    /\ l \in ended => l \in denied

\* What a handler holds: the token it made and will hand out, a link that was
\* handed out, the answer of the denylist.
Knows(r) ==
    /\ req[r].op = "made" =>
          /\ req[r].link \in made
          /\ share[req[r].link] = req[r].token \/ req[r].link \in lost
          /\ req[r].token.role = "edit" => req[r].link \in editors
    /\ req[r].op = "revoked" => req[r].link \in denied /\ token[req[r].link] # Absent
    /\ req[r].op \in Presented =>
          token[req[r].link] # Absent
    /\ req[r].op \in {"exchanging", "upgrading"} /\ req[r].late => req[r].link \in denied
    /\ req[r].op \in LetIn => ~ req[r].late
    /\ req[r].op = "saving" => req[r].link \in editors

LinkInv ==
    /\ TypeOK
    /\ \A l \in Links : Sound(l)
    /\ \A r \in Requests : Knows(r)

\* The fields that a handler's phase promises.
LEMMA Fields ==
    ASSUME TypeOK, NEW r \in Requests
    PROVE
    /\ req[r].op = "made" => req[r].link \in Links /\ req[r].token \in Claims
    /\ req[r].op = "revoked" => req[r].link \in Links
    /\ req[r].op \in Presented =>
          /\ req[r].link \in Links /\ req[r].late \in BOOLEAN
          /\ \A o \in Presented :
                [req[r] EXCEPT !.op = o] = [op |-> o, link |-> req[r].link, late |-> req[r].late]
BY DEF TypeOK, Request, Idle, Presented, Uses, LetIn

\* A step of one handler leaves the others where they are.
LEMMA OneMoves ==
    ASSUME TypeOK, NEW r \in Requests, NEW now, Proceed(r, now)
    PROVE  req'[r] = now /\ \A q \in Requests \ {r} : req'[q] = req[q]
BY DEF Proceed, TypeOK


\* The tables, tokens, handlers and history variables keep their types.
THEOREM TypeCorrect == Spec => []TypeOK
<1>1. Init => TypeOK
  BY DEF Init, TypeOK, Request
<1>2. TypeOK /\ [Next]_vars => TypeOK'
  <2> SUFFICES ASSUME TypeOK, [Next]_vars PROVE TypeOK'
    OBVIOUS
  <2>1. ASSUME NEW r \in Requests, NEW l \in Links, NEW d \in Dags,
               NEW role \in Roles \cup {"other"}, NEW past \in BOOLEAN,
               Create(r, l, d, role, past)
        PROVE  TypeOK'
    <3>1. [dag |-> d, role |-> NormalRole(role)] \in Claims
      BY DEF NormalRole, Roles, Claims
    <3>2. [op |-> "made", link |-> l, token |-> [dag |-> d, role |-> NormalRole(role)]] \in Request
      BY <3>1 DEF Request
    <3> QED BY <2>1, <3>1, <3>2 DEF Create, TypeOK, Proceed
  <2>2. ASSUME NEW r \in Requests, HandOut(r) PROVE TypeOK'
    BY <2>2, Fields DEF HandOut, TypeOK, Proceed, Request, table, ghost
  <2>3. ASSUME NEW r \in Requests, NEW l \in Links, Revoke(r, l) PROVE TypeOK'
    BY <2>3 DEF Revoke, TypeOK, Proceed, Request, ghost
  <2>4. ASSUME NEW r \in Requests, Confirm(r) PROVE TypeOK'
    BY <2>4, Fields DEF Confirm, TypeOK, Proceed, Request, table
  <2>5. ASSUME NEW r \in Requests, NEW l \in Links,
               NEW op \in Uses, Present(r, l, op)
        PROVE  TypeOK'
    <3>1. [op |-> op, link |-> l, late |-> l \in ended] \in Request
      BY DEF Request, Presented
    <3> QED BY <2>5, <3>1 DEF Present, Valid, TypeOK, Proceed, table, ghost
  <2>6. ASSUME NEW r \in Requests,
               Admit(r) \/ Name(r) \/ Open(r) \/ CheckRole(r) \/ Restore(r)
        PROVE  TypeOK'
    <3>1. PICK o \in Presented : Proceed(r, [req[r] EXCEPT !.op = o])
      BY <2>6 DEF Admit, IsRevoked, Name, Open, CheckRole, Restore, Presented, LetIn
    <3>2. req[r].op \in Presented
      BY <2>6 DEF Admit, IsRevoked, Name, Open, CheckRole, Restore, Presented, Uses, LetIn
    <3>3. [req[r] EXCEPT !.op = o] \in Request
      <4>1. /\ [req[r] EXCEPT !.op = o] = [op |-> o, link |-> req[r].link, late |-> req[r].late]
            /\ req[r].link \in Links /\ req[r].late \in BOOLEAN
        BY <3>2, Fields
      <4> QED BY <4>1 DEF Request
    <3>4. UNCHANGED <<table, token, expired, ghost>>
      BY <2>6 DEF Admit, IsRevoked, Name, Open, CheckRole, Restore
    <3> QED BY <3>1, <3>3, <3>4 DEF TypeOK, Proceed, table, ghost
  <2>7. ASSUME NEW r \in Requests, End(r) PROVE TypeOK'
    BY <2>7 DEF End, TypeOK, Proceed, Request, table, ghost
  <2>8. ASSUME NEW l \in Links, Expire(l) PROVE TypeOK'
    BY <2>8 DEF Expire, TypeOK, table, ghost
  <2>9. ASSUME NEW d \in Dags, CreateDag(d) PROVE TypeOK'
    BY <2>9 DEF CreateDag, TypeOK, ghost
  <2>10. ASSUME NEW d \in Dags, DeleteDag(d) PROVE TypeOK'
    BY <2>10 DEF DeleteDag, TypeOK, LinksOf
  <2>11. CASE UNCHANGED vars
    BY <2>11 DEF vars, table, ghost, TypeOK
  <2> QED BY <2>1, <2>2, <2>3, <2>4, <2>5, <2>6, <2>7, <2>8, <2>9, <2>10, <2>11
          DEF Next, Handler
<1> QED BY <1>1, <1>2, PTL DEF Spec

\* What a handler knows stays so while others move: a jti is used for one link
\* and one token, and what was revoked or asked for is not forgotten.
LEMMA KnowledgeStays ==
    ASSUME TypeOK, NEW r \in Requests, Knows(r), req'[r] = req[r],
           made \subseteq made', lost \subseteq lost', editors \subseteq editors',
           denied \subseteq denied',
           \A l \in made : share'[l] = share[l] \/ l \in lost',
           \A l \in Links : token[l] # Absent => token'[l] # Absent
    PROVE  Knows(r)'
BY Fields DEF Knows, Presented, Uses, LetIn

\* A step that leaves the tables and the history alone leaves links as they are.
LEMMA LinksStay ==
    ASSUME \A l \in Links : Sound(l), UNCHANGED <<table, token, made, lost, editors, ended>>
    PROVE  \A l \in Links : Sound(l)'
BY DEF Sound, table

\* The inductive invariant: what is true of each link and what each handler
\* knows of the link it works on, in createShare, revokeShare, exchangeShare,
\* dagWS, updateDAG and restoreDAGHistory.
THEOREM LinkInvariant == Spec => []LinkInv
<1>1. Init => LinkInv
  BY DEF Init, LinkInv, TypeOK, Request, Sound, Knows, Idle, Presented, Uses, LetIn
<1>2. LinkInv /\ TypeOK' /\ [Next]_vars => LinkInv'
  <2> SUFFICES ASSUME LinkInv, TypeOK', [Next]_vars PROVE LinkInv'
    OBVIOUS
  <2> USE DEF LinkInv
  <2>1. ASSUME NEW r \in Requests, NEW l \in Links, NEW d \in Dags,
               NEW role \in Roles \cup {"other"}, NEW past \in BOOLEAN,
               Create(r, l, d, role, past)
        PROVE  LinkInv'
    <3> DEFINE claims == [dag |-> d, role |-> NormalRole(role)]
    <3>1. /\ l \notin made /\ d \in dags
          /\ share' = [share EXCEPT ![l] = claims]
          /\ Proceed(r, [op |-> "made", link |-> l, token |-> claims])
          /\ made' = made \cup {l}
          /\ editors' = IF role = "edit" THEN editors \cup {l} ELSE editors
          /\ UNCHANGED <<dags, denied, token, lost, ended>>
      BY <2>1 DEF Create
    <3>2. claims.dag = d /\ (claims.role = "edit" => role = "edit")
      BY DEF NormalRole, Roles
    <3>3. editors \subseteq editors' /\ (role = "edit" => l \in editors')
      BY <3>1
    <3>4. req'[r] = [op |-> "made", link |-> l, token |-> claims]
      BY <3>1, OneMoves
    <3>5. share'[l] = claims /\ \A k \in Links \ {l} : share'[k] = share[k]
      BY <3>1 DEF TypeOK
    <3> HIDE DEF claims
    <3>6. Knows(r)'
      BY <3>1, <3>2, <3>3, <3>4, <3>5 DEF Knows, Presented, Uses, LetIn
    <3>7. ASSUME NEW q \in Requests \ {r} PROVE Knows(q)'
      <4>1. \A k \in made : share'[k] = share[k]
        BY <3>1, <3>5 DEF TypeOK
      <4> QED BY <3>1, <3>3, <4>1, <3>7, OneMoves, KnowledgeStays
    <3>8. ASSUME NEW k \in Links PROVE Sound(k)'
      <4>1. CASE k = l
        BY <3>1, <3>2, <3>5, <4>1 DEF Sound
      <4>2. CASE k # l
        BY <3>1, <3>3, <3>5, <4>2 DEF Sound
      <4> QED BY <4>1, <4>2
    <3> QED BY <3>6, <3>7, <3>8
  <2>2. ASSUME NEW r \in Requests, HandOut(r) PROVE LinkInv'
    <3>1. /\ req[r].op = "made" /\ UNCHANGED <<table, expired, ghost>>
          /\ token' = [token EXCEPT ![req[r].link] = req[r].token]
          /\ Proceed(r, Idle)
      BY <2>2 DEF HandOut
    <3>2. /\ req[r].link \in Links /\ req[r].link \in made
          /\ share[req[r].link] = req[r].token \/ req[r].link \in lost
          /\ req[r].token.role = "edit" => req[r].link \in editors
      BY <3>1, Fields DEF Knows
    <3>3. ASSUME NEW k \in Links PROVE Sound(k)'
      BY <3>1, <3>2 DEF Sound, table, ghost, TypeOK
    <3>4. ASSUME NEW q \in Requests PROVE Knows(q)'
      <4>1. CASE q = r
        BY <3>1, <4>1, OneMoves DEF Knows, Idle, Presented, Uses, LetIn
      <4>2. CASE q # r
        <5>1. \A k \in Links : token[k] # Absent => token'[k] # Absent
          BY <3>1, Fields, AbsentAssumption DEF TypeOK
        <5> QED BY <3>1, <4>2, <5>1, OneMoves, KnowledgeStays DEF table, ghost
      <4> QED BY <4>1, <4>2
    <3> QED BY <3>3, <3>4
  <2>3. ASSUME NEW r \in Requests, NEW l \in Links, Revoke(r, l) PROVE LinkInv'
    <3>1. /\ denied' = denied \cup {l}
          /\ Proceed(r, [op |-> "revoked", link |-> l])
          /\ token[l] # Absent
          /\ UNCHANGED <<dags, share, token, made, lost, editors, ended>>
      BY <2>3 DEF Revoke, ghost
    <3>2. ASSUME NEW k \in Links PROVE Sound(k)'
      BY <3>1 DEF Sound
    <3>3. ASSUME NEW q \in Requests PROVE Knows(q)'
      <4>1. CASE q = r
        BY <3>1, <4>1, OneMoves DEF Knows, Presented, Uses, LetIn
      <4>2. CASE q # r
        BY <3>1, <4>2, OneMoves, KnowledgeStays
      <4> QED BY <4>1, <4>2
    <3> QED BY <3>2, <3>3
  <2>4. ASSUME NEW r \in Requests, Confirm(r) PROVE LinkInv'
    <3>1. /\ req[r].op = "revoked" /\ ended' = ended \cup {req[r].link}
          /\ Proceed(r, Idle)
          /\ UNCHANGED <<dags, share, denied, token, made, lost, editors>>
      BY <2>4 DEF Confirm, table
    <3>2. req[r].link \in denied
      BY <3>1 DEF Knows
    <3>3. ASSUME NEW k \in Links PROVE Sound(k)'
      BY <3>1, <3>2 DEF Sound
    <3>4. ASSUME NEW q \in Requests PROVE Knows(q)'
      <4>1. CASE q = r
        BY <3>1, <4>1, OneMoves DEF Knows, Idle, Presented, Uses, LetIn
      <4>2. CASE q # r
        BY <3>1, <4>2, OneMoves, KnowledgeStays
      <4> QED BY <4>1, <4>2
    <3> QED BY <3>3, <3>4
  <2>5. ASSUME NEW r \in Requests, NEW now, Proceed(r, now),
               UNCHANGED <<table, token, made, lost, editors, ended>>, Knows(r)'
        PROVE  LinkInv'
    <3>1. ASSUME NEW q \in Requests \ {r} PROVE Knows(q)'
      BY <2>5, <3>1, OneMoves, KnowledgeStays DEF table
    <3> QED BY <2>5, <3>1, LinksStay
  <2>6. ASSUME NEW r \in Requests, NEW l \in Links,
               NEW op \in Uses, Present(r, l, op)
        PROVE  LinkInv'
    <3>1. req'[r] = [op |-> op, link |-> l, late |-> l \in ended]
      BY <2>6, OneMoves DEF Present, Valid
    <3>2. token[l] # Absent /\ (l \in ended => l \in denied)
      BY <2>6 DEF Present, Valid, Sound
    <3>3. UNCHANGED <<table, token, made, lost, editors, ended>>
      BY <2>6 DEF Present, Valid, ghost
    <3>4. Knows(r)'
      <4>1. req'[r].op = op /\ req'[r].link = l /\ req'[r].late = (l \in ended)
        BY <3>1
      <4>2. req'[r].late => req'[r].link \in denied
        BY <3>2, <4>1
      <4> QED BY <3>2, <3>3, <4>1, <4>2 DEF Knows, Presented, Uses, LetIn, table
    <3> QED BY <2>5, <2>6, <3>3, <3>4 DEF Present, Valid
  <2>7. ASSUME NEW r \in Requests, Admit(r) PROVE LinkInv'
    <3>1. PICK o \in {"naming", "opening"} : Proceed(r, [req[r] EXCEPT !.op = o])
      BY <2>7 DEF Admit, IsRevoked
    <3>2. /\ req[r].op \in {"exchanging", "upgrading"} /\ req[r].link \notin denied
          /\ UNCHANGED <<table, token, made, lost, editors, ended>>
      BY <2>7 DEF Admit, IsRevoked, ghost
    <3>3. req'[r] = [op |-> o, link |-> req[r].link, late |-> req[r].late]
      BY <3>1, <3>2, OneMoves, Fields DEF Presented, Uses, LetIn
    <3>4. req[r].late \in BOOLEAN /\ token[req[r].link] # Absent /\ ~ req[r].late
      BY <3>2, Fields DEF Knows, Presented, Uses
    <3>5. Knows(r)'
      BY <3>2, <3>3, <3>4 DEF Knows, Presented, Uses, LetIn
    <3> QED BY <2>5, <3>1, <3>2, <3>5
  <2>8. ASSUME NEW r \in Requests, Name(r) \/ Open(r) PROVE LinkInv'
    <3>1. PICK o \in Got :
             /\ req[r].op \in {"naming", "opening"} /\ Proceed(r, [req[r] EXCEPT !.op = o])
             /\ UNCHANGED <<table, token, made, lost, editors, ended>>
      BY <2>8 DEF Name, Open, Got, ghost
    <3>2. req'[r] = [op |-> o, link |-> req[r].link, late |-> req[r].late]
      <4>1. [req[r] EXCEPT !.op = o] = [op |-> o, link |-> req[r].link, late |-> req[r].late]
        BY <3>1, Fields DEF Presented, LetIn, Got
      <4> QED BY <3>1, <4>1, OneMoves
    <3>3. token[req[r].link] # Absent /\ ~ req[r].late
      BY <3>1 DEF Knows, Presented, Uses, LetIn
    <3>4. Knows(r)'
      BY <3>1, <3>2, <3>3 DEF Knows, Presented, Uses, LetIn, Got
    <3> QED BY <2>5, <3>1, <3>4
  <2>9. ASSUME NEW r \in Requests, CheckRole(r) PROVE LinkInv'
    <3>1. /\ req[r].op = "updating" /\ token[req[r].link].role = "edit"
          /\ Proceed(r, [req[r] EXCEPT !.op = "saving"])
          /\ UNCHANGED <<table, token, made, lost, editors, ended>>
      BY <2>9 DEF CheckRole, ghost
    <3>2. req'[r] = [op |-> "saving", link |-> req[r].link, late |-> req[r].late]
      BY <3>1, OneMoves, Fields DEF Presented, Uses
    <3>3. token[req[r].link] # Absent /\ req[r].link \in editors
      BY <3>1, Fields DEF Knows, Sound, Presented, Uses
    <3>4. Knows(r)'
      BY <3>1, <3>2, <3>3 DEF Knows, Presented, Uses, LetIn
    <3> QED BY <2>5, <3>1, <3>4
  <2>10. ASSUME NEW r \in Requests, Restore(r) PROVE LinkInv'
    <3>1. /\ req[r].op = "restoring" /\ Proceed(r, [req[r] EXCEPT !.op = "restored"])
          /\ UNCHANGED <<table, token, made, lost, editors, ended>>
      BY <2>10 DEF Restore, ghost
    <3>2. req'[r] = [op |-> "restored", link |-> req[r].link, late |-> req[r].late]
      BY <3>1, OneMoves, Fields DEF Presented, Uses
    <3>3. token[req[r].link] # Absent
      BY <3>1 DEF Knows, Presented, Uses
    <3>4. Knows(r)'
      BY <3>1, <3>2, <3>3 DEF Knows, Presented, Uses, LetIn
    <3> QED BY <2>5, <3>1, <3>4
  <2>11. ASSUME NEW r \in Requests, End(r) PROVE LinkInv'
    <3>1. Knows(r)'
      BY <2>11, OneMoves DEF End, Knows, Idle, Presented, Uses, LetIn
    <3> QED BY <2>5, <2>11, <3>1 DEF End, ghost
  <2>12. ASSUME NEW l \in Links, Expire(l) PROVE LinkInv'
    BY <2>12, LinksStay, KnowledgeStays DEF Expire, table, ghost
  <2>13. ASSUME NEW d \in Dags, CreateDag(d) PROVE LinkInv'
    <3>1. dags \subseteq dags' /\ UNCHANGED <<share, denied, token, req, ghost>>
      BY <2>13 DEF CreateDag
    <3>2. \A k \in Links : Sound(k)'
      BY <3>1 DEF Sound, ghost
    <3> QED BY <3>1, <3>2, KnowledgeStays DEF ghost
  <2>14. ASSUME NEW d \in Dags, DeleteDag(d) PROVE LinkInv'
    <3>1. /\ dags' = dags \ {d} /\ lost' = lost \cup LinksOf(d)
          /\ UNCHANGED <<denied, token, req, made, editors, ended>>
          /\ \A k \in Links : share'[k] = IF k \in LinksOf(d) THEN Absent ELSE share[k]
      BY <2>14 DEF DeleteDag
    <3>2. ASSUME NEW k \in Links PROVE Sound(k)'
      BY <3>1 DEF Sound, LinksOf
    <3>3. ASSUME NEW q \in Requests PROVE Knows(q)'
      BY <3>1, KnowledgeStays DEF TypeOK
    <3> QED BY <3>2, <3>3
  <2>15. CASE UNCHANGED vars
    BY <2>15, LinksStay, KnowledgeStays DEF vars, table, ghost
  <2> QED BY <2>1, <2>2, <2>3, <2>4, <2>6, <2>7, <2>8, <2>9, <2>10, <2>11, <2>12, <2>13, <2>14,
             <2>15
          DEF Next, Handler
<1> QED BY <1>1, <1>2, TypeCorrect, PTL DEF Spec

\* A request that comes after the revocation was answered gets nothing.
THEOREM ClosedForGood == Spec => []RevokedOpensNothing
<1>1. LinkInv => RevokedOpensNothing
  BY DEF LinkInv, Knows, RevokedOpensNothing
<1> QED BY <1>1, LinkInvariant, PTL

\* A link is never left without its diagram.
THEOREM LinksHaveDiagrams == Spec => []NoOrphanLinks
<1>1. LinkInv => NoOrphanLinks
  BY DEF LinkInv, Sound, NoOrphanLinks
<1> QED BY <1>1, LinkInvariant, PTL

\* Tokens agree with rows, unless the diagram was deleted.
THEOREM TokensMatch == Spec => []TokensRecorded
<1>1. LinkInv => TokensRecorded
  BY DEF LinkInv, Sound, TokensRecorded
<1> QED BY <1>1, LinkInvariant, PTL

\* updateDAG saves under a link only if somebody asked for one for editing;
\* restoreDAGHistory writes under any.
THEOREM OnlyEditorsUpdate == Spec => []ViewersDoNotUpdate
<1>1. LinkInv => ViewersDoNotUpdate
  BY DEF LinkInv, Knows, ViewersDoNotUpdate
<1> QED BY <1>1, LinkInvariant, PTL

\* What can be seen of the state from outside.
Waiting(q) == q.op \in {"exchanging", "upgrading", "naming", "opening"} /\ ~ q.late
Given == {l \in Links : token[l] # Absent}
Asking == {<<r, req[r].link>> : r \in {q \in Requests : Waiting(req[q])}}
Holding == {<<r, req[r].link>> : r \in {q \in Requests : req[q].op \in Got}}
NothingSeen == UNCHANGED <<Given, ended, Asking, Holding>>

\* What a handler has asked for or got.
AskedBy(r) == IF Waiting(req[r]) THEN {<<r, req[r].link>>} ELSE {}
GotBy(r) == IF req[r].op \in Got THEN {<<r, req[r].link>>} ELSE {}

\* A step of one handler changes its own pairs only.
LEMMA OneIsSeen ==
    ASSUME TypeOK, NEW r \in Requests, NEW now, Proceed(r, now)
    PROVE  /\ Asking = {a \in Asking : a[1] # r} \cup AskedBy(r)
           /\ Holding = {h \in Holding : h[1] # r} \cup GotBy(r)
           /\ Asking' = {a \in Asking : a[1] # r} \cup
                           (IF Waiting(now) THEN {<<r, now.link>>} ELSE {})
           /\ Holding' = {h \in Holding : h[1] # r} \cup
                           (IF now.op \in Got THEN {<<r, now.link>>} ELSE {})
<1>1. req'[r] = now /\ \A q \in Requests \ {r} : req'[q] = req[q]
  BY OneMoves
<1>2. /\ Asking = {a \in Asking : a[1] # r} \cup AskedBy(r)
      /\ Holding = {h \in Holding : h[1] # r} \cup GotBy(r)
  BY DEF Asking, Holding, AskedBy, GotBy
<1>3. Asking' = {<<q, req'[q].link>> : q \in {q \in Requests : Waiting(req'[q])}}
  BY DEF Asking, Waiting
<1>4. Asking' = {a \in Asking : a[1] # r} \cup
                   (IF Waiting(now) THEN {<<r, now.link>>} ELSE {})
  BY <1>1, <1>3 DEF Asking
<1>5. Holding' = {h \in Holding : h[1] # r} \cup
                   (IF now.op \in Got THEN {<<r, now.link>>} ELSE {})
  BY <1>1 DEF Holding
<1> QED BY <1>2, <1>4, <1>5

\* A step to another phase with the same pairs is not seen in them.
LEMMA Unseen ==
    ASSUME TypeOK, NEW r \in Requests, NEW now, Proceed(r, now),
           Waiting(now) <=> Waiting(req[r]), now.op \in Got <=> req[r].op \in Got,
           Waiting(now) \/ now.op \in Got => now.link = req[r].link
    PROVE  UNCHANGED <<Asking, Holding>>
<1>1. (IF Waiting(now) THEN {<<r, now.link>>} ELSE {}) = AskedBy(r)
  BY DEF AskedBy
<1>2. (IF now.op \in Got THEN {<<r, now.link>>} ELSE {}) = GotBy(r)
  BY DEF GotBy
<1>3. /\ Asking = {a \in Asking : a[1] # r} \cup AskedBy(r)
      /\ Holding = {h \in Holding : h[1] # r} \cup GotBy(r)
      /\ Asking' = {a \in Asking : a[1] # r} \cup
                      (IF Waiting(now) THEN {<<r, now.link>>} ELSE {})
      /\ Holding' = {h \in Holding : h[1] # r} \cup
                       (IF now.op \in Got THEN {<<r, now.link>>} ELSE {})
  BY OneIsSeen
<1> QED BY <1>1, <1>2, <1>3

\* A handler that neither waits nor has got anything, before or after.
LEMMA UnseenAside ==
    ASSUME TypeOK, NEW r \in Requests, NEW now, Proceed(r, now),
           req[r].op \notin {"exchanging", "upgrading"} \cup LetIn,
           now.op \notin {"exchanging", "upgrading"} \cup LetIn
    PROVE  UNCHANGED <<Asking, Holding>>
BY Unseen DEF Waiting, LetIn, Got

\* createShare, revokeShare, exchangeShare and dagWS keep what Admission
\* promises to those outside: a denylist that is read before the answer or the
\* socket, at a moment when it may not be up to date, is enough for that.
THEOREM Implements == Spec => ImplementsAdmission
<1>1. Init => Door!Init
  BY DEF Init, Door!Init, Idle, Got
<1>2. LinkInv /\ [Next]_vars => [Door!Next]_(Door!vars)
  <2> SUFFICES ASSUME LinkInv, [Next]_vars
               PROVE  Door!Next \/ NothingSeen
    BY DEF Door!vars, NothingSeen, Given, Asking, Holding, Waiting
  <2> USE DEF LinkInv
  <2>1. ASSUME NEW r \in Requests, NEW l \in Links, NEW d \in Dags,
               NEW role \in Roles \cup {"other"}, NEW past \in BOOLEAN,
               Create(r, l, d, role, past)
        PROVE  NothingSeen
    <3>1. /\ req[r].op \notin {"exchanging", "upgrading"} \cup LetIn
          /\ \E now : Proceed(r, now) /\ now.op \notin {"exchanging", "upgrading"} \cup LetIn
          /\ UNCHANGED <<token, ended>>
      BY <2>1 DEF Create, Idle, LetIn
    <3> QED BY <3>1, UnseenAside DEF NothingSeen, Given
  <2>2. ASSUME NEW r \in Requests, HandOut(r) PROVE Door!Next \/ NothingSeen
    <3>1. /\ req[r].op = "made" /\ Proceed(r, Idle)
          /\ Idle.op \notin {"exchanging", "upgrading"} \cup LetIn
          /\ token' = [token EXCEPT ![req[r].link] = req[r].token]
          /\ ended' = ended
      BY <2>2 DEF HandOut, ghost, Idle, LetIn
    <3>2. UNCHANGED <<Asking, Holding>>
      BY <3>1, UnseenAside DEF LetIn
    <3>3. req[r].link \in Links /\ req[r].token # Absent
      BY <3>1, Fields, AbsentAssumption
    <3>4. PICK l \in Links : l = req[r].link
      BY <3>3
    <3>5. Given' = Given \cup {l}
      BY <3>1, <3>3, <3>4 DEF Given, TypeOK
    <3>6. l \notin Given => Door!Give(l)
      BY <3>1, <3>2, <3>5 DEF Door!Give, Given, Asking, Holding, Waiting
    <3>7. l \in Given => NothingSeen
      BY <3>1, <3>2, <3>5 DEF NothingSeen
    <3> QED BY <3>6, <3>7 DEF Door!Next
  <2>3. ASSUME NEW r \in Requests, NEW l \in Links, Revoke(r, l) PROVE NothingSeen
    <3>1. /\ req[r].op \notin {"exchanging", "upgrading"} \cup LetIn
          /\ \E now : Proceed(r, now) /\ now.op \notin {"exchanging", "upgrading"} \cup LetIn
          /\ UNCHANGED <<token, ended>>
      BY <2>3 DEF Revoke, ghost, Idle, LetIn
    <3> QED BY <3>1, UnseenAside DEF NothingSeen, Given
  <2>4. ASSUME NEW r \in Requests, Confirm(r) PROVE Door!Next \/ NothingSeen
    <3>1. /\ req[r].op = "revoked" /\ Proceed(r, Idle)
          /\ Idle.op \notin {"exchanging", "upgrading"} \cup LetIn
          /\ ended' = ended \cup {req[r].link} /\ token' = token
      BY <2>4 DEF Confirm, Idle, LetIn
    <3>2. UNCHANGED <<Asking, Holding, Given>>
      BY <3>1, UnseenAside DEF LetIn, Given
    <3>3. req[r].link \in Given
      BY <3>1, Fields DEF Knows, Given
    <3>4. PICK l \in Links : l = req[r].link
      BY <3>3 DEF Given
    <3>5. l \notin ended => Door!Close(l)
      BY <3>1, <3>2, <3>3, <3>4 DEF Door!Close, Given, Asking, Holding, Waiting
    <3>6. l \in ended => NothingSeen
      BY <3>1, <3>2, <3>4 DEF NothingSeen
    <3> QED BY <3>5, <3>6 DEF Door!Next
  <2>5. ASSUME NEW r \in Requests, NEW l \in Links, NEW op \in Uses, Present(r, l, op)
        PROVE  Door!Next \/ NothingSeen
    <3> DEFINE now == [op |-> op, link |-> l, late |-> l \in ended]
    <3>1. /\ req[r] = Idle /\ Proceed(r, now) /\ l \in Given
          /\ UNCHANGED <<token, ended>>
      BY <2>5 DEF Present, Valid, ghost, Given
    <3>2. /\ now.op = op /\ now.link = l /\ now.op \notin Got
          /\ Waiting(now) <=> op \in {"exchanging", "upgrading"} /\ l \notin ended
      BY DEF Uses, Got, Waiting
    <3>3. ~ Waiting(Idle) /\ Idle.op \notin Got
      BY DEF Idle, Waiting, Got
    <3> HIDE DEF now
    <3>4. CASE Waiting(now)
      <4>1. Asking' = Asking \cup {<<r, l>>} /\ Holding' = Holding
        BY <3>1, <3>2, <3>3, <3>4, OneIsSeen DEF AskedBy, GotBy
      <4>2. Door!Ask(r, l)
        BY <3>1, <3>2, <3>4, <4>1 DEF Door!Ask, Given, Asking, Holding, Waiting
      <4> QED BY <4>2 DEF Door!Next
    <3>5. CASE ~ Waiting(now)
      BY <3>1, <3>2, <3>3, <3>5, Unseen DEF NothingSeen, Given
    <3> QED BY <3>4, <3>5
  <2>6. ASSUME NEW r \in Requests, Admit(r) PROVE NothingSeen
    <3>1. PICK o \in {"naming", "opening"} : Proceed(r, [req[r] EXCEPT !.op = o])
      BY <2>6 DEF Admit, IsRevoked
    <3>2. req[r].op \in {"exchanging", "upgrading"} /\ UNCHANGED <<token, ended>>
      BY <2>6 DEF Admit, IsRevoked, ghost
    <3>3. [req[r] EXCEPT !.op = o] = [op |-> o, link |-> req[r].link, late |-> req[r].late]
      BY <3>2, Fields DEF Presented, Uses, LetIn
    <3>4. UNCHANGED <<Asking, Holding>>
      BY <3>1, <3>2, <3>3, Unseen DEF Waiting, Got
    <3> QED BY <3>2, <3>4 DEF NothingSeen, Given
  <2>7. ASSUME NEW r \in Requests, Name(r) \/ Open(r) PROVE Door!Next
    <3>1. PICK o \in Got :
             /\ req[r].op \in {"naming", "opening"}
             /\ Proceed(r, [req[r] EXCEPT !.op = o])
             /\ UNCHANGED <<token, ended>>
      BY <2>7 DEF Name, Open, Got, ghost
    <3>2. [req[r] EXCEPT !.op = o] = [op |-> o, link |-> req[r].link, late |-> req[r].late]
      BY <3>1, Fields DEF Presented, LetIn, Got
    <3>3. /\ req[r].link \in Links /\ ~ req[r].late
          /\ Waiting(req[r]) /\ req[r].op \notin Got
      BY <3>1, Fields DEF Knows, Presented, LetIn, Waiting, Got
    <3>4. PICK l \in Links : l = req[r].link
      BY <3>3
    <3>5. /\ <<r, l>> \in Asking
          /\ Asking' = Asking \ {<<r, l>>} /\ Holding' = Holding \cup {<<r, l>>}
      <4>1. ~ Waiting([op |-> o, link |-> l, late |-> req[r].late])
        BY DEF Waiting, Got
      <4>2. /\ Asking = {a \in Asking : a[1] # r} \cup {<<r, l>>}
            /\ Holding = {h \in Holding : h[1] # r}
            /\ Asking' = {a \in Asking : a[1] # r}
            /\ Holding' = {h \in Holding : h[1] # r} \cup {<<r, l>>}
        BY <3>1, <3>2, <3>3, <3>4, <4>1, OneIsSeen DEF AskedBy, GotBy
      <4> QED BY <4>2
    <3>6. Door!Hold(r, l)
      BY <3>1, <3>5 DEF Door!Hold, Given, Asking, Holding, Waiting
    <3> QED BY <3>6 DEF Door!Next
  <2>8. ASSUME NEW r \in Requests, CheckRole(r) \/ Restore(r) PROVE NothingSeen
    <3>1. PICK o \in {"saving", "restored"} : Proceed(r, [req[r] EXCEPT !.op = o])
      BY <2>8 DEF CheckRole, Restore
    <3>2. req[r].op \in {"updating", "restoring"} /\ UNCHANGED <<token, ended>>
      BY <2>8 DEF CheckRole, Restore, ghost
    <3>3. [req[r] EXCEPT !.op = o].op = o
      BY <3>2, Fields DEF Presented, Uses
    <3> QED BY <3>1, <3>2, <3>3, UnseenAside DEF NothingSeen, Given, LetIn
  <2>9. ASSUME NEW r \in Requests, End(r) PROVE Door!Next
    <3>1. Proceed(r, Idle) /\ UNCHANGED <<token, ended>>
      BY <2>9 DEF End, ghost
    <3>2. ~ Waiting(Idle) /\ Idle.op \notin Got
      BY DEF Idle, Waiting, Got
    <3>3. Asking' = {a \in Asking : a[1] # r} /\ Holding' = {h \in Holding : h[1] # r}
      BY <3>1, <3>2, OneIsSeen
    <3>4. Door!Quit(r)
      BY <3>1, <3>3 DEF Door!Quit, Given, Asking, Holding, Waiting
    <3> QED BY <3>4 DEF Door!Next
  <2>10. ASSUME UNCHANGED <<token, ended, req>> PROVE NothingSeen
    BY <2>10 DEF NothingSeen, Given, Asking, Holding, Waiting
  <2>11. ASSUME NEW l \in Links, Expire(l) PROVE UNCHANGED <<token, ended, req>>
    BY <2>11 DEF Expire, ghost
  <2>12. ASSUME NEW d \in Dags, CreateDag(d) \/ DeleteDag(d)
         PROVE  UNCHANGED <<token, ended, req>>
    BY <2>12 DEF CreateDag, DeleteDag, ghost
  <2>13. CASE UNCHANGED vars
    BY <2>10, <2>13 DEF vars, ghost
  <2> QED BY <2>1, <2>2, <2>3, <2>4, <2>5, <2>6, <2>7, <2>8, <2>9, <2>10, <2>11, <2>12, <2>13
          DEF Next, Handler
<1> QED BY <1>1, <1>2, LinkInvariant, PTL DEF Spec, ImplementsAdmission, Door!Spec
=============================================================================
