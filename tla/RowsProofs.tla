----------------------------- MODULE RowsProofs -----------------------------
(***************************************************************************)
(* Proofs about Rows, for any number of rows, requests and saves.          *)
(***************************************************************************)
EXTENDS Rows, TLAPS

USE TableOfAssumption, MaxRevAssumption, MaxLivesAssumption, IdleAssumption

\* What relates the responses to the row: a row was created once more than any
\* earlier one of its id, its revision is at least that of every response sent
\* about it, and the responses with the present revision have its content.
Born == \A i \in Ids : row[i] # Absent => lives[i] # 0

Behind ==
    \A x \in served :
        /\ TableOf[x.dag] = "dags"
        /\ x.life <= lives[x.dag]
        /\ x.life = lives[x.dag] /\ row[x.dag] # Absent =>
              /\ x.etag <= row[x.dag].rev
              /\ x.etag = row[x.dag].rev => x.content = row[x.dag].content

\* A handler whose look-up did not fail knows of no row equal to its own but
\* for those that became so after it looked.
Looked ==
    \A r \in Requests :
        req[r] # Idle /\ ~req[r].blind => Twins(req[r].id, req[r].content) \subseteq req[r].since

TagInv == Born /\ Behind /\ SameTagSameContent

\* What a client can send is a content of some table.
LEMMA ContentIsAny == \A i \in Ids : Content(TableOf[i]) \subseteq AnyContent
  BY DEF AnyContent

-----------------------------------------------------------------------------
\* A row of id i that gets content c, the handlers being told of it, leaves
\* them with all they missed.
LEMMA MissedIsComplete ==
  ASSUME TypeOK, Looked, NEW i \in Ids, NEW c \in AnyContent,
         row[i]' # Absent => row[i]'.content = c,
         \A j \in Ids \ {i} : row[j]' = row[j],
         NEW r \in Requests, req[r]' = Missed(i, c)[r]
  PROVE  req[r]' # Idle /\ ~req[r]'.blind =>
             Twins(req[r].id, req[r].content)' \subseteq req[r]'.since
<1> SUFFICES ASSUME req[r]' # Idle, ~req[r]'.blind, NEW j \in Twins(req[r].id, req[r].content)'
             PROVE  j \in req[r]'.since
  OBVIOUS
<1>1. req[r] \in Pending /\ req[r] # Idle /\ ~req[r].blind
  BY DEF Missed, TypeOK, Pending
<1>2. /\ req[r]'.id = req[r].id /\ req[r]'.content = req[r].content
      /\ req[r].since \subseteq req[r]'.since
  BY <1>1 DEF Missed, Pending
<1>3. CASE j = i
  BY <1>1, <1>2, <1>3 DEF Twins, Missed, Pending
<1>4. CASE j # i
  BY <1>1, <1>2, <1>4 DEF Twins, Looked
<1> QED BY <1>3, <1>4

-----------------------------------------------------------------------------
\* What the handlers hold keeps its type when a row gets a content.
LEMMA MissedIsTyped ==
  ASSUME TypeOK, NEW i \in Ids, NEW c
  PROVE  Missed(i, c) \in [Requests -> Pending \cup {Idle}]
BY DEF Missed, TypeOK, Pending

\* All values have their types.
LEMMA Typed == TypeOK /\ Born /\ [Next]_vars => TypeOK'
<1> SUFFICES ASSUME TypeOK, Born, [Next]_vars PROVE TypeOK'
  OBVIOUS
<1>1. ASSUME NEW r \in Requests, NEW i \in Ids, NEW failed \in BOOLEAN,
             NEW c \in Content(TableOf[i]), Look(r, i, c, failed)
      PROVE  TypeOK'
  BY <1>1, ContentIsAny DEF Look, TypeOK, Pending
<1>2. ASSUME NEW r \in Requests, Insert(r) PROVE TypeOK'
  <2> DEFINE i == req[r].id
             c == req[r].content
  <2>1. i \in Ids /\ c \in AnyContent
    BY <1>2 DEF Insert, TypeOK, Pending
  <2>2. row' \in [Ids -> Row \cup {Absent}]
    BY <1>2, <2>1 DEF Insert, TypeOK, Row
  <2>3. req' \in [Requests -> Pending \cup {Idle}]
    BY <1>2, <2>1, MissedIsTyped DEF Insert
  <2>4. lives' \in [Ids -> 0 .. MaxLives]
    BY <1>2, <2>1 DEF Insert, TypeOK
  <2> QED BY <1>2, <2>2, <2>3, <2>4 DEF Insert, TypeOK
<1>3. ASSUME NEW r \in Requests, InsertFails(r) PROVE TypeOK'
  BY <1>3 DEF InsertFails, TypeOK
<1>4. ASSUME NEW i \in Ids, NEW c \in Content(TableOf[i]), Update(i, c) PROVE TypeOK'
  <2>1. row' \in [Ids -> Row \cup {Absent}]
    BY <1>4, ContentIsAny DEF Update, TypeOK, Row
  <2> QED BY <1>4, <2>1, MissedIsTyped DEF Update, TypeOK
<1>5. ASSUME NEW i \in Ids, NEW c \in Content(TableOf[i]), UpdateMenu(i, c) PROVE TypeOK'
  <2>1. row' \in [Ids -> Row \cup {Absent}]
    BY <1>5, ContentIsAny DEF UpdateMenu, TypeOK, Row
  <2> QED BY <1>5, <2>1, MissedIsTyped DEF UpdateMenu, TypeOK
<1>6. ASSUME NEW i \in Ids, NEW b \in BOOLEAN, SetPublic(i, b) PROVE TypeOK'
  <2>1. row' \in [Ids -> Row \cup {Absent}]
    BY <1>6 DEF SetPublic, TypeOK, Row
  <2> QED BY <1>6, <2>1 DEF SetPublic, TypeOK
<1>7. ASSUME NEW i \in Ids, Delete(i) PROVE TypeOK'
  BY <1>7 DEF Delete, TypeOK
<1>8. ASSUME NEW i \in Ids, GetPublic(i) PROVE TypeOK'
  <2> DEFINE n == [dag |-> i, content |-> row[i].content, etag |-> row[i].rev,
                   life |-> lives[i]]
  <2>1. row[i] \in Row /\ lives[i] \in 1 .. MaxLives
    BY <1>8 DEF GetPublic, TypeOK, Born
  <2>2. n \in Response
    BY <2>1 DEF Row, Response
  <2> QED BY <1>8, <2>2 DEF GetPublic, TypeOK
<1>9. ASSUME UNCHANGED vars PROVE TypeOK'
  BY <1>9 DEF vars, TypeOK
<1> QED BY <1>1, <1>2, <1>3, <1>4, <1>5, <1>6, <1>7, <1>8, <1>9 DEF Next

-----------------------------------------------------------------------------
\* A row that is there, and its revision not smaller, its content the same if
\* its revision is: the responses stay behind it.
LEMMA StaysBehind ==
  ASSUME TypeOK, TagInv, UNCHANGED <<lives, served>>,
         \A i \in Ids : row'[i] # Absent => row[i] # Absent,
         \A i \in Ids : TableOf[i] = "dags" /\ row'[i] # Absent =>
             \/ row'[i].rev = row[i].rev /\ row'[i].content = row[i].content
             \/ row'[i].rev = row[i].rev + 1
  PROVE  TagInv'
<1>1. ASSUME NEW x \in served, x.life = lives[x.dag], row'[x.dag] # Absent
      PROVE  /\ x.etag <= row'[x.dag].rev
             /\ x.etag = row'[x.dag].rev => x.content = row'[x.dag].content
  <2>1. x.dag \in Ids /\ x.etag \in Nat /\ row[x.dag] \in Row /\ row[x.dag].rev \in Nat
        /\ TableOf[x.dag] = "dags"
    BY <1>1 DEF TypeOK, Response, Row, TagInv, Behind
  <2>2. x.etag <= row[x.dag].rev /\ (x.etag = row[x.dag].rev => x.content = row[x.dag].content)
    BY <1>1, <2>1 DEF TagInv, Behind
  <2> QED BY <1>1, <2>1, <2>2
<1> QED BY <1>1 DEF TagInv, Born, Behind, SameTagSameContent

\* Every response ever sent agrees with the row as it is, within one life.
LEMMA Tagged == TypeOK /\ TagInv /\ [Next]_vars => TagInv'
<1> SUFFICES ASSUME TypeOK, TagInv, [Next]_vars PROVE TagInv'
  OBVIOUS
<1>1. ASSUME NEW r \in Requests, Insert(r) PROVE TagInv'
  <2> DEFINE i == req[r].id
  <2>1. /\ i \in Ids /\ row[i] = Absent /\ lives' = [lives EXCEPT ![i] = lives[i] + 1]
        /\ \A j \in Ids : lives[j] \in Nat
        /\ \A j \in Ids \ {i} : row'[j] = row[j] /\ lives'[j] = lives[j]
        /\ served' = served
    BY <1>1 DEF Insert, TypeOK, Pending
  <2>2. Born'
    BY <1>1, <2>1 DEF TagInv, Born, TypeOK
  <2>3. ASSUME NEW x \in served
        PROVE  /\ x.dag \in Ids /\ x.life \in Nat /\ x.life <= lives[x.dag]
               /\ x.life <= lives'[x.dag] /\ (x.dag = i => x.life # lives'[x.dag])
    <3>1. x.dag \in Ids /\ x.life \in Nat /\ x.life <= lives[x.dag]
      BY DEF TagInv, Behind, TypeOK, Response
    <3> QED BY <2>1, <3>1 DEF TypeOK
  <2>4. Behind'
    BY <2>1, <2>3 DEF TagInv, Behind
  <2> QED BY <2>1, <2>2, <2>4 DEF TagInv, SameTagSameContent
<1>2. ASSUME NEW i \in Ids, NEW c \in Content(TableOf[i]), Update(i, c) \/ UpdateMenu(i, c)
      PROVE  TagInv'
  BY <1>2, StaysBehind DEF Update, UpdateMenu, TypeOK
<1>3. ASSUME NEW i \in Ids, NEW b \in BOOLEAN, SetPublic(i, b) PROVE TagInv'
  BY <1>3, StaysBehind DEF SetPublic, TypeOK
<1>4. ASSUME NEW i \in Ids, Delete(i) PROVE TagInv'
  BY <1>4, StaysBehind DEF Delete, TypeOK
<1>5. ASSUME NEW i \in Ids, GetPublic(i) PROVE TagInv'
  <2> DEFINE n == [dag |-> i, content |-> row[i].content, etag |-> row[i].rev,
                   life |-> lives[i]]
  <2>1. /\ row[i] \in Row /\ lives[i] \in Nat /\ row[i] # Absent /\ TableOf[i] = "dags"
        /\ served' = served \cup {n} /\ row' = row /\ lives' = lives
    BY <1>5 DEF GetPublic, TypeOK
  <2>2. Born' /\ Behind'
    BY <2>1 DEF TagInv, Born, Behind, Row
  <2>3. \A x \in served : x.dag = i /\ x.life = lives[i] /\ x.etag = row[i].rev
                             => x.content = row[i].content
    BY <2>1 DEF TagInv, Behind
  <2>4. SameTagSameContent'
    BY <2>1, <2>3 DEF TagInv, SameTagSameContent
  <2> QED BY <2>2, <2>4 DEF TagInv
<1>6. ASSUME UNCHANGED <<row, lives, served>> PROVE TagInv'
  BY <1>6 DEF TagInv, Born, Behind, SameTagSameContent
<1> QED BY <1>1, <1>2, <1>3, <1>4, <1>5, <1>6 DEF Next, Look, InsertFails, vars

-----------------------------------------------------------------------------
\* No handler that looked misses a row.
LEMMA Seen == TypeOK /\ Looked /\ [Next]_vars => Looked'
<1> SUFFICES ASSUME TypeOK, Looked, [Next]_vars PROVE Looked'
  OBVIOUS
<1>1. ASSUME NEW r \in Requests, NEW i \in Ids, NEW failed \in BOOLEAN,
             NEW c \in Content(TableOf[i]), Look(r, i, c, failed)
      PROVE  Looked'
  BY <1>1 DEF Look, TypeOK, Looked, Twins
<1>2. ASSUME NEW i \in Ids, NEW c \in AnyContent,
             row'[i] # Absent => row'[i].content = c,
             \A j \in Ids \ {i} : row'[j] = row[j],
             \A q \in Requests : req'[q] = Idle \/ req'[q] = Missed(i, c)[q]
      PROVE  Looked'
  <2> SUFFICES ASSUME NEW r \in Requests, req'[r] # Idle, ~req'[r].blind
               PROVE  Twins(req[r].id, req[r].content)' \subseteq req'[r].since
    BY DEF Looked
  <2>1. req'[r] = Missed(i, c)[r]
    BY <1>2
  <2>2. Twins(req[r].id, req[r].content)' \subseteq req'[r].since
    BY <1>2, <2>1, MissedIsComplete
  <2> QED BY <2>2
<1>3. ASSUME NEW r \in Requests, Insert(r) PROVE Looked'
  <2>1. req[r].id \in Ids /\ req[r].content \in AnyContent
    BY <1>3 DEF Insert, TypeOK, Pending
  <2>2. /\ row'[req[r].id] # Absent => row'[req[r].id].content = req[r].content
        /\ \A j \in Ids \ {req[r].id} : row'[j] = row[j]
    BY <1>3, <2>1 DEF Insert, TypeOK
  <2>3. \A q \in Requests :
            req'[q] = Idle \/ req'[q] = Missed(req[r].id, req[r].content)[q]
    BY <1>3 DEF Insert, Missed
  <2> QED BY <1>2, <2>1, <2>2, <2>3
<1>4. ASSUME NEW r \in Requests, InsertFails(r) PROVE Looked'
  BY <1>4 DEF InsertFails, TypeOK, Looked, Twins
<1>5. ASSUME NEW i \in Ids, NEW c \in Content(TableOf[i]), Update(i, c) \/ UpdateMenu(i, c)
      PROVE  Looked'
  <2>1. /\ row'[i] # Absent => row'[i].content = c
        /\ \A j \in Ids \ {i} : row'[j] = row[j]
        /\ \A q \in Requests : req'[q] = Idle \/ req'[q] = Missed(i, c)[q]
    BY <1>5 DEF Update, UpdateMenu, TypeOK
  <2> QED BY <1>2, <2>1, ContentIsAny
<1>6. ASSUME req' = req, \A i \in Ids : row'[i] # Absent =>
                             row[i] # Absent /\ row'[i].content = row[i].content
      PROVE  Looked'
  BY <1>6 DEF Looked, Twins
<1>7. ASSUME NEW i \in Ids, NEW b \in BOOLEAN, SetPublic(i, b) PROVE Looked'
  BY <1>6, <1>7 DEF SetPublic, TypeOK
<1>8. ASSUME NEW i \in Ids, Delete(i) \/ GetPublic(i) PROVE Looked'
  BY <1>6, <1>8 DEF Delete, GetPublic, TypeOK
<1>9. ASSUME UNCHANGED vars PROVE Looked'
  BY <1>6, <1>9 DEF vars
<1> QED BY <1>1, <1>3, <1>4, <1>5, <1>7, <1>8, <1>9 DEF Next

-----------------------------------------------------------------------------
RowsInv == TypeOK /\ TagInv /\ Looked

\* The inductive invariant: the types, the agreement of every response with
\* the row, and the agreement of every look-up with the tables.
THEOREM RowsInvariant == Spec => []RowsInv
<1>1. Init => RowsInv
  BY DEF Init, RowsInv, TypeOK, TagInv, Born, Behind, SameTagSameContent, Looked
<1>2. RowsInv /\ [Next]_vars => RowsInv'
  BY Typed, Tagged, Seen DEF RowsInv, TagInv
<1> QED BY <1>1, <1>2, PTL DEF Spec

\* All values have their types.
THEOREM RowsTypes == Spec => []TypeOK
<1>1. RowsInv => TypeOK
  BY DEF RowsInv
<1> QED BY <1>1, RowsInvariant, PTL

\* Within one life of a diagram, an ETag stands for one content.
THEOREM TagsAreReliable == Spec => []SameTagSameContent
<1>1. RowsInv => SameTagSameContent
  BY DEF RowsInv, TagInv
<1> QED BY <1>1, RowsInvariant, PTL

\* A row equal to one of its table is inserted only by a handler that looked
\* before that one was written or whose look-up failed.
THEOREM CopiesAreRaces == Spec => NoNeedlessCopy
<1>1. ASSUME RowsInv, [Next]_vars, NEW i \in Ids, row[i] = Absent, row'[i] # Absent
      PROVE  \E r \in Requests :
                 /\ req[r] # Idle /\ req[r].id = i
                 /\ req[r].blind \/ Copies(i, req[r].content) \subseteq req[r].since
  <2>1. \E r \in Requests : Insert(r) /\ req[r].id = i
    <3>1. ASSUME NEW r \in Requests, Insert(r), req[r].id # i PROVE FALSE
      BY <1>1, <3>1 DEF Insert, RowsInv, TypeOK
    <3>2. ASSUME NEW j \in Ids, NEW c, Update(j, c) \/ UpdateMenu(j, c) PROVE FALSE
      BY <1>1, <3>2 DEF Update, UpdateMenu, RowsInv, TypeOK
    <3>3. ASSUME NEW j \in Ids, NEW b, SetPublic(j, b) PROVE FALSE
      BY <1>1, <3>3 DEF SetPublic, RowsInv, TypeOK
    <3>4. ASSUME NEW j \in Ids, Delete(j) \/ GetPublic(j) PROVE FALSE
      BY <1>1, <3>4 DEF Delete, GetPublic, RowsInv, TypeOK
    <3> QED BY <1>1, <3>1, <3>2, <3>3, <3>4 DEF Next, Look, InsertFails, vars
  <2>2. PICK r \in Requests : Insert(r) /\ req[r].id = i
    BY <2>1
  <2>3. Copies(i, req[r].content) \subseteq Twins(i, req[r].content)
    BY DEF Copies, Twins, Alike
  <2> QED BY <1>1, <2>2, <2>3 DEF Insert, RowsInv, Looked
<1>2. RowsInv /\ [Next]_vars => [\A i \in Ids : row[i] = Absent /\ row'[i] # Absent =>
          \E r \in Requests :
              /\ req[r] # Idle /\ req[r].id = i
              /\ req[r].blind \/ Copies(i, req[r].content) \subseteq req[r].since]_vars
  BY <1>1
<1> QED BY <1>2, RowsInvariant, PTL DEF Spec, NoNeedlessCopy
=============================================================================
