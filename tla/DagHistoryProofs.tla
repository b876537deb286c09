-------------------------- MODULE DagHistoryProofs --------------------------
(***************************************************************************)
(* Proofs about DagHistory for every number of diagrams, documents,        *)
(* handlers and goroutines and every history limit.                        *)
(***************************************************************************)
EXTENDS DagHistory, FiniteSetTheorems, WellFoundedInduction, TLAPS

\* Every non-empty set of natural numbers has a least element.
LEMMA LeastNatural ==
    ASSUME NEW T \in SUBSET Nat, T # {}
    PROVE  \E m \in T : \A n \in T : m <= n
<1> DEFINE R == {ss \in Nat \X Nat : ss[1] < ss[2]}
<1>1. IsWellFoundedOn(R, Nat)
  BY NatLessThanWellFounded DEF OpToRel
<1>2. \E x \in T : \A y \in T : ~ (<<y, x>> \in R)
  <2> HIDE DEF R
  <2> QED BY <1>1, WFMin
<1>3. PICK x \in T : \A y \in T : ~ (<<y, x>> \in R)
  BY <1>2
<1>4. ASSUME NEW y \in T PROVE x <= y
  <2>1. ~ (<<y, x>> \in R)
    BY <1>3
  <2>2. x \in Nat /\ y \in Nat
    OBVIOUS
  <2>3. ~ (y < x)
    BY <2>1, <2>2
  <2> QED BY <2>2, <2>3
<1>5. QED BY <1>4

\* A set has an element at which a measure in Nat is least.
LEMMA LeastMeasure ==
    ASSUME NEW S, S # {}, NEW f, \A s \in S : f[s] \in Nat
    PROVE  \E m \in S : \A s \in S : f[m] <= f[s]
<1> DEFINE T == {f[s] : s \in S}
<1>1. \E m \in T : \A n \in T : m <= n
  BY LeastNatural
<1>2. QED BY <1>1

-----------------------------------------------------------------------------
\* A finite set of snapshots ordered by key.
Keyed(h) ==
    /\ IsFiniteSet(h)
    /\ \A s \in h : s.key \in Nat
    /\ \A s, t \in h : s.key = t.key => s = t

Old(h, d) == RowsIn(h, d) \ NewestIn(h, d)

\* Counting newer snapshots makes sense: the sets are finite.
LEMMA NewerFinite ==
    ASSUME NEW h, IsFiniteSet(h), NEW s
    PROVE  IsFiniteSet(NewerIn(h, s)) /\ Cardinality(NewerIn(h, s)) \in Nat
BY FS_Subset, FS_CardinalityType DEF NewerIn

\* So are the newest snapshots of a diagram.
LEMMA NewestFinite ==
    ASSUME NEW h, IsFiniteSet(h), NEW d
    PROVE  IsFiniteSet(NewestIn(h, d)) /\ Cardinality(NewestIn(h, d)) \in Nat
BY FS_Subset, FS_CardinalityType DEF NewestIn, RowsIn

\* LIMIT keeps at most Limit rows.
LEMMA NewestFew ==
    ASSUME NEW h, Keyed(h), NEW d
    PROVE  Cardinality(NewestIn(h, d)) <= Limit
<1> DEFINE N == NewestIn(h, d)
<1>1. IsFiniteSet(N) /\ Cardinality(N) \in Nat
  BY NewestFinite DEF Keyed
<1>2. CASE N = {}
  BY <1>2, FS_EmptySet, LimitAssumption
<1>3. CASE N # {}
  <2> DEFINE f == [s \in N |-> s.key]
  <2>1. \A s \in N : f[s] \in Nat
    BY DEF Keyed, NewestIn, RowsIn
  <2>2. PICK m \in N : \A s \in N : f[m] <= f[s]
    <3> HIDE DEF N, f
    <3> QED BY <1>3, <2>1, LeastMeasure
  <2>3. N \ {m} \subseteq NewerIn(h, m)
    <3> SUFFICES ASSUME NEW s \in N, s # m PROVE s \in NewerIn(h, m)
      OBVIOUS
    <3>1. s \in h /\ m \in h /\ s.dag = d /\ m.dag = d
      BY DEF NewestIn, RowsIn
    <3>2. m.key <= s.key
      BY <2>2
    <3>3. m.key # s.key /\ m.key \in Nat /\ s.key \in Nat
      BY <3>1 DEF Keyed
    <3> QED BY <3>1, <3>2, <3>3 DEF NewerIn
  <2>4. Cardinality(N \ {m}) <= Cardinality(NewerIn(h, m))
    BY <2>3, NewerFinite, FS_Subset DEF Keyed
  <2>5. Cardinality(N \ {m}) = Cardinality(N) - 1
    BY <1>1, FS_RemoveElement
  <2>6. Cardinality(NewerIn(h, m)) < Limit
    BY DEF NewestIn
  <2>7. Cardinality(NewerIn(h, m)) \in Nat
    BY NewerFinite DEF Keyed
  <2> QED BY <1>1, <2>4, <2>5, <2>6, <2>7, LimitAssumption
<1> QED BY <1>2, <1>3

\* Every kept snapshot is newer than every dropped one, and once one is
\* dropped Limit are kept.
LEMMA OldBehindNewest ==
    ASSUME NEW h, Keyed(h), NEW d, NEW v \in Old(h, d)
    PROVE  /\ NewestIn(h, d) \subseteq NewerIn(h, v)
           /\ Cardinality(NewestIn(h, d)) >= Limit
<1> DEFINE N == NewestIn(h, d)
           c(s) == Cardinality(NewerIn(h, s))
<1>1. \A s : c(s) \in Nat /\ IsFiniteSet(NewerIn(h, s))
  BY NewerFinite DEF Keyed
<1>2. \A s \in Old(h, d) : s \in h /\ s.dag = d /\ c(s) >= Limit
  BY <1>1, LimitAssumption DEF Old, NewestIn, RowsIn
<1>3. ASSUME NEW s \in h, NEW t \in h, t.dag = s.dag, t.key > s.key
      PROVE  c(t) < c(s)
  <2>1. s.key \in Nat /\ t.key \in Nat /\ \A u \in h : u.key \in Nat
    BY DEF Keyed
  <2>2. NewerIn(h, t) \subseteq NewerIn(h, s) /\ t \in NewerIn(h, s) /\ t \notin NewerIn(h, t)
    BY <1>3, <2>1 DEF NewerIn
  <2>3. c(t) <= c(s) /\ (c(s) = c(t) => NewerIn(h, s) = NewerIn(h, t))
    BY <1>1, <2>2, FS_Subset
  <2> QED BY <1>1, <2>2, <2>3
<1>4. N \subseteq NewerIn(h, v)
  <2> SUFFICES ASSUME NEW t \in N PROVE t \in NewerIn(h, v)
    OBVIOUS
  <2>1. t \in h /\ t.dag = d /\ c(t) < Limit
    BY DEF NewestIn, RowsIn
  <2>2. v \in h /\ v.dag = d /\ c(v) >= Limit
    BY <1>2
  <2>3. t.key # v.key /\ t.key \in Nat /\ v.key \in Nat
    BY <1>1, <2>1, <2>2, LimitAssumption DEF Keyed
  <2>4. ~ (v.key > t.key)
    BY <1>1, <1>3, <2>1, <2>2, LimitAssumption
  <2> QED BY <2>1, <2>2, <2>3, <2>4 DEF NewerIn
<1>5. Cardinality(N) >= Limit
  <2> DEFINE f == [s \in Old(h, d) |-> c(s)]
  <2>1. PICK m \in Old(h, d) : \A s \in Old(h, d) : f[m] <= f[s]
    <3>1. \A s \in Old(h, d) : f[s] \in Nat
      BY <1>1
    <3> HIDE DEF f
    <3> QED BY <3>1, LeastMeasure
  <2>2. NewerIn(h, m) \subseteq N
    <3> SUFFICES ASSUME NEW t \in NewerIn(h, m), t \notin N PROVE FALSE
      OBVIOUS
    <3>1. m \in h /\ m.dag = d
      BY <1>2
    <3>2. t \in h /\ t.dag = m.dag /\ t.key > m.key
      BY DEF NewerIn
    <3>3. t \in Old(h, d)
      BY <3>1, <3>2 DEF Old, RowsIn
    <3>4. c(m) <= c(t)
      BY <2>1, <3>3
    <3> QED BY <1>1, <1>3, <3>1, <3>2, <3>4
  <2>3. IsFiniteSet(N) /\ Cardinality(N) \in Nat
    BY NewestFinite DEF Keyed
  <2>4. c(m) <= Cardinality(N)
    BY <2>2, <2>3, FS_Subset
  <2>5. c(m) >= Limit
    BY <1>2
  <2> QED BY <1>1, <2>3, <2>4, <2>5, LimitAssumption
<1> QED BY <1>4, <1>5
-----------------------------------------------------------------------------
\* What jsonbValue makes of a payload is a document of the same request, or NULL.
LEMMA PayloadType ==
    ASSUME NEW d \in Dags, NEW s \in Payload(d)
    PROVE  /\ s \in Document \cup {Unset, Blank}
           /\ JsonbValue(s) \in Column
           /\ {s} \cap Document \in SUBSET Document
           /\ JsonbValue(s) # Null => JsonbValue(s) = s /\ s \in Document
BY DEF Payload, Document, JsonbValue, Column

\* The COALESCE of UpdateDAG yields a value of the column for a row there is.
LEMMA MergedType ==
    ASSUME TypeOK, NEW d \in Dags, NEW s \in Document \cup {Unset, Blank}
    PROVE  /\ Merged(d, s) \in Column \cup {Absent}
           /\ Merged(d, s) = Absent <=> diagram[d] = Absent
BY ValuesAssumption DEF TypeOK, Merged, JsonbValue, Column, Document

\* Every variable keeps its type, whatever the handlers and goroutines do.
THEOREM TypeCorrect == Spec => []TypeOK
<1>1. Init => TypeOK
  BY DEF Init, TypeOK, Request, Job, Idle, None, Column
<1>2. TypeOK /\ [Next]_vars => TypeOK'
  <2> SUFFICES ASSUME TypeOK, [Next]_vars PROVE TypeOK'
    OBVIOUS
  <2>1. ASSUME NEW d \in Dags, NEW s \in Payload(d), Create(d, s) PROVE TypeOK'
    BY <2>1, PayloadType DEF Create, TypeOK
  <2>2. ASSUME NEW d \in Dags, Delete(d) PROVE TypeOK'
    BY <2>2 DEF Delete, TypeOK
  <2>3. ASSUME NEW r \in Requests, NEW d \in Dags, NEW s \in Payload(d), Update(r, d, s)
        PROVE TypeOK'
    <3>1. [op |-> "saved", dag |-> d, body |-> s] \in Request
      BY PayloadType DEF Request
    <3>2. Merged(d, s) \in Column \cup {Absent}
      BY PayloadType, MergedType
    <3> QED BY <2>3, <3>1, <3>2, PayloadType DEF Update, TypeOK
  <2>4. ASSUME NEW r \in Requests, Reply(r) PROVE TypeOK'
    <3>1. Idle \in Request
      BY DEF Idle, Request
    <3>2. req[r].dag \in Dags /\ req[r].body \in Document \cup {Unset, Blank}
      BY <2>4 DEF Reply, TypeOK, Request
    <3>3. [task |-> "append", dag |-> req[r].dag, snap |-> JsonbValue(req[r].body)] \in Job
      BY <3>2 DEF Job, JsonbValue, Column
    <3> QED BY <2>4, <3>1, <3>3 DEF Reply, TypeOK, table, ghost
  <2>5. ASSUME NEW r \in Requests, NEW d \in Dags, NEW s \in history, RestoreRead(r, d, s)
        PROVE TypeOK'
    <3>1. [op |-> "restoring", dag |-> d, snap |-> s.snap] \in Request
      BY <2>5 DEF RestoreRead, Request, TypeOK, Snapshot, Column
    <3> QED BY <2>5, <3>1 DEF RestoreRead, TypeOK, table, ghost
  <2>6. ASSUME NEW r \in Requests, RestoreWrite(r) PROVE TypeOK'
    <3>1. req[r].dag \in Dags /\ req[r].snap \in Document
      BY <2>6 DEF RestoreWrite, TypeOK, Request
    <3>2. Merged(req[r].dag, req[r].snap) \in Column \cup {Absent}
      BY <3>1, MergedType
    <3>3. Idle \in Request
      BY DEF Idle, Request
    <3> QED BY <2>6, <3>1, <3>2, <3>3 DEF RestoreWrite, TypeOK, ghost
  <2>7. ASSUME NEW j \in Jobs, NEW k \in Keys, Append(j, k) PROVE TypeOK'
    <3>1. job[j].dag \in Dags /\ job[j].snap \in Column
      BY <2>7 DEF Append, TypeOK, Job
    <3>2. [dag |-> job[j].dag, key |-> k, snap |-> job[j].snap] \in Snapshot
      BY <3>1 DEF Snapshot
    <3>3. [task |-> "prune", dag |-> job[j].dag] \in Job
      BY <3>1 DEF Job
    <3> QED BY <2>7, <3>2, <3>3 DEF Append, TypeOK, ghost
  <2>8. ASSUME NEW j \in Jobs, AppendFails(j) PROVE TypeOK'
    <3>1. None \in Job /\ job[j].dag \in Dags
      BY <2>8 DEF AppendFails, None, TypeOK, Job
    <3> QED BY <2>8, <3>1 DEF AppendFails, TypeOK, table
  <2>9. ASSUME NEW j \in Jobs, PruneSelect(j) PROVE TypeOK'
    <3>1. job[j].dag \in Dags
      BY <2>9 DEF PruneSelect, TypeOK, Job
    <3>2. [task |-> "delete", dag |-> job[j].dag,
            victims |-> Rows(job[j].dag) \ Newest(job[j].dag)] \in Job
      BY <3>1 DEF Job, Rows, RowsIn, TypeOK
    <3> QED BY <2>9, <3>1, <3>2 DEF PruneSelect, TypeOK, table
  <2>10. ASSUME NEW j \in Jobs, PruneDelete(j) PROVE TypeOK'
    BY <2>10 DEF PruneDelete, TypeOK, ghost, None, Job
  <2>11. ASSUME NEW j \in Jobs, PruneFails(j) PROVE TypeOK'
    BY <2>11 DEF PruneFails, TypeOK, table, None, Job
  <2>12. ASSUME Crash PROVE TypeOK'
    BY <2>12 DEF Crash, TypeOK, table, None, Idle, Job, Request
  <2>13. ASSUME UNCHANGED vars PROVE TypeOK'
    BY <2>13 DEF vars, TypeOK
  <2> QED BY <2>1, <2>2, <2>3, <2>4, <2>5, <2>6, <2>7, <2>8, <2>9, <2>10, <2>11,
             <2>12, <2>13 DEF Next, Handler, Pruner
<1>3. QED BY <1>1, <1>2, PTL DEF Spec

-----------------------------------------------------------------------------
\* Snapshots never outlive their diagram (the foreign key and its cascade),
\* even those a goroutine inserts after the diagram was deleted.
THEOREM OwnedSnapshots == Spec => []HistoryOwned
<1>1. Init => HistoryOwned
  BY DEF Init, HistoryOwned
<1>2. TypeOK /\ HistoryOwned /\ [Next]_vars => HistoryOwned'
  <2> SUFFICES ASSUME TypeOK, HistoryOwned, [Next]_vars PROVE HistoryOwned'
    OBVIOUS
  <2>1. ASSUME NEW d \in Dags, NEW s \in Payload(d), Create(d, s) PROVE HistoryOwned'
    <3>1. diagram'[d] # Absent
      BY <2>1, ValuesAssumption DEF Create, TypeOK, JsonbValue, Payload, Document
    <3> QED BY <2>1, <3>1 DEF Create, HistoryOwned, TypeOK, Snapshot
  <2>2. ASSUME NEW d \in Dags, Delete(d) PROVE HistoryOwned'
    BY <2>2 DEF Delete, HistoryOwned, TypeOK, Snapshot, Rows, RowsIn
  <2>3. ASSUME NEW r \in Requests, NEW d \in Dags, NEW s \in Payload(d), Update(r, d, s)
        PROVE HistoryOwned'
    <3>1. Merged(d, s) = Absent <=> diagram[d] = Absent
      BY PayloadType, MergedType
    <3> QED BY <2>3, <3>1 DEF Update, HistoryOwned, TypeOK, Snapshot
  <2>4. ASSUME NEW r \in Requests, RestoreWrite(r) PROVE HistoryOwned'
    <3>1. req[r].dag \in Dags /\ req[r].snap \in Document
      BY <2>4 DEF RestoreWrite, TypeOK, Request
    <3>2. Merged(req[r].dag, req[r].snap) = Absent <=> diagram[req[r].dag] = Absent
      BY <3>1, MergedType
    <3> QED BY <2>4, <3>1, <3>2 DEF RestoreWrite, HistoryOwned, TypeOK, Snapshot
  <2>5. ASSUME NEW j \in Jobs, NEW k \in Keys, Append(j, k) PROVE HistoryOwned'
    BY <2>5 DEF Append, HistoryOwned, TypeOK, Snapshot, Job
  <2>6. ASSUME NEW j \in Jobs, PruneDelete(j) PROVE HistoryOwned'
    BY <2>6 DEF PruneDelete, HistoryOwned
  <2>7. ASSUME UNCHANGED table PROVE HistoryOwned'
    BY <2>7 DEF table, HistoryOwned
  <2> QED BY <2>1, <2>2, <2>3, <2>4, <2>5, <2>6, <2>7
          DEF Next, Handler, Pruner, Reply, RestoreRead, AppendFails, PruneSelect,
              PruneFails, Crash, vars, table
<1>3. QED BY <1>1, <1>2, TypeCorrect, PTL DEF Spec

-----------------------------------------------------------------------------
\* The strengthening.  Keys identify snapshots and are never given out twice;
\* what a pruning statement selected is old and stays old until it is removed;
\* and what is neither selected nor new since the last selection is within Limit.
KeysGivenOut ==
    /\ Keyed(history)
    /\ \A s \in history : s.key \in used
    /\ \A j \in Jobs : job[j].task = "delete" => \A v \in job[j].victims : v.key \in used

VictimsOld ==
    \A j \in Jobs : job[j].task = "delete" =>
        \A v \in job[j].victims \cap history : v \in Old(history, job[j].dag)

Doomed(d) == UNION {job[j].victims :
                      j \in {i \in Jobs : job[i].task = "delete" /\ job[i].dag = d}}

PruneDue(d) == skipped[d] \/ \E j \in Jobs : job[j].task = "prune" /\ job[j].dag = d

RestBounded ==
    \A d \in Dags : PruneDue(d) \/ Cardinality(Rows(d) \ Doomed(d)) <= Limit

HistoryInv == KeysGivenOut /\ VictimsOld /\ RestBounded

\* Removing old snapshots of one diagram leaves Limit newer ones for each of
\* its other old snapshots, so those stay old.
LEMMA OldStaysOld ==
    ASSUME NEW h, Keyed(h), NEW d, NEW V, V \cap h \subseteq Old(h, d)
    PROVE  /\ Keyed(h \ V)
           /\ \A s \in Old(h, d) : Cardinality(NewerIn(h \ V, s)) >= Limit
           /\ \A e : \A s \in Old(h, e) \ V : s \in Old(h \ V, e)
<1>1. Keyed(h \ V)
  BY FS_Subset DEF Keyed
<1>2. ASSUME NEW s \in Old(h, d) PROVE Cardinality(NewerIn(h \ V, s)) >= Limit
  <2>1. NewestIn(h, d) \subseteq NewerIn(h, s) /\ Cardinality(NewestIn(h, d)) >= Limit
    BY OldBehindNewest
  <2>2. NewestIn(h, d) \subseteq NewerIn(h \ V, s)
    BY <2>1 DEF NewerIn, Old
  <2>3. /\ IsFiniteSet(NewerIn(h \ V, s))
        /\ Cardinality(NewerIn(h \ V, s)) \in Nat
        /\ Cardinality(NewestIn(h, d)) \in Nat
    BY <1>1, NewerFinite, NewestFinite DEF Keyed
  <2>4. Cardinality(NewestIn(h, d)) <= Cardinality(NewerIn(h \ V, s))
    BY <2>2, <2>3, FS_Subset
  <2> QED BY <2>1, <2>3, <2>4, LimitAssumption
<1>3. ASSUME NEW e, NEW s \in Old(h, e) \ V PROVE s \in Old(h \ V, e)
  <2>1. Cardinality(NewerIn(h \ V, s)) >= Limit
    <3>1. CASE e = d
      BY <1>2, <3>1
    <3>2. CASE e # d
      <4>1. NewerIn(h \ V, s) = NewerIn(h, s)
        BY <3>2 DEF NewerIn, Old, RowsIn
      <4>2. Cardinality(NewerIn(h, s)) \in Nat
        BY NewerFinite DEF Keyed
      <4> QED BY <4>1, <4>2, LimitAssumption DEF Old, NewestIn, RowsIn
    <3> QED BY <3>1, <3>2
  <2>2. Cardinality(NewerIn(h \ V, s)) \in Nat
    BY <1>1, NewerFinite DEF Keyed
  <2> QED BY <2>1, <2>2, LimitAssumption DEF Old, NewestIn, RowsIn
<1> QED BY <1>1, <1>2, <1>3

\* A new snapshot only pushes others back.
LEMMA OldUnderInsert ==
    ASSUME NEW h, Keyed(h), NEW n, n.key \in Nat, \A s \in h : s.key # n.key
    PROVE  /\ Keyed(h \cup {n})
           /\ \A e : \A s \in Old(h, e) : s \in Old(h \cup {n}, e)
<1>1. Keyed(h \cup {n})
  BY FS_AddElement DEF Keyed
<1>2. ASSUME NEW e, NEW s \in Old(h, e) PROVE s \in Old(h \cup {n}, e)
  <2>1. NewerIn(h, s) \subseteq NewerIn(h \cup {n}, s)
    BY DEF NewerIn
  <2>2. /\ IsFiniteSet(NewerIn(h \cup {n}, s))
        /\ Cardinality(NewerIn(h \cup {n}, s)) \in Nat
        /\ Cardinality(NewerIn(h, s)) \in Nat
    BY <1>1, NewerFinite DEF Keyed
  <2>3. Cardinality(NewerIn(h, s)) <= Cardinality(NewerIn(h \cup {n}, s))
    BY <2>1, <2>2, FS_Subset
  <2>4. s \in h /\ s.dag = e /\ ~ (Cardinality(NewerIn(h, s)) < Limit)
    BY DEF Old, NewestIn, RowsIn
  <2> QED BY <2>2, <2>3, <2>4, LimitAssumption DEF Old, NewestIn, RowsIn
<1> QED BY <1>1, <1>2

\* A goroutine that is not deleting dooms nothing.
LEMMA DoomedSame ==
    ASSUME \A j \in Jobs : job'[j] = job[j]
                        \/ (job[j].task # "delete" /\ job'[j].task # "delete")
    PROVE  \A d : Doomed(d)' = Doomed(d)
BY DEF Doomed

\* The invariant survives every step that leaves history and used alone, does
\* not touch a deleting goroutine and keeps a due prune due.
LEMMA QuietStep ==
    ASSUME HistoryInv, UNCHANGED <<history, used>>,
           \A j \in Jobs : job'[j] = job[j]
                        \/ (job[j].task # "delete" /\ job'[j].task # "delete"),
           \A d \in Dags : PruneDue(d) => PruneDue(d)'
    PROVE  HistoryInv'
<1>1. KeysGivenOut' /\ VictimsOld'
  BY DEF HistoryInv, KeysGivenOut, VictimsOld
<1>2. \A d : Doomed(d)' = Doomed(d)
  BY DoomedSame
<1>3. RestBounded'
  BY <1>2 DEF HistoryInv, RestBounded, Rows
<1> QED BY <1>1, <1>3 DEF HistoryInv

\* AppendHistory adds a row that a prune is still to look at.
LEMMA InsertStep ==
    ASSUME TypeOK, HistoryInv, NEW j \in Jobs, NEW k \in Keys, Append(j, k)
    PROVE  HistoryInv'
<1> DEFINE n == [dag |-> job[j].dag, key |-> k, snap |-> job[j].snap]
<1>1. /\ history' = history \cup {n}
      /\ n.key \in Nat
      /\ \A s \in history : s.key # n.key
      /\ n.dag \in Dags
  BY KeysAssumption DEF Append, HistoryInv, KeysGivenOut, TypeOK, Job
<1>2. /\ job'[j] = [task |-> "prune", dag |-> job[j].dag] /\ job[j].task = "append"
      /\ \A i \in Jobs \ {j} : job'[i] = job[i]
  BY DEF Append, TypeOK
<1>3. KeysGivenOut'
  <2>1. Keyed(history')
    BY <1>1, OldUnderInsert DEF HistoryInv, KeysGivenOut
  <2>2. \A s \in history' : s.key \in used'
    BY <1>1 DEF HistoryInv, KeysGivenOut, Append
  <2>3. ASSUME NEW i \in Jobs, job'[i].task = "delete", NEW v \in job'[i].victims
        PROVE  v.key \in used'
    <3>1. i # j /\ job'[i] = job[i]
      BY <1>2, <2>3
    <3> QED BY <2>3, <3>1 DEF HistoryInv, KeysGivenOut, Append
  <2> QED BY <2>1, <2>2, <2>3 DEF KeysGivenOut
<1>4. VictimsOld'
  <2> SUFFICES ASSUME NEW i \in Jobs, job'[i].task = "delete",
                      NEW v \in job'[i].victims \cap history'
               PROVE  v \in Old(history', job'[i].dag)
    BY DEF VictimsOld
  <2>1. i # j /\ job'[i] = job[i]
    BY <1>2
  <2>2. v.key \in used
    BY <2>1 DEF HistoryInv, KeysGivenOut
  <2>3. v # n
    BY <2>2 DEF Append
  <2>4. v \in Old(history, job[i].dag)
    BY <1>1, <2>1, <2>3 DEF HistoryInv, VictimsOld
  <2> QED BY <1>1, <2>1, <2>4, OldUnderInsert DEF HistoryInv, KeysGivenOut
<1>5. RestBounded'
  <2> SUFFICES ASSUME NEW d \in Dags, ~ PruneDue(d)'
               PROVE  Cardinality(Rows(d)' \ Doomed(d)') <= Limit
    BY DEF RestBounded
  <2>1. d # n.dag
    BY <1>2 DEF PruneDue
  <2>2. Rows(d)' = Rows(d)
    BY <1>1, <2>1 DEF Rows, RowsIn
  <2>3. \A i \in Jobs : job'[i] = job[i] \/ (job[i].task # "delete" /\ job'[i].task # "delete")
    BY <1>2
  <2>4. Doomed(d)' = Doomed(d)
    BY <2>3, DoomedSame
  <2>5. ~ PruneDue(d)
    BY <1>2 DEF PruneDue, Append, ghost
  <2> QED BY <2>2, <2>4, <2>5 DEF HistoryInv, RestBounded
<1> QED BY <1>3, <1>4, <1>5 DEF HistoryInv

\* pruneHistory selects what the newest Limit snapshots have left behind.
LEMMA SelectStep ==
    ASSUME TypeOK, HistoryInv, NEW j \in Jobs, PruneSelect(j)
    PROVE  HistoryInv'
<1> DEFINE e == job[j].dag
<1>1. /\ job' = [job EXCEPT ![j] = [task |-> "delete", dag |-> e, victims |-> Old(history, e)]]
      /\ job[j].task = "prune"
      /\ history' = history /\ used' = used
  BY DEF PruneSelect, Old, Rows, Newest, table
<1>2. Old(history, e) \subseteq history
  BY DEF Old, RowsIn
<1>3. KeysGivenOut'
  BY <1>1, <1>2 DEF HistoryInv, KeysGivenOut, TypeOK
<1>4. VictimsOld'
  BY <1>1 DEF HistoryInv, VictimsOld, TypeOK
<1>5. RestBounded'
  <2> SUFFICES ASSUME NEW d \in Dags, ~ PruneDue(d)'
               PROVE  Cardinality(Rows(d)' \ Doomed(d)') <= Limit
    BY DEF RestBounded
  <2>1. CASE d = e
    <3>1. Old(history, d) \subseteq Doomed(d)'
      BY <1>1, <2>1 DEF Doomed, TypeOK
    <3>2. Rows(d)' \ Doomed(d)' \subseteq NewestIn(history, d)
      BY <1>1, <3>1 DEF Rows, Old
    <3>3. /\ IsFiniteSet(NewestIn(history, d)) /\ Cardinality(NewestIn(history, d)) \in Nat
          /\ Cardinality(NewestIn(history, d)) <= Limit
      BY NewestFinite, NewestFew DEF HistoryInv, KeysGivenOut, Keyed
    <3>4. /\ Cardinality(Rows(d)' \ Doomed(d)') <= Cardinality(NewestIn(history, d))
          /\ Cardinality(Rows(d)' \ Doomed(d)') \in Nat
      BY <3>2, <3>3, FS_Subset, FS_CardinalityType
    <3> QED BY <3>3, <3>4, LimitAssumption
  <2>2. CASE d # e
    <3>1. Doomed(d)' = Doomed(d)
      BY <1>1, <2>2 DEF Doomed, TypeOK
    <3>2. ~ PruneDue(d)
      BY <1>1, <2>2 DEF PruneDue, PruneSelect, TypeOK
    <3> QED BY <1>1, <3>1, <3>2 DEF HistoryInv, RestBounded, Rows
  <2> QED BY <2>1, <2>2
<1> QED BY <1>3, <1>4, <1>5 DEF HistoryInv

\* pruneHistory removes what it selected, and nothing that is newest by now.
LEMMA DeleteStep ==
    ASSUME TypeOK, HistoryInv, NEW j \in Jobs, PruneDelete(j)
    PROVE  HistoryInv'
<1> DEFINE e == job[j].dag
           V == job[j].victims
<1>1. /\ job' = [job EXCEPT ![j] = None] /\ job[j].task = "delete"
      /\ history' = history \ V /\ used' = used /\ skipped' = skipped
      /\ V \cap history \subseteq Old(history, e)
  BY DEF PruneDelete, HistoryInv, VictimsOld, ghost
<1>2. /\ Keyed(history \ V)
      /\ \A d : \A s \in Old(history, d) \ V : s \in Old(history \ V, d)
  BY <1>1, OldStaysOld DEF HistoryInv, KeysGivenOut
<1>3. KeysGivenOut'
  BY <1>1, <1>2 DEF HistoryInv, KeysGivenOut, TypeOK, None
<1>4. VictimsOld'
  <2> SUFFICES ASSUME NEW i \in Jobs, job'[i].task = "delete",
                      NEW v \in job'[i].victims \cap history'
               PROVE  v \in Old(history', job'[i].dag)
    BY DEF VictimsOld
  <2>1. job'[i] = job[i]
    BY <1>1 DEF TypeOK, None
  <2>2. v \in Old(history, job[i].dag) \ V
    BY <1>1, <2>1 DEF HistoryInv, VictimsOld
  <2> QED BY <1>1, <1>2, <2>1, <2>2
<1>5. RestBounded'
  <2> SUFFICES ASSUME NEW d \in Dags, ~ PruneDue(d)'
               PROVE  Cardinality(Rows(d)' \ Doomed(d)') <= Limit
    BY DEF RestBounded
  <2>1. ~ PruneDue(d)
    BY <1>1 DEF PruneDue, TypeOK, None
  <2>2. Rows(d)' \ Doomed(d)' = Rows(d) \ Doomed(d)
    <3>1. CASE d = e
      <4>1. Doomed(d) = Doomed(d)' \cup V
        BY <1>1, <3>1 DEF Doomed, TypeOK, None
      <4> QED BY <1>1, <4>1 DEF Rows, RowsIn
    <3>2. CASE d # e
      <4>1. Doomed(d)' = Doomed(d)
        BY <1>1, <3>2 DEF Doomed, TypeOK, None
      <4>2. Rows(d)' = Rows(d)
        BY <1>1, <3>2 DEF Rows, RowsIn, Old
      <4> QED BY <4>1, <4>2
    <3> QED BY <3>1, <3>2
  <2> QED BY <2>1, <2>2 DEF HistoryInv, RestBounded
<1> QED BY <1>3, <1>4, <1>5 DEF HistoryInv

\* A diagram that is deleted takes all its snapshots along.
LEMMA DropStep ==
    ASSUME TypeOK, HistoryInv, NEW e \in Dags, Delete(e)
    PROVE  HistoryInv'
<1>1. /\ history' = history \ Rows(e) /\ used' = used /\ job' = job
      /\ \A d \in Dags \ {e} : skipped'[d] = skipped[d]
  BY DEF Delete, TypeOK
<1>2. Keyed(history')
  BY <1>1, FS_Subset DEF HistoryInv, KeysGivenOut, Keyed
<1>3. KeysGivenOut'
  BY <1>1, <1>2 DEF HistoryInv, KeysGivenOut
<1>4. ASSUME NEW d, d # e
      PROVE  /\ Rows(d)' = Rows(d)
             /\ Old(history', d) = Old(history, d)
  <2>1. Rows(d)' = Rows(d)
    BY <1>1, <1>4 DEF Rows, RowsIn
  <2>2. \A s \in Rows(d) : NewerIn(history', s) = NewerIn(history, s)
    BY <1>1, <1>4 DEF NewerIn, Rows, RowsIn
  <2> QED BY <2>1, <2>2 DEF Old, NewestIn, Rows
<1>5. VictimsOld'
  <2> SUFFICES ASSUME NEW i \in Jobs, job[i].task = "delete",
                      NEW v \in job[i].victims \cap history'
               PROVE  v \in Old(history', job[i].dag)
    BY <1>1 DEF VictimsOld
  <2>1. v \in Old(history, job[i].dag)
    BY <1>1 DEF HistoryInv, VictimsOld
  <2>2. job[i].dag # e
    BY <1>1, <2>1 DEF Old, Rows, RowsIn
  <2> QED BY <1>4, <2>1, <2>2
<1>6. RestBounded'
  <2> SUFFICES ASSUME NEW d \in Dags, ~ PruneDue(d)'
               PROVE  Cardinality(Rows(d)' \ Doomed(d)') <= Limit
    BY DEF RestBounded
  <2>1. Doomed(d)' = Doomed(d)
    BY <1>1 DEF Doomed
  <2>2. CASE d = e
    <3>1. Rows(d)' \ Doomed(d)' = {}
      BY <1>1, <2>2 DEF Rows, RowsIn
    <3> QED BY <3>1, FS_EmptySet, LimitAssumption
  <2>3. CASE d # e
    <3>1. ~ PruneDue(d)
      BY <1>1, <2>3 DEF PruneDue
    <3> QED BY <1>4, <2>1, <2>3, <3>1 DEF HistoryInv, RestBounded
  <2> QED BY <2>2, <2>3
<1> QED BY <1>3, <1>5, <1>6 DEF HistoryInv

\* What a crash leaves undeleted is a prune that was lost.
LEMMA CrashStep ==
    ASSUME TypeOK, HistoryInv, Crash
    PROVE  HistoryInv'
<1>1. /\ history' = history /\ used' = used
      /\ \A j \in Jobs : job'[j].task = "none"
  BY DEF Crash, table, None
<1>2. KeysGivenOut' /\ VictimsOld'
  BY <1>1 DEF HistoryInv, KeysGivenOut, VictimsOld
<1>3. RestBounded'
  <2> SUFFICES ASSUME NEW d \in Dags, ~ PruneDue(d)'
               PROVE  Cardinality(Rows(d)' \ Doomed(d)') <= Limit
    BY DEF RestBounded
  <2>1. /\ ~ PruneDue(d)
        /\ \A j \in Jobs : ~ (job[j].task = "delete" /\ job[j].dag = d)
    BY DEF PruneDue, Crash
  <2>2. Doomed(d) = {} /\ Doomed(d)' = {}
    BY <1>1, <2>1 DEF Doomed
  <2> QED BY <1>1, <2>1, <2>2 DEF HistoryInv, RestBounded, Rows
<1> QED BY <1>2, <1>3 DEF HistoryInv

\* The invariant the theorems below rest on holds from the first state on.
THEOREM HistoryInvariant == Spec => []HistoryInv
<1>1. Init => HistoryInv
  <2> SUFFICES ASSUME Init PROVE HistoryInv
    OBVIOUS
  <2>1. KeysGivenOut /\ VictimsOld
    BY FS_EmptySet DEF Init, KeysGivenOut, VictimsOld, Keyed, None
  <2>2. \A d : Rows(d) \ Doomed(d) = {}
    BY DEF Init, Rows, RowsIn
  <2> QED BY <2>1, <2>2, FS_EmptySet, LimitAssumption DEF HistoryInv, RestBounded
<1>2. TypeOK /\ HistoryInv /\ [Next]_vars => HistoryInv'
  <2> SUFFICES ASSUME TypeOK, HistoryInv, [Next]_vars PROVE HistoryInv'
    OBVIOUS
  <2>1. ASSUME NEW d \in Dags, NEW s \in Payload(d), Create(d, s) PROVE HistoryInv'
    BY <2>1, QuietStep DEF Create, PruneDue
  <2>2. ASSUME NEW d \in Dags, Delete(d) PROVE HistoryInv'
    BY <2>2, DropStep
  <2>3. ASSUME NEW r \in Requests, NEW d \in Dags, NEW s \in Payload(d), Update(r, d, s)
        PROVE HistoryInv'
    BY <2>3, QuietStep DEF Update, PruneDue
  <2>4. ASSUME NEW r \in Requests, Reply(r) PROVE HistoryInv'
    <3>1. \A j \in Jobs : \/ job'[j] = job[j]
                          \/ (job[j].task = "none" /\ job'[j].task = "append")
      BY <2>4 DEF Reply, TypeOK, None
    <3>2. \A d \in Dags : PruneDue(d) => PruneDue(d)'
      BY <2>4, <3>1 DEF PruneDue, Reply, ghost
    <3> QED BY <2>4, <3>1, <3>2, QuietStep DEF Reply, table
  <2>5. ASSUME NEW r \in Requests, NEW d \in Dags, NEW s \in history, RestoreRead(r, d, s)
        PROVE HistoryInv'
    BY <2>5, QuietStep DEF RestoreRead, PruneDue, table, ghost
  <2>6. ASSUME NEW r \in Requests, RestoreWrite(r) PROVE HistoryInv'
    BY <2>6, QuietStep DEF RestoreWrite, PruneDue, ghost
  <2>7. ASSUME NEW j \in Jobs, NEW k \in Keys, Append(j, k) PROVE HistoryInv'
    BY <2>7, InsertStep
  <2>8. ASSUME NEW j \in Jobs, AppendFails(j) PROVE HistoryInv'
    <3>1. /\ job[j].task = "append" /\ job'[j].task = "none"
          /\ \A i \in Jobs \ {j} : job'[i] = job[i]
      BY <2>8 DEF AppendFails, TypeOK, None
    <3>2. \A d \in Dags : PruneDue(d) => PruneDue(d)'
      BY <2>8, <3>1 DEF PruneDue, AppendFails
    <3> QED BY <2>8, <3>1, <3>2, QuietStep DEF AppendFails, table
  <2>9. ASSUME NEW j \in Jobs, PruneSelect(j) PROVE HistoryInv'
    BY <2>9, SelectStep
  <2>10. ASSUME NEW j \in Jobs, PruneDelete(j) PROVE HistoryInv'
    BY <2>10, DeleteStep
  <2>11. ASSUME NEW j \in Jobs, PruneFails(j) PROVE HistoryInv'
    <3>1. /\ job[j].task = "prune" /\ job'[j].task = "none"
          /\ \A i \in Jobs \ {j} : job'[i] = job[i]
          /\ \A d \in Dags : skipped[d] \/ d = job[j].dag => skipped'[d]
      BY <2>11 DEF PruneFails, TypeOK, None
    <3>2. \A d \in Dags : PruneDue(d) => PruneDue(d)'
      BY <3>1 DEF PruneDue
    <3> QED BY <2>11, <3>1, <3>2, QuietStep DEF PruneFails, table
  <2>12. ASSUME Crash PROVE HistoryInv'
    BY <2>12, CrashStep
  <2>13. ASSUME UNCHANGED vars PROVE HistoryInv'
    BY <2>13, QuietStep DEF vars, PruneDue
  <2> QED BY <2>1, <2>2, <2>3, <2>4, <2>5, <2>6, <2>7, <2>8, <2>9, <2>10, <2>11,
             <2>12, <2>13 DEF Next, Handler, Pruner
<1>3. QED BY <1>1, <1>2, TypeCorrect, PTL DEF Spec

\* "Latest 50 snapshots per diagram": with no goroutine at work on a diagram
\* and its last prune not lost, its history is within historyLimit, whatever
\* the interleaving of inserts and prunes was.
THEOREM Bounded == Spec => []HistoryBounded
<1>1. HistoryInv => HistoryBounded
  <2> SUFFICES ASSUME HistoryInv, NEW d \in Dags, Pruning(d) = {}, ~ skipped[d]
               PROVE  Cardinality(Rows(d)) <= Limit
    BY DEF HistoryBounded
  <2>1. Doomed(d) = {} /\ ~ PruneDue(d)
    BY DEF Doomed, PruneDue, Pruning
  <2>2. Rows(d) \ Doomed(d) = Rows(d)
    BY <2>1
  <2> QED BY <2>1, <2>2 DEF HistoryInv, RestBounded
<1> QED BY <1>1, HistoryInvariant, PTL

\* pruneHistory never removes one of the newest historyLimit snapshots, though
\* it deletes what an earlier snapshot of the table selected.
THEOREM KeepsNewest == Spec => PruneKeepsNewest
<1> DEFINE Kept == \A s \in history \ history' :
                      \/ diagram'[s.dag] = Absent
                      \/ Cardinality(NewerIn(history', s)) >= Limit
<1>1. TypeOK /\ HistoryInv /\ [Next]_vars => Kept
  <2> SUFFICES ASSUME TypeOK, HistoryInv, [Next]_vars PROVE Kept
    OBVIOUS
  <2>1. ASSUME NEW j \in Jobs, PruneDelete(j) PROVE Kept
    <3>1. /\ history' = history \ job[j].victims
          /\ job[j].victims \cap history \subseteq Old(history, job[j].dag)
          /\ Keyed(history)
      BY <2>1 DEF PruneDelete, HistoryInv, VictimsOld, KeysGivenOut
    <3> QED BY <3>1, OldStaysOld
  <2>2. ASSUME NEW d \in Dags, Delete(d) PROVE Kept
    BY <2>2 DEF Delete, Rows, RowsIn, TypeOK
  <2>3. ASSUME history \subseteq history' PROVE Kept
    BY <2>3
  <2> QED BY <2>1, <2>2, <2>3
          DEF Next, Handler, Pruner, Create, Update, Reply, RestoreRead, RestoreWrite,
              Append, AppendFails, PruneSelect, PruneFails, Crash, vars, table
<1>2. QED BY <1>1, TypeCorrect, HistoryInvariant, PTL DEF Spec, PruneKeepsNewest

\* A document that a save put in the row is on its way to the history, in it,
\* or behind historyLimit newer ones; a step loses it only by losing the row,
\* the goroutine that carried it, or its place to newer snapshots.
Saved(d, c) ==
    OnItsWay(d, c) \/ (\E s \in Rows(d) : s.snap = c) \/ Cardinality(Rows(d)) >= Limit

\* A history that is full stays full while no row leaves it.
LEMMA MoreRows ==
    ASSUME Keyed(history'), NEW d, Rows(d) \subseteq Rows(d)'
    PROVE  Cardinality(Rows(d)) >= Limit => Cardinality(Rows(d)') >= Limit
<1>1. IsFiniteSet(Rows(d)')
  BY FS_Subset DEF Keyed, Rows, RowsIn
<1>2. /\ Cardinality(Rows(d)) <= Cardinality(Rows(d)')
      /\ Cardinality(Rows(d)) \in Nat /\ Cardinality(Rows(d)') \in Nat
  BY <1>1, FS_Subset, FS_CardinalityType
<1> QED BY <1>2, LimitAssumption

\* A step that keeps the rows of d and does not touch c in a handler or a
\* goroutine keeps c saved.
LEMMA StaySaved ==
    ASSUME Keyed(history'), NEW d, NEW c, Saved(d, c), Rows(d) \subseteq Rows(d)',
           OnItsWay(d, c) => Saved(d, c)'
    PROVE  Saved(d, c)'
BY MoreRows DEF Saved

\* With every document snapshotted, in flight or outnumbered, what a user
\* saved can be restored.
THEOREM Restorable == Spec => []SavedIsRestorable
<1>1. Init => SavedIsRestorable
  BY DEF Init, SavedIsRestorable
<1>2. TypeOK /\ HistoryInv /\ HistoryInv' /\ SavedIsRestorable /\ [Next]_vars => SavedIsRestorable'
  <2> SUFFICES ASSUME TypeOK, HistoryInv, HistoryInv', SavedIsRestorable, [Next]_vars,
                      NEW d \in Dags, NEW c \in owed'[d]
               PROVE  Saved(d, c)'
    BY DEF SavedIsRestorable, Saved
  <2>1. Keyed(history') /\ Keyed(history)
    BY DEF HistoryInv, KeysGivenOut
  <2>2. c \in owed[d] => Saved(d, c)
    BY DEF SavedIsRestorable, Saved
  <2>3. ASSUME NEW e \in Dags, NEW s \in Payload(e), Create(e, s) PROVE Saved(d, c)'
    <3>1. c \in owed[d] /\ Rows(d)' = Rows(d) /\ (OnItsWay(d, c) => OnItsWay(d, c)')
      BY <2>3 DEF Create, Rows, OnItsWay
    <3> QED BY <2>2, <3>1 DEF Saved
  <2>4. ASSUME NEW e \in Dags, Delete(e) PROVE Saved(d, c)'
    <3>1. d # e /\ c \in owed[d]
      BY <2>4 DEF Delete, TypeOK
    <3>2. Rows(d)' = Rows(d) /\ (OnItsWay(d, c) => OnItsWay(d, c)')
      BY <2>4, <3>1 DEF Delete, Rows, RowsIn, OnItsWay
    <3> QED BY <2>2, <3>1, <3>2 DEF Saved
  <2>5. ASSUME NEW r \in Requests, NEW e \in Dags, NEW s \in Payload(e), Update(r, e, s)
        PROVE Saved(d, c)'
    <3>1. CASE c \in owed[d]
      <4>1. Rows(d)' = Rows(d) /\ (OnItsWay(d, c) => OnItsWay(d, c)')
        BY <2>5 DEF Update, Rows, OnItsWay, TypeOK, Idle
      <4> QED BY <2>2, <3>1, <4>1 DEF Saved
    <3>2. CASE c \notin owed[d]
      <4>1. e = d /\ c = s
        BY <2>5, <3>2 DEF Update, TypeOK
      <4> QED BY <2>5, <4>1 DEF Update, Saved, OnItsWay, TypeOK
    <3> QED BY <3>1, <3>2
  <2>6. ASSUME NEW r \in Requests, Reply(r) PROVE Saved(d, c)'
    <3>1. c \in owed[d] /\ Rows(d)' = Rows(d) /\ c \in Document
      BY <2>6 DEF Reply, Rows, table, ghost, TypeOK
    <3>2. OnItsWay(d, c) => OnItsWay(d, c)'
      <4> SUFFICES ASSUME OnItsWay(d, c) PROVE OnItsWay(d, c)'
        OBVIOUS
      <4>1. CASE req[r].dag = d /\ req[r].body = c
        <5>1. c \notin {Unset, Blank}
          BY <3>1, ValuesAssumption DEF Document
        <5>2. PICK j \in Jobs : job' = [job EXCEPT ![j] = [task |-> "append", dag |-> d, snap |-> c]]
          BY <2>6, <4>1, <5>1 DEF Reply, JsonbValue
        <5> QED BY <5>2 DEF OnItsWay, TypeOK
      <4>2. CASE ~ (req[r].dag = d /\ req[r].body = c)
        <5>1. \A q \in Requests : q # r => req'[q] = req[q]
          BY <2>6 DEF Reply, TypeOK
        <5>2. \A j \in Jobs : job[j].task = "append" => job'[j] = job[j]
          BY <2>6 DEF Reply, TypeOK, None
        <5> QED BY <4>2, <5>1, <5>2 DEF OnItsWay
      <4> QED BY <4>1, <4>2
    <3> QED BY <2>2, <3>1, <3>2 DEF Saved
  <2>7. ASSUME NEW r \in Requests, NEW e \in Dags, NEW s \in history, RestoreRead(r, e, s)
        PROVE Saved(d, c)'
    <3>1. c \in owed[d] /\ Rows(d)' = Rows(d) /\ (OnItsWay(d, c) => OnItsWay(d, c)')
      BY <2>7 DEF RestoreRead, Rows, table, ghost, OnItsWay, TypeOK, Idle
    <3> QED BY <2>2, <3>1 DEF Saved
  <2>8. ASSUME NEW r \in Requests, RestoreWrite(r) PROVE Saved(d, c)'
    <3>1. c \in owed[d] /\ Rows(d)' = Rows(d) /\ (OnItsWay(d, c) => OnItsWay(d, c)')
      BY <2>8 DEF RestoreWrite, Rows, ghost, OnItsWay, TypeOK, Idle
    <3> QED BY <2>2, <3>1 DEF Saved
  <2>9. ASSUME NEW j \in Jobs, NEW k \in Keys, Append(j, k) PROVE Saved(d, c)'
    <3>1. c \in owed[d] /\ Rows(d) \subseteq Rows(d)'
      BY <2>9 DEF Append, Rows, RowsIn, ghost
    <3>2. OnItsWay(d, c) => Saved(d, c)'
      <4> SUFFICES ASSUME OnItsWay(d, c) PROVE Saved(d, c)'
        OBVIOUS
      <4>1. CASE job[j].dag = d /\ job[j].snap = c
        <5>1. [dag |-> d, key |-> k, snap |-> c] \in Rows(d)'
          BY <2>9, <4>1 DEF Append, Rows, RowsIn
        <5> QED BY <5>1 DEF Saved
      <4>2. CASE ~ (job[j].dag = d /\ job[j].snap = c)
        BY <2>9, <4>2 DEF Append, Saved, OnItsWay, TypeOK
      <4> QED BY <4>1, <4>2
    <3> QED BY <2>1, <2>2, <3>1, <3>2, StaySaved
  <2>10. ASSUME NEW j \in Jobs, AppendFails(j) PROVE Saved(d, c)'
    <3>1. /\ c \in owed[d] /\ Rows(d)' = Rows(d)
          /\ ~ (job[j].dag = d /\ job[j].snap = c)
      BY <2>10 DEF AppendFails, Rows, table, TypeOK
    <3>2. OnItsWay(d, c) => OnItsWay(d, c)'
      BY <2>10, <3>1 DEF AppendFails, OnItsWay, TypeOK
    <3> QED BY <2>2, <3>1, <3>2 DEF Saved
  <2>11. ASSUME NEW j \in Jobs, PruneSelect(j) \/ PruneFails(j) PROVE Saved(d, c)'
    <3>1. c \in owed[d] /\ Rows(d)' = Rows(d) /\ (OnItsWay(d, c) => OnItsWay(d, c)')
      BY <2>11 DEF PruneSelect, PruneFails, Rows, table, OnItsWay, TypeOK
    <3> QED BY <2>2, <3>1 DEF Saved
  <2>12. ASSUME NEW j \in Jobs, PruneDelete(j) PROVE Saved(d, c)'
    <3> DEFINE V == job[j].victims
    <3>1. /\ c \in owed[d] /\ (OnItsWay(d, c) => OnItsWay(d, c)')
          /\ history' = history \ V
          /\ V \cap history \subseteq Old(history, job[j].dag)
      BY <2>12 DEF PruneDelete, ghost, OnItsWay, TypeOK, HistoryInv, VictimsOld
    <3>2. CASE Rows(d) \subseteq Rows(d)'
      BY <2>1, <2>2, <3>1, <3>2, StaySaved DEF Saved
    <3>3. CASE ~ (Rows(d) \subseteq Rows(d)')
      <4>1. PICK s \in Rows(d) : s \notin Rows(d)'
        BY <3>3
      <4>2. s \in Old(history, job[j].dag)
        BY <3>1, <4>1 DEF Rows, RowsIn
      <4>3. Cardinality(NewerIn(history', s)) >= Limit
        BY <2>1, <3>1, <4>2, OldStaysOld
      <4>4. NewerIn(history', s) \subseteq Rows(d)'
        BY <4>1 DEF NewerIn, Rows, RowsIn
      <4>5. IsFiniteSet(Rows(d)')
        BY <2>1, FS_Subset DEF Keyed, Rows, RowsIn
      <4>6. /\ Cardinality(NewerIn(history', s)) <= Cardinality(Rows(d)')
            /\ Cardinality(NewerIn(history', s)) \in Nat /\ Cardinality(Rows(d)') \in Nat
        BY <4>4, <4>5, FS_Subset, FS_CardinalityType
      <4> QED BY <4>3, <4>6, LimitAssumption DEF Saved
    <3> QED BY <3>2, <3>3
  <2>13. ASSUME Crash PROVE Saved(d, c)'
    <3>1. c \in owed[d] /\ ~ OnItsWay(d, c) /\ Rows(d)' = Rows(d)
      BY <2>13 DEF Crash, Rows, table
    <3> QED BY <2>2, <3>1 DEF Saved
  <2>14. ASSUME UNCHANGED vars PROVE Saved(d, c)'
    <3>1. c \in owed[d] /\ Rows(d)' = Rows(d) /\ (OnItsWay(d, c) => OnItsWay(d, c)')
      BY <2>14 DEF vars, Rows, OnItsWay
    <3> QED BY <2>2, <3>1 DEF Saved
  <2> QED BY <2>3, <2>4, <2>5, <2>6, <2>7, <2>8, <2>9, <2>10, <2>11, <2>12, <2>13, <2>14
          DEF Next, Handler, Pruner
<1>3. QED BY <1>1, <1>2, TypeCorrect, HistoryInvariant, PTL DEF Spec
=============================================================================
