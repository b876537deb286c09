----------------------------- MODULE DagHistory -----------------------------
(***************************************************************************)
(* The diagram rows of table dags and their snapshots in table             *)
(* dag_history: what updateDAG, restoreDAGHistory, createDAG and deleteDAG *)
(* (app/controllers/dag.go) do to them through app/db/postgres, together   *)
(* with the two background goroutines a save leaves behind, AppendHistory  *)
(* and pruneHistory.                                                       *)
(*                                                                         *)
(* Every SQL statement is one step; handlers and goroutines interleave     *)
(* between statements.  The DELETE of pruneHistory is two steps, because   *)
(* under READ COMMITTED it removes the rows its own snapshot of the table  *)
(* selected, whatever was inserted meanwhile.                              *)
(***************************************************************************)
EXTENDS Naturals, FiniteSets

CONSTANTS
    Dags,       \* diagram ids
    Versions,   \* documents a client may send for one diagram
    Unset,      \* the "diagram" field of a request is missing or ""
    Blank,      \* it holds only white space
    Null,       \* SQL NULL
    Absent,     \* no such row
    Requests,   \* handlers that run at once
    Jobs,       \* goroutines that run at once
    Keys,       \* positions in the order ORDER BY saved_at, id
    Limit       \* historyLimit

ASSUME LimitAssumption == Limit \in Nat \ {0}
ASSUME KeysAssumption == Keys \subseteq Nat
ASSUME ValuesAssumption ==
    /\ {Unset, Blank, Null, Absent} \cap [of : Dags, version : Versions] = {}
    /\ Unset # Blank /\ Null # Absent

VARIABLES
    diagram,    \* column diagram of each row of dags
    history,    \* table dag_history
    req,        \* what each handler has done and still holds
    job,        \* what each background goroutine is about to do
    owed,       \* history variable: documents saved whose snapshot is due
    skipped,    \* history variable: a prune since the last one was lost
    used        \* keys ever given out: an id is a fresh UUID

table == <<diagram, history, used>>
ghost == <<owed, skipped>>
vars == <<diagram, history, req, job, owed, skipped, used>>
-----------------------------------------------------------------------------
\* A diagram's content, tagged with the diagram it was written for: no two
\* diagrams are ever sent the same one.
Document == [of : Dags, version : Versions]

\* The "diagram" field of a request about d.
Payload(d) == [of : {d}, version : Versions] \cup {Unset, Blank}

Column == Document \cup {Null}

Snapshot == [dag : Dags, key : Keys, snap : Column]

Request ==
         [op : {"idle"}]
    \cup [op : {"saved"}, dag : Dags, body : Document \cup {Unset, Blank}]
    \cup [op : {"restoring"}, dag : Dags, snap : Document]

Job ==
         [task : {"none"}]
    \cup [task : {"append"}, dag : Dags, snap : Column]
    \cup [task : {"prune"}, dag : Dags]
    \cup [task : {"delete"}, dag : Dags, victims : SUBSET Snapshot]

Idle == [op |-> "idle"]
None == [task |-> "none"]

\* Mutant: the trimmed comparison of jsonbValue is gone.
JsonbValueUntrimmed(s) == IF s = Unset THEN Null ELSE s

\* Blank payloads are stored as NULL, and a partial update skips them.
JsonbValue(s) == IF s \in {Unset, Blank} THEN Null ELSE s

\* What UPDATE dags SET diagram leaves in the row of d: an absent row is not
\* touched, and the statement reports no error for it.
Merged(d, s) ==
    IF diagram[d] = Absent \/ JsonbValue(s) = Null THEN diagram[d] ELSE s

RowsIn(h, d) == {s \in h : s.dag = d}

\* Mutant: the subquery of pruneHistory lost its WHERE dag_id.
NewerInAnyDag(h, s) == {t \in h : t.key > s.key}

\* The snapshots of the same diagram that sort after s.
NewerIn(h, s) == {t \in h : t.dag = s.dag /\ t.key > s.key}

\* Mutants: one snapshot too many, or one too few, is kept.
NewestInOneMore(h, d) == {s \in RowsIn(h, d) : Cardinality(NewerIn(h, s)) <= Limit}
NewestInOneLess(h, d) == {s \in RowsIn(h, d) : Cardinality(NewerIn(h, s)) + 1 < Limit}

\* SELECT ... WHERE dag_id = d ORDER BY saved_at DESC, id DESC LIMIT historyLimit,
\* which GetHistory returns and pruneHistory keeps.
NewestIn(h, d) == {s \in RowsIn(h, d) : Cardinality(NewerIn(h, s)) < Limit}

Rows(d) == RowsIn(history, d)
Newest(d) == NewestIn(history, d)

\* Document c of d is held by a handler or goroutine that is to snapshot it.
OnItsWay(d, c) ==
    \/ \E r \in Requests : req[r].op = "saved" /\ req[r].dag = d /\ req[r].body = c
    \/ \E j \in Jobs : job[j].task = "append" /\ job[j].dag = d /\ job[j].snap = c
-----------------------------------------------------------------------------
Init ==
    /\ diagram = [d \in Dags |-> Absent]
    /\ history = {}
    /\ req = [r \in Requests |-> Idle]
    /\ job = [j \in Jobs |-> None]
    /\ owed = [d \in Dags |-> {}]
    /\ skipped = [d \in Dags |-> FALSE]
    /\ used = {}

\* createDAG: FindRelatedDAG matched no row (or failed), and the id is the
\* client's or a fresh one.  INSERT fails on an id in use.  The document is
\* not put in the history.
Create(d, s) ==
    /\ diagram[d] = Absent
    /\ diagram' = [diagram EXCEPT ![d] = JsonbValue(s)]
    /\ UNCHANGED <<history, used, req, job, owed, skipped>>

\* updateDAG up to the return of UpdateDAG.  The error is nil whether or not
\* the statement hit a row, so the handler goes on in both cases.
Update(r, d, s) ==
    /\ req[r] = Idle
    /\ diagram' = [diagram EXCEPT ![d] = Merged(d, s)]
    /\ req' = [req EXCEPT ![r] = [op |-> "saved", dag |-> d, body |-> s]]
    /\ owed' = [owed EXCEPT ![d] =
                    IF diagram[d] = Absent THEN @ ELSE @ \cup ({s} \cap Document)]
    /\ UNCHANGED <<history, used, job, skipped>>

\* The rest of updateDAG: AppendHistory starts in a goroutine of its own
\* unless the request had no diagram, and the handler answers 200.
Reply(r) ==
    /\ req[r].op = "saved"
    /\ IF req[r].body = Unset
       THEN UNCHANGED job
       ELSE \E j \in Jobs :
              /\ job[j] = None
              /\ job' = [job EXCEPT ![j] = [task |-> "append", dag |-> req[r].dag,
                                            snap |-> JsonbValue(req[r].body)]]
    /\ req' = [req EXCEPT ![r] = Idle]
    /\ UNCHANGED <<table, ghost>>

\* Mutant: the snapshot is written and no prune is started.
AppendOnly(j, k) ==
    /\ job[j].task = "append"
    /\ diagram[job[j].dag] # Absent
    /\ k \notin used
    /\ used' = used \cup {k}
    /\ history' = history \cup {[dag |-> job[j].dag, key |-> k, snap |-> job[j].snap]}
    /\ job' = [job EXCEPT ![j] = None]
    /\ UNCHANGED <<diagram, req, ghost>>

\* AppendHistory inserts, then starts pruneHistory.  saved_at was read in the
\* goroutine, on this instance's clock, before the INSERT ran: it may sort
\* anywhere among the other snapshots.
Append(j, k) ==
    /\ job[j].task = "append"
    /\ diagram[job[j].dag] # Absent
    /\ k \notin used
    /\ used' = used \cup {k}
    /\ history' = history \cup {[dag |-> job[j].dag, key |-> k, snap |-> job[j].snap]}
    /\ job' = [job EXCEPT ![j] = [task |-> "prune", dag |-> job[j].dag]]
    /\ UNCHANGED <<diagram, req, ghost>>

\* The INSERT fails: the row is gone (foreign key), or the database is not
\* reachable.  Nobody reads the error.
AppendFails(j) ==
    /\ job[j].task = "append"
    /\ job' = [job EXCEPT ![j] = None]
    /\ owed' = [owed EXCEPT ![job[j].dag] = @ \ {job[j].snap}]
    /\ UNCHANGED <<table, req, skipped>>

PruneSelect(j) ==
    /\ job[j].task = "prune"
    /\ LET d == job[j].dag
       IN  /\ job' = [job EXCEPT ![j] = [task |-> "delete", dag |-> d,
                                         victims |-> Rows(d) \ Newest(d)]]
           /\ skipped' = [skipped EXCEPT ![d] = FALSE]
    /\ UNCHANGED <<table, req, owed>>

PruneDelete(j) ==
    /\ job[j].task = "delete"
    /\ history' = history \ job[j].victims
    /\ job' = [job EXCEPT ![j] = None]
    /\ UNCHANGED <<diagram, used, req, ghost>>

\* Pruning is best-effort: an error is logged and forgotten.
PruneFails(j) ==
    /\ job[j].task = "prune"
    /\ job' = [job EXCEPT ![j] = None]
    /\ skipped' = [skipped EXCEPT ![job[j].dag] = TRUE]
    /\ UNCHANGED <<table, req, owed>>

\* RestoreHistory reads the snapshot by its id alone; a NULL one does not scan
\* into a string and ends the request with an error.
RestoreRead(r, d, s) ==
    /\ req[r] = Idle
    /\ s \in history
    /\ s.snap # Null
    /\ req' = [req EXCEPT ![r] = [op |-> "restoring", dag |-> d, snap |-> s.snap]]
    /\ UNCHANGED <<table, job, ghost>>

\* ... and saves it with UpdateDAG.  A restore is not put in the history.
RestoreWrite(r) ==
    /\ req[r].op = "restoring"
    /\ diagram' = [diagram EXCEPT ![req[r].dag] = Merged(req[r].dag, req[r].snap)]
    /\ req' = [req EXCEPT ![r] = Idle]
    /\ UNCHANGED <<history, used, job, ghost>>

\* Mutant: dag_history has no ON DELETE CASCADE.
DeleteRowOnly(d) ==
    /\ diagram[d] # Absent
    /\ diagram' = [diagram EXCEPT ![d] = Absent]
    /\ owed' = [owed EXCEPT ![d] = {}]
    /\ skipped' = [skipped EXCEPT ![d] = FALSE]
    /\ UNCHANGED <<history, used, req, job>>

\* deleteDAG; the foreign key of dag_history cascades.
Delete(d) ==
    /\ diagram[d] # Absent
    /\ diagram' = [diagram EXCEPT ![d] = Absent]
    /\ history' = history \ Rows(d)
    /\ owed' = [owed EXCEPT ![d] = {}]
    /\ skipped' = [skipped EXCEPT ![d] = FALSE]
    /\ UNCHANGED <<used, req, job>>

\* The process stops: handlers and goroutines are gone, the tables stay.
Crash ==
    /\ \/ \E r \in Requests : req[r] # Idle
       \/ \E j \in Jobs : job[j] # None
    /\ req' = [r \in Requests |-> Idle]
    /\ job' = [j \in Jobs |-> None]
    /\ owed' = [d \in Dags |-> {c \in owed[d] : ~ OnItsWay(d, c)}]
    /\ skipped' = [d \in Dags |-> \/ skipped[d]
                                  \/ \E j \in Jobs : /\ job[j].task \in {"prune", "delete"}
                                                     /\ job[j].dag = d]
    /\ UNCHANGED table

Handler(r) ==
    \/ \E d \in Dags : \E s \in Payload(d) : Update(r, d, s)
    \/ Reply(r)
    \/ \E d \in Dags, s \in history : RestoreRead(r, d, s)
    \/ RestoreWrite(r)

Pruner(j) == PruneSelect(j) \/ PruneDelete(j) \/ PruneFails(j)

Next ==
    \/ \E d \in Dags : \E s \in Payload(d) : Create(d, s)
    \/ \E d \in Dags : Delete(d)
    \/ \E r \in Requests : Handler(r)
    \/ \E j \in Jobs : (\E k \in Keys : Append(j, k)) \/ AppendFails(j) \/ Pruner(j)
    \/ Crash

Spec == Init /\ [][Next]_vars

\* A started goroutine keeps running and its statements return.
FairSpec == Spec /\ \A j \in Jobs : WF_vars(Pruner(j))
-----------------------------------------------------------------------------
TypeOK ==
    /\ diagram \in [Dags -> Column \cup {Absent}]
    /\ history \subseteq Snapshot
    /\ req \in [Requests -> Request]
    /\ job \in [Jobs -> Job]
    /\ owed \in [Dags -> SUBSET Document]
    /\ skipped \in [Dags -> BOOLEAN]
    /\ used \subseteq Keys

\* "Latest 50 snapshots per diagram (pruned on write)": once no goroutine is
\* at work on d, and the last prune was not lost, at most Limit rows are left,
\* however the inserts and the prunes of concurrent saves interleaved.
Pruning(d) == {j \in Jobs : job[j].task \in {"prune", "delete"} /\ job[j].dag = d}
HistoryBounded ==
    \A d \in Dags : Pruning(d) = {} /\ ~skipped[d] => Cardinality(Rows(d)) <= Limit

\* A snapshot that GetHistory lists disappears only with its diagram: a step
\* that leaves the diagram in place removes a snapshot only when Limit newer
\* ones of the same diagram stay.
PruneKeepsNewest ==
    [][\A s \in history \ history' :
          \/ diagram'[s.dag] = Absent
          \/ Cardinality(NewerIn(history', s)) >= Limit]_vars

\* Every document a save put in the row of d is on its way to the history, or
\* can be restored from it, unless the history is full (and has, by
\* PruneKeepsNewest, only lost it to newer ones) or the append of that document
\* was lost to a crash or an error.
SavedIsRestorable ==
    \A d \in Dags : \A c \in owed[d] :
        \/ OnItsWay(d, c)
        \/ \E s \in Rows(d) : s.snap = c
        \/ Cardinality(Rows(d)) >= Limit

\* Snapshots never outlive their diagram, nor attach to one that is gone.
HistoryOwned == \A s \in history : diagram[s.dag] # Absent

\* A diagram with too many snapshots is brought back to Limit, or one of its
\* prunes is lost.
OverflowIsPruned ==
    \A d \in Dags : (Cardinality(Rows(d)) > Limit)
                        ~> (Cardinality(Rows(d)) <= Limit \/ skipped[d])

\* Of the code's tests: "snapshots for one DAG must not leak into another".
\* A diagram only ever shows a document that was written for it.
OwnDocuments ==
    \A d \in Dags : diagram[d] \in Document => diagram[d].of = d
=============================================================================
