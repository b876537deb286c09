-------------------------------- MODULE Rows --------------------------------
(***************************************************************************)
(* The rows of dags, nodes, edges and menus, one by one: the POST handlers *)
(* of app/controllers and the Process functions of app/services, which     *)
(* look for an equal row and insert one if there is none, in two           *)
(* statements; the handlers that save and delete; and the public view of a *)
(* diagram, setPublic and getDAGPublic, with the revision of the row that  *)
(* is sent as ETag so that caches can tell two contents apart.             *)
(*                                                                         *)
(* What caches keep is outside the repository: every response that was     *)
(* ever sent.                                                              *)
(***************************************************************************)
EXTENDS Naturals

CONSTANTS
    Ids,        \* primary keys, of all tables; a client may choose them
    TableOf,    \* the table of each of them
    Names,      \* the name of a diagram or menu, the v of a node or edge
    Docs,       \* all the other fields that a client sends
    Null,       \* ... of which the jsonb column is NULL
    Absent,     \* no row of this id
    Requests,   \* POST handlers that run at once
    Idle,       \* ... one that has not looked
    MaxRev,     \* bound: saves of one diagram
    MaxLives    \* bound: how often a row of one id is created

Tables == {"dags", "nodes", "edges", "menus"}

ASSUME TableOfAssumption == TableOf \in [Ids -> Tables]
ASSUME NullAssumption == Null \notin Docs
ASSUME MaxRevAssumption == MaxRev \in Nat
ASSUME MaxLivesAssumption == MaxLives \in Nat

VARIABLES
    row,        \* the four tables, by id
    req,        \* the POST handlers that have looked and found no row
    lives,      \* history variable: how often each id was created
    served      \* the responses of getDAGPublic

vars == <<row, req, lives, served>>
-----------------------------------------------------------------------------
\* The options of a menu are text and NOT NULL.
Content(t) == [name : Names, doc : IF t = "menus" THEN Docs ELSE Docs \cup {Null}]

AnyContent == UNION {Content(t) : t \in Tables}

Row == [content : AnyContent, rev : 0 .. MaxRev, public : BOOLEAN]

Response == [dag : Ids, content : AnyContent, etag : 0 .. MaxRev, life : 1 .. MaxLives]

\* What a handler is about to insert; blind: its look-up failed; since
\* (history): the rows that became equal to it after it looked.
Pending == [id : Ids, content : AnyContent, blind : BOOLEAN, since : SUBSET Ids]

ASSUME IdleAssumption == Idle \notin Pending

\* Mutant: the look-ups compare the jsonb columns with "=".
AlikeUnlessNull(i, j, x, y) ==
    /\ TableOf[i] = TableOf[j]
    /\ x.doc = y.doc /\ x.doc # Null
    /\ TableOf[i] # "menus" => x.name = y.name

\* What the FindRelated queries take for the same, row i with x and row j with
\* y: all that was sent, NULL included, but for the name of a menu.
Alike(i, j, x, y) ==
    /\ TableOf[i] = TableOf[j]
    /\ x.doc = y.doc
    /\ TableOf[i] # "menus" => x.name = y.name

Twins(i, c) == {j \in Ids : row[j] # Absent /\ Alike(i, j, c, row[j].content)}

\* Row i gets content c: the handlers that have looked did not see it.
Missed(i, c) ==
    [r \in Requests |->
        IF req[r] # Idle /\ ~req[r].blind /\ Alike(req[r].id, i, req[r].content, c)
        THEN [id |-> req[r].id, content |-> req[r].content, blind |-> FALSE,
              since |-> req[r].since \cup {i}]
        ELSE req[r]]

Init ==
    /\ row = [i \in Ids |-> Absent]
    /\ req = [r \in Requests |-> Idle]
    /\ lives = [i \in Ids |-> 0]
    /\ served = {}
-----------------------------------------------------------------------------
\* Process...: an equal row ends the request (createDAG answers its id), no
\* such row or an error of the query goes on to the INSERT.
Look(r, i, c, failed) ==
    /\ req[r] = Idle
    /\ failed \/ Twins(i, c) = {}
    /\ req' = [req EXCEPT ![r] = [id |-> i, content |-> c, blind |-> failed, since |-> {}]]
    /\ UNCHANGED <<row, lives, served>>

\* The INSERT; embed_revision DEFAULT 0, public DEFAULT FALSE.
Insert(r) ==
    LET i == req[r].id
        c == req[r].content
    IN  /\ req[r] # Idle
        /\ row[i] = Absent
        /\ lives[i] < MaxLives
        /\ row' = [row EXCEPT ![i] = [content |-> c, rev |-> 0, public |-> FALSE]]
        /\ req' = [Missed(i, c) EXCEPT ![r] = Idle]
        /\ lives' = [lives EXCEPT ![i] = @ + 1]
        /\ UNCHANGED served

\* The id is in use, or the statement fails otherwise: status 500.
InsertFails(r) ==
    /\ req[r] # Idle
    /\ req' = [req EXCEPT ![r] = Idle]
    /\ UNCHANGED <<row, lives, served>>

\* Mutant: the save leaves the revision alone.
UpdateOnly(i, c) ==
    /\ row[i] # Absent /\ TableOf[i] = "dags"
    /\ row' = [row EXCEPT ![i].content = c]
    /\ req' = Missed(i, c)
    /\ UNCHANGED <<lives, served>>

\* UpdateDAG: whatever fields the request sets, and if it sets none, the
\* revision goes up.  No save makes the diagram NULL.
Update(i, c) ==
    /\ row[i] # Absent /\ TableOf[i] = "dags"
    /\ c.doc = Null => row[i].content.doc = Null
    /\ row[i].rev < MaxRev
    /\ row' = [row EXCEPT ![i] = [content |-> c, rev |-> row[i].rev + 1, public |-> row[i].public]]
    /\ req' = Missed(i, c)
    /\ UNCHANGED <<lives, served>>

UpdateMenu(i, c) ==
    /\ row[i] # Absent /\ TableOf[i] = "menus"
    /\ row' = [row EXCEPT ![i] = [content |-> c, rev |-> row[i].rev, public |-> row[i].public]]
    /\ req' = Missed(i, c)
    /\ UNCHANGED <<lives, served>>

SetPublic(i, b) ==
    /\ row[i] # Absent /\ TableOf[i] = "dags"
    /\ row' = [row EXCEPT ![i] = [content |-> row[i].content, rev |-> row[i].rev, public |-> b]]
    /\ UNCHANGED <<req, lives, served>>

\* No route deletes nodes or edges.
Delete(i) ==
    /\ row[i] # Absent /\ TableOf[i] \in {"dags", "menus"}
    /\ row' = [row EXCEPT ![i] = Absent]
    /\ UNCHANGED <<req, lives, served>>

GetPublic(i) ==
    /\ row[i] # Absent /\ TableOf[i] = "dags"
    /\ row[i].public
    /\ served' = served \cup {[dag |-> i, content |-> row[i].content,
                               etag |-> row[i].rev, life |-> lives[i]]}
    /\ UNCHANGED <<row, req, lives>>

Next ==
    \/ \E r \in Requests :
        \/ \E i \in Ids, failed \in BOOLEAN :
              \E c \in Content(TableOf[i]) : Look(r, i, c, failed)
        \/ Insert(r)
        \/ InsertFails(r)
    \/ \E i \in Ids :
        \/ \E c \in Content(TableOf[i]) : Update(i, c) \/ UpdateMenu(i, c)
        \/ \E b \in BOOLEAN : SetPublic(i, b)
        \/ Delete(i)
        \/ GetPublic(i)

Spec == Init /\ [][Next]_vars
-----------------------------------------------------------------------------
TypeOK ==
    /\ row \in [Ids -> Row \cup {Absent}]
    /\ req \in [Requests -> Pending \cup {Idle}]
    /\ lives \in [Ids -> 0 .. MaxLives]
    /\ served \subseteq Response

\* "so caches can reliably detect stale renders": two responses about one
\* diagram with the same ETag have the same content, as long as the diagram
\* was not deleted and created again under its id.
SameTagSameContent ==
    \A x, y \in served :
        x.dag = y.dag /\ x.life = y.life /\ x.etag = y.etag => x.content = y.content

\* The rows of the table that hold all that the client sends.
Copies(i, c) == {j \in Ids : row[j] # Absent /\ TableOf[j] = TableOf[i] /\ row[j].content = c}

\* A POST that inserts a row although its table has an equal one has looked
\* before that one was written, or its look-up failed: of two equal requests,
\* one after the other, the second inserts nothing.
NoNeedlessCopy ==
    [][\A i \in Ids : row[i] = Absent /\ row'[i] # Absent =>
          \E r \in Requests :
              /\ req[r] # Idle /\ req[r].id = i
              /\ req[r].blind \/ Copies(i, req[r].content) \subseteq req[r].since]_vars
=============================================================================
