------------------------------ MODULE Migrate ------------------------------
(***************************************************************************)
(* The copy tool cmd/migrate-rb2pg: it reads the tables of the old         *)
(* RethinkDB one after the other and inserts their rows into Postgres      *)
(* under their own ids, one statement a row; a row that is present is      *)
(* skipped.  It may die anywhere and is simply run again.                  *)
(*                                                                         *)
(* The old server may go on writing to the source and the new one may be   *)
(* in use on the target, before, between and during the runs.  A row is    *)
(* its id, the rest of it one value: what matters of it is how its         *)
(* document and its time are converted.                                    *)
(***************************************************************************)
EXTENDS Naturals, Sequences

CONSTANTS
    Rows,       \* primary keys, of all tables
    TableOf,    \* the table of each of them
    ParentOf,   \* the dag_id of the rows of dag_history and shares
    None,       \* no row of this id
    MaxWrites   \* bound: writes to the source, and writes to the target

Specs == <<"dags", "dag_history", "shares", "share_denylist", "users",
           "nodes", "edges", "menus">>

Tables == {Specs[i] : i \in 1 .. Len(Specs)}

WithParent == {"dag_history", "shares"}

WithDocument == {"dags", "dag_history", "nodes", "edges"}

TimeRequired == {"dag_history", "shares", "share_denylist", "users"}

ASSUME TableOfAssumption == TableOf \in [Rows -> Tables]
ASSUME ParentOfAssumption ==
    \A r \in Rows : TableOf[r] \in WithParent =>
        ParentOf[r] \in {p \in Rows : TableOf[p] = "dags"}
ASSUME NoneAssumption == None \notin {"text", "badTime", "blank", "badJSON", "null", "edited"}
ASSUME MaxWritesAssumption == MaxWrites \in Nat

VARIABLES
    src,        \* RethinkDB: the rows by id
    dst,        \* Postgres: the rows by id
    pc,         \* "idle" (not running), "table", "rows" or "done" (exited)
    at,         \* index in Specs of the table that is copied
    listed,     \* tableList
    dagIDs,     \* parentIDs of dag_history and shares
    batch,      \* rows read and not yet inserted, with the values read
    failed,     \* totalFailed > 0: the exit status
    warned,     \* rows a warning is logged for
    blind,      \* history variable: listTables or idSet failed in this run
    touched,    \* history variable: rows written in the source since the run began
    gone,       \* history variable: rows deleted in the target since the run began
    settled,    \* history variable: nothing changed since a run that succeeded
    writes      \* how often source and target were written

toolVars == <<pc, at, listed, dagIDs, batch, failed, warned, blind>>

vars == <<src, dst, toolVars, touched, gone, settled, writes>>
-----------------------------------------------------------------------------
\* "blank": the document is absent, blank, or not a string.
AllValues == {"text", "badTime", "blank", "badJSON"}

Values(t) == IF t \in WithDocument THEN AllValues ELSE {"text", "badTime"}

\* What timeVal, jsonText and jsonValue make of a row, with what they warn of:
\* a time or a document that cannot be read becomes NULL.
Converted(v) == IF v \in {"blank", "badJSON", "badTime"} THEN "null" ELSE v

Warns(v) == v \in {"badJSON", "badTime"}

\* NOT NULL and the foreign key of the target: the statement fails.
Refused(r, v) ==
    \/ v = "badTime" /\ TableOf[r] \in TimeRequired
    \/ TableOf[r] \in WithParent /\ dst[ParentOf[r]] = None

Orphan(r) == TableOf[r] \in WithParent /\ ParentOf[r] \notin dagIDs

Present == {r \in Rows : dst[r] # None}

SourceDags == {r \in Rows : TableOf[r] = "dags" /\ src[r] # None}

SourceRows(t) == {[id |-> r, value |-> src[r]] : r \in {q \in Rows : TableOf[q] = t /\ src[q] # None}}

Init ==
    /\ src \in {s \in [Rows -> AllValues \cup {None}] :
                    \A r \in Rows : s[r] \in Values(TableOf[r]) \cup {None}}
    /\ dst = [r \in Rows |-> None]
    /\ pc = "idle" /\ at = 1 /\ listed = {} /\ dagIDs = {} /\ batch = {}
    /\ failed = FALSE /\ warned = {} /\ blind = FALSE
    /\ touched = {} /\ gone = {} /\ settled = FALSE /\ writes = 0
-----------------------------------------------------------------------------
(***************************************************************************)
(* The two servers.                                                        *)
(***************************************************************************)

\* The old server creates, changes or deletes a row.  RethinkDB has no foreign
\* keys: rows may outlive their parent.
SourceWrite(r, v) ==
    /\ writes < MaxWrites
    /\ src' = [src EXCEPT ![r] = v]
    /\ writes' = writes + 1
    /\ touched' = touched \cup {r}
    /\ settled' = FALSE
    /\ UNCHANGED <<dst, toolVars, gone>>

\* The new server changes a row it was given.
TargetUpdate(r) ==
    /\ dst[r] # None
    /\ writes < MaxWrites
    /\ dst' = [dst EXCEPT ![r] = "edited"]
    /\ writes' = writes + 1
    /\ UNCHANGED <<src, toolVars, touched, gone, settled>>

\* The new server deletes a row, and ON DELETE CASCADE those of which it is the
\* parent.
TargetDelete(r) ==
    LET deleted == {r} \cup {q \in Rows : TableOf[q] \in WithParent /\ ParentOf[q] = r}
    IN  /\ dst[r] # None
        /\ writes < MaxWrites
        /\ dst' = [q \in Rows |-> IF q \in deleted THEN None ELSE dst[q]]
        /\ writes' = writes + 1
        /\ gone' = gone \cup deleted
        /\ settled' = FALSE
        /\ UNCHANGED <<src, toolVars, touched>>
-----------------------------------------------------------------------------
(***************************************************************************)
(* A run of the tool.                                                      *)
(***************************************************************************)

\* listTables and idSet answer nothing when they cannot read, and main goes on.
Begin(list, ids) ==
    /\ pc \in {"idle", "done"}
    /\ pc' = "table" /\ at' = 1
    /\ listed' = list /\ dagIDs' = ids
    /\ blind' = (list # Tables \/ ids # SourceDags)
    /\ batch' = {} /\ failed' = FALSE /\ warned' = {}
    /\ touched' = {} /\ gone' = {}
    /\ UNCHANGED <<src, dst, settled, writes>>

\* A table that is not listed.
SkipTable ==
    /\ pc = "table" /\ at <= Len(Specs)
    /\ Specs[at] \notin listed
    /\ at' = at + 1
    /\ UNCHANGED <<src, dst, pc, listed, dagIDs, batch, failed, warned, blind,
                   touched, gone, settled, writes>>

\* copyTable reads the table as a whole before it inserts the first row.
ReadTable ==
    /\ pc = "table" /\ at <= Len(Specs)
    /\ Specs[at] \in listed
    /\ pc' = "rows"
    /\ batch' = SourceRows(Specs[at])
    /\ UNCHANGED <<src, dst, at, listed, dagIDs, failed, warned, blind,
                   touched, gone, settled, writes>>

\* Mutant: a table that cannot be read is not counted as failed.
ReadFailsUncounted ==
    /\ pc = "table" /\ at <= Len(Specs)
    /\ Specs[at] \in listed
    /\ at' = at + 1
    /\ UNCHANGED <<src, dst, pc, listed, dagIDs, batch, failed, warned, blind,
                   touched, gone, settled, writes>>

ReadFails ==
    /\ pc = "table" /\ at <= Len(Specs)
    /\ Specs[at] \in listed
    /\ at' = at + 1
    /\ failed' = TRUE
    /\ UNCHANGED <<src, dst, pc, listed, dagIDs, batch, warned, blind,
                   touched, gone, settled, writes>>

SkipOrphan(x) ==
    /\ pc = "rows" /\ x \in batch
    /\ Orphan(x.id)
    /\ batch' = batch \ {x}
    /\ UNCHANGED <<src, dst, pc, at, listed, dagIDs, failed, warned, blind,
                   touched, gone, settled, writes>>

\* Mutant: ON CONFLICT DO UPDATE.
UpsertRow(x) ==
    /\ pc = "rows" /\ x \in batch
    /\ ~Orphan(x.id) /\ ~Refused(x.id, x.value)
    /\ dst' = [dst EXCEPT ![x.id] = Converted(x.value)]
    /\ batch' = batch \ {x}
    /\ warned' = IF Warns(x.value) THEN warned \cup {x.id} ELSE warned
    /\ UNCHANGED <<src, pc, at, listed, dagIDs, failed, blind, touched, gone, settled, writes>>

\* Mutant: the warnings of a row are lost.
InsertQuietly(x) ==
    /\ pc = "rows" /\ x \in batch
    /\ ~Orphan(x.id) /\ ~Refused(x.id, x.value)
    /\ dst' = IF dst[x.id] = None THEN [dst EXCEPT ![x.id] = Converted(x.value)] ELSE dst
    /\ batch' = batch \ {x}
    /\ UNCHANGED <<src, pc, at, listed, dagIDs, failed, warned, blind,
                   touched, gone, settled, writes>>

\* INSERT ... ON CONFLICT DO NOTHING, and the warnings of the row.
InsertRow(x) ==
    /\ pc = "rows" /\ x \in batch
    /\ ~Orphan(x.id) /\ ~Refused(x.id, x.value)
    /\ dst' = IF dst[x.id] = None THEN [dst EXCEPT ![x.id] = Converted(x.value)] ELSE dst
    /\ batch' = batch \ {x}
    /\ warned' = IF Warns(x.value) THEN warned \cup {x.id} ELSE warned
    /\ UNCHANGED <<src, pc, at, listed, dagIDs, failed, blind, touched, gone, settled, writes>>

\* Mutant: a row that is refused is not counted as failed.
InsertFailsUncounted(x) ==
    /\ pc = "rows" /\ x \in batch
    /\ ~Orphan(x.id)
    /\ batch' = batch \ {x}
    /\ UNCHANGED <<src, dst, pc, at, listed, dagIDs, failed, warned, blind,
                   touched, gone, settled, writes>>

\* The statement is refused, or the target does not answer; the next row is
\* tried all the same.
InsertFails(x) ==
    /\ pc = "rows" /\ x \in batch
    /\ ~Orphan(x.id)
    /\ batch' = batch \ {x}
    /\ failed' = TRUE
    /\ UNCHANGED <<src, dst, pc, at, listed, dagIDs, warned, blind,
                   touched, gone, settled, writes>>

TableDone ==
    /\ pc = "rows" /\ batch = {}
    /\ pc' = "table" /\ at' = at + 1
    /\ UNCHANGED <<src, dst, listed, dagIDs, batch, failed, warned, blind,
                   touched, gone, settled, writes>>

\* main returns, or exits with status 1.
Exit ==
    /\ pc = "table" /\ at > Len(Specs)
    /\ pc' = "done"
    /\ settled' = (settled \/ (~failed /\ ~blind /\ touched = {} /\ gone = {}))
    /\ UNCHANGED <<src, dst, at, listed, dagIDs, batch, failed, warned, blind,
                   touched, gone, writes>>

Crash ==
    /\ pc \in {"table", "rows"}
    /\ pc' = "idle" /\ batch' = {}
    /\ UNCHANGED <<src, dst, at, listed, dagIDs, failed, warned, blind,
                   touched, gone, settled, writes>>

Tool ==
    \/ \E list \in {Tables, {}}, ids \in {SourceDags, {}} : Begin(list, ids)
    \/ SkipTable \/ ReadTable \/ ReadFails \/ TableDone \/ Exit \/ Crash
    \/ \E x \in batch : SkipOrphan(x) \/ InsertRow(x) \/ InsertFails(x)

Next ==
    \/ Tool
    \/ \E r \in Rows :
        \/ \E v \in Values(TableOf[r]) \cup {None} : SourceWrite(r, v)
        \/ TargetUpdate(r)
        \/ TargetDelete(r)

Spec == Init /\ [][Next]_vars
-----------------------------------------------------------------------------
TypeOK ==
    /\ src \in [Rows -> AllValues \cup {None}]
    /\ \A r \in Rows : src[r] \in Values(TableOf[r]) \cup {None}
    /\ dst \in [Rows -> {"text", "null", "edited", None}]
    /\ pc \in {"idle", "table", "rows", "done"}
    /\ at \in 1 .. Len(Specs) + 1
    /\ listed \in {Tables, {}}
    /\ dagIDs \subseteq Rows /\ warned \subseteq Rows
    /\ \A x \in batch : /\ x.id \in Rows /\ x.value \in Values(TableOf[x.id])
                        /\ x = [id |-> x.id, value |-> x.value]
    /\ failed \in BOOLEAN /\ blind \in BOOLEAN /\ settled \in BOOLEAN
    /\ touched \subseteq Rows /\ gone \subseteq Rows
    /\ writes \in 0 .. MaxWrites

\* The rows a run has to bring to the target: those that are no orphans and
\* were neither written in the source nor deleted in the target while it ran.
Wanted(r) ==
    /\ src[r] # None /\ r \notin touched \cup gone
    /\ TableOf[r] \in WithParent => src[ParentOf[r]] # None /\ ParentOf[r] \notin touched

\* "Only a non-zero failed count means the run did not succeed": after a run
\* that exits with status 0 every row it had to bring is in the target -- but
\* for a run that could not list the tables or read the ids of the diagrams,
\* which takes every table as missing or every child as an orphan and exits
\* with status 0 as well.
SuccessIsComplete ==
    pc = "done" /\ ~failed /\ ~blind => \A r \in Rows : Wanted(r) => dst[r] # None

\* A document or a time that cannot be read becomes NULL, and a later run does
\* not mend it: a run that exits with status 0 has warned of each of them, in
\* the rows that were present as well.  A document that the source holds as an
\* object is not among them: jsonText makes NULL of it without a word.
LossIsWarned ==
    pc = "done" /\ ~failed /\ ~blind =>
        \A r \in Rows : Wanted(r) /\ Warns(src[r]) => r \in warned

\* "rows that already exist in Postgres are skipped, so it is safe to re-run":
\* no step of the tool changes a row of the target, whatever the source has.
NeverOverwrites ==
    [][~UNCHANGED toolVars => \A r \in Rows : dst[r] # None => dst'[r] = dst[r]]_vars

\* "re-run the same command; expect 0 inserted": once a run has succeeded and
\* neither side is written to, no later run -- one that fails, dies or is
\* blind included -- adds a row.
RerunAddsNothing == [][settled /\ settled' => Present' = Present]_vars
=============================================================================
