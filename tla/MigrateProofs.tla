--------------------------- MODULE MigrateProofs ---------------------------
(***************************************************************************)
(* Proofs about Migrate, for any rows, any number of runs and of writes on *)
(* either side.                                                            *)
(***************************************************************************)
EXTENDS Migrate, TLAPS

USE TableOfAssumption, ParentOfAssumption, NoneAssumption, MaxWritesAssumption

\* The tables the run is past.
Passed(r) == \E i \in 1 .. Len(Specs) : i < at /\ Specs[i] = TableOf[r]

LEMMA SpecsLength == Len(Specs) = 8
BY DEF Specs

\* The tool is past the last table when it exits, and not before.
AtEnd == pc = "done" => at > Len(Specs)

RowsInside == pc = "rows" => at <= Len(Specs)

\* What the run read is true of the source, for the rows that were not written
\* since.
ReadsHold ==
    /\ \A x \in batch : x.id \notin touched => src[x.id] = x.value
    /\ \A p \in dagIDs : p \notin touched => src[p] # None

\* A run that is not blind knows every table, and every diagram that was there
\* when it began.
SeesAll ==
    pc # "idle" /\ ~blind =>
        /\ listed = Tables
        /\ \A p \in Rows : TableOf[p] = "dags" /\ p \notin touched /\ src[p] # None => p \in dagIDs

Brought(r) == dst[r] # None /\ (Warns(src[r]) => r \in warned)

\* What a run without failure has brought: the tables it is past, and of the
\* present one what is no longer in the batch.
Progress ==
    pc # "idle" /\ ~failed /\ ~blind =>
        \A r \in Rows : Wanted(r) =>
            /\ Passed(r) => Brought(r)
            /\ pc = "rows" /\ TableOf[r] = Specs[at] => Brought(r) \/ \E x \in batch : x.id = r

\* Once a run succeeded and nothing was written, nothing is left to bring.
Settled ==
    settled => /\ touched = {} /\ gone = {}
               /\ \A r \in Rows : Wanted(r) => dst[r] # None

MigrateInv == TypeOK /\ AtEnd /\ RowsInside /\ ReadsHold /\ SeesAll /\ Progress /\ Settled

\* The writers of either side.
Writers ==
    \E r \in Rows :
        \/ \E v \in Values(TableOf[r]) \cup {None} : SourceWrite(r, v)
        \/ TargetUpdate(r)
        \/ TargetDelete(r)

LEMMA WritersPreserve == ASSUME MigrateInv, Writers PROVE MigrateInv'
<1> USE DEF MigrateInv
<1>1. ASSUME NEW r \in Rows, NEW v \in Values(TableOf[r]) \cup {None}, SourceWrite(r, v)
      PROVE  MigrateInv'
  <2>1. TypeOK'
    <3>1. v \in Values(TableOf[r]) \cup {None} /\ Values(TableOf[r]) \subseteq AllValues
      BY DEF Values, AllValues
    <3>2. /\ src' \in [Rows -> AllValues \cup {None}]
          /\ \A q \in Rows : src'[q] \in Values(TableOf[q]) \cup {None}
      BY <1>1, <3>1 DEF SourceWrite, TypeOK
    <3>3. writes' \in 0 .. MaxWrites
      BY <1>1 DEF SourceWrite, TypeOK
    <3> QED BY <1>1, <3>2, <3>3 DEF SourceWrite, TypeOK, toolVars
  <2>2. \A q \in Rows : q # r => src'[q] = src[q]
    BY <1>1 DEF SourceWrite, TypeOK
  <2>3. \A q \in Rows : Wanted(q)' => Wanted(q) /\ src'[q] = src[q]
    BY <1>1, <2>2 DEF SourceWrite, Wanted
  <2>4. AtEnd' /\ RowsInside' /\ ReadsHold' /\ SeesAll' /\ Settled'
    BY <1>1, <2>2 DEF SourceWrite, toolVars, AtEnd, RowsInside, ReadsHold, SeesAll, Settled, TypeOK
  <2>5. \A q \in Rows : (Passed(q)' <=> Passed(q)) /\ (Wanted(q)' => (Brought(q)' <=> Brought(q)))
    BY <1>1, <2>3 DEF SourceWrite, toolVars, Passed, Brought
  <2>6. Progress'
    BY <1>1, <2>3, <2>5 DEF SourceWrite, toolVars, Progress
  <2> QED BY <2>1, <2>4, <2>6
<1>2. ASSUME NEW r \in Rows, TargetUpdate(r) PROVE MigrateInv'
  <2>1. TypeOK'
    BY <1>2 DEF TargetUpdate, TypeOK, toolVars
  <2>2. \A q \in Rows : dst[q] # None => dst'[q] # None
    BY <1>2 DEF TargetUpdate, TypeOK
  <2>3. \A q \in Rows : /\ Wanted(q)' <=> Wanted(q)
                        /\ Passed(q)' <=> Passed(q)
                        /\ Brought(q) => Brought(q)'
    BY <1>2, <2>2 DEF TargetUpdate, toolVars, Wanted, Passed, Brought
  <2>4. AtEnd' /\ RowsInside' /\ ReadsHold' /\ SeesAll'
    BY <1>2 DEF TargetUpdate, toolVars, AtEnd, RowsInside, ReadsHold, SeesAll
  <2>5. Settled'
    BY <1>2, <2>2, <2>3 DEF TargetUpdate, Settled
  <2>6. Progress'
    BY <1>2, <2>3 DEF TargetUpdate, toolVars, Progress
  <2> QED BY <2>1, <2>4, <2>5, <2>6
<1>3. ASSUME NEW r \in Rows, TargetDelete(r) PROVE MigrateInv'
  <2>1. TypeOK'
    <3>1. dst' \in [Rows -> {"text", "null", "edited", None}]
      BY <1>3 DEF TargetDelete, TypeOK
    <3>2. writes' \in 0 .. MaxWrites /\ gone' \subseteq Rows
      BY <1>3 DEF TargetDelete, TypeOK
    <3> QED BY <1>3, <3>1, <3>2 DEF TargetDelete, TypeOK, toolVars
  <2>2. \A q \in Rows : q \notin gone' => dst'[q] = dst[q]
    BY <1>3 DEF TargetDelete
  <2>3. gone \subseteq gone'
    BY <1>3 DEF TargetDelete
  <2>4. \A q \in Rows : /\ Wanted(q)' => Wanted(q) /\ (Brought(q)' <=> Brought(q))
                        /\ Passed(q)' <=> Passed(q)
    BY <1>3, <2>2, <2>3 DEF TargetDelete, toolVars, Wanted, Passed, Brought
  <2>5. AtEnd' /\ RowsInside' /\ ReadsHold' /\ SeesAll' /\ Settled'
    BY <1>3 DEF TargetDelete, toolVars, AtEnd, RowsInside, ReadsHold, SeesAll, Settled
  <2>6. Progress'
    BY <1>3, <2>4 DEF TargetDelete, toolVars, Progress
  <2> QED BY <2>1, <2>5, <2>6
<1> QED BY <1>1, <1>2, <1>3 DEF Writers

\* What a wanted row of the batch is not.
LEMMA WantedIsNoOrphan ==
    ASSUME MigrateInv, pc # "idle", ~blind, NEW r \in Rows, Wanted(r)
    PROVE  ~Orphan(r)
BY DEF MigrateInv, SeesAll, Orphan, Wanted

LEMMA CopyPreserves ==
    ASSUME MigrateInv, NEW x \in batch, SkipOrphan(x) \/ InsertRow(x) \/ InsertFails(x)
    PROVE  MigrateInv'
<1> USE DEF MigrateInv
<1>0. /\ x.id \in Rows /\ x.value \in AllValues /\ pc = "rows" /\ pc' = pc
      /\ batch' = batch \ {x} /\ src' = src /\ touched' = touched /\ gone' = gone
      /\ at' = at /\ listed' = listed /\ dagIDs' = dagIDs /\ blind' = blind
      /\ settled' = settled /\ writes' = writes
  BY DEF SkipOrphan, InsertRow, InsertFails, TypeOK, Values, AllValues
<1>1. TypeOK'
  <2>1. dst' \in [Rows -> {"text", "null", "edited", None}]
    BY <1>0 DEF SkipOrphan, InsertRow, InsertFails, TypeOK, Converted, AllValues
  <2>2. warned' \subseteq Rows /\ failed' \in BOOLEAN
    BY <1>0 DEF SkipOrphan, InsertRow, InsertFails, TypeOK
  <2> QED BY <1>0, <2>1, <2>2 DEF TypeOK
<1>2. AtEnd' /\ RowsInside' /\ ReadsHold' /\ SeesAll'
  BY <1>0 DEF AtEnd, RowsInside, ReadsHold, SeesAll
<1>3. \A r \in Rows : (Wanted(r)' <=> Wanted(r)) /\ (Passed(r)' <=> Passed(r))
  BY <1>0 DEF Wanted, Passed
<1>4. \A r \in Rows : (dst[r] # None => dst'[r] # None) /\ (Brought(r) => Brought(r)')
  BY <1>0 DEF SkipOrphan, InsertRow, InsertFails, TypeOK, Brought
<1>5. Settled'
  BY <1>0, <1>3, <1>4 DEF Settled
<1>6. ASSUME ~failed', ~blind, Wanted(x.id) PROVE Brought(x.id)'
  <2>1. InsertRow(x)
    BY <1>0, <1>6, WantedIsNoOrphan DEF SkipOrphan, InsertFails
  <2>2. dst'[x.id] # None
    BY <1>0, <2>1 DEF InsertRow, TypeOK, Converted, AllValues
  <2>3. src[x.id] = x.value
    BY <1>6 DEF Wanted, ReadsHold
  <2> QED BY <1>0, <2>1, <2>2, <2>3 DEF InsertRow, Brought
<1>7. Progress'
  <2> SUFFICES ASSUME ~failed', ~blind, NEW r \in Rows, Wanted(r)
               PROVE  /\ Passed(r) => Brought(r)'
                      /\ TableOf[r] = Specs[at] => Brought(r)' \/ \E y \in batch' : y.id = r
    BY <1>0, <1>3 DEF Progress
  <2>1. ~failed
    BY DEF SkipOrphan, InsertRow, InsertFails, TypeOK
  <2>2. /\ Passed(r) => Brought(r)
        /\ TableOf[r] = Specs[at] => Brought(r) \/ \E y \in batch : y.id = r
    BY <1>0, <2>1 DEF Progress
  <2> QED BY <1>0, <1>4, <1>6, <2>2
<1> QED BY <1>1, <1>2, <1>5, <1>7

LEMMA BeginPreserves ==
    ASSUME MigrateInv, NEW list \in {Tables, {}}, NEW ids \in {SourceDags, {}}, Begin(list, ids)
    PROVE  MigrateInv'
<1> USE DEF MigrateInv, Begin
<1>1. TypeOK'
  <2>1. dagIDs' \subseteq Rows /\ blind' \in BOOLEAN
    BY DEF SourceDags
  <2>2. at' \in 1 .. Len(Specs) + 1
    BY SpecsLength
  <2> QED BY <2>1, <2>2 DEF TypeOK
<1>2. AtEnd' /\ RowsInside' /\ ReadsHold' /\ SeesAll'
  BY DEF AtEnd, RowsInside, ReadsHold, SeesAll, SourceDags
<1>3. Progress'
  BY DEF Progress, Passed
<1>4. Settled'
  BY DEF Settled, Wanted
<1> QED BY <1>1, <1>2, <1>3, <1>4

LEMMA TableStepsPreserve ==
    ASSUME MigrateInv, SkipTable \/ ReadTable \/ ReadFails \/ TableDone \/ Exit \/ Crash
    PROVE  MigrateInv'
<1> USE DEF MigrateInv
<1>0. /\ src' = src /\ dst' = dst /\ touched' = touched /\ gone' = gone /\ warned' = warned
      /\ at \in Nat
      /\ \A r \in Rows : (Wanted(r)' <=> Wanted(r)) /\ (Brought(r)' <=> Brought(r))
  BY SpecsLength DEF SkipTable, ReadTable, ReadFails, TableDone, Exit, Crash, Wanted, Brought, TypeOK
<1>1. CASE SkipTable
  <2>1. Specs[at] \in Tables
    BY <1>1, <1>0, SpecsLength DEF SkipTable, Tables, TypeOK
  <2>2. blind \/ pc = "idle"
    BY <1>1, <2>1 DEF SkipTable, SeesAll
  <2>3. TypeOK'
    BY <1>1, SpecsLength DEF SkipTable, TypeOK
  <2> QED BY <1>0, <1>1, <2>2, <2>3 DEF SkipTable, AtEnd, RowsInside, ReadsHold, SeesAll, Progress, Settled
<1>2. CASE ReadTable
  <2>1. TypeOK'
    BY <1>2 DEF ReadTable, TypeOK, SourceRows
  <2>2. ReadsHold'
    BY <1>2 DEF ReadTable, ReadsHold, SourceRows
  <2>3. \A r \in Rows : src[r] # None /\ TableOf[r] = Specs[at] => \E x \in batch' : x.id = r
    <3> SUFFICES ASSUME NEW r \in Rows, src[r] # None, TableOf[r] = Specs[at]
                 PROVE  \E x \in batch' : x.id = r
      OBVIOUS
    <3>1. [id |-> r, value |-> src[r]] \in batch'
      BY <1>2 DEF ReadTable, SourceRows
    <3> QED BY <3>1
  <2>4. \A r \in Rows : Passed(r)' <=> Passed(r)
    BY <1>2 DEF ReadTable, Passed
  <2>5. Progress'
    BY <1>0, <1>2, <2>3, <2>4 DEF ReadTable, Progress, Wanted
  <2> QED BY <1>0, <1>2, <2>1, <2>2, <2>5 DEF ReadTable, AtEnd, RowsInside, SeesAll, Settled
<1>3. CASE ReadFails
  <2>1. TypeOK'
    BY <1>3, SpecsLength DEF ReadFails, TypeOK
  <2> QED BY <1>0, <1>3, <2>1 DEF ReadFails, AtEnd, RowsInside, ReadsHold, SeesAll, Progress, Settled
<1>4. CASE TableDone
  <2>1. at \in 1 .. Len(Specs) + 1 /\ pc = "rows" /\ pc' = "table" /\ at' = at + 1 /\ batch = {}
    BY <1>4 DEF TableDone, TypeOK
  <2>2. at \in 1 .. Len(Specs)
    BY <2>1, SpecsLength DEF AtEnd, RowsInside
  <2>3. TypeOK'
    BY <1>4, <2>2, SpecsLength DEF TableDone, TypeOK
  <2>4. \A r \in Rows : Passed(r)' => Passed(r) \/ TableOf[r] = Specs[at]
    BY <2>1, <2>2, SpecsLength DEF Passed
  <2>5. Progress'
    BY <1>0, <1>4, <2>1, <2>4 DEF TableDone, Progress
  <2> QED BY <1>0, <1>4, <2>3, <2>5 DEF TableDone, AtEnd, RowsInside, ReadsHold, SeesAll, Settled
<1>5. CASE Exit
  <2>1. at \in 1 .. Len(Specs) + 1 /\ at > Len(Specs) /\ pc = "table" /\ pc' = "done"
    BY <1>5 DEF Exit, TypeOK
  <2>2. ASSUME NEW r \in Rows PROVE Passed(r)
    <3>1. PICK i \in 1 .. Len(Specs) : Specs[i] = TableOf[r]
      BY DEF Tables
    <3> QED BY <2>1, <3>1, SpecsLength DEF Passed
  <2>3. TypeOK'
    BY <1>5 DEF Exit, TypeOK
  <2>4. Progress'
    BY <1>0, <1>5 DEF Exit, Progress, Passed
  <2>5. Settled'
    <3>1. CASE settled
      BY <1>0, <3>1 DEF Settled
    <3>2. CASE ~settled
      BY <1>0, <1>5, <2>1, <2>2, <3>2 DEF Exit, Settled, Progress, Brought
    <3> QED BY <3>1, <3>2
  <2> QED BY <1>0, <1>5, <2>1, <2>3, <2>4, <2>5 DEF Exit, AtEnd, RowsInside, ReadsHold, SeesAll
<1>6. CASE Crash
  BY <1>0, <1>6 DEF Crash, TypeOK, AtEnd, RowsInside, ReadsHold, SeesAll, Progress, Settled
<1> QED BY <1>1, <1>2, <1>3, <1>4, <1>5, <1>6

\* What the tool has read, brought and left out agrees with the source.
THEOREM MigrateInvariant == Spec => []MigrateInv
<1>1. Init => MigrateInv
  <2> SUFFICES ASSUME Init PROVE MigrateInv
    OBVIOUS
  <2>1. /\ src \in [Rows -> AllValues \cup {None}]
        /\ \A r \in Rows : src[r] \in Values(TableOf[r]) \cup {None}
    BY DEF Init
  <2>2. /\ dst = [r \in Rows |-> None]
        /\ pc = "idle" /\ at = 1 /\ listed = {} /\ dagIDs = {} /\ batch = {}
        /\ failed = FALSE /\ warned = {} /\ blind = FALSE
        /\ touched = {} /\ gone = {} /\ settled = FALSE /\ writes = 0
    BY DEF Init
  <2>3. TypeOK
    <3>1. dst \in [Rows -> {"text", "null", "edited", None}]
      BY <2>2
    <3>2. at \in 1 .. Len(Specs) + 1 /\ writes \in 0 .. MaxWrites
      BY <2>2, SpecsLength
    <3> QED BY <2>1, <2>2, <3>1, <3>2 DEF TypeOK
  <2> QED BY <2>2, <2>3 DEF MigrateInv, AtEnd, RowsInside, ReadsHold, SeesAll, Progress, Settled
<1>2. MigrateInv /\ [Next]_vars => MigrateInv'
  <2> SUFFICES ASSUME MigrateInv, [Next]_vars PROVE MigrateInv'
    OBVIOUS
  <2>1. CASE UNCHANGED vars
    BY <2>1 DEF vars, toolVars, MigrateInv, TypeOK, AtEnd, RowsInside, ReadsHold, SeesAll, Progress,
       Settled, Wanted, Passed, Brought
  <2>2. CASE Writers
    BY <2>2, WritersPreserve
  <2>3. CASE Tool
    BY <2>3, BeginPreserves, TableStepsPreserve, CopyPreserves DEF Tool
  <2> QED BY <2>1, <2>2, <2>3 DEF Next, Writers
<1> QED BY <1>1, <1>2, PTL DEF Spec

LEMMA InvImplies == ASSUME MigrateInv PROVE TypeOK /\ SuccessIsComplete /\ LossIsWarned
<1> USE DEF MigrateInv
<1>1. ASSUME pc = "done", NEW r \in Rows PROVE Passed(r)
  <2>1. PICK i \in 1 .. Len(Specs) : Specs[i] = TableOf[r]
    BY DEF Tables
  <2> QED BY <1>1, <2>1, SpecsLength DEF Passed, AtEnd, TypeOK
<1> QED BY <1>1 DEF SuccessIsComplete, LossIsWarned, Progress, Brought

\* Exit status 0 means that nothing is missing that the run could see.
THEOREM ExitZeroIsComplete == Spec => []SuccessIsComplete
BY InvImplies, MigrateInvariant, PTL

\* Exit status 0 means that every value the conversion lost was warned of.
THEOREM LostValuesAreWarned == Spec => []LossIsWarned
BY InvImplies, MigrateInvariant, PTL

\* Types, with the batch a set of rows of the source.
THEOREM MigrateTypes == Spec => []TypeOK
BY InvImplies, MigrateInvariant, PTL

\* The tool leaves alone what the target has.
THEOREM ToolKeepsRows == Spec => NeverOverwrites
<1>1. TypeOK /\ [Next]_vars
        => [~UNCHANGED toolVars => \A r \in Rows : dst[r] # None => dst'[r] = dst[r]]_vars
  <2> SUFFICES ASSUME TypeOK, Next, ~UNCHANGED toolVars, NEW r \in Rows, dst[r] # None
               PROVE  dst'[r] = dst[r]
    BY DEF vars
  <2>1. Tool
    BY DEF Next, SourceWrite, TargetUpdate, TargetDelete
  <2>2. CASE \E x \in batch : InsertRow(x)
    BY <2>2 DEF InsertRow, TypeOK
  <2>3. CASE ~\E x \in batch : InsertRow(x)
    BY <2>1, <2>3 DEF Tool, Begin, SkipTable, ReadTable, ReadFails, TableDone, Exit, Crash,
       SkipOrphan, InsertFails
  <2> QED BY <2>2, <2>3
<1> QED BY <1>1, MigrateTypes, PTL DEF Spec, NeverOverwrites

\* After a success on two sides at rest, running the tool again is without
\* effect on what is there.
THEOREM RerunIsIdempotent == Spec => RerunAddsNothing
<1>1. MigrateInv /\ [Next]_vars => [settled /\ settled' => Present' = Present]_vars
  <2> SUFFICES ASSUME MigrateInv, Next, settled, settled' PROVE Present' = Present
    BY DEF vars
  <2> USE DEF MigrateInv
  <2>1. CASE Writers
    <3>1. PICK r \in Rows : TargetUpdate(r)
      BY <2>1 DEF Writers, SourceWrite, TargetDelete
    <3> QED BY <3>1 DEF TargetUpdate, Present, TypeOK
  <2>2. ASSUME NEW x \in batch, InsertRow(x) PROVE Present' = Present
    <3>1. x.id \in Rows /\ src[x.id] # None
      BY <2>2 DEF TypeOK, ReadsHold, Settled, Values, AllValues
    <3>2. TableOf[x.id] \in WithParent => src[ParentOf[x.id]] # None
      BY <2>2 DEF InsertRow, Orphan, ReadsHold, Settled
    <3>3. dst[x.id] # None
      BY <3>1, <3>2 DEF Settled, Wanted
    <3> QED BY <2>2, <3>3 DEF InsertRow, Present
  <2>3. CASE Tool /\ ~\E x \in batch : InsertRow(x)
    BY <2>3 DEF Tool, Begin, SkipTable, ReadTable, ReadFails, TableDone, Exit, Crash, SkipOrphan,
       InsertFails, Present
  <2> QED BY <2>1, <2>2, <2>3 DEF Next, Writers
<1> QED BY <1>1, MigrateInvariant, PTL DEF Spec, RerunAddsNothing
=============================================================================
