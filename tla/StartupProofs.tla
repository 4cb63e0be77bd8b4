--------------------------- MODULE StartupProofs ----------------------------
(***************************************************************************)
(* What holds of every start, whatever the database it finds, however often*)
(* it is killed and whatever the configuration.                            *)
(***************************************************************************)
EXTENDS Startup, ConfigProofs

AllTables ==
  {"jobs", "executions", "channels", "providers", "job_steps", "execution_steps", "executions_new"}
AllIndexes ==
  {"idx_jobs_next_run_at", "idx_exec_job_sched", "idx_execution_steps_exec", "uniq_running_job",
   "uniq_idempotency"}

\* The process is in migration v, at one of the statements from first to last.
Within(v, first, last) == phase = "migrate" /\ at[1] = v /\ at[2] \in first..last

Placed ==
  /\ at \in Nat \X Nat
  /\ phase = "migrate" => at[1] \in 1..5 /\ at[2] \in 1..Len(Script[at[1]])

Typed ==
  /\ tables \subseteq AllTables
  /\ indexes \subseteq AllIndexes
  /\ legacy \subseteq {"message", "channels_json"}
  /\ fields \in {"v1", "v5"}
  /\ rows \subseteq Row /\ copy \subseteq Row
  /\ records \subseteq ExecId
  /\ phase \in {"down", "load", "open", "migrate", "serve"}
  /\ Placed
  /\ faults \in 0..MaxFaults
  /\ cut \in BOOLEAN /\ misread \in BOOLEAN /\ kept \in BOOLEAN

\* The versions are recorded in order; a migration runs that is not recorded, unless the
\* version could not be read, and then it is the first.
Ordered ==
  /\ \E v \in 0..5 : recorded = 1..v
  /\ phase = "migrate" =>
       \/ recorded = 1..(at[1] - 1)
       \/ misread /\ at[1] = 1 /\ 1 \in recorded
  /\ phase = "serve" => 5 \in recorded

\* No execution is only in a table that goes away, and none is of version 5 before
\* that is recorded.
RowsKept ==
  /\ "executions" \notin tables => rows = {}
  /\ Within(5, 3, 5) => Ids(rows) \subseteq Ids(copy)
  /\ 5 \notin recorded => \A r \in rows \union copy : r.trigger = "cron"

\* What the recorded versions and the statements executed have left.
Built ==
  /\ 1 \in recorded \/ Within(1, 2, 7) => "jobs" \in tables
  /\ Within(1, 3, 7) => "executions" \in tables
  /\ 1 \in recorded \/ Within(1, 4, 7) => "channels" \in tables
  /\ 1 \in recorded \/ Within(1, 5, 7) => "providers" \in tables
  /\ 1 \in recorded \/ Within(1, 6, 7) => "idx_jobs_next_run_at" \in indexes
  /\ 2 \in recorded \/ Within(2, 2, 4) => "job_steps" \in tables
  /\ 2 \in recorded \/ Within(2, 3, 4) => "execution_steps" \in tables
  /\ 2 \in recorded \/ Within(2, 4, 4) => "idx_execution_steps_exec" \in indexes
  /\ 4 \in recorded \/ Within(4, 2, 3) => "message" \notin legacy \/ kept
  /\ 4 \in recorded \/ Within(4, 3, 3) => "channels_json" \notin legacy \/ kept

Swapped ==
  /\ 5 \in recorded \/ Within(5, 7, 10) =>
       "executions" \in tables /\ "executions_new" \notin tables /\ fields = "v5" /\ copy = {}
  /\ 5 \in recorded \/ Within(5, 8, 10) => "uniq_running_job" \in indexes
  /\ 5 \in recorded \/ Within(5, 9, 10) => "idx_exec_job_sched" \in indexes
  /\ 5 \in recorded \/ Within(5, 10, 10) => "uniq_idempotency" \in indexes

\* Where the swap stands, and that nothing is left of it unless it was cut off.
SwapStands ==
  /\ Within(5, 2, 6) => "executions_new" \in tables
  /\ Within(5, 6, 6) => "executions" \notin tables
  /\ ~cut /\ 1 \in recorded /\ ~Within(5, 6, 6) => "executions" \in tables
  /\ ~cut /\ ~Within(5, 3, 6) => copy = {}
  /\ ~cut /\ Within(5, 3, 5) => Ids(copy) = Ids(rows)

IInv ==
  /\ Typed /\ Ordered /\ RowsKept /\ Built /\ Swapped /\ SwapStands

------------------------------------------------------------------------------
(* The script *)

\* The script of the migrations, one by one.
LEMMA ScriptSays ==
  /\ Len(Script) = 5
  /\ Script[1] = <<Create("jobs"), Create("executions"), Create("channels"), Create("providers"),
                   CreateIndex("idx_jobs_next_run_at"), CreateIndex("idx_exec_job_sched"), Record>>
  /\ Script[2] = <<Create("job_steps"), Create("execution_steps"),
                   CreateIndex("idx_execution_steps_exec"), Record>>
  /\ Script[3] = <<CreateIndex("uniq_running_job"), Record>>
  /\ Script[4] = <<DropColumn("message"), DropColumn("channels_json"), Record>>
  /\ Script[5] = <<Create("executions_new"), CopyRows,
                   DropIndex("uniq_running_job"), DropIndex("idx_exec_job_sched"),
                   DropTable, RenameTable,
                   CreateIndex("uniq_running_job"), CreateIndex("idx_exec_job_sched"),
                   CreateIndex("uniq_idempotency"), Record>>
BY DEF Script

\* How many statements each migration has.
LEMMA Lengths ==
  /\ Len(Script) = 5
  /\ Len(Script[1]) = 7 /\ Len(Script[2]) = 4 /\ Len(Script[3]) = 2 /\ Len(Script[4]) = 3
  /\ Len(Script[5]) = 10
BY ScriptSays

Is(v, i, statement) == at = <<v, i>> /\ Statement = statement

\* Where the process can be, by what it executes there.
Creating ==
  \/ Is(1, 1, Create("jobs")) \/ Is(1, 2, Create("executions"))
  \/ Is(1, 3, Create("channels")) \/ Is(1, 4, Create("providers"))
  \/ Is(2, 1, Create("job_steps")) \/ Is(2, 2, Create("execution_steps"))
  \/ Is(5, 1, Create("executions_new"))
Indexing ==
  \/ Is(1, 5, CreateIndex("idx_jobs_next_run_at")) \/ Is(1, 6, CreateIndex("idx_exec_job_sched"))
  \/ Is(2, 3, CreateIndex("idx_execution_steps_exec")) \/ Is(3, 1, CreateIndex("uniq_running_job"))
  \/ Is(5, 3, DropIndex("uniq_running_job")) \/ Is(5, 4, DropIndex("idx_exec_job_sched"))
  \/ Is(5, 7, CreateIndex("uniq_running_job")) \/ Is(5, 8, CreateIndex("idx_exec_job_sched"))
  \/ Is(5, 9, CreateIndex("uniq_idempotency"))
Columning == Is(4, 1, DropColumn("message")) \/ Is(4, 2, DropColumn("channels_json"))
Recording ==
  \/ Is(1, 7, Record) \/ Is(2, 4, Record) \/ Is(3, 2, Record) \/ Is(4, 3, Record)
  \/ Is(5, 10, Record)

\* A process in the migrations is at one of the statements of the script.
LEMMA WhereItIs ==
  ASSUME Typed, phase = "migrate"
  PROVE  \/ Creating \/ Indexing \/ Columning \/ Recording
         \/ Is(5, 2, CopyRows) \/ Is(5, 5, DropTable) \/ Is(5, 6, RenameTable)
<1>1. at = <<at[1], at[2]>> /\ at[1] \in 1..5 /\ at[2] \in 1..Len(Script[at[1]])
  BY DEF Typed, Placed
<1>2. CASE at[1] = 1
  <2>1. at[2] \in {1, 2, 3, 4, 5, 6, 7} /\ Statement = Script[1][at[2]]
    BY <1>1, <1>2, Lengths DEF Statement
  <2> QED
    BY <1>1, <1>2, <2>1, ScriptSays DEF Creating, Indexing, Recording, Is
<1>3. CASE at[1] = 2
  <2>1. at[2] \in {1, 2, 3, 4} /\ Statement = Script[2][at[2]]
    BY <1>1, <1>3, Lengths DEF Statement
  <2> QED
    BY <1>1, <1>3, <2>1, ScriptSays DEF Creating, Indexing, Recording, Is
<1>4. CASE at[1] = 3
  <2>1. at[2] \in {1, 2} /\ Statement = Script[3][at[2]]
    BY <1>1, <1>4, Lengths DEF Statement
  <2> QED
    BY <1>1, <1>4, <2>1, ScriptSays DEF Indexing, Recording, Is
<1>5. CASE at[1] = 4
  <2>1. at[2] \in {1, 2, 3} /\ Statement = Script[4][at[2]]
    BY <1>1, <1>5, Lengths DEF Statement
  <2> QED
    BY <1>1, <1>5, <2>1, ScriptSays DEF Columning, Recording, Is
<1>6. CASE at[1] = 5
  <2>1. at[2] \in {1, 2, 3, 4, 5, 6, 7, 8, 9, 10} /\ Statement = Script[5][at[2]]
    BY <1>1, <1>6, Lengths DEF Statement
  <2> QED
    BY <1>1, <1>6, <2>1, ScriptSays DEF Creating, Indexing, Recording, Is
<1> QED
  BY <1>1, <1>2, <1>3, <1>4, <1>5, <1>6

\* What it does there, one kind of statement at a time.
LEMMA KindsDiffer ==
  /\ \A n : Create(n).do = "create" /\ CreateIndex(n).do = "index"
            /\ DropColumn(n).do = "column" /\ DropIndex(n).do = "unindex"
  /\ CopyRows.do = "copy" /\ DropTable.do = "drop" /\ RenameTable.do = "rename"
  /\ Record.do = "record"
BY DEF Create, CreateIndex, DropColumn, DropIndex, CopyRows, DropTable, RenameTable, Record

\* The kind of a statement tells where in the script it can be.
LEMMA KindIsPlace ==
  ASSUME Typed, phase = "migrate"
  PROVE  /\ Statement.do = "create" => Creating
         /\ Statement.do \in {"index", "unindex"} => Indexing
         /\ Statement.do = "column" => Columning
         /\ Statement.do = "copy" => Is(5, 2, CopyRows)
         /\ Statement.do = "drop" => Is(5, 5, DropTable)
         /\ Statement.do = "rename" => Is(5, 6, RenameTable)
         /\ Statement.do = "record" => Recording
BY WhereItIs, KindsDiffer DEF Creating, Indexing, Columning, Recording, Is

\* The next statement, and after the last of a migration the next migration.
LEMMA AdvanceLeads ==
  ASSUME NEW v \in 1..5, NEW i \in Nat, at = <<v, i>>, phase = "migrate", Advance
  PROVE  /\ i < Len(Script[v]) => phase' = "migrate" /\ at' = <<v, i + 1>>
         /\ i = Len(Script[v]) /\ v < 5 => phase' = "migrate" /\ at' = <<v + 1, 1>>
         /\ i = Len(Script[v]) /\ v = 5 => phase' = "serve" /\ at' = <<0, 0>>
<1>1. CASE i < Len(Script[v])
  BY <1>1 DEF Advance
<1>2. CASE i = Len(Script[v])
  <2>1. ReadVersion(v)
    BY <1>2, Lengths DEF Advance
  <2> QED
    BY <1>2, <2>1, Lengths DEF ReadVersion
<1> QED
  BY <1>1, <1>2, Lengths

------------------------------------------------------------------------------
(* One statement *)

\* From statement i of migration v to the statement after it.
Goes(v, i) ==
  /\ phase = "migrate" /\ at = <<v, i>>
  /\ phase' = "migrate" /\ at' = <<v, i + 1>>
  /\ Placed'

Inner(v, i) == i < Len(Script[v])

\* The statements that are not the last of their migration.
LEMMA InnerPlaces ==
  /\ Inner(1, 1) /\ Inner(1, 2) /\ Inner(1, 3) /\ Inner(1, 4) /\ Inner(1, 5) /\ Inner(1, 6)
  /\ Inner(2, 1) /\ Inner(2, 2) /\ Inner(2, 3)
  /\ Inner(3, 1)
  /\ Inner(4, 1) /\ Inner(4, 2)
  /\ Inner(5, 1) /\ Inner(5, 2) /\ Inner(5, 3) /\ Inner(5, 4) /\ Inner(5, 5)
  /\ Inner(5, 6) /\ Inner(5, 7) /\ Inner(5, 8) /\ Inner(5, 9)
BY Lengths DEF Inner

\* From one of those, Advance goes to the next statement of the same migration.
LEMMA GoesFrom ==
  ASSUME NEW v \in 1..5, NEW i \in Nat, Inner(v, i), phase = "migrate", Advance
  PROVE  at = <<v, i>> => Goes(v, i)
<1> SUFFICES ASSUME at = <<v, i>>
             PROVE  Goes(v, i)
  OBVIOUS
<1>1. i < Len(Script[v]) /\ Len(Script[v]) \in Nat
  BY Lengths DEF Inner
<1>2. phase' = "migrate" /\ at' = <<v, i + 1>>
  BY <1>1 DEF Advance
<1>3. at'[1] = v /\ at'[2] = i + 1
  BY <1>2
<1> QED
  BY <1>1, <1>2, <1>3 DEF Goes, Placed

\* Every statement but the last of a migration, and where it leads.
LEMMA GoesOn ==
  ASSUME phase = "migrate", Advance
  PROVE  /\ at = <<1, 1>> => Goes(1, 1)
         /\ at = <<1, 2>> => Goes(1, 2)
         /\ at = <<1, 3>> => Goes(1, 3)
         /\ at = <<1, 4>> => Goes(1, 4)
         /\ at = <<1, 5>> => Goes(1, 5)
         /\ at = <<1, 6>> => Goes(1, 6)
         /\ at = <<2, 1>> => Goes(2, 1)
         /\ at = <<2, 2>> => Goes(2, 2)
         /\ at = <<2, 3>> => Goes(2, 3)
         /\ at = <<3, 1>> => Goes(3, 1)
         /\ at = <<4, 1>> => Goes(4, 1)
         /\ at = <<4, 2>> => Goes(4, 2)
         /\ at = <<5, 1>> => Goes(5, 1)
         /\ at = <<5, 2>> => Goes(5, 2)
         /\ at = <<5, 3>> => Goes(5, 3)
         /\ at = <<5, 4>> => Goes(5, 4)
         /\ at = <<5, 5>> => Goes(5, 5)
         /\ at = <<5, 6>> => Goes(5, 6)
         /\ at = <<5, 7>> => Goes(5, 7)
         /\ at = <<5, 8>> => Goes(5, 8)
         /\ at = <<5, 9>> => Goes(5, 9)
BY GoesFrom, InnerPlaces

\* CREATE TABLE keeps the invariant.
LEMMA CreateKeeps ==
  ASSUME IInv, phase = "migrate", CreateStatement, Advance, UNCHANGED <<cut, misread>>
  PROVE  IInv'
<1>1. Creating
  BY KindIsPlace DEF CreateStatement, IInv
<1>2. /\ UNCHANGED <<indexes, legacy, rows, copy, records, recorded, kept, faults, cut, misread>>
      /\ fields' \in {fields, "v1"}
      /\ tables \subseteq tables'
      /\ "executions" \in tables => fields' = fields
  BY DEF CreateStatement
<1>3. \/ Goes(1, 1) /\ tables' = tables \union {"jobs"}
      \/ Goes(1, 2) /\ tables' = tables \union {"executions"}
      \/ Goes(1, 3) /\ tables' = tables \union {"channels"}
      \/ Goes(1, 4) /\ tables' = tables \union {"providers"}
      \/ Goes(2, 1) /\ tables' = tables \union {"job_steps"}
      \/ Goes(2, 2) /\ tables' = tables \union {"execution_steps"}
      \/ Goes(5, 1) /\ tables' = tables \union {"executions_new"}
  BY <1>1, GoesOn DEF Creating, Is, CreateStatement, Create
<1>4. Typed'
  BY <1>2, <1>3 DEF IInv, Typed, AllTables, Goes
<1>5. Ordered'
  BY <1>2, <1>3 DEF IInv, Ordered, Goes
<1>6. RowsKept'
  BY <1>2, <1>3 DEF IInv, RowsKept, Within, Goes
<1>7. Built'
  BY <1>2, <1>3 DEF IInv, Built, Within, Goes
<1>8. Swapped'
  BY <1>2, <1>3 DEF IInv, Ordered, Swapped, Within, Goes
<1>9. SwapStands'
  BY <1>2, <1>3 DEF IInv, SwapStands, Within, Goes
<1> QED
  BY <1>4, <1>5, <1>6, <1>7, <1>8, <1>9 DEF IInv

\* CREATE INDEX and DROP INDEX keep the invariant.
LEMMA IndexKeeps ==
  ASSUME IInv, phase = "migrate", IndexStatement, Advance, UNCHANGED <<cut, misread>>
  PROVE  IInv'
<1>1. Indexing
  BY KindIsPlace DEF IndexStatement, IInv
<1>2. UNCHANGED <<tables, legacy, fields, rows, copy, records, recorded, kept, faults, cut, misread>>
  BY DEF IndexStatement
<1>3. \/ Goes(1, 5) /\ indexes' = indexes \union {"idx_jobs_next_run_at"}
      \/ Goes(1, 6) /\ indexes' = indexes \union {"idx_exec_job_sched"}
      \/ Goes(2, 3) /\ indexes' = indexes \union {"idx_execution_steps_exec"}
      \/ Goes(3, 1) /\ indexes' = indexes \union {"uniq_running_job"}
      \/ Goes(5, 3) /\ indexes' = indexes \ {"uniq_running_job"}
      \/ Goes(5, 4) /\ indexes' = indexes \ {"idx_exec_job_sched"}
      \/ Goes(5, 7) /\ indexes' = indexes \union {"uniq_running_job"}
      \/ Goes(5, 8) /\ indexes' = indexes \union {"idx_exec_job_sched"}
      \/ Goes(5, 9) /\ indexes' = indexes \union {"uniq_idempotency"}
  BY <1>1, GoesOn DEF Indexing, Is, IndexStatement, CreateIndex, DropIndex
<1>4. Typed'
  <2>1. indexes' \subseteq AllIndexes
    BY <1>3 DEF IInv, Typed, AllIndexes
  <2>2. phase' = "migrate" /\ Placed'
    BY <1>3 DEF Goes
  <2> QED
    BY <1>2, <2>1, <2>2 DEF IInv, Typed
<1>5. Ordered'
  BY <1>2, <1>3, SMTT(30) DEF IInv, Ordered, Goes
<1>6. RowsKept'
  BY <1>2, <1>3 DEF IInv, RowsKept, Within, Goes
<1>7. Built'
  BY <1>2, <1>3 DEF IInv, Built, Within, Goes
<1>8. Swapped'
  BY <1>2, <1>3 DEF IInv, Ordered, Swapped, Within, Goes
<1>9. SwapStands'
  BY <1>2, <1>3 DEF IInv, SwapStands, Within, Goes
<1> QED
  BY <1>4, <1>5, <1>6, <1>7, <1>8, <1>9 DEF IInv

\* A look at a column and its removal keep the invariant.
LEMMA ColumnKeeps ==
  ASSUME IInv, phase = "migrate", ColumnStatement, Advance, UNCHANGED <<cut, misread>>
  PROVE  IInv'
<1>1. Columning
  BY KindIsPlace DEF ColumnStatement, IInv
<1>2. /\ UNCHANGED <<tables, indexes, fields, rows, copy, records, recorded, cut, misread>>
      /\ legacy' \subseteq legacy
      /\ faults' \in 0..MaxFaults /\ kept' \in BOOLEAN /\ (kept => kept')
  <2>1. faults \in 0..MaxFaults /\ MaxFaults \in Nat /\ kept \in BOOLEAN
    BY MigrationsAssumption DEF IInv, Typed
  <2>2. faults' \in 0..MaxFaults
    BY <2>1 DEF ColumnStatement
  <2>3. kept' \in BOOLEAN /\ (kept => kept')
    BY <2>1, Zenon DEF ColumnStatement
  <2> QED
    BY <2>2, <2>3 DEF ColumnStatement
<1>3. \/ Goes(4, 1) /\ ("message" \notin legacy' \/ kept')
      \/ Goes(4, 2) /\ ("channels_json" \notin legacy' \/ kept')
  <2>1. Statement.name \notin legacy' \/ kept'
    BY Zenon DEF ColumnStatement
  <2>2. \/ Goes(4, 1) /\ Statement.name = "message"
        \/ Goes(4, 2) /\ Statement.name = "channels_json"
    BY <1>1, GoesOn DEF Columning, Is, DropColumn
  <2> QED
    BY <2>1, <2>2
<1>4. Typed'
  BY <1>2, <1>3 DEF IInv, Typed, Goes
<1>5. Ordered'
  BY <1>2, <1>3 DEF IInv, Ordered, Goes
<1>6. RowsKept'
  BY <1>2, <1>3 DEF IInv, RowsKept, Within, Goes
<1>7. Built'
  BY <1>2, <1>3 DEF IInv, Built, Within, Goes
<1>8. Swapped'
  BY <1>2, <1>3 DEF IInv, Ordered, Swapped, Within, Goes
<1>9. SwapStands'
  BY <1>2, <1>3 DEF IInv, SwapStands, Within, Goes
<1> QED
  BY <1>4, <1>5, <1>6, <1>7, <1>8, <1>9 DEF IInv

\* The copy into executions_new keeps the invariant.
LEMMA CopyKeeps ==
  ASSUME IInv, phase = "migrate", CopyStatement, Advance, UNCHANGED <<cut, misread>>
  PROVE  IInv'
<1>1. Goes(5, 2)
  BY KindIsPlace, GoesOn DEF CopyStatement, IInv, Is
<1>2. /\ UNCHANGED <<tables, indexes, legacy, fields, rows, records, recorded, kept, faults,
                     cut, misread>>
      /\ copy' = copy \union {[r EXCEPT !.trigger = "cron"] : r \in rows}
  BY DEF CopyStatement
<1>3. /\ {[r EXCEPT !.trigger = "cron"] : r \in rows} \subseteq Row
      /\ Ids({[r EXCEPT !.trigger = "cron"] : r \in rows}) = Ids(rows)
      /\ \A r \in {[q EXCEPT !.trigger = "cron"] : q \in rows} : r.trigger = "cron"
  <2>1. \A r \in rows : /\ [r EXCEPT !.trigger = "cron"] \in Row
                        /\ [r EXCEPT !.trigger = "cron"].id = r.id
                        /\ [r EXCEPT !.trigger = "cron"].trigger = "cron"
    BY DEF IInv, Typed, Row
  <2>2. \A x : x \in Ids({[r EXCEPT !.trigger = "cron"] : r \in rows}) <=> x \in Ids(rows)
    BY <2>1 DEF Ids
  <2>3. Ids({[r EXCEPT !.trigger = "cron"] : r \in rows}) = Ids(rows)
    BY <2>2
  <2> QED
    BY <2>1, <2>3
<1>4. Ids(copy') = Ids(copy) \union Ids(rows)
  BY <1>2, <1>3 DEF Ids
<1>5. Typed'
  BY <1>1, <1>2, <1>3 DEF IInv, Typed, Goes
<1>6. Ordered'
  BY <1>1, <1>2 DEF IInv, Ordered, Goes
<1>7. RowsKept'
  BY <1>1, <1>2, <1>3, <1>4 DEF IInv, RowsKept, Within, Goes
<1>8. Built'
  BY <1>1, <1>2 DEF IInv, Built, Within, Goes
<1>9. Swapped'
  BY <1>1, <1>2 DEF IInv, Ordered, Swapped, Within, Goes
<1>10. SwapStands'
  <2>1. ~cut => copy = {}
    BY <1>1 DEF IInv, SwapStands, Within, Goes
  <2>2. ~cut => Ids(copy') = Ids(rows)
    BY <2>1, <1>4 DEF Ids
  <2> QED
    BY <1>1, <1>2, <2>2 DEF IInv, SwapStands, Within, Goes
<1> QED
  BY <1>5, <1>6, <1>7, <1>8, <1>9, <1>10 DEF IInv

\* DROP TABLE executions keeps the invariant: the rows are in the copy.
LEMMA DropKeeps ==
  ASSUME IInv, phase = "migrate", DropStatement, Advance, UNCHANGED <<cut, misread>>
  PROVE  IInv'
<1>1. Goes(5, 5)
  BY KindIsPlace, GoesOn DEF DropStatement, IInv, Is
<1>2. /\ UNCHANGED <<legacy, fields, copy, recorded, kept, faults, cut, misread>>
      /\ tables' = tables \ {"executions"} /\ rows' = {}
      /\ indexes' = indexes \ {"idx_exec_job_sched", "uniq_running_job", "uniq_idempotency"}
      /\ records' \subseteq records
  BY DEF DropStatement, OnExecutions
<1>3. Typed'
  BY <1>1, <1>2 DEF IInv, Typed, Goes
<1>4. Ordered'
  BY <1>1, <1>2 DEF IInv, Ordered, Goes
<1>5. RowsKept'
  BY <1>1, <1>2 DEF IInv, RowsKept, Within, Goes
<1>6. Built'
  BY <1>1, <1>2 DEF IInv, Built, Within, Goes
<1>7. Swapped'
  BY <1>1, <1>2 DEF IInv, Ordered, Swapped, Within, Goes
<1>8. SwapStands'
  BY <1>1, <1>2 DEF IInv, SwapStands, Within, Goes
<1> QED
  BY <1>3, <1>4, <1>5, <1>6, <1>7, <1>8 DEF IInv

\* The rename keeps the invariant: the copy becomes the table.
LEMMA RenameKeeps ==
  ASSUME IInv, phase = "migrate", RenameStatement, Advance, UNCHANGED <<cut, misread>>
  PROVE  IInv'
<1>1. Goes(5, 6)
  BY KindIsPlace, GoesOn DEF RenameStatement, IInv, Is
<1>2. /\ UNCHANGED <<indexes, legacy, records, recorded, kept, faults, cut, misread>>
      /\ tables' = (tables \ {"executions_new"}) \union {"executions"}
      /\ fields' = "v5" /\ rows' = copy /\ copy' = {}
  BY DEF RenameStatement
<1>3. Typed'
  BY <1>1, <1>2 DEF IInv, Typed, AllTables, Goes
<1>4. Ordered'
  BY <1>1, <1>2 DEF IInv, Ordered, Goes
<1>5. RowsKept'
  BY <1>1, <1>2 DEF IInv, RowsKept, Within, Goes
<1>6. Built'
  BY <1>1, <1>2 DEF IInv, Built, Within, Goes
<1>7. Swapped'
  BY <1>1, <1>2 DEF IInv, Ordered, Swapped, Within, Goes
<1>8. SwapStands'
  BY <1>1, <1>2 DEF IInv, SwapStands, Within, Goes
<1> QED
  BY <1>3, <1>4, <1>5, <1>6, <1>7, <1>8 DEF IInv

\* From the last statement of a migration to the first of the next, or to the server.
LEMMA EntersAt ==
  ASSUME NEW v \in 1..5, phase' = "migrate", at' = <<v, 1>>
  PROVE  Placed'
<1>1. at'[1] = v /\ at'[2] = 1 /\ at' \in Nat \X Nat
  OBVIOUS
<1>2. Inner(v, 1)
  BY InnerPlaces
<1>3. Len(Script[v]) \in Nat
  BY Lengths
<1>4. 1 \in 1..Len(Script[v])
  BY <1>2, <1>3 DEF Inner
<1> QED
  BY <1>1, <1>4 DEF Placed

\* After version v the loop is at the first statement of v + 1, or through.
LEMMA VersionReadLeads ==
  ASSUME NEW v \in 0..5, ReadVersion(v)
  PROVE  IF v = 5 THEN phase' = "serve" /\ at' = <<0, 0>>
         ELSE phase' = "migrate" /\ at' = <<v + 1, 1>>
BY Lengths DEF ReadVersion

Final(v, i) == i = Len(Script[v])

\* The statements that are the last of their migration.
LEMMA LastPlaces ==
  Final(1, 7) /\ Final(2, 4) /\ Final(3, 2) /\ Final(4, 3) /\ Final(5, 10)
BY Lengths DEF Final

Leaves(v) ==
  /\ Placed'
  /\ IF v = 5 THEN phase' = "serve" /\ at' = <<0, 0>>
     ELSE phase' = "migrate" /\ at' = <<v + 1, 1>>

\* From one of those, Advance leaves the migration.
LEMMA LeavesFrom ==
  ASSUME NEW v \in 1..5, NEW i \in Nat, Final(v, i), Advance
  PROVE  at = <<v, i>> => Leaves(v)
<1> SUFFICES ASSUME at = <<v, i>>
             PROVE  Leaves(v)
  OBVIOUS
<1>1. ReadVersion(v)
  <2>1. at[1] = v /\ at[2] = i /\ ~(i < Len(Script[v]))
    BY Lengths DEF Final
  <2> QED
    BY <2>1 DEF Advance
<1>2. IF v = 5 THEN phase' = "serve" /\ at' = <<0, 0>>
      ELSE phase' = "migrate" /\ at' = <<v + 1, 1>>
  BY <1>1, VersionReadLeads
<1>3. CASE v = 5
  <2>1. phase' = "serve" /\ at' = <<0, 0>>
    BY <1>2, <1>3
  <2>2. Placed'
    BY <2>1 DEF Placed
  <2> QED
    BY <1>2, <2>2 DEF Leaves
<1>4. CASE v # 5
  <2>1. phase' = "migrate" /\ at' = <<v + 1, 1>> /\ v + 1 \in 1..5
    BY <1>2, <1>4
  <2>2. Placed'
    BY <2>1, EntersAt
  <2> QED
    BY <1>2, <2>2 DEF Leaves
<1> QED
  BY <1>3, <1>4

\* The last statement of each migration, and where it leads.
LEMMA GoesFurther ==
  ASSUME Advance
  PROVE  /\ at = <<1, 7>> => Leaves(1)
         /\ at = <<2, 4>> => Leaves(2)
         /\ at = <<3, 2>> => Leaves(3)
         /\ at = <<4, 3>> => Leaves(4)
         /\ at = <<5, 10>> => Leaves(5)
BY LeavesFrom, LastPlaces

\* The record of a version keeps the invariant.
LEMMA RecordKeeps ==
  ASSUME IInv, phase = "migrate", RecordStatement, KeysFit, Advance, UNCHANGED <<cut, misread>>
  PROVE  IInv'
<1>1. Recording
  BY KindIsPlace DEF RecordStatement, IInv
<1>2. /\ UNCHANGED <<tables, indexes, legacy, fields, rows, copy, records, kept, faults,
                     cut, misread>>
      /\ recorded' = recorded \union {at[1]}
      /\ at[1] \notin recorded
  BY DEF RecordStatement, KeysFit
<1>3. \/ at = <<1, 7>> /\ phase' = "migrate" /\ at' = <<2, 1>> /\ Placed'
      \/ at = <<2, 4>> /\ phase' = "migrate" /\ at' = <<3, 1>> /\ Placed'
      \/ at = <<3, 2>> /\ phase' = "migrate" /\ at' = <<4, 1>> /\ Placed'
      \/ at = <<4, 3>> /\ phase' = "migrate" /\ at' = <<5, 1>> /\ Placed'
      \/ at = <<5, 10>> /\ phase' = "serve" /\ at' = <<0, 0>> /\ Placed'
  BY <1>1, GoesFurther DEF Recording, Is, Leaves
<1>4. recorded = 1..(at[1] - 1) /\ recorded' = 1..at[1]
  BY <1>2, <1>3 DEF IInv, Ordered
<1>5. Typed'
  BY <1>2, <1>3 DEF IInv, Typed
<1>6. Ordered'
  BY <1>2, <1>3, <1>4 DEF Ordered
<1>7. RowsKept'
  BY <1>2, <1>3, <1>4 DEF IInv, RowsKept, Within
<1>8. Built'
  BY <1>2, <1>3, <1>4 DEF IInv, Built, Within
<1>9. Swapped'
  BY <1>2, <1>3, <1>4 DEF IInv, Swapped, Within
<1>10. SwapStands'
  BY <1>2, <1>3, <1>4 DEF IInv, Built, SwapStands, Within
<1> QED
  BY <1>5, <1>6, <1>7, <1>8, <1>9, <1>10 DEF IInv

\* Every statement of a migration keeps the invariant.
LEMMA ExecuteKeeps ==
  ASSUME IInv, Execute
  PROVE  IInv'
BY CreateKeeps, IndexKeeps, ColumnKeeps, CopyKeeps, DropKeeps, RenameKeeps, RecordKeeps
   DEF Execute, CanExecute

------------------------------------------------------------------------------
(* The process *)

\* A step that leaves the data alone and ends at no statement, or at a first one: what
\* a swap may have left behind is all that is to be asked about.
LEMMA DataKeep ==
  ASSUME IInv, UNCHANGED <<tables, indexes, legacy, fields, rows, copy, records, recorded, kept>>,
         phase' = "migrate" => at'[2] = 1,
         ~cut' => ~cut /\ copy = {} /\ (1 \in recorded => "executions" \in tables)
  PROVE  RowsKept' /\ Built' /\ Swapped' /\ SwapStands'
<1>1. RowsKept'
  BY DEF IInv, RowsKept, Within
<1>2. Built'
  BY DEF IInv, Built, Within
<1>3. Swapped'
  BY DEF IInv, Swapped, Within
<1>4. SwapStands'
  BY DEF IInv, SwapStands, Within
<1> QED
  BY <1>1, <1>2, <1>3, <1>4

\* Outside the migrations no swap is under way.
LEMMA NoSwap ==
  ASSUME IInv, phase # "migrate"
  PROVE  ~cut => copy = {} /\ (1 \in recorded => "executions" \in tables)
BY DEF IInv, SwapStands, Within

\* A process that is started and loads its configuration keeps the invariant.
LEMMA LoadKeeps ==
  ASSUME IInv, Boot \/ LoadConfig
  PROVE  IInv'
<1>1. /\ phase # "migrate" /\ phase' \in {"down", "load", "open"}
      /\ UNCHANGED <<dataVars, at, faults, historyVars>>
  BY DEF Boot, LoadConfig
<1>2. Typed' /\ Ordered'
  BY <1>1 DEF IInv, Typed, Placed, Ordered, dataVars, historyVars
<1> QED
  BY <1>1, <1>2, NoSwap, DataKeep DEF IInv, dataVars, historyVars

\* The look at the recorded version keeps the invariant, an error included.
LEMMA OpenKeeps ==
  ASSUME IInv, Open
  PROVE  IInv'
<1>1. /\ phase = "open" /\ UNCHANGED <<tables, indexes, legacy, fields, rows, copy, records,
                                       recorded, cut, kept>>
  BY DEF Open, dataVars
<1>2. PICK n \in 0..5 : recorded = 1..n
  BY DEF IInv, Ordered
<1>3. \/ ReadVersion(n) /\ UNCHANGED <<faults, misread>>
      \/ ReadVersion(0) /\ faults < MaxFaults /\ faults' = faults + 1 /\ misread' = (recorded # {})
  <2>1. ASSUME NEW v \in {0} \union recorded, \A w \in recorded : w <= v
        PROVE  v = n
    <3>1. n = 0 \/ n \in recorded
      BY <1>2
    <3> QED
      BY <1>2, <2>1, <3>1
  <2> QED
    BY <2>1 DEF Open
<1>4. /\ faults' \in 0..MaxFaults
  BY <1>3, MigrationsAssumption DEF IInv, Typed
<1>5. misread' \in BOOLEAN
  BY <1>3, Zenon DEF IInv, Typed
<1>6. CASE ReadVersion(n) /\ n = 5
  <2>1. phase' = "serve" /\ at' = <<0, 0>>
    BY <1>6, VersionReadLeads
  <2>2. Placed'
    BY <2>1 DEF Placed
  <2>3. Typed'
    BY <1>1, <1>4, <1>5, <2>1, <2>2 DEF IInv, Typed
  <2>4. Ordered'
    BY <1>1, <1>2, <1>6, <2>1 DEF Ordered
  <2> QED
    BY <1>1, <2>1, <2>3, <2>4, NoSwap, DataKeep DEF IInv
<1>7. CASE ReadVersion(n) /\ n # 5
  <2>1. phase' = "migrate" /\ at' = <<n + 1, 1>> /\ n + 1 \in 1..5
    BY <1>7, VersionReadLeads
  <2>2. Placed'
    BY <2>1, EntersAt
  <2>3. Typed'
    BY <1>1, <1>4, <1>5, <2>1, <2>2 DEF IInv, Typed
  <2>4. at'[1] = n + 1 /\ at'[2] = 1
    BY <2>1
  <2>5. Ordered'
    BY <1>1, <1>2, <2>1, <2>4 DEF IInv, Ordered
  <2> QED
    BY <1>1, <2>3, <2>4, <2>5, NoSwap, DataKeep DEF IInv
<1>8. CASE ReadVersion(0) /\ misread' = (recorded # {})
  <2>1. phase' = "migrate" /\ at' = <<1, 1>>
    BY <1>8, VersionReadLeads
  <2>2. Placed'
    BY <2>1, EntersAt
  <2>3. Typed'
    BY <1>1, <1>4, <1>5, <2>1, <2>2 DEF IInv, Typed
  <2>4. at'[1] = 1 /\ at'[2] = 1
    BY <2>1
  <2>5. n = 0 \/ (misread' /\ 1 \in recorded)
    <3>1. n # 0 => 1 \in recorded
      BY <1>2
    <3>2. 1 \in recorded => misread'
      BY <1>8
    <3> QED
      BY <3>1, <3>2
  <2>6. Ordered'
    BY <1>1, <1>2, <2>1, <2>4, <2>5 DEF IInv, Ordered
  <2> QED
    BY <1>1, <2>3, <2>4, <2>6, NoSwap, DataKeep DEF IInv
<1> QED
  BY <1>3, <1>6, <1>7, <1>8

\* A process that ends stands nowhere.
LEMMA ExitTyped ==
  ASSUME IInv, Exit, UNCHANGED <<dataVars, kept>>, faults' \in 0..MaxFaults, cut' \in BOOLEAN
  PROVE  Typed' /\ Ordered'
<1>1. phase' = "down" /\ at' = <<0, 0>> /\ misread' = FALSE
  BY DEF Exit
<1>2. Placed'
  BY <1>1 DEF Placed
<1>3. Typed'
  BY <1>1, <1>2 DEF IInv, Typed, dataVars
<1> QED
  BY <1>1, <1>3 DEF IInv, Ordered, dataVars

\* Inside the swap, as long as none was cut off before, every statement fits.
LEMMA SwapFits ==
  ASSUME IInv, phase = "migrate", ~CanExecute, ~cut
  PROVE  ~Within(5, 3, 6)
<1> SUFFICES ASSUME Within(5, 3, 6)
             PROVE  FALSE
  OBVIOUS
<1>1. at = <<5, 3>> \/ at = <<5, 4>> \/ at = <<5, 5>> \/ at = <<5, 6>>
  BY DEF IInv, Typed, Placed, Within
<1>2. 1 \in recorded
  BY <1>1 DEF IInv, Ordered
<1>3. CASE at = <<5, 3>> \/ at = <<5, 4>>
  <2>1. Statement.do = "unindex"
    BY <1>3, ScriptSays, KindsDiffer DEF Statement
  <2> QED
    BY <2>1, KindsDiffer DEF CanExecute, TablesFit, KeysFit, RowsFit
<1>4. CASE at = <<5, 5>>
  <2>1. Statement.do = "drop"
    BY <1>4, ScriptSays, KindsDiffer DEF Statement
  <2>2. "executions" \in tables
    BY <1>2, <1>4 DEF IInv, SwapStands, Within
  <2> QED
    BY <2>1, <2>2, KindsDiffer DEF CanExecute, TablesFit, KeysFit, RowsFit
<1>5. CASE at = <<5, 6>>
  <2>1. Statement.do = "rename"
    BY <1>5, ScriptSays, KindsDiffer DEF Statement
  <2>2. "executions" \notin tables
    BY <1>5 DEF IInv, SwapStands, Within
  <2> QED
    BY <2>1, <2>2, KindsDiffer DEF CanExecute, TablesFit, KeysFit, RowsFit
<1> QED
  BY <1>1, <1>3, <1>4, <1>5

\* A start that ends at a statement which cannot be executed keeps the invariant.
LEMMA RefuseKeeps ==
  ASSUME IInv, Refuse
  PROVE  IInv'
<1>1. Exit /\ phase' = "down" /\ UNCHANGED <<dataVars, faults, cut, kept>>
  BY DEF Refuse, Exit
<1>2. Typed' /\ Ordered'
  BY <1>1, ExitTyped DEF IInv, Typed
<1>3. ~cut' => ~cut /\ copy = {} /\ (1 \in recorded => "executions" \in tables)
  <2>1. ~cut => ~Within(5, 3, 6)
    BY SwapFits DEF Refuse
  <2>2. Within(5, 6, 6) => Within(5, 3, 6)
    BY DEF Within
  <2> QED
    BY <1>1, <2>1, <2>2 DEF IInv, SwapStands
<1> QED
  BY <1>1, <1>2, <1>3, DataKeep DEF IInv, dataVars

\* A kill at any statement keeps the invariant.
LEMMA DieKeeps ==
  ASSUME IInv, Die
  PROVE  IInv'
<1>1. Exit /\ phase' = "down" /\ UNCHANGED <<dataVars, kept>>
  BY DEF Die, Exit
<1>2. faults' \in 0..MaxFaults
  BY MigrationsAssumption DEF Die, IInv, Typed
<1>3. cut' = (cut \/ InSwap)
  BY DEF Die
<1>4. cut' \in BOOLEAN /\ (~cut' => ~cut /\ ~InSwap)
  BY <1>3, Zenon DEF IInv, Typed, InSwap
<1>5. Typed' /\ Ordered'
  BY <1>1, <1>2, <1>4, ExitTyped
<1>6. ASSUME ~cut, ~InSwap
      PROVE  copy = {} /\ (1 \in recorded => "executions" \in tables)
  <2>1. ~Within(5, 6, 6)
    BY <1>6 DEF IInv, SwapStands, InSwap, Within
  <2>2. 1 \in recorded => "executions" \in tables
    BY <1>6, <2>1 DEF IInv, SwapStands
  <2>3. CASE Within(5, 3, 5)
    <3>1. phase = "migrate" /\ at[1] = 5 /\ at[2] \in 2..6
      BY <2>3 DEF Within
    <3>2. 1 \in recorded /\ "executions_new" \in tables
      BY <3>1 DEF IInv, Ordered, SwapStands, Within
    <3>3. Ids(rows) \cap Ids(copy) = {} /\ Ids(copy) = Ids(rows)
      BY <1>6, <2>2, <2>3, <3>1, <3>2 DEF IInv, SwapStands, InSwap
    <3>4. Ids(copy) = {}
      BY <3>3
    <3> QED
      BY <2>2, <3>4 DEF Ids
  <2>4. CASE ~Within(5, 3, 5)
    <3>1. ~Within(5, 3, 6)
      BY <2>1, <2>4 DEF Within
    <3> QED
      BY <1>6, <2>2, <3>1 DEF IInv, SwapStands
  <2> QED
    BY <2>3, <2>4
<1> QED
  BY <1>1, <1>4, <1>5, <1>6, DataKeep DEF IInv, dataVars

\* What the server writes.
LEMMA WorkKeeps ==
  ASSUME IInv, \/ \E e \in ExecId, trigger \in {"cron", "manual"} : Insert(e, trigger)
               \/ \E r \in rows : Finish(r)
  PROVE  IInv'
<1>1. /\ phase = "serve" /\ rows' \subseteq Row /\ records' \subseteq ExecId
      /\ UNCHANGED <<tables, indexes, legacy, fields, copy, recorded, phase, at, faults,
                     historyVars>>
  <2>1. CASE \E e \in ExecId, trigger \in {"cron", "manual"} : Insert(e, trigger)
    <3>1. PICK e \in ExecId, trigger \in {"cron", "manual"} : Insert(e, trigger)
      BY <2>1
    <3>2. [id |-> e, trigger |-> trigger, running |-> TRUE] \in Row
      BY DEF Row
    <3> QED
      BY <3>1, <3>2 DEF Insert, IInv, Typed
  <2>2. CASE \E r \in rows : Finish(r)
    <3>1. PICK r \in rows : Finish(r)
      BY <2>2
    <3>2. r \in Row /\ [r EXCEPT !.running = FALSE] \in Row /\ r.id \in ExecId
      BY DEF IInv, Typed, Row
    <3> QED
      BY <3>1, <3>2 DEF Finish, IInv, Typed
  <2> QED
    BY <2>1, <2>2
<1>2. 5 \in recorded /\ "executions" \in tables
  BY <1>1 DEF IInv, Ordered, Swapped
<1>3. Typed'
  BY <1>1 DEF IInv, Typed, Placed, historyVars
<1>4. Ordered'
  BY <1>1 DEF IInv, Ordered, historyVars
<1>5. RowsKept'
  BY <1>1, <1>2 DEF RowsKept, Within
<1>6. Built' /\ Swapped' /\ SwapStands'
  BY <1>1 DEF IInv, Built, Swapped, SwapStands, Within, historyVars
<1> QED
  BY <1>3, <1>4, <1>5, <1>6 DEF IInv

------------------------------------------------------------------------------
(* The databases the program may find *)

\* Names, without the set of places.
LEMMA NameIs ==
  ASSUME NEW v \in 1..5, NEW what, NEW x
  PROVE  x \in Names(v, what) <=>
           \E i \in 1..Len(Script[v]) : Script[v][i].do = what /\ Script[v][i].name = x
<1>1. DOMAIN Script[v] = 1..Len(Script[v])
  BY ScriptSays
<1> QED
  BY <1>1 DEF Names

\* The statements of each migration, with their names.
LEMMA Named ==
  /\ \A n : Create(n).name = n /\ CreateIndex(n).name = n
            /\ DropColumn(n).name = n /\ DropIndex(n).name = n
  /\ CopyRows.name = "executions_new" /\ DropTable.name = "executions"
  /\ RenameTable.name = "executions_new" /\ Record.name = "schema_migrations"
BY DEF Create, CreateIndex, DropColumn, DropIndex, CopyRows, DropTable, RenameTable, Record

\* What each migration creates and drops, by name.
LEMMA NamesSay ==
  /\ Names(1, "create") = {"jobs", "executions", "channels", "providers"}
  /\ Names(2, "create") = {"job_steps", "execution_steps"}
  /\ Names(3, "create") = {} /\ Names(4, "create") = {}
  /\ Names(5, "create") = {"executions_new"}
  /\ Names(1, "index") = {"idx_jobs_next_run_at", "idx_exec_job_sched"}
  /\ Names(2, "index") = {"idx_execution_steps_exec"}
  /\ Names(3, "index") = {"uniq_running_job"}
  /\ Names(4, "index") = {}
  /\ Names(5, "index") = {"uniq_running_job", "idx_exec_job_sched", "uniq_idempotency"}
  /\ LegacyColumns = {"message", "channels_json"}
<1>1. \A what, x : x \in Names(1, what) <=>
       \E i \in {1, 2, 3, 4, 5, 6, 7} :
          Script[1][i].do = what /\ Script[1][i].name = x
  <2>1. \A i : i \in 1..7 <=> i \in {1, 2, 3, 4, 5, 6, 7}
    OBVIOUS
  <2>2. \A what, x : x \in Names(1, what) <=>
          \E i \in 1..Len(Script[1]) : Script[1][i].do = what /\ Script[1][i].name = x
    BY NameIs
  <2>3. Len(Script[1]) = 7
    BY Lengths
  <2> QED
    BY <2>1, <2>2, <2>3
<1>2. \A what, x : x \in Names(2, what) <=>
       \E i \in {1, 2, 3, 4} :
          Script[2][i].do = what /\ Script[2][i].name = x
  <2>1. \A i : i \in 1..4 <=> i \in {1, 2, 3, 4}
    OBVIOUS
  <2>2. \A what, x : x \in Names(2, what) <=>
          \E i \in 1..Len(Script[2]) : Script[2][i].do = what /\ Script[2][i].name = x
    BY NameIs
  <2>3. Len(Script[2]) = 4
    BY Lengths
  <2> QED
    BY <2>1, <2>2, <2>3
<1>3. \A what, x : x \in Names(3, what) <=>
       \E i \in {1, 2} :
          Script[3][i].do = what /\ Script[3][i].name = x
  <2>1. \A i : i \in 1..2 <=> i \in {1, 2}
    OBVIOUS
  <2>2. \A what, x : x \in Names(3, what) <=>
          \E i \in 1..Len(Script[3]) : Script[3][i].do = what /\ Script[3][i].name = x
    BY NameIs
  <2>3. Len(Script[3]) = 2
    BY Lengths
  <2> QED
    BY <2>1, <2>2, <2>3
<1>4. \A what, x : x \in Names(4, what) <=>
       \E i \in {1, 2, 3} :
          Script[4][i].do = what /\ Script[4][i].name = x
  <2>1. \A i : i \in 1..3 <=> i \in {1, 2, 3}
    OBVIOUS
  <2>2. \A what, x : x \in Names(4, what) <=>
          \E i \in 1..Len(Script[4]) : Script[4][i].do = what /\ Script[4][i].name = x
    BY NameIs
  <2>3. Len(Script[4]) = 3
    BY Lengths
  <2> QED
    BY <2>1, <2>2, <2>3
<1>5. \A what, x : x \in Names(5, what) <=>
       \E i \in {1, 2, 3, 4, 5, 6, 7, 8, 9, 10} :
          Script[5][i].do = what /\ Script[5][i].name = x
  <2>1. \A i : i \in 1..10 <=> i \in {1, 2, 3, 4, 5, 6, 7, 8, 9, 10}
    OBVIOUS
  <2>2. \A what, x : x \in Names(5, what) <=>
          \E i \in 1..Len(Script[5]) : Script[5][i].do = what /\ Script[5][i].name = x
    BY NameIs
  <2>3. Len(Script[5]) = 10
    BY Lengths
  <2> QED
    BY <2>1, <2>2, <2>3
<1>6. \A x : x \in Names(1, "create") <=> x \in {"jobs", "executions", "channels", "providers"}
  BY <1>1, ScriptSays, KindsDiffer, Named
<1>7. \A x : x \in Names(2, "create") <=> x \in {"job_steps", "execution_steps"}
  BY <1>2, ScriptSays, KindsDiffer, Named
<1>8. \A x : x \in Names(3, "create") <=> x \in {}
  BY <1>3, ScriptSays, KindsDiffer, Named
<1>9. \A x : x \in Names(4, "create") <=> x \in {}
  BY <1>4, ScriptSays, KindsDiffer, Named
<1>10. \A x : x \in Names(5, "create") <=> x \in {"executions_new"}
  BY <1>5, ScriptSays, KindsDiffer, Named
<1>11. \A x : x \in Names(1, "index") <=> x \in {"idx_jobs_next_run_at", "idx_exec_job_sched"}
  BY <1>1, ScriptSays, KindsDiffer, Named
<1>12. \A x : x \in Names(2, "index") <=> x \in {"idx_execution_steps_exec"}
  BY <1>2, ScriptSays, KindsDiffer, Named
<1>13. \A x : x \in Names(3, "index") <=> x \in {"uniq_running_job"}
  BY <1>3, ScriptSays, KindsDiffer, Named
<1>14. \A x : x \in Names(4, "index") <=> x \in {}
  BY <1>4, ScriptSays, KindsDiffer, Named
<1>15. \A x : x \in Names(5, "index") <=> x \in {"uniq_running_job", "idx_exec_job_sched", "uniq_idempotency"}
  BY <1>5, ScriptSays, KindsDiffer, Named
<1>16. \A x : x \in LegacyColumns <=> x \in {"message", "channels_json"}
  BY <1>4, ScriptSays, KindsDiffer, Named DEF LegacyColumns
<1> QED
  BY <1>6, <1>7, <1>8, <1>9, <1>10, <1>11, <1>12, <1>13, <1>14, <1>15, <1>16

\* What the migrations up to version v create.
LEMMA UpTo ==
  ASSUME NEW n \in 0..5, NEW what
  PROVE  /\ \A x : x \in UNION {Names(w, what) : w \in 1..n} <=>
                     \/ n >= 1 /\ x \in Names(1, what)
                     \/ n >= 2 /\ x \in Names(2, what)
                     \/ n >= 3 /\ x \in Names(3, what)
                     \/ n >= 4 /\ x \in Names(4, what)
                     \/ n >= 5 /\ x \in Names(5, what)
<1>1. \A w : w \in 1..n <=> w \in {1, 2, 3, 4, 5} /\ n >= w
  OBVIOUS
<1> QED
  BY <1>1

\* What the migrations up to n create, by name.
LEMMA NamesUpTo ==
  ASSUME NEW n \in 0..5
  PROVE  /\ \A x : x \in UNION {Names(w, "create") : w \in 1..n} <=>
              \/ n >= 1 /\ x \in {"jobs", "executions", "channels", "providers"}
              \/ n >= 2 /\ x \in {"job_steps", "execution_steps"}
              \/ n >= 5 /\ x = "executions_new"
         /\ \A x : x \in UNION {Names(w, "index") : w \in 1..n} <=>
              \/ n >= 1 /\ x \in {"idx_jobs_next_run_at", "idx_exec_job_sched"}
              \/ n >= 2 /\ x = "idx_execution_steps_exec"
              \/ n >= 3 /\ x = "uniq_running_job"
              \/ n >= 5 /\ x = "uniq_idempotency"
<1>1. \A x : x \in UNION {Names(w, "create") : w \in 1..n} <=>
              \/ n >= 1 /\ x \in {"jobs", "executions", "channels", "providers"}
              \/ n >= 2 /\ x \in {"job_steps", "execution_steps"}
              \/ n >= 3 /\ x \in {}
              \/ n >= 4 /\ x \in {}
              \/ n >= 5 /\ x \in {"executions_new"}
  <2>1. \A x : x \in UNION {Names(w, "create") : w \in 1..n} <=>
                     \/ n >= 1 /\ x \in Names(1, "create")
                     \/ n >= 2 /\ x \in Names(2, "create")
                     \/ n >= 3 /\ x \in Names(3, "create")
                     \/ n >= 4 /\ x \in Names(4, "create")
                     \/ n >= 5 /\ x \in Names(5, "create")
    BY UpTo
  <2> QED
    BY <2>1, NamesSay
<1>2. \A x : x \in UNION {Names(w, "index") : w \in 1..n} <=>
              \/ n >= 1 /\ x \in {"idx_jobs_next_run_at", "idx_exec_job_sched"}
              \/ n >= 2 /\ x \in {"idx_execution_steps_exec"}
              \/ n >= 3 /\ x \in {"uniq_running_job"}
              \/ n >= 4 /\ x \in {}
              \/ n >= 5 /\ x \in {"uniq_running_job", "idx_exec_job_sched", "uniq_idempotency"}
  <2>1. \A x : x \in UNION {Names(w, "index") : w \in 1..n} <=>
                     \/ n >= 1 /\ x \in Names(1, "index")
                     \/ n >= 2 /\ x \in Names(2, "index")
                     \/ n >= 3 /\ x \in Names(3, "index")
                     \/ n >= 4 /\ x \in Names(4, "index")
                     \/ n >= 5 /\ x \in Names(5, "index")
    BY UpTo
  <2> QED
    BY <2>1, NamesSay
<1> QED
  BY <1>1, <1>2

\* All migrations together create these tables and indexes.
LEMMA TablesSay ==
  /\ UNION {Names(v, "create") : v \in Versions} = AllTables
  /\ UNION {Names(v, "index") : v \in Versions} = AllIndexes
<1>1. Versions = 1..5
  BY Lengths DEF Versions
<1>2. \A x : x \in UNION {Names(v, "create") : v \in 1..5} <=> x \in AllTables
  BY NamesUpTo DEF AllTables
<1>3. \A x : x \in UNION {Names(v, "index") : v \in 1..5} <=> x \in AllIndexes
  BY NamesUpTo DEF AllIndexes
<1> QED
  BY <1>1, <1>2, <1>3

\* A database of any version satisfies the invariant.
LEMMA InitIInv ==
  ASSUME MigrationsInit
  PROVE  IInv
<1>1. PICK v \in 0..5, old \in BOOLEAN : AtVersion(v, old)
  BY Lengths DEF MigrationsInit, Versions
<1>2. /\ copy = {} /\ phase = "down" /\ at = <<0, 0>> /\ faults = 0
      /\ cut = FALSE /\ misread = FALSE /\ kept = FALSE
  BY DEF MigrationsInit
<1>3. \A x : x \in tables =>
        \/ x \in {"jobs", "executions", "channels", "providers"} /\ (v >= 1 \/ old)
        \/ x \in {"job_steps", "execution_steps"} /\ v >= 2
  <2>1. CASE v = 0 /\ ~old
    BY <1>1, <2>1 DEF AtVersion
  <2>2. CASE v = 0 /\ old
    <3>1. tables = (UNION {Names(w, "create") : w \in 1..1}) \ {"executions_new"}
      BY <1>1, <2>2 DEF AtVersion
    <3> QED
      BY <2>2, <3>1, NamesUpTo
  <2>3. CASE v # 0
    <3>1. tables = (UNION {Names(w, "create") : w \in 1..v}) \ {"executions_new"}
      BY <1>1, <2>3 DEF AtVersion
    <3> QED
      BY <2>3, <3>1, NamesUpTo
  <2> QED
    BY <2>1, <2>2, <2>3
<1>4. /\ v >= 1 => {"jobs", "executions", "channels", "providers"} \subseteq tables
      /\ v >= 2 => {"job_steps", "execution_steps"} \subseteq tables
  <2>1. v >= 1 => tables = (UNION {Names(w, "create") : w \in 1..v}) \ {"executions_new"}
    BY <1>1 DEF AtVersion
  <2> QED
    BY <2>1, NamesUpTo
<1>5. \A x : x \in indexes <=>
        \/ v >= 1 /\ x \in {"idx_jobs_next_run_at", "idx_exec_job_sched"}
        \/ v >= 2 /\ x = "idx_execution_steps_exec"
        \/ v >= 3 /\ x = "uniq_running_job"
        \/ v >= 5 /\ x = "uniq_idempotency"
  <2>1. indexes = UNION {Names(w, "index") : w \in 1..v}
    BY <1>1 DEF AtVersion
  <2> QED
    BY <2>1, NamesUpTo
<1>6. /\ recorded = 1..v
      /\ legacy \subseteq {"message", "channels_json"} /\ (v >= 4 => legacy = {})
      /\ fields \in {"v1", "v5"} /\ (v = 5 => fields = "v5")
  BY <1>1, NamesSay DEF AtVersion
<1>7. /\ rows \subseteq Row /\ \A r \in rows : r.trigger = "cron"
      /\ records \subseteq ExecId /\ (tables = {} => rows = {})
  <2>1. /\ rows \subseteq [id : ExecId, trigger : {"cron"}, running : BOOLEAN]
        /\ records \subseteq Ids(rows) /\ (tables = {} => rows = {})
    BY <1>1 DEF AtVersion
  <2>2. rows \subseteq Row /\ \A r \in rows : r.trigger = "cron" /\ r.id \in ExecId
    BY <2>1 DEF Row
  <2> QED
    BY <2>1, <2>2 DEF Ids
<1>8. Typed
  <2>1. tables \subseteq AllTables /\ indexes \subseteq AllIndexes
    BY <1>3, <1>5 DEF AllTables, AllIndexes
  <2>2. Placed
    BY <1>2 DEF Placed
  <2>3. faults \in 0..MaxFaults
    BY <1>2, MigrationsAssumption
  <2> QED
    BY <1>2, <1>6, <1>7, <2>1, <2>2, <2>3 DEF Typed
<1>9. Ordered
  BY <1>2, <1>6 DEF Ordered
<1>10. RowsKept
  <2>1. "executions" \notin tables => tables = {}
    <3>1. CASE v = 0 /\ old
      <4>1. tables = (UNION {Names(w, "create") : w \in 1..1}) \ {"executions_new"}
        BY <1>1, <3>1 DEF AtVersion
      <4> QED
        BY <4>1, NamesUpTo
    <3>2. CASE v = 0 /\ ~old
      BY <1>1, <3>2 DEF AtVersion
    <3>3. CASE v # 0
      BY <1>4, <3>3
    <3> QED
      BY <3>1, <3>2, <3>3
  <2> QED
    BY <1>2, <1>7, <2>1 DEF RowsKept, Within
<1>11. Built
  BY <1>2, <1>4, <1>5, <1>6 DEF Built, Within
<1>12. Swapped
  BY <1>2, <1>3, <1>4, <1>5, <1>6 DEF Swapped, Within
<1>13. SwapStands
  BY <1>2, <1>4, <1>6 DEF SwapStands, Within
<1> QED
  BY <1>8, <1>9, <1>10, <1>11, <1>12, <1>13 DEF IInv

\* Every step keeps the invariant.
LEMMA NextKeeps ==
  ASSUME IInv, [Next]_vars
  PROVE  IInv'
<1>1. CASE UNCHANGED dbVars
  <2>1. UNCHANGED <<tables, indexes, legacy, fields, rows, copy, records, recorded,
                    phase, at, faults, cut, misread, kept>>
    BY <1>1 DEF dbVars, dataVars, historyVars
  <2>2. Typed'
    BY <2>1 DEF IInv, Typed, Placed
  <2>3. Ordered' /\ RowsKept'
    BY <2>1 DEF IInv, Ordered, RowsKept, Within
  <2>4. Built'
    BY <2>1 DEF IInv, Built, Within
  <2>5. Swapped' /\ SwapStands'
    BY <2>1 DEF IInv, Swapped, SwapStands, Within
  <2> QED
    BY <2>2, <2>3, <2>4, <2>5 DEF IInv
<1>2. CASE Boot \/ LoadConfig
  BY <1>2, LoadKeeps
<1>3. CASE OpenStore
  BY <1>3, OpenKeeps DEF OpenStore
<1>4. CASE Migrate
  BY <1>4, ExecuteKeeps, RefuseKeeps DEF Migrate
<1>5. CASE Work
  BY <1>5, WorkKeeps DEF Work
<1>6. CASE Session
  BY <1>1, <1>6 DEF Session
<1>7. CASE Kill
  BY <1>7, DieKeeps DEF Kill
<1> QED
  BY <1>1, <1>2, <1>3, <1>4, <1>5, <1>6, <1>7 DEF Next, vars

\* What the recorded versions and the statements already executed promise holds in
\* every state of every start (runMigrations), over any database and any kills.
THEOREM Invariant == Spec => []IInv
<1>1. Init => IInv
  BY InitIInv DEF Init
<1>2. IInv /\ [Next]_vars => IInv'
  BY NextKeeps
<1> QED
  BY <1>1, <1>2, PTL DEF Spec

------------------------------------------------------------------------------
(* What follows *)

\* A server that listens has the tables, the indexes and the columns its statements are
\* written for (runMigrations), and no leftovers of any start before.
THEOREM SchemaOfTheServer == Spec => []ServedSchemaIsCurrent
<1>1. ASSUME IInv, phase = "serve"
      PROVE  /\ recorded = 1..5
             /\ tables = AllTables \ {"executions_new"}
             /\ indexes = AllIndexes
             /\ fields = "v5" /\ copy = {}
             /\ legacy = {} \/ kept
  <2>1. recorded = 1..5
    BY <1>1 DEF IInv, Ordered
  <2>7. 1 \in recorded /\ 2 \in recorded /\ 5 \in recorded
    BY <2>1
  <2>2. \A x : x \in tables <=> x \in AllTables \ {"executions_new"}
    <3>1. tables \subseteq AllTables /\ "executions_new" \notin tables
      BY <1>1, <2>7 DEF IInv, Typed, Swapped
    <3>2. /\ "jobs" \in tables /\ "executions" \in tables /\ "channels" \in tables
          /\ "providers" \in tables /\ "job_steps" \in tables /\ "execution_steps" \in tables
      BY <1>1, <2>7 DEF IInv, Built, Swapped
    <3> QED
      BY <3>1, <3>2 DEF AllTables
  <2>3. \A x : x \in indexes <=> x \in AllIndexes
    <3>1. indexes \subseteq AllIndexes
      BY <1>1 DEF IInv, Typed
    <3>2. /\ "idx_jobs_next_run_at" \in indexes /\ "idx_execution_steps_exec" \in indexes
          /\ "uniq_running_job" \in indexes /\ "idx_exec_job_sched" \in indexes
          /\ "uniq_idempotency" \in indexes
      BY <1>1, <2>7 DEF IInv, Built, Swapped
    <3> QED
      BY <3>1, <3>2 DEF AllIndexes
  <2>4. fields = "v5" /\ copy = {}
    BY <2>1, <1>1 DEF IInv, Swapped
  <2>5. legacy = {} \/ kept
    BY <2>1, <1>1 DEF IInv, Typed, Built
  <2> QED
    BY <2>1, <2>2, <2>3, <2>4, <2>5
<1>2. IInv => ServedSchemaIsCurrent
  BY <1>1, TablesSay, Lengths DEF ServedSchemaIsCurrent, Versions
<1> QED
  BY <1>2, Invariant, PTL

\* A start that is refused its next statement has a reason in an earlier start: one that
\* was cut off between the copy and the rename of migration 5, two executions an old
\* server left running, or a version that could not be read this time (Open).
THEOREM RefusalsHaveCauses == Spec => []EveryRefusalHasACause
<1>1. ASSUME IInv, phase = "migrate", ~cut, ~misread
      PROVE  TablesFit /\ KeysFit
  <2>1. recorded = 1..(at[1] - 1) /\ at[1] \in 1..5
    BY <1>1 DEF IInv, Typed, Placed, Ordered
  <2>2. at[1] \notin recorded
    BY <2>1
  <2>3. Statement.do = "copy" => at = <<5, 2>> /\ copy = {}
    BY <1>1, KindIsPlace DEF IInv, SwapStands, Within, Is
  <2>4. Statement.do \in {"copy", "drop"} => "executions" \in tables
    <3>1. ASSUME Statement.do \in {"copy", "drop"}
          PROVE  at = <<5, 2>> \/ at = <<5, 5>>
      BY <1>1, <3>1, KindIsPlace DEF IInv, Is
    <3>2. at = <<5, 2>> \/ at = <<5, 5>> => "executions" \in tables
      BY <1>1, <2>1 DEF IInv, SwapStands, Within
    <3> QED
      BY <3>1, <3>2
  <2>5. Statement.do = "rename" => "executions" \notin tables
    BY <1>1, KindIsPlace DEF IInv, SwapStands, Within, Is
  <2> QED
    BY <2>2, <2>3, <2>4, <2>5 DEF TablesFit, KeysFit, Ids
<1>2. IInv => EveryRefusalHasACause
  BY <1>1 DEF EveryRefusalHasACause, CanExecute, RowsFit
<1> QED
  BY <1>2, Invariant, PTL

\* No statement of a start, whatever was cut off before it, loses an execution: it is in
\* the table or in the copy (DROP TABLE executions against the INSERT before it).
THEOREM ExecutionsAreKept == Spec => ExecutionsSurvive
<1>1. ASSUME IInv, Execute
      PROVE  Ids(rows) \union Ids(copy) \subseteq Ids(rows') \union Ids(copy')
  <2>1. CASE UNCHANGED <<rows, copy>>
    BY <2>1 DEF Ids
  <2>2. CASE CopyStatement
    BY <2>2 DEF CopyStatement, Ids
  <2>3. CASE DropStatement
    <3>1. at = <<5, 5>>
      BY <1>1, <2>3, KindIsPlace DEF Execute, DropStatement, IInv, Is
    <3>2. Ids(rows) \subseteq Ids(copy)
      BY <1>1, <3>1 DEF Execute, IInv, RowsKept, Within
    <3> QED
      BY <2>3, <3>2 DEF DropStatement
  <2>4. CASE RenameStatement
    <3>1. at = <<5, 6>>
      BY <1>1, <2>4, KindIsPlace DEF Execute, RenameStatement, IInv, Is
    <3>2. rows = {}
      BY <1>1, <3>1 DEF Execute, IInv, SwapStands, RowsKept, Within
    <3> QED
      BY <2>4, <3>2 DEF RenameStatement, Ids
  <2> QED
    BY <1>1, <2>1, <2>2, <2>3, <2>4
       DEF Execute, CreateStatement, IndexStatement, ColumnStatement, RecordStatement
<1>2. ASSUME IInv, Work
      PROVE  Ids(rows) \union Ids(copy) \subseteq Ids(rows') \union Ids(copy')
  <2>1. CASE \E e \in ExecId, trigger \in {"cron", "manual"} : Insert(e, trigger)
    BY <2>1 DEF Insert, Ids
  <2>2. CASE \E r \in rows : Finish(r)
    <3>1. PICK r \in rows : Finish(r)
      BY <2>2
    <3>2. [r EXCEPT !.running = FALSE].id = r.id
      BY DEF IInv, Typed, Row
    <3> QED
      BY <3>1, <3>2, <1>2 DEF Finish, Ids
  <2> QED
    BY <1>2, <2>1, <2>2 DEF Work
<1>3. IInv /\ [Next]_vars => [Ids(rows) \union Ids(copy) \subseteq Ids(rows') \union Ids(copy')]_vars
  BY <1>1, <1>2 DEF Next, Boot, LoadConfig, OpenStore, Open, Migrate, Refuse, Session, Kill, Die,
                    dbVars, dataVars, Ids
<1> QED
  BY <1>3, Invariant, PTL DEF Spec, ExecutionsSurvive

\* No start touches an execution that a server of version 5 wrote: one that was
\* triggered by hand stays so (the SELECT of migration 5 makes every row a cron one).
THEOREM TriggersAreKept == Spec => TriggersSurvive
<1>1. ASSUME IInv, Execute
      PROVE  \A r \in rows : r.trigger = "manual" =>
               \E q \in rows' : q.id = r.id /\ q.trigger = "manual"
  <2>1. CASE UNCHANGED rows
    BY <2>1
  <2>2. CASE DropStatement
    <3>1. at = <<5, 5>>
      BY <1>1, <2>2, KindIsPlace DEF Execute, DropStatement, IInv, Is
    <3>2. 5 \notin recorded
      BY <1>1, <3>1 DEF Execute, IInv, Ordered
    <3> QED
      BY <1>1, <3>2 DEF IInv, RowsKept
  <2>3. CASE RenameStatement
    <3>1. at = <<5, 6>>
      BY <1>1, <2>3, KindIsPlace DEF Execute, RenameStatement, IInv, Is
    <3>2. rows = {}
      BY <1>1, <3>1 DEF Execute, IInv, SwapStands, RowsKept, Within
    <3> QED
      BY <3>2
  <2> QED
    BY <1>1, <2>1, <2>2, <2>3
       DEF Execute, CreateStatement, IndexStatement, ColumnStatement, CopyStatement, RecordStatement
<1>2. ASSUME IInv, Work
      PROVE  \A r \in rows : r.trigger = "manual" =>
               \E q \in rows' : q.id = r.id /\ q.trigger = "manual"
  <2>1. CASE \E e \in ExecId, trigger \in {"cron", "manual"} : Insert(e, trigger)
    BY <2>1 DEF Insert
  <2>2. CASE \E r \in rows : Finish(r)
    <3>1. PICK r \in rows : Finish(r)
      BY <2>2
    <3>2. [r EXCEPT !.running = FALSE].id = r.id /\ [r EXCEPT !.running = FALSE].trigger = r.trigger
      BY <1>2 DEF IInv, Typed, Row
    <3> QED
      BY <3>1, <3>2 DEF Finish
  <2> QED
    BY <1>2, <2>1, <2>2 DEF Work
<1>3. IInv /\ [Next]_vars =>
        [\A r \in rows : r.trigger = "manual" =>
            \E q \in rows' : q.id = r.id /\ q.trigger = "manual"]_vars
  BY <1>1, <1>2 DEF Next, Boot, LoadConfig, OpenStore, Open, Migrate, Refuse, Session, Kill, Die,
                    dbVars, dataVars
<1> QED
  BY <1>3, Invariant, PTL DEF Spec, TriggersSurvive

------------------------------------------------------------------------------
(* Types *)

\* A count of workers or of places is positive, whatever the sources say.
LEMMA CountIsPositive ==
  ASSUME NEW value \in Nat \ {0}, NEW given
  PROVE  Count(value, given) \in Nat \ {0}
<1>1. Positive(given) => Number[given] \in Int /\ Number[given] > 0
  BY ConfigAssumption DEF Positive
<1> QED
  BY <1>1 DEF Count

\* What Load returns has its types, whatever the file and the environment.
LEMMA LoadTyped ==
  ASSUME NEW file, NEW env
  PROVE  LET loaded == Load(file, env)
         IN /\ loaded.ok \in BOOLEAN
            /\ loaded.workers \in Nat \ {0} /\ loaded.size \in Nat \ {0}
            /\ loaded.late \in Nat \ {0}
<1>1. Load(file, env).ok \in BOOLEAN
  BY DEF Load
<1>2. Load(file, env).workers \in Nat \ {0} /\ Load(file, env).size \in Nat \ {0}
  <2>1. PICK a : Load(file, env).workers =
                   Count(Count(Count(10, a), env.WORKERS), env.QUEUE_WORKERS)
    BY Zenon DEF Load
  <2>2. PICK b : Load(file, env).size = Count(Count(100, b), env.QUEUE_SIZE)
    BY Zenon DEF Load
  <2>3. /\ Count(10, a) \in Nat \ {0} /\ Count(100, b) \in Nat \ {0}
    BY CountIsPositive
  <2> QED
    BY <2>1, <2>2, <2>3, CountIsPositive
<1>3. Load(file, env).late \in Nat \ {0}
  <2>1. \A text : text \in DOMAIN Duration => Duration[text] \in Int
    BY ConfigAssumption
  <2>2. PICK text : Load(file, env).late =
                      IF text \in DOMAIN Duration /\ Duration[text] > 0 THEN Duration[text] ELSE 2
    BY Zenon DEF Load
  <2> QED
    BY <2>1, <2>2
<1> QED
  BY <1>1, <1>2, <1>3

IsMail(m) ==
  \E c, code, f, result : /\ m = [case |-> c, code |-> code, failed |-> f, sent |-> result]
                         /\ code \in {0, 200, 400, 404}

\* A record of these fields is one of the mail variable's values.
LEMMA MailIs ==
  ASSUME NEW c, NEW code \in {0, 200, 400, 404}, NEW f, NEW result
  PROVE  IsMail([case |-> c, code |-> code, failed |-> f, sent |-> result])
<1> SUFFICES \E c1, code1, f1, result1 :
               /\ [case |-> c, code |-> code, failed |-> f, sent |-> result]
                    = [case |-> c1, code |-> code1, failed |-> f1, sent |-> result1]
               /\ code1 \in {0, 200, 400, 404}
  BY DEF IsMail
<1> QED
  BY ZenonT(30)

Settled ==
  /\ source \in Sources \union {NotLoaded}
  /\ settings # NotLoaded =>
       /\ settings.ok \in BOOLEAN
       /\ settings.workers \in Nat \ {0} /\ settings.size \in Nat \ {0}
       /\ settings.late \in Nat \ {0}
  /\ IsMail(mail)

\* The process stands at a statement of the script, the settings main goes on with are
\* usable numbers (Load), and everything else is of its type.
THEOREM Types == Spec => []TypeOK
<1>1. Init => Settled
  BY MailIs DEF Init, Settled, NoMail
<1>2. ASSUME Settled, [Next]_vars
      PROVE  Settled'
  <2>1. ASSUME ForgetMail
        PROVE  IsMail(mail')
    BY <2>1, MailIs DEF ForgetMail, NoMail
  <2>2. ASSUME UNCHANGED <<source, settings>>, IsMail(mail')
        PROVE  Settled'
    BY <1>2, <2>2 DEF Settled
  <2>3. UNCHANGED mail => IsMail(mail')
    BY <1>2 DEF Settled
  <2>4. CASE Boot \/ Migrate \/ UNCHANGED vars
    BY <2>2, <2>3, <2>4 DEF Boot, Migrate, vars
  <2>5. CASE LoadConfig
    <3>1. UNCHANGED <<source, mail>> /\ settings' = Load(source.file, source.env)
      BY <2>5 DEF LoadConfig
    <3> QED
      BY <1>2, <2>3, <3>1, LoadTyped DEF Settled
  <2>6. CASE OpenStore
    BY <1>2, <2>3, <2>6 DEF OpenStore, Settled
  <2>7. CASE Work \/ Kill
    BY <2>1, <2>2, <2>7 DEF Work, Kill
  <2>8. CASE Session
    <3>1. ASSUME NEW c, Diagnose(c, settings.mail)
          PROVE  IsMail(mail')
      <4>1. DiagnosisCode(c, settings.mail) \in {0, 200, 400, 404}
        BY DEF DiagnosisCode
      <4>2. PICK f : mail' = [case |-> c, code |-> DiagnosisCode(c, settings.mail),
                              failed |-> f, sent |-> "never"]
        <5>1. mail' = [case |-> c, code |-> DiagnosisCode(c, settings.mail), failed |-> mail'.failed,
                       sent |-> "never"]
          BY <3>1 DEF Diagnose
        <5> QED
          BY <5>1
      <4> QED
        BY <4>1, <4>2, MailIs
    <3>2. ASSUME SendMail(settings.mail)
          PROVE  IsMail(mail')
      <4>1. PICK c, code, f, result :
                 /\ mail = [case |-> c, code |-> code, failed |-> f, sent |-> result]
                 /\ code \in {0, 200, 400, 404}
        BY <1>2 DEF Settled, IsMail
      <4>2. PICK value : mail' = [mail EXCEPT !.sent = value]
        BY <3>2 DEF SendMail
      <4>3. mail' = [case |-> c, code |-> code, failed |-> f, sent |-> value]
        BY <4>1, <4>2
      <4> QED
        BY <4>1, <4>3, MailIs
    <3>3. IsMail(mail')
      BY <2>8, <3>1, <3>2 DEF Session
    <3> QED
      BY <2>2, <2>8, <3>3 DEF Session
  <2> QED
    BY <1>2, <2>4, <2>5, <2>6, <2>7, <2>8 DEF Next
<1>3. Settled => mail.code \in {0, 200, 400, 404}
  BY DEF Settled, IsMail
<1>4. IInv => MigrationsTypeOK
  <2>1. ASSUME IInv, phase = "migrate"
        PROVE  at[1] \in 1..5 /\ at[2] \in DOMAIN Script[at[1]]
    <3>1. at[1] \in 1..5 /\ at[2] \in 1..Len(Script[at[1]])
      BY <2>1 DEF IInv, Typed, Placed
    <3>2. \A v \in 1..5 : DOMAIN Script[v] = 1..Len(Script[v])
      BY ScriptSays
    <3> QED
      BY <3>1, <3>2
  <2>2. IInv => recorded \subseteq 1..5
    BY DEF IInv, Ordered
  <2>3. Versions = 1..5
    BY Lengths DEF Versions
  <2> QED
    BY <2>1, <2>2, <2>3, TablesSay, NamesSay, Zenon DEF MigrationsTypeOK, IInv, Typed, Placed
<1>5. IInv /\ Settled => TypeOK
  BY <1>3, <1>4 DEF TypeOK, Settled
<1> QED
  BY <1>1, <1>2, <1>5, Invariant, PTL DEF Spec

------------------------------------------------------------------------------
(* The configuration *)

\* The source is there until the store is opened, and what was loaded is of it; main
\* goes on only with settings that will do, and loads only as long as it has none.
Sourced ==
  /\ source \in Sources \/ (source = NotLoaded /\ settings.ok)
  /\ source # NotLoaded => settings \in {NotLoaded, Load(source.file, source.env)}
  /\ phase = "load" => ~ settings.ok
  /\ phase = "open" => settings.ok

\* How the phases follow each other.
LEMMA PhasesFollow ==
  /\ OpenStore => phase = "open" /\ phase' \in {"migrate", "serve"}
  /\ Migrate => phase = "migrate" /\ phase' \in {"migrate", "serve", "down"}
  /\ Work \/ Session => phase = "serve" /\ phase' = "serve"
  /\ Kill => phase' = "down"
<1>1. \A v : ReadVersion(v) => phase' \in {"migrate", "serve"}
  BY DEF ReadVersion
<1>2. OpenStore => phase = "open" /\ phase' \in {"migrate", "serve"}
  BY <1>1 DEF OpenStore, Open
<1>3. Advance => phase' = phase \/ phase' \in {"migrate", "serve"}
  BY <1>1 DEF Advance
<1>4. Execute => phase = "migrate" /\ phase' \in {"migrate", "serve"}
  BY <1>3 DEF Execute
<1>5. Refuse => phase = "migrate" /\ phase' = "down"
  BY DEF Refuse, Exit
<1>6. Kill => phase' = "down"
  BY DEF Kill, Die, Exit
<1>7. Work => phase = "serve" /\ phase' = "serve"
  BY DEF Work, Insert, Finish
<1>8. Session => phase = "serve" /\ phase' = "serve"
  BY DEF Session, dbVars
<1> QED
  BY <1>2, <1>4, <1>5, <1>6, <1>7, <1>8 DEF Migrate

\* Every step keeps this: phases change as main calls one thing after the other.
LEMMA SourcedKept ==
  ASSUME Sourced, [Next]_vars
  PROVE  Sourced'
<1>1. ASSUME UNCHANGED <<source, settings>>, phase' \notin {"load", "open"} \/ phase' = phase
      PROVE  Sourced'
  BY <1>1 DEF Sourced
<1>2. CASE Boot
  <2>1. UNCHANGED <<source, settings>> /\ phase' = IF settings.ok THEN "open" ELSE "load"
    BY <1>2 DEF Boot
  <2> QED
    BY <2>1 DEF Sourced
<1>3. CASE LoadConfig
  <2>1. settings' = Load(source.file, source.env) /\ source' = source /\ phase = "load"
        /\ phase' = IF settings'.ok THEN "open" ELSE "down"
    BY <1>3 DEF LoadConfig
  <2>2. source \in Sources
    BY <2>1 DEF Sourced
  <2>3. phase' # "load" /\ (phase' = "open" => settings'.ok)
    BY <2>1
  <2> QED
    BY <2>1, <2>2, <2>3 DEF Sourced
<1>4. CASE OpenStore
  <2>1. phase = "open" /\ phase' \notin {"load", "open"}
    BY <1>4, PhasesFollow
  <2>2. source' = NotLoaded /\ settings' = settings
    BY <1>4 DEF OpenStore
  <2> QED
    BY <2>1, <2>2 DEF Sourced
<1>5. CASE Migrate \/ Work \/ Session \/ Kill
  <2>1. phase' \notin {"load", "open"}
    BY <1>5, PhasesFollow
  <2>2. UNCHANGED <<source, settings>>
    BY <1>5 DEF Migrate, Work, Session, Kill
  <2> QED
    BY <1>1, <2>1, <2>2
<1>6. CASE UNCHANGED vars
  <2>1. UNCHANGED <<source, settings>> /\ phase' = phase
    BY <1>6 DEF vars, dbVars
  <2> QED
    BY <1>1, <2>1
<1> QED
  BY <1>2, <1>3, <1>4, <1>5, <1>6 DEF Next

\* So it holds throughout.
LEMMA SourcedAlways == Spec => []Sourced
<1>1. Init => Sourced
  <2> SUFFICES ASSUME Init PROVE Sourced
    OBVIOUS
  <2>1. source \in Sources /\ settings = NotLoaded /\ phase = "down"
    BY DEF Init, MigrationsInit
  <2>2. ~ NotLoaded.ok
    BY DEF NotLoaded
  <2> QED
    BY <2>1, <2>2 DEF Sourced
<1> QED
  BY <1>1, SourcedKept, PTL DEF Spec

\* parseSimpleYAML takes exactly the files whose keys hang together, and means by them
\* what they say, whatever file main starts with.
THEOREM FilesMean == Spec => []FileMeansWhatItSays
<1>1. ASSUME Sourced
      PROVE  FileMeansWhatItSays
  <2>1. ASSUME phase = "load"
        PROVE  source.file \in Seq(Line)
    BY <1>1, <2>1, StartupAssumption DEF Sourced
  <2> QED
    BY <2>1, ParserReadsTheFile DEF FileMeansWhatItSays
<1> QED
  BY <1>1, SourcedAlways, PTL

\* What main opens the store with is Load's best: a token, and each number from the
\* environment, the file or the default, in that order.
THEOREM BestSourcesWin == Spec => []BestSourceWins
<1>1. ASSUME Sourced
      PROVE  BestSourceWins
  <2> SUFFICES ASSUME phase = "open", source # NotLoaded
               PROVE  TakesTheBest(settings, source.file, source.env)
    BY DEF BestSourceWins
  <2>1. settings.ok /\ source \in Sources
    BY <1>1 DEF Sourced
  <2>2. settings # NotLoaded
    BY <2>1 DEF NotLoaded
  <2>3. settings = Load(source.file, source.env)
    BY <1>1, <2>2 DEF Sourced
  <2>4. source.file \in Seq(Line)
    BY <2>1, StartupAssumption
  <2> QED
    BY <2>1, <2>3, <2>4, LoadTakesTheBest
<1> QED
  BY <1>1, SourcedAlways, PTL

------------------------------------------------------------------------------
(* The stages of a session *)

Stage ==
  {"tcp_connect", "smtp_greeting", "ehlo", "starttls", "auth",
   "mail_from", "rcpt_to", "reset", "data", "quit"}

Hits(bad, stages) == \E i \in DOMAIN stages : stages[i] \in bad

\* The first stage of a session that is a bad one.
FirstOf(bad, stages) ==
  LET failing == {i \in DOMAIN stages : stages[i] \in bad}
  IN IF failing = {} THEN "none"
     ELSE stages[CHOOSE i \in failing : \A k \in failing : i <= k]

LEMMA StageOf ==
  ASSUME NEW stages \in Seq(Stage), NEW i \in DOMAIN stages
  PROVE  stages[i] \in Stage
OBVIOUS

\* A bad stage that no bad one precedes is the first.
LEMMA FirstOfIs ==
  ASSUME NEW bad, NEW stages \in Seq(Stage), NEW i \in DOMAIN stages, stages[i] \in bad,
         \A k \in DOMAIN stages : stages[k] \in bad => i <= k
  PROVE  FirstOf(bad, stages) = stages[i]
<1> DEFINE failing == {k \in DOMAIN stages : stages[k] \in bad}
           first == CHOOSE k \in failing : \A n \in failing : k <= n
<1>1. i \in failing /\ (\A k \in failing : i <= k) /\ failing \subseteq Int
  OBVIOUS
<1>2. FirstOf(bad, stages) = stages[first]
  BY <1>1 DEF FirstOf
<1> HIDE DEF failing
<1>3. \A k \in failing : (\A n \in failing : k <= n) => k = i
  BY <1>1
<1>4. first = i
  BY <1>1, <1>3
<1> HIDE DEF first
<1> QED
  BY <1>2, <1>4

\* If there is a bad stage there is a first.
LEMMA FirstExists ==
  ASSUME NEW bad, NEW stages \in Seq(Stage), Hits(bad, stages)
  PROVE  \E i \in DOMAIN stages : /\ stages[i] \in bad
                                  /\ \A k \in DOMAIN stages : stages[k] \in bad => i <= k
<1> DEFINE failing == {k \in DOMAIN stages : stages[k] \in bad}
<1>1. failing \in SUBSET Nat /\ failing # {}
  BY DEF Hits
<1>2. PICK i \in failing : \A k \in failing : i <= k
  BY <1>1, LeastNatural
<1> QED
  BY <1>2

\* A session in two parts fails in the first, or else where the second one does.
LEMMA FirstOfConcat ==
  ASSUME NEW bad, NEW s \in Seq(Stage), NEW t \in Seq(Stage)
  PROVE  /\ s \o t \in Seq(Stage)
         /\ Hits(bad, s \o t) <=> Hits(bad, s) \/ Hits(bad, t)
         /\ FirstOf(bad, s \o t) = IF Hits(bad, s) THEN FirstOf(bad, s) ELSE FirstOf(bad, t)
<1> DEFINE u == s \o t
<1>1. /\ u \in Seq(Stage) /\ Len(s) \in Nat /\ Len(t) \in Nat /\ Len(u) = Len(s) + Len(t)
      /\ DOMAIN s = 1..Len(s) /\ DOMAIN t = 1..Len(t) /\ DOMAIN u = 1..(Len(s) + Len(t))
  OBVIOUS
<1>2. \A i \in DOMAIN s : u[i] = s[i]
  OBVIOUS
<1>3. \A i \in DOMAIN t : u[Len(s) + i] = t[i]
  OBVIOUS
<1> HIDE DEF u
<1>4. \A i \in DOMAIN u : i \in DOMAIN s \/ (i - Len(s) \in DOMAIN t /\ u[i] = t[i - Len(s)])
  <2> SUFFICES ASSUME NEW i \in DOMAIN u, i \notin DOMAIN s
               PROVE  i - Len(s) \in DOMAIN t /\ u[i] = t[i - Len(s)]
    OBVIOUS
  <2>1. i - Len(s) \in DOMAIN t /\ Len(s) + (i - Len(s)) = i
    BY <1>1
  <2> QED
    BY <1>3, <2>1
<1>5. \A i \in DOMAIN s : i \in DOMAIN u
  BY <1>1
<1>6. \A i \in DOMAIN t : Len(s) + i \in DOMAIN u
  BY <1>1
<1>7. Hits(bad, u) <=> Hits(bad, s) \/ Hits(bad, t)
  BY <1>2, <1>3, <1>4, <1>5, <1>6 DEF Hits
<1>8. CASE Hits(bad, s)
  <2>1. PICK i \in DOMAIN s : /\ s[i] \in bad
                              /\ \A k \in DOMAIN s : s[k] \in bad => i <= k
    BY <1>8, FirstExists
  <2>2. ASSUME NEW k \in DOMAIN u, u[k] \in bad
        PROVE  i <= k
    <3>1. CASE k \in DOMAIN s
      BY <1>2, <2>1, <2>2, <3>1
    <3>2. CASE k \notin DOMAIN s
      BY <1>1, <2>1, <3>2
    <3> QED
      BY <3>1, <3>2
  <2>3. FirstOf(bad, u) = u[i]
    <3>1. i \in DOMAIN u /\ u[i] \in bad /\ u \in Seq(Stage)
      BY <1>1, <1>2, <1>5, <2>1
    <3> QED
      BY <2>2, <3>1, FirstOfIs
  <2>4. FirstOf(bad, s) = s[i]
    BY <2>1, FirstOfIs
  <2> QED
    BY <1>1, <1>2, <1>7, <1>8, <2>3, <2>4 DEF u
<1>9. CASE ~ Hits(bad, s) /\ Hits(bad, t)
  <2>1. PICK i \in DOMAIN t : /\ t[i] \in bad
                              /\ \A k \in DOMAIN t : t[k] \in bad => i <= k
    BY <1>9, FirstExists
  <2>2. ASSUME NEW k \in DOMAIN u, u[k] \in bad
        PROVE  Len(s) + i <= k
    <3>1. k \notin DOMAIN s
      BY <1>2, <1>9, <2>2 DEF Hits
    <3>2. k - Len(s) \in DOMAIN t /\ t[k - Len(s)] \in bad
      BY <1>4, <2>2, <3>1
    <3>3. i <= k - Len(s)
      BY <2>1, <3>2
    <3> QED
      BY <1>1, <2>1, <3>2, <3>3
  <2>3. FirstOf(bad, u) = u[Len(s) + i]
    <3>1. Len(s) + i \in DOMAIN u /\ u[Len(s) + i] \in bad /\ u \in Seq(Stage)
      BY <1>1, <1>3, <1>6, <2>1
    <3> QED
      BY <2>2, <3>1, FirstOfIs
  <2>4. FirstOf(bad, t) = t[i]
    BY <2>1, FirstOfIs
  <2> QED
    BY <1>1, <1>3, <1>7, <1>9, <2>3, <2>4 DEF u
<1>10. CASE ~ Hits(bad, s) /\ ~ Hits(bad, t)
  <2>1. FirstOf(bad, u) = "none" /\ FirstOf(bad, t) = "none"
    BY <1>7, <1>10 DEF FirstOf, Hits
  <2> QED
    BY <1>1, <1>7, <1>10, <2>1 DEF u
<1> QED
  BY <1>8, <1>9, <1>10

\* One stage, and a stage that is left out on a condition.
LEMMA FirstOfOne ==
  ASSUME NEW bad, NEW stage \in Stage, NEW condition
  PROVE  /\ <<stage>> \in Seq(Stage)
         /\ Hits(bad, <<stage>>) <=> stage \in bad
         /\ stage \in bad => FirstOf(bad, <<stage>>) = stage
         /\ stage \notin bad => FirstOf(bad, <<stage>>) = "none"
         /\ Maybe(condition, stage) \in Seq(Stage)
         /\ Hits(bad, Maybe(condition, stage)) => stage \in bad
         /\ ~ Hits(bad, <<>>)
<1>1. <<stage>> \in Seq(Stage) /\ DOMAIN <<stage>> = {1} /\ <<stage>>[1] = stage
  OBVIOUS
<1>2. <<>> \in Seq(Stage) /\ DOMAIN <<>> = {}
  OBVIOUS
<1>3. Hits(bad, <<stage>>) <=> stage \in bad
  BY <1>1 DEF Hits
<1>4. ASSUME stage \in bad
      PROVE  FirstOf(bad, <<stage>>) = stage
  <2>1. 1 \in DOMAIN <<stage>> /\ <<stage>>[1] \in bad /\ \A k \in DOMAIN <<stage>> : 1 <= k
    BY <1>1, <1>4
  <2> QED
    BY <1>1, <2>1, FirstOfIs
<1>5. stage \notin bad => FirstOf(bad, <<stage>>) = "none"
  BY <1>1 DEF FirstOf
<1>6. Maybe(condition, stage) \in {<<stage>>, <<>>}
  BY DEF Maybe
<1>7. ~ Hits(bad, <<>>)
  BY <1>2 DEF Hits
<1> QED
  BY <1>1, <1>2, <1>3, <1>4, <1>5, <1>6, <1>7

\* A session that goes on with one more stage, on a condition or always.
LEMMA FirstOfMaybe ==
  ASSUME NEW bad, NEW s \in Seq(Stage), NEW stage \in Stage, NEW condition \in BOOLEAN
  PROVE  LET t == s \o Maybe(condition, stage)
         IN /\ t \in Seq(Stage)
            /\ Hits(bad, t) <=> Hits(bad, s) \/ (condition /\ stage \in bad)
            /\ Hits(bad, s) => FirstOf(bad, t) = FirstOf(bad, s)
            /\ ~ Hits(bad, s) /\ condition /\ stage \in bad => FirstOf(bad, t) = stage
            /\ ~ Hits(bad, t) => FirstOf(bad, t) = "none"
<1> DEFINE more == Maybe(condition, stage)
           t == s \o more
<1>1. /\ more \in Seq(Stage)
      /\ Hits(bad, more) <=> condition /\ stage \in bad
      /\ Hits(bad, more) => FirstOf(bad, more) = stage
  <2>1. CASE condition
    <3>1. more = <<stage>>
      BY <2>1 DEF Maybe
    <3> HIDE DEF more
    <3> QED
      BY <2>1, <3>1, FirstOfOne
  <2>2. CASE ~ condition
    <3>1. more = <<>>
      BY <2>2 DEF Maybe
    <3>2. more \in Seq(Stage)
      BY FirstOfOne
    <3> HIDE DEF more
    <3> QED
      BY <2>2, <3>1, <3>2, FirstOfOne
  <2> QED
    BY <2>1, <2>2
<1> HIDE DEF more
<1>2. /\ t \in Seq(Stage)
      /\ Hits(bad, t) <=> Hits(bad, s) \/ Hits(bad, more)
      /\ FirstOf(bad, t) = IF Hits(bad, s) THEN FirstOf(bad, s) ELSE FirstOf(bad, more)
  <2>1. more \in Seq(Stage)
    BY <1>1
  <2> QED
    BY <2>1, FirstOfConcat
<1>3. ~ Hits(bad, t) => FirstOf(bad, t) = "none"
  BY DEF Hits, FirstOf
<1> HIDE DEF t
<1>4. Hits(bad, s) => FirstOf(bad, t) = FirstOf(bad, s)
  BY <1>2
<1>5. ~ Hits(bad, s) /\ condition /\ stage \in bad => FirstOf(bad, t) = stage
  BY <1>1, <1>2
<1>6. Hits(bad, t) <=> Hits(bad, s) \/ (condition /\ stage \in bad)
  BY <1>1, <1>2
<1> QED
  BY <1>2, <1>3, <1>4, <1>5, <1>6 DEF t, more

Start(peer) == <<"tcp_connect", "smtp_greeting", "ehlo">> \o Maybe(peer.tls, "starttls")
Tries(cfg, peer) == Start(peer) \o Maybe(HasLogin(cfg) /\ peer.auth, "auth")
Must(peer) == Start(peer) \o Maybe(peer.auth, "auth")

Beginning == {"tcp_connect", "smtp_greeting", "ehlo", "starttls"}

\* A session that has a bad stage fails at one of its own.
LEMMA FirstIsThere ==
  ASSUME NEW bad, NEW stages \in Seq(Stage), Hits(bad, stages)
  PROVE  \E i \in DOMAIN stages : FirstOf(bad, stages) = stages[i] /\ stages[i] \in bad
<1>1. PICK i \in DOMAIN stages : /\ stages[i] \in bad
                                 /\ \A k \in DOMAIN stages : stages[k] \in bad => i <= k
  BY FirstExists
<1> QED
  BY <1>1, FirstOfIs

\* The first stages, of a diagnosis and of a mail.
LEMMA StartSays ==
  ASSUME NEW bad, NEW cfg, NEW peer
  PROVE  /\ Start(peer) \in Seq(Stage) /\ Tries(cfg, peer) \in Seq(Stage)
         /\ Must(peer) \in Seq(Stage)
         /\ Hits(bad, Start(peer)) => FirstOf(bad, Start(peer)) \in Beginning \cap bad
<1> DEFINE hello == <<"tcp_connect", "smtp_greeting", "ehlo">>
           tls == Maybe(peer.tls, "starttls")
<1>1. /\ hello \in Seq(Stage) /\ DOMAIN hello = {1, 2, 3}
      /\ hello[1] = "tcp_connect" /\ hello[2] = "smtp_greeting" /\ hello[3] = "ehlo"
  BY DEF Stage
<1> HIDE DEF hello
<1>2. "starttls" \in Stage /\ "auth" \in Stage
  BY DEF Stage
<1>3. tls \in Seq(Stage) /\ (\A i \in DOMAIN tls : tls[i] = "starttls")
  <2>1. tls \in Seq(Stage)
    BY <1>2, FirstOfOne
  <2> QED
    BY <2>1 DEF Maybe
<1>4. Start(peer) = hello \o tls
  BY DEF Start, hello
<1> HIDE DEF tls
<1>5. /\ Start(peer) \in Seq(Stage)
      /\ Hits(bad, Start(peer)) <=> Hits(bad, hello) \/ Hits(bad, tls)
      /\ FirstOf(bad, Start(peer)) =
           IF Hits(bad, hello) THEN FirstOf(bad, hello) ELSE FirstOf(bad, tls)
  BY <1>1, <1>3, <1>4, FirstOfConcat
<1>6. Hits(bad, hello) => FirstOf(bad, hello) \in Beginning \cap bad
  BY <1>1, FirstIsThere DEF Beginning
<1>7. Hits(bad, tls) => FirstOf(bad, tls) \in Beginning \cap bad
  BY <1>3, FirstIsThere DEF Beginning
<1>8. /\ Maybe(HasLogin(cfg) /\ peer.auth, "auth") \in Seq(Stage)
      /\ Maybe(peer.auth, "auth") \in Seq(Stage)
  BY <1>2, FirstOfOne
<1>9. Tries(cfg, peer) \in Seq(Stage) /\ Must(peer) \in Seq(Stage)
  <2>1. \A s, t \in Seq(Stage) : s \o t \in Seq(Stage)
    OBVIOUS
  <2> QED
    BY <1>5, <1>8, <2>1 DEF Tries, Must
<1> QED
  BY <1>5, <1>6, <1>7, <1>9

\* The login, which a mail tries whenever the relay offers it and a diagnosis only with
\* something to log in with.
LEMMA LoginSays ==
  ASSUME NEW bad, NEW cfg, NEW peer
  PROVE  LET start == Hits(bad, Start(peer))
             offered == peer.auth /\ "auth" \in bad
         IN /\ Hits(bad, Tries(cfg, peer)) <=> start \/ (HasLogin(cfg) /\ offered)
            /\ Hits(bad, Must(peer)) <=> start \/ offered
            /\ start => /\ FirstOf(bad, Tries(cfg, peer)) = FirstOf(bad, Start(peer))
                        /\ FirstOf(bad, Must(peer)) = FirstOf(bad, Start(peer))
            /\ ~ start /\ HasLogin(cfg) /\ offered => FirstOf(bad, Tries(cfg, peer)) = "auth"
            /\ ~ start /\ offered => FirstOf(bad, Must(peer)) = "auth"
<1>1. Start(peer) \in Seq(Stage) /\ "auth" \in Stage
  BY StartSays DEF Stage
<1>2. ASSUME NEW condition \in BOOLEAN
      PROVE  LET t == Start(peer) \o Maybe(condition, "auth")
             IN /\ Hits(bad, t) <=> Hits(bad, Start(peer)) \/ (condition /\ "auth" \in bad)
                /\ Hits(bad, Start(peer)) => FirstOf(bad, t) = FirstOf(bad, Start(peer))
                /\ ~ Hits(bad, Start(peer)) /\ condition /\ "auth" \in bad =>
                     FirstOf(bad, t) = "auth"
  BY <1>1, FirstOfMaybe
<1> DEFINE tried == HasLogin(cfg) /\ peer.auth
           offers == peer.auth \/ FALSE
<1>3. Tries(cfg, peer) = Start(peer) \o Maybe(tried, "auth") /\ tried \in BOOLEAN
  BY DEF Tries
<1>4. Must(peer) = Start(peer) \o Maybe(offers, "auth") /\ offers \in BOOLEAN
  BY DEF Must, Maybe
<1>5. (tried <=> HasLogin(cfg) /\ peer.auth) /\ (offers <=> peer.auth)
  OBVIOUS
<1> HIDE DEF tried, offers
<1>6. /\ Hits(bad, Tries(cfg, peer)) <=> Hits(bad, Start(peer)) \/ (tried /\ "auth" \in bad)
      /\ Hits(bad, Start(peer)) => FirstOf(bad, Tries(cfg, peer)) = FirstOf(bad, Start(peer))
      /\ ~ Hits(bad, Start(peer)) /\ tried /\ "auth" \in bad =>
           FirstOf(bad, Tries(cfg, peer)) = "auth"
  BY <1>2, <1>3
<1>7. /\ Hits(bad, Must(peer)) <=> Hits(bad, Start(peer)) \/ (offers /\ "auth" \in bad)
      /\ Hits(bad, Start(peer)) => FirstOf(bad, Must(peer)) = FirstOf(bad, Start(peer))
      /\ ~ Hits(bad, Start(peer)) /\ offers /\ "auth" \in bad =>
           FirstOf(bad, Must(peer)) = "auth"
  BY <1>2, <1>4
<1> QED
  BY <1>5, <1>6, <1>7

\* Where a diagnosis fails: in its first stages or, if it names a sender, at it, or at
\* the recipient, or at the end.
LEMMA ProbeFails ==
  ASSUME NEW bad, NEW cfg, NEW to, to # "", NEW peer
  PROVE  LET stages == ProbeStages(cfg, to, peer)
             first == Tries(cfg, peer)
             sender == cfg.from # "" /\ "mail_from" \in bad
         IN /\ stages \in Seq(Stage)
            /\ Hits(bad, stages) <=>
                 Hits(bad, first) \/ sender \/ "rcpt_to" \in bad \/ "reset" \in bad \/ "quit" \in bad
            /\ Hits(bad, first) => FirstOf(bad, stages) = FirstOf(bad, first)
            /\ ~ Hits(bad, first) /\ sender => FirstOf(bad, stages) = "mail_from"
            /\ ~ Hits(bad, first) /\ ~ sender /\ "rcpt_to" \in bad =>
                 FirstOf(bad, stages) = "rcpt_to"
            /\ ~ Hits(bad, first) /\ ~ sender /\ "rcpt_to" \notin bad /\ "reset" \in bad =>
                 FirstOf(bad, stages) = "reset"
            /\ ~ Hits(bad, first) /\ ~ sender /\ "rcpt_to" \notin bad /\ "reset" \notin bad
               /\ "quit" \in bad =>
                 FirstOf(bad, stages) = "quit"
            /\ ~ Hits(bad, stages) => FirstOf(bad, stages) = "none"
<1> DEFINE stages == ProbeStages(cfg, to, peer)
           first == Tries(cfg, peer)
           second == first \o Maybe(cfg.from # "", "mail_from")
           third == second \o Maybe(TRUE, "rcpt_to")
           fourth == third \o Maybe(TRUE, "reset")
           fifth == fourth \o Maybe(TRUE, "quit")
           sender == cfg.from # "" /\ "mail_from" \in bad
<1>1. "mail_from" \in Stage /\ "rcpt_to" \in Stage /\ "reset" \in Stage /\ "quit" \in Stage
  BY DEF Stage
<1>2. first \in Seq(Stage)
  BY StartSays
<1>3. stages = fifth
  BY DEF ProbeStages, Tries, Start, Maybe
<1> HIDE DEF first, stages
<1>4. /\ second \in Seq(Stage)
      /\ Hits(bad, second) <=> Hits(bad, first) \/ sender
      /\ Hits(bad, first) => FirstOf(bad, second) = FirstOf(bad, first)
      /\ ~ Hits(bad, first) /\ sender => FirstOf(bad, second) = "mail_from"
  BY <1>1, <1>2, FirstOfMaybe
<1> HIDE DEF second
<1>5. /\ third \in Seq(Stage)
      /\ Hits(bad, third) <=> Hits(bad, second) \/ "rcpt_to" \in bad
      /\ Hits(bad, second) => FirstOf(bad, third) = FirstOf(bad, second)
      /\ ~ Hits(bad, second) /\ "rcpt_to" \in bad => FirstOf(bad, third) = "rcpt_to"
  BY <1>1, <1>4, FirstOfMaybe
<1> HIDE DEF third
<1>6. /\ fourth \in Seq(Stage)
      /\ Hits(bad, fourth) <=> Hits(bad, third) \/ "reset" \in bad
      /\ Hits(bad, third) => FirstOf(bad, fourth) = FirstOf(bad, third)
      /\ ~ Hits(bad, third) /\ "reset" \in bad => FirstOf(bad, fourth) = "reset"
  BY <1>1, <1>5, FirstOfMaybe
<1> HIDE DEF fourth
<1>7. /\ fifth \in Seq(Stage)
      /\ Hits(bad, fifth) <=> Hits(bad, fourth) \/ "quit" \in bad
      /\ Hits(bad, fourth) => FirstOf(bad, fifth) = FirstOf(bad, fourth)
      /\ ~ Hits(bad, fourth) /\ "quit" \in bad => FirstOf(bad, fifth) = "quit"
      /\ ~ Hits(bad, fifth) => FirstOf(bad, fifth) = "none"
  BY <1>1, <1>6, FirstOfMaybe
<1> HIDE DEF fifth, sender
<1>8. Hits(bad, stages) <=>
        Hits(bad, first) \/ sender \/ "rcpt_to" \in bad \/ "reset" \in bad \/ "quit" \in bad
  BY <1>3, <1>4, <1>5, <1>6, <1>7
<1>9. Hits(bad, first) => FirstOf(bad, stages) = FirstOf(bad, first)
  BY <1>3, <1>4, <1>5, <1>6, <1>7
<1>10. ~ Hits(bad, first) /\ sender => FirstOf(bad, stages) = "mail_from"
  BY <1>3, <1>4, <1>5, <1>6, <1>7
<1>11. ~ Hits(bad, first) /\ ~ sender /\ "rcpt_to" \in bad => FirstOf(bad, stages) = "rcpt_to"
  BY <1>3, <1>4, <1>5, <1>6, <1>7
<1>12. ~ Hits(bad, first) /\ ~ sender /\ "rcpt_to" \notin bad /\ "reset" \in bad =>
         FirstOf(bad, stages) = "reset"
  BY <1>3, <1>4, <1>5, <1>6, <1>7
<1>13. ~ Hits(bad, first) /\ ~ sender /\ "rcpt_to" \notin bad /\ "reset" \notin bad
       /\ "quit" \in bad =>
         FirstOf(bad, stages) = "quit"
  BY <1>3, <1>4, <1>5, <1>6, <1>7
<1>14. stages \in Seq(Stage) /\ (~ Hits(bad, stages) => FirstOf(bad, stages) = "none")
  BY <1>3, <1>7
<1> QED
  BY <1>8, <1>9, <1>10, <1>11, <1>12, <1>13, <1>14 DEF stages, first, sender

\* Where a mail fails.
LEMMA MailFails ==
  ASSUME NEW bad, NEW peer
  PROVE  LET stages == SendStages(peer)
             first == Must(peer)
         IN /\ stages \in Seq(Stage)
            /\ "mail_from" \in bad => Hits(bad, stages)
            /\ Hits(bad, first) => FirstOf(bad, stages) = FirstOf(bad, first)
            /\ ~ Hits(bad, first) /\ "mail_from" \in bad => FirstOf(bad, stages) = "mail_from"
            /\ ~ Hits(bad, first) /\ "mail_from" \notin bad /\ "rcpt_to" \in bad =>
                 FirstOf(bad, stages) = "rcpt_to"
            /\ ~ Hits(bad, first) /\ "mail_from" \notin bad /\ "rcpt_to" \notin bad
               /\ "data" \in bad =>
                 FirstOf(bad, stages) = "data"
            /\ ~ Hits(bad, first) /\ "mail_from" \notin bad /\ "rcpt_to" \notin bad
               /\ "data" \notin bad /\ "quit" \in bad =>
                 FirstOf(bad, stages) = "quit"
            /\ ~ Hits(bad, first) /\ "mail_from" \notin bad /\ "rcpt_to" \notin bad
               /\ "data" \notin bad /\ "quit" \notin bad =>
                 FirstOf(bad, stages) = "none"
<1> DEFINE stages == SendStages(peer)
           first == Must(peer)
           rest == <<"mail_from", "rcpt_to", "data", "quit">>
<1>1. /\ rest \in Seq(Stage) /\ DOMAIN rest = {1, 2, 3, 4}
      /\ rest[1] = "mail_from" /\ rest[2] = "rcpt_to" /\ rest[3] = "data" /\ rest[4] = "quit"
  BY DEF Stage
<1>2. stages = first \o rest
  BY DEF SendStages, Must, Start
<1>3. first \in Seq(Stage)
  BY StartSays
<1> HIDE DEF rest, first, stages
<1>4. /\ stages \in Seq(Stage)
      /\ Hits(bad, stages) <=> Hits(bad, first) \/ Hits(bad, rest)
      /\ FirstOf(bad, stages) = IF Hits(bad, first) THEN FirstOf(bad, first) ELSE FirstOf(bad, rest)
  BY <1>1, <1>2, <1>3, FirstOfConcat
<1>5. "mail_from" \in bad => Hits(bad, rest)
  BY <1>1 DEF Hits
<1>6. ASSUME NEW i \in DOMAIN rest, rest[i] \in bad,
             \A k \in DOMAIN rest : rest[k] \in bad => i <= k
      PROVE  FirstOf(bad, rest) = rest[i]
  BY <1>1, <1>6, FirstOfIs
<1>7. FirstOf(bad, rest) =
        IF "mail_from" \in bad THEN "mail_from"
        ELSE IF "rcpt_to" \in bad THEN "rcpt_to"
        ELSE IF "data" \in bad THEN "data"
        ELSE IF "quit" \in bad THEN "quit" ELSE "none"
  <2>1. CASE "mail_from" \in bad
    BY <1>1, <1>6, <2>1
  <2>2. CASE "mail_from" \notin bad /\ "rcpt_to" \in bad
    BY <1>1, <1>6, <2>2
  <2>3. CASE "mail_from" \notin bad /\ "rcpt_to" \notin bad /\ "data" \in bad
    BY <1>1, <1>6, <2>3
  <2>4. CASE "mail_from" \notin bad /\ "rcpt_to" \notin bad /\ "data" \notin bad /\ "quit" \in bad
    BY <1>1, <1>6, <2>4
  <2>5. CASE /\ "mail_from" \notin bad /\ "rcpt_to" \notin bad
             /\ "data" \notin bad /\ "quit" \notin bad
    BY <1>1, <2>5 DEF FirstOf
  <2> QED
    BY <2>1, <2>2, <2>3, <2>4, <2>5
<1> QED
  BY <1>4, <1>5, <1>7 DEF stages, first

------------------------------------------------------------------------------
(* The diagnosis *)

\* The stages that fail, in a session that names a sender or none.
Failing(sender, cfg, to, peer) ==
  {stage \in Stage :
     \/ stage \in peer.refuses
     \/ stage = "starttls" /\ cfg.host = ""
     \/ stage = "auth" /\ ~ peer.tls /\ cfg.host # "localhost"
     \/ stage = "rcpt_to" /\ (to \notin peer.takes \/ ~ sender)}

\* A session fails at the first of these.
LEMMA FailedIsFirst ==
  ASSUME NEW stages \in Seq(Stage), NEW cfg, NEW to, NEW peer,
         NEW sender \in BOOLEAN, sender <=> Hits({"mail_from"}, stages)
  PROVE  FailedStage(stages, cfg, to, peer) = FirstOf(Failing(sender, cfg, to, peer), stages)
<1> DEFINE bad == Failing(sender, cfg, to, peer)
           At(set) == IF set = {} THEN "none"
                      ELSE stages[CHOOSE i \in set : \A k \in set : i <= k]
           these == {i \in DOMAIN stages : Fails(stages, i, cfg, to, peer)}
           those == {i \in DOMAIN stages : stages[i] \in bad}
<1>1. (\A k \in DOMAIN stages : stages[k] # "mail_from") <=> ~ sender
  BY DEF Hits
<1>2. \A i \in DOMAIN stages : stages[i] \in Stage
  OBVIOUS
<1>3. these = those
  BY <1>1, <1>2 DEF Fails, Failing
<1>4. FailedStage(stages, cfg, to, peer) = At(these)
  BY DEF FailedStage
<1>5. FirstOf(bad, stages) = At(those)
  BY DEF FirstOf
<1> HIDE DEF these, those, At, bad
<1> QED
  BY <1>3, <1>4, <1>5 DEF bad

\* A diagnosis and a mail, as the first stages that fail.
LEMMA SessionsFail ==
  ASSUME NEW cfg, NEW to, to # "", NEW peer
  PROVE  LET probe == ProbeStages(cfg, to, peer)
             send == SendStages(peer)
         IN /\ FailedStage(probe, cfg, to, peer)
                 = FirstOf(Failing(cfg.from # "", cfg, to, peer), probe)
            /\ FailedStage(send, cfg, to, peer) = FirstOf(Failing(TRUE, cfg, to, peer), send)
<1> DEFINE probe == ProbeStages(cfg, to, peer)
           send == SendStages(peer)
           named == {"mail_from"}
<1>1. ~ Hits(named, Start(peer))
  <2>1. Hits(named, Start(peer)) => FirstOf(named, Start(peer)) \in Beginning \cap named
    BY StartSays
  <2> QED
    BY <2>1 DEF Beginning
<1>2. ~ Hits(named, Tries(cfg, peer))
  <2>1. LET start == Hits(named, Start(peer))
            offered == peer.auth /\ "auth" \in named
        IN Hits(named, Tries(cfg, peer)) <=> start \/ (HasLogin(cfg) /\ offered)
    BY LoginSays
  <2> QED
    BY <1>1, <2>1
<1>3. probe \in Seq(Stage) /\ (Hits(named, probe) <=> cfg.from # "")
  <2>1. /\ probe \in Seq(Stage)
        /\ Hits(named, probe) <=>
             \/ Hits(named, Tries(cfg, peer)) \/ (cfg.from # "" /\ "mail_from" \in named)
             \/ "rcpt_to" \in named \/ "reset" \in named \/ "quit" \in named
    BY ProbeFails
  <2> HIDE DEF probe
  <2> QED
    BY <1>2, <2>1
<1>4. send \in Seq(Stage) /\ Hits(named, send)
  BY MailFails
<1> HIDE DEF probe, send
<1>5. FailedStage(probe, cfg, to, peer) = FirstOf(Failing(cfg.from # "", cfg, to, peer), probe)
  BY <1>3, FailedIsFirst
<1>6. FailedStage(send, cfg, to, peer) = FirstOf(Failing(TRUE, cfg, to, peer), send)
  BY <1>4, FailedIsFirst
<1> QED
  BY <1>5, <1>6 DEF probe, send

Anonymous(cfg) == cfg.from = ""

\* Without a sender a diagnosis fails, at the recipient if not before.
LEMMA WithoutSender ==
  ASSUME NEW cfg, Anonymous(cfg), NEW to, to # "", NEW peer
  PROVE  ProbeSays(FailedStage(ProbeStages(cfg, to, peer), cfg, to, peer)) # "none"
<1> DEFINE probe == ProbeStages(cfg, to, peer)
           tried == Failing(cfg.from # "", cfg, to, peer)
           failed == FirstOf(tried, probe)
<1>1. FailedStage(probe, cfg, to, peer) = failed
  BY SessionsFail
<1>2. "rcpt_to" \in tried
  BY DEF Failing, Stage, Anonymous
<1> HIDE DEF tried
<1>3. probe \in Seq(Stage) /\ Hits(tried, probe)
  <2>1. LET stages == ProbeStages(cfg, to, peer)
            sender == cfg.from # "" /\ "mail_from" \in tried
        IN /\ stages \in Seq(Stage)
           /\ Hits(tried, stages) <=>
                \/ Hits(tried, Tries(cfg, peer)) \/ sender
                \/ "rcpt_to" \in tried \/ "reset" \in tried \/ "quit" \in tried
    BY ProbeFails
  <2> QED
    BY <1>2, <2>1
<1> HIDE DEF probe
<1>4. PICK i \in DOMAIN probe : failed = probe[i]
  BY <1>3, FirstIsThere
<1>5. failed \in Stage
  BY <1>3, <1>4, StageOf
<1>6. ProbeSays(failed) # "none"
  BY <1>5 DEF ProbeSays, Stage
<1> QED
  BY <1>1, <1>6 DEF probe

\* A mail with the configuration and the recipient of a diagnosis, to a relay that does
\* not mind the name.
LEMMA MailFollowsProbe ==
  ASSUME NEW cfg, NEW to, to # "", NEW peer
  PROVE  LET failed == ProbeSays(FailedStage(ProbeStages(cfg, to, peer), cfg, to, peer))
             sent == SendSays(FailedStage(SendStages(peer), cfg, to, peer))
         IN \/ sent \in Foretold(failed, peer)
            \/ sent = "auth" /\ ~ HasLogin(cfg)
            \/ failed # "none" /\ Anonymous(cfg)
<1> DEFINE probe == ProbeStages(cfg, to, peer)
           send == SendStages(peer)
           bad == Failing(TRUE, cfg, to, peer)
           tried == Failing(cfg.from # "", cfg, to, peer)
           failed == FirstOf(tried, probe)
           sent == FirstOf(bad, send)
           start == Hits(bad, Start(peer))
           refused == Hits(bad, Must(peer))
<1>1. /\ FailedStage(probe, cfg, to, peer) = failed /\ FailedStage(send, cfg, to, peer) = sent
  BY SessionsFail
<1>2. ~ Anonymous(cfg) => tried = bad
  BY DEF Failing, Anonymous
<1>3. "reset" \in bad => "reset" \in peer.refuses
  BY DEF Failing
<1> HIDE DEF probe, send, bad, tried
<1>5. CASE Anonymous(cfg)
  <2>1. ProbeSays(FailedStage(ProbeStages(cfg, to, peer), cfg, to, peer)) # "none"
    BY <1>5, WithoutSender
  <2> QED
    BY <1>5, <2>1
<1>6. ASSUME ~ Anonymous(cfg)
      PROVE  /\ Hits(bad, Tries(cfg, peer)) => failed = FirstOf(bad, Tries(cfg, peer))
             /\ ~ Hits(bad, Tries(cfg, peer)) /\ "mail_from" \in bad => failed = "mail_from"
             /\ ~ Hits(bad, Tries(cfg, peer)) /\ "mail_from" \notin bad /\ "rcpt_to" \in bad =>
                  failed = "rcpt_to"
             /\ ~ Hits(bad, Tries(cfg, peer)) /\ "mail_from" \notin bad /\ "rcpt_to" \notin bad
                /\ "reset" \in bad =>
                  failed = "reset"
             /\ ~ Hits(bad, Tries(cfg, peer)) /\ "mail_from" \notin bad /\ "rcpt_to" \notin bad
                /\ "reset" \notin bad /\ "quit" \in bad =>
                  failed = "quit"
             /\ ~ Hits(bad, Tries(cfg, peer)) /\ "mail_from" \notin bad /\ "rcpt_to" \notin bad
                /\ "reset" \notin bad /\ "quit" \notin bad =>
                  failed = "none"
  <2>1. LET stages == ProbeStages(cfg, to, peer)
            first == Tries(cfg, peer)
            sender == cfg.from # "" /\ "mail_from" \in bad
        IN /\ Hits(bad, stages) <=>
                Hits(bad, first) \/ sender \/ "rcpt_to" \in bad \/ "reset" \in bad \/ "quit" \in bad
           /\ Hits(bad, first) => FirstOf(bad, stages) = FirstOf(bad, first)
           /\ ~ Hits(bad, first) /\ sender => FirstOf(bad, stages) = "mail_from"
           /\ ~ Hits(bad, first) /\ ~ sender /\ "rcpt_to" \in bad =>
                FirstOf(bad, stages) = "rcpt_to"
           /\ ~ Hits(bad, first) /\ ~ sender /\ "rcpt_to" \notin bad /\ "reset" \in bad =>
                FirstOf(bad, stages) = "reset"
           /\ ~ Hits(bad, first) /\ ~ sender /\ "rcpt_to" \notin bad /\ "reset" \notin bad
              /\ "quit" \in bad =>
                FirstOf(bad, stages) = "quit"
           /\ ~ Hits(bad, stages) => FirstOf(bad, stages) = "none"
    BY ProbeFails
  <2> QED
    BY <1>2, <1>6, <2>1 DEF probe, Anonymous
<1>7. /\ refused => sent = FirstOf(bad, Must(peer))
      /\ ~ refused /\ "mail_from" \in bad => sent = "mail_from"
      /\ ~ refused /\ "mail_from" \notin bad /\ "rcpt_to" \in bad => sent = "rcpt_to"
      /\ ~ refused /\ "mail_from" \notin bad /\ "rcpt_to" \notin bad =>
           sent \in {"data", "quit", "none"}
      /\ ~ refused /\ "mail_from" \notin bad /\ "rcpt_to" \notin bad /\ "quit" \in bad =>
           sent \in {"data", "quit"}
      /\ ~ refused /\ "mail_from" \notin bad /\ "rcpt_to" \notin bad /\ "quit" \notin bad =>
           sent \in {"data", "none"}
  <2>1. LET stages == SendStages(peer)
            first == Must(peer)
        IN /\ Hits(bad, first) => FirstOf(bad, stages) = FirstOf(bad, first)
           /\ ~ Hits(bad, first) /\ "mail_from" \in bad => FirstOf(bad, stages) = "mail_from"
           /\ ~ Hits(bad, first) /\ "mail_from" \notin bad /\ "rcpt_to" \in bad =>
                FirstOf(bad, stages) = "rcpt_to"
           /\ ~ Hits(bad, first) /\ "mail_from" \notin bad /\ "rcpt_to" \notin bad
              /\ "data" \in bad =>
                FirstOf(bad, stages) = "data"
           /\ ~ Hits(bad, first) /\ "mail_from" \notin bad /\ "rcpt_to" \notin bad
              /\ "data" \notin bad /\ "quit" \in bad =>
                FirstOf(bad, stages) = "quit"
           /\ ~ Hits(bad, first) /\ "mail_from" \notin bad /\ "rcpt_to" \notin bad
              /\ "data" \notin bad /\ "quit" \notin bad =>
                FirstOf(bad, stages) = "none"
    BY MailFails
  <2> QED
    BY <2>1 DEF send
<1>8. LET offered == peer.auth /\ "auth" \in bad
      IN /\ Hits(bad, Tries(cfg, peer)) <=> start \/ (HasLogin(cfg) /\ offered)
         /\ refused <=> start \/ offered
         /\ start => /\ FirstOf(bad, Tries(cfg, peer)) = FirstOf(bad, Start(peer))
                     /\ FirstOf(bad, Must(peer)) = FirstOf(bad, Start(peer))
         /\ ~ start /\ HasLogin(cfg) /\ offered => FirstOf(bad, Tries(cfg, peer)) = "auth"
         /\ ~ start /\ offered => FirstOf(bad, Must(peer)) = "auth"
  BY LoginSays
<1>9. start => FirstOf(bad, Start(peer)) \in Beginning
  BY StartSays
<1> HIDE DEF start, refused, failed, sent
<1>10. CASE ~ Anonymous(cfg) /\ start
  <2>1. failed = sent /\ sent \in Beginning
    BY <1>6, <1>7, <1>8, <1>9, <1>10
  <2>2. SendSays(sent) \in Foretold(ProbeSays(failed), peer)
    BY <2>1 DEF Beginning, SendSays, ProbeSays, Foretold
  <2> QED
    BY <1>1, <2>2 DEF probe, send
<1>11. CASE ~ Anonymous(cfg) /\ ~ start /\ refused
  <2>1. sent = "auth" /\ (HasLogin(cfg) => failed = "auth")
    BY <1>6, <1>7, <1>8, <1>11
  <2>2. SendSays(sent) = "auth" /\ (HasLogin(cfg) => SendSays(sent) \in Foretold(ProbeSays(failed), peer))
    BY <2>1 DEF SendSays, ProbeSays, Foretold
  <2> QED
    BY <1>1, <2>2 DEF probe, send
<1>12. CASE ~ Anonymous(cfg) /\ ~ start /\ ~ refused
  <2>1. ~ Hits(bad, Tries(cfg, peer))
    BY <1>8, <1>12
  <2>2. ASSUME "mail_from" \in bad \/ "rcpt_to" \in bad
        PROVE  SendSays(sent) \in Foretold(ProbeSays(failed), peer)
    <3>1. failed = sent /\ sent \in {"mail_from", "rcpt_to"}
      BY <1>6, <1>7, <1>12, <2>1, <2>2
    <3> QED
      BY <3>1 DEF SendSays, ProbeSays, Foretold
  <2>3. ASSUME "mail_from" \notin bad, "rcpt_to" \notin bad, "reset" \in bad
        PROVE  SendSays(sent) \in Foretold(ProbeSays(failed), peer)
    <3>1. failed = "reset" /\ sent \in {"data", "quit", "none"} /\ "reset" \in peer.refuses
      BY <1>3, <1>6, <1>7, <1>12, <2>1, <2>3
    <3> QED
      BY <3>1 DEF SendSays, ProbeSays, Foretold
  <2>4. ASSUME "mail_from" \notin bad, "rcpt_to" \notin bad, "reset" \notin bad, "quit" \in bad
        PROVE  SendSays(sent) \in Foretold(ProbeSays(failed), peer)
    <3>1. failed = "quit" /\ sent \in {"data", "quit"}
      BY <1>6, <1>7, <1>12, <2>1, <2>4
    <3> QED
      BY <3>1 DEF SendSays, ProbeSays, Foretold
  <2>5. ASSUME "mail_from" \notin bad, "rcpt_to" \notin bad, "reset" \notin bad, "quit" \notin bad
        PROVE  SendSays(sent) \in Foretold(ProbeSays(failed), peer)
    <3>1. failed = "none" /\ sent \in {"data", "none"}
      BY <1>6, <1>7, <1>12, <2>1, <2>5
    <3> QED
      BY <3>1 DEF SendSays, ProbeSays, Foretold
  <2>6. SendSays(sent) \in Foretold(ProbeSays(failed), peer)
    BY <2>2, <2>3, <2>4, <2>5
  <2> QED
    BY <1>1, <2>6 DEF probe, send
<1> QED
  BY <1>5, <1>10, <1>11, <1>12

Diagnosable(c, fallback) == DiagnosisCode(c, fallback) = 200

\* What a diagnosis that can be made says of the case.
LEMMA CanDiagnose ==
  ASSUME NEW c, NEW fallback, Diagnosable(c, fallback)
  PROVE  /\ c.channel # Nobody /\ c.channel.type = "email" /\ Trimmed(c.channel.to) # ""
         /\ ~ c.channel.bound => fallback.host # ""
         /\ c.channel.bound => c.provider # Nobody /\ c.provider.config # Unreadable
<1>1. c.channel = Nobody => DiagnosisCode(c, fallback) = 404
  BY Zenon DEF DiagnosisCode
<1>2. c.channel # Nobody /\ (c.channel.type # "email" \/ Trimmed(c.channel.to) = "") =>
        DiagnosisCode(c, fallback) = 400
  BY Zenon DEF DiagnosisCode
<1>3. ASSUME c.channel # Nobody, c.channel.type = "email", Trimmed(c.channel.to) # ""
      PROVE  /\ ~ c.channel.bound /\ fallback.host = "" => DiagnosisCode(c, fallback) = 400
             /\ c.channel.bound /\ c.provider = Nobody => DiagnosisCode(c, fallback) = 404
             /\ c.channel.bound /\ c.provider # Nobody /\ c.provider.config = Unreadable =>
                  DiagnosisCode(c, fallback) = 400
  <2>1. ~ c.channel.bound /\ fallback.host = "" => DiagnosisCode(c, fallback) = 400
    BY <1>3, Zenon DEF DiagnosisCode
  <2>2. c.channel.bound /\ c.provider = Nobody => DiagnosisCode(c, fallback) = 404
    BY <1>3, Zenon DEF DiagnosisCode
  <2>3. c.channel.bound /\ c.provider # Nobody /\ c.provider.config = Unreadable =>
          DiagnosisCode(c, fallback) = 400
    BY <1>3, Zenon DEF DiagnosisCode
  <2> QED
    BY <2>1, <2>2, <2>3
<1>4. DiagnosisCode(c, fallback) # 400 /\ DiagnosisCode(c, fallback) # 404
  BY DEF Diagnosable
<1> QED
  BY <1>1, <1>2, <1>3, <1>4

\* What cannot be diagnosed has no session, when diagnosis and mail are alike.
LEMMA CannotDiagnose ==
  ASSUME NEW c, NEW fallback, ~ Diagnosable(c, fallback), Alike(c),
         c.channel # Nobody => c.channel.type = "email"
  PROVE  ~ HasNotifier(c, fallback)
<1> SUFFICES ASSUME HasNotifier(c, fallback)
             PROVE  Diagnosable(c, fallback)
  OBVIOUS
<1>1. c.channel # Nobody /\ c.channel.to # "" /\ c.channel.type = "email"
  BY DEF HasNotifier
<1>2. Trimmed(c.channel.to) # ""
  BY <1>1 DEF Alike
<1>3. CASE ~ c.channel.bound
  <2>1. fallback.host # ""
    BY <1>3 DEF HasNotifier
  <2> QED
    BY <1>1, <1>2, <1>3, <2>1, Zenon DEF Diagnosable, DiagnosisCode
<1>4. CASE c.channel.bound
  <2>1. c.provider # Nobody /\ c.provider.config # Unreadable
    BY <1>4 DEF HasNotifier
  <2>2. c.provider.type = "email"
    BY <1>1, <1>4, <2>1 DEF Alike
  <2> QED
    BY <1>1, <1>2, <1>4, <2>1, <2>2, Zenon DEF Diagnosable, DiagnosisCode
<1> QED
  BY <1>3, <1>4

\* What becomes of a mail.
Result(c, fallback) == IF HasNotifier(c, fallback) THEN Send(c, fallback) ELSE "no session"

\* What a diagnosis says is what becomes of the mail.
LEMMA ForetoldIs ==
  ASSUME NEW c, NEW fallback, Diagnosable(c, fallback), Alike(c)
  PROVE  LET cfg == ConfigOf(c, fallback)
         IN \/ Result(c, fallback) \in Foretold(Probe(c, fallback), c.relay[ProbeName])
            \/ Result(c, fallback) = "auth" /\ ~ HasLogin(cfg)
            \/ Probe(c, fallback) # "none" /\ Anonymous(cfg)
<1> DEFINE cfg == ConfigOf(c, fallback)
           to == c.channel.to
           peer == c.relay[ProbeName]
           failed == ProbeSays(FailedStage(ProbeStages(cfg, to, peer), cfg, to, peer))
           sent == SendSays(FailedStage(SendStages(peer), cfg, to, peer))
<1>1. c.channel # Nobody /\ Trimmed(to) # ""
  BY CanDiagnose
<1>2. /\ ~ c.channel.bound => fallback.host # ""
      /\ c.channel.bound => c.provider # Nobody /\ c.provider.config # Unreadable
  BY CanDiagnose
<1>3. to = Trimmed(to) /\ peer = c.relay[SendName]
  BY <1>1 DEF Alike
<1>4. Probe(c, fallback) = failed /\ Send(c, fallback) = sent
  BY <1>3 DEF Probe, Send
<1>5. HasNotifier(c, fallback) \/ Anonymous(cfg)
  BY <1>1, <1>2, <1>3 DEF HasNotifier, ConfigOf, Anonymous
<1>6. /\ \/ sent \in Foretold(failed, peer)
         \/ sent = "auth" /\ ~ HasLogin(cfg)
         \/ failed # "none" /\ Anonymous(cfg)
      /\ Anonymous(cfg) => failed # "none"
  <2> HIDE DEF cfg, to, peer
  <2>1. to # ""
    BY <1>1, <1>3
  <2>2. LET f == ProbeSays(FailedStage(ProbeStages(cfg, to, peer), cfg, to, peer))
            r == SendSays(FailedStage(SendStages(peer), cfg, to, peer))
        IN \/ r \in Foretold(f, peer)
           \/ r = "auth" /\ ~ HasLogin(cfg)
           \/ f # "none" /\ Anonymous(cfg)
    BY <2>1, MailFollowsProbe
  <2>3. Anonymous(cfg) => ProbeSays(FailedStage(ProbeStages(cfg, to, peer), cfg, to, peer)) # "none"
    BY <2>1, WithoutSender
  <2> QED
    BY <2>2, <2>3 DEF failed, sent
<1> HIDE DEF failed, sent
<1>7. CASE Anonymous(cfg)
  BY <1>4, <1>6, <1>7
<1>8. CASE ~ Anonymous(cfg)
  <2>1. Result(c, fallback) = sent
    BY <1>4, <1>5, <1>8 DEF Result
  <2> QED
    BY <1>4, <1>6, <2>1
<1> QED
  BY <1>7, <1>8

\* What has been said of a channel, and what has become of a mail through it: the
\* settings of both are those of the server.
Diagnosed(c, fallback) ==
  LET code == DiagnosisCode(c, fallback)
  IN [case |-> c, code |-> code, sent |-> "never",
      failed |-> IF code = 200 THEN Probe(c, fallback) ELSE "none"]

MailInv ==
  /\ phase # "serve" => mail = NoMail
  /\ \/ mail = NoMail
     \/ \E c \in MailCases : mail = Diagnosed(c, settings.mail)
     \/ \E c \in MailCases :
          /\ c.channel # Nobody => c.channel.type = "email"
          /\ mail = [Diagnosed(c, settings.mail) EXCEPT !.sent = Result(c, settings.mail)]

LEMMA MailKept == MailInv /\ [Next]_vars => MailInv'
<1> SUFFICES ASSUME MailInv, [Next]_vars
             PROVE  MailInv'
  OBVIOUS
<1>1. CASE UNCHANGED vars
  BY <1>1 DEF MailInv, vars, dbVars, dataVars, historyVars
<1>2. CASE Boot
  BY <1>2 DEF Boot, MailInv
<1>3. CASE LoadConfig
  BY <1>3 DEF LoadConfig, MailInv
<1>4. CASE OpenStore
  BY <1>4 DEF OpenStore, Open, MailInv
<1>5. CASE Migrate
  <2>1. phase # "serve" /\ UNCHANGED mail
    BY <1>5 DEF Migrate, Execute, Refuse
  <2> QED
    BY <2>1 DEF MailInv
<1>6. CASE Work \/ Kill
  BY <1>6 DEF Work, Kill, ForgetMail, MailInv
<1>7. CASE Session
  <2>1. phase = "serve" /\ UNCHANGED <<phase, settings>>
    BY <1>7 DEF Session, dbVars
  <2>2. CASE \E c \in MailCases : Diagnose(c, settings.mail)
    <3>1. PICK c \in MailCases : Diagnose(c, settings.mail)
      BY <2>2
    <3>2. mail' = Diagnosed(c, settings.mail)
      BY <3>1 DEF Diagnose, Diagnosed
    <3> QED
      BY <2>1, <3>2 DEF MailInv
  <2>3. CASE SendMail(settings.mail)
    <3>1. /\ mail # NoMail /\ mail.sent = "never"
          /\ mail.case.channel # Nobody => mail.case.channel.type = "email"
          /\ mail' = [mail EXCEPT !.sent = Result(mail.case, settings.mail)]
      BY <2>3 DEF SendMail, Result
    <3>2. PICK c \in MailCases : \/ mail = Diagnosed(c, settings.mail)
                                \/ mail = [Diagnosed(c, settings.mail) EXCEPT
                                             !.sent = Result(c, settings.mail)]
      BY <3>1 DEF MailInv
    <3>3. /\ mail.case = c
          /\ \A s : [mail EXCEPT !.sent = s] = [Diagnosed(c, settings.mail) EXCEPT !.sent = s]
      BY <3>2 DEF Diagnosed
    <3>4. /\ c.channel # Nobody => c.channel.type = "email"
          /\ mail' = [Diagnosed(c, settings.mail) EXCEPT !.sent = Result(c, settings.mail)]
      BY <3>1, <3>3
    <3>5. mail' = [Diagnosed(c, settings'.mail) EXCEPT !.sent = Result(c, settings'.mail)]
      BY <2>1, <3>4
    <3> QED
      BY <2>1, <3>4, <3>5 DEF MailInv
  <2> QED
    BY <1>7, <2>2, <2>3 DEF Session
<1> QED
  BY <1>1, <1>2, <1>3, <1>4, <1>5, <1>6, <1>7 DEF Next

LEMMA MailAlways == Spec => []MailInv
<1>1. Init => MailInv
  BY DEF Init, MailInv
<1> QED
  BY <1>1, MailKept, PTL DEF Spec

\* Where a relay treats both names alike, the `to` has no spaces around it and the
\* provider is of the channel's type, the diagnosis of a channel names the stage at which
\* a mail through it fails, up to what Foretold leaves open, a login that is not there and
\* a sender that is not named (ProbeSMTP against EmailNotifier.Send); and what cannot be
\* diagnosed is not sent (smtpDiagnosticConfig against sendEmail).  So it is for every
\* channel, provider and relay and whatever fallback Load has made.
THEOREM DiagnosesForetell == Spec => []DiagnosisIsRight
<1>1. ASSUME MailInv
      PROVE  DiagnosisIsRight
  <2> SUFFICES ASSUME mail.sent # "never"
               PROVE  DiagnosisForetells(settings.mail)
    BY DEF DiagnosisIsRight, DiagnosisForetells
  <2>1. PICK c \in MailCases :
          /\ c.channel # Nobody => c.channel.type = "email"
          /\ mail = [Diagnosed(c, settings.mail) EXCEPT !.sent = Result(c, settings.mail)]
    BY <1>1 DEF MailInv, NoMail, Diagnosed
  <2> DEFINE code == DiagnosisCode(c, settings.mail)
             failed == Probe(c, settings.mail)
             sent == Result(c, settings.mail)
  <2>2. /\ mail.case = c /\ mail.code = code /\ mail.sent = sent
        /\ code = 200 => mail.failed = failed
    BY <2>1 DEF Diagnosed
  <2>3. ASSUME Alike(c), Diagnosable(c, settings.mail)
        PROVE  \/ sent \in Foretold(failed, c.relay[ProbeName])
               \/ sent = "auth" /\ ~ HasLogin(ConfigOf(c, settings.mail))
               \/ failed # "none" /\ Anonymous(ConfigOf(c, settings.mail))
    <3>1. LET cfg == ConfigOf(c, settings.mail)
          IN \/ Result(c, settings.mail) \in Foretold(Probe(c, settings.mail), c.relay[ProbeName])
             \/ Result(c, settings.mail) = "auth" /\ ~ HasLogin(cfg)
             \/ Probe(c, settings.mail) # "none" /\ Anonymous(cfg)
      BY <2>3, ForetoldIs
    <3> QED
      BY <3>1
  <2>4. ASSUME Alike(c), ~ Diagnosable(c, settings.mail)
        PROVE  sent = "no session"
    BY <2>1, <2>4, CannotDiagnose DEF Result
  <2> HIDE DEF code, failed, sent
  <2>5. Diagnosable(c, settings.mail) <=> code = 200
    BY DEF Diagnosable, code
  <2> QED
    BY <2>2, <2>3, <2>4, <2>5 DEF DiagnosisForetells, Anonymous
<1> QED
  BY <1>1, MailAlways, PTL
=============================================================================
