----------------------------- MODULE Migrations -----------------------------
(***************************************************************************)
(* The start of internal/store: Open brings the database to version 5 with *)
(* five migrations, lists of statements that are executed one by one.      *)
(* There is no transaction around a migration, and its version is recorded *)
(* after its last statement: what a process leaves behind when it ends     *)
(* between two statements is what the next one finds.                      *)
(***************************************************************************)
EXTENDS Naturals, FiniteSets, Sequences

CONSTANTS
  ExecId,      \* ids of executions
  MaxFaults    \* bound: kills and statements that fail for reasons of their own

ASSUME MigrationsAssumption == MaxFaults \in Nat

VARIABLES
  tables,      \* the tables there are
  indexes,     \* the indexes there are
  legacy,      \* the columns of jobs from before the migrations
  fields,      \* the columns of executions: those of version "v1" or "v5"
  rows,        \* the rows of executions
  copy,        \* the rows of executions_new
  records,     \* the executions that have rows in execution_steps
  recorded,    \* the versions in schema_migrations
  phase,       \* the process: "down", "load", "open", "migrate", "serve"
  at,          \* the migration and the statement of it that is next
  faults,      \* how often something went wrong
  cut,         \* a process ended where the next one cannot go on (a history)
  misread,     \* this process read no version where there was one (a history)
  kept         \* a look at the columns of jobs has failed (a history)

dataVars == <<tables, indexes, legacy, fields, rows, copy, records, recorded>>
historyVars == <<cut, misread, kept>>
dbVars == <<dataVars, phase, at, faults, historyVars>>

Create(t) == [do |-> "create", name |-> t]
CreateIndex(i) == [do |-> "index", name |-> i]
DropColumn(c) == [do |-> "column", name |-> c]
DropIndex(i) == [do |-> "unindex", name |-> i]
CopyRows == [do |-> "copy", name |-> "executions_new"]
DropTable == [do |-> "drop", name |-> "executions"]
RenameTable == [do |-> "rename", name |-> "executions_new"]
Record == [do |-> "record", name |-> "schema_migrations"]

\* What each migration executes, in this order, and the record of its version.
Script == <<
  <<Create("jobs"), Create("executions"), Create("channels"), Create("providers"),
    CreateIndex("idx_jobs_next_run_at"), CreateIndex("idx_exec_job_sched"), Record>>,
  <<Create("job_steps"), Create("execution_steps"),
    CreateIndex("idx_execution_steps_exec"), Record>>,
  <<CreateIndex("uniq_running_job"), Record>>,
  <<DropColumn("message"), DropColumn("channels_json"), Record>>,
  <<Create("executions_new"), CopyRows,
    DropIndex("uniq_running_job"), DropIndex("idx_exec_job_sched"),
    DropTable, RenameTable,
    CreateIndex("uniq_running_job"), CreateIndex("idx_exec_job_sched"),
    CreateIndex("uniq_idempotency"), Record>>>>

Versions == 1..Len(Script)
Names(v, what) == {s.name : s \in {Script[v][i] : i \in {k \in DOMAIN Script[v] :
                                                       Script[v][k].do = what}}}

OnExecutions == {"idx_exec_job_sched", "uniq_running_job", "uniq_idempotency"}
LegacyColumns == Names(4, "column")

\* Executions of one job: its id is not told.
Row == [id : ExecId, trigger : {"cron", "manual"}, running : BOOLEAN]
Ids(set) == {r.id : r \in set}

\* No two running executions of one job: what uniq_running_job asks of the rows.
OneRuns(set) == \A r, q \in set : r.running /\ q.running => r = q
UniqueIds(set) == \A r, q \in set : r.id = q.id => r = q

\* Version v, or the tables of the first server, which recorded none.
AtVersion(v, old) ==
  /\ recorded = 1..v
  /\ tables = IF v = 0 /\ ~old THEN {}
              ELSE (UNION {Names(w, "create") : w \in 1..(IF v = 0 THEN 1 ELSE v)})
                     \ {"executions_new"}
  /\ indexes = UNION {Names(w, "index") : w \in 1..v}
  /\ legacy = IF old /\ v < 4 THEN LegacyColumns ELSE {}
  /\ fields = IF v = 5 THEN "v5" ELSE "v1"
  /\ rows \in {set \in SUBSET [id : ExecId, trigger : {"cron"}, running : BOOLEAN] :
                UniqueIds(set)}
  /\ v >= 3 => OneRuns(rows)
  /\ tables = {} => rows = {}
  /\ records \in SUBSET Ids(rows)
  /\ v < 2 => records = {}

MigrationsInit ==
  /\ \E v \in {0} \union Versions, old \in BOOLEAN : AtVersion(v, old)
  /\ copy = {}
  /\ phase = "down" /\ at = <<0, 0>>
  /\ faults = 0 /\ cut = FALSE /\ misread = FALSE /\ kept = FALSE

MigrationsTypeOK ==
  /\ tables \subseteq UNION {Names(v, "create") : v \in Versions}
  /\ indexes \subseteq UNION {Names(v, "index") : v \in Versions}
  /\ legacy \subseteq LegacyColumns
  /\ fields \in {"v1", "v5"}
  /\ rows \subseteq Row /\ copy \subseteq Row
  /\ records \subseteq ExecId
  /\ recorded \subseteq Versions
  /\ phase \in {"down", "load", "open", "migrate", "serve"}
  /\ at \in Nat \X Nat
  /\ phase = "migrate" => at[1] \in Versions /\ at[2] \in DOMAIN Script[at[1]]
  /\ faults \in 0..MaxFaults
  /\ cut \in BOOLEAN /\ misread \in BOOLEAN /\ kept \in BOOLEAN

------------------------------------------------------------------------------
(* The process *)

\* Mutants: a loop that goes past the last migration, and one that never gets there.
ReadVersionPastEnd(current) ==
  IF current > Len(Script)
  THEN phase' = "serve" /\ at' = <<0, 0>>
  ELSE phase' = "migrate" /\ at' = <<current + 1, 1>>

ReadVersionShort(current) ==
  IF current + 1 >= Len(Script)
  THEN phase' = "serve" /\ at' = <<0, 0>>
  ELSE phase' = "migrate" /\ at' = <<current + 1, 1>>

\* The version after current is where the loop over the migrations begins.
ReadVersion(current) ==
  IF current = Len(Script)
  THEN phase' = "serve" /\ at' = <<0, 0>>
  ELSE phase' = "migrate" /\ at' = <<current + 1, 1>>

\* initDB and the top of runMigrations: the error of the query is dropped, and the
\* version is then 0.
Open ==
  /\ phase = "open"
  /\ \/ /\ \E v \in {0} \union recorded :
             (\A w \in recorded : w <= v) /\ ReadVersion(v)
        /\ UNCHANGED <<faults, misread>>
     \/ /\ faults < MaxFaults /\ faults' = faults + 1
        /\ ReadVersion(0)
        /\ misread' = (recorded # {})
  /\ UNCHANGED <<dataVars, cut, kept>>

Statement == Script[at[1]][at[2]]

\* What SQLite refuses: to use a table that is missing, or to rename over one; to
\* insert a key that is taken; to index rows that break the rule.
\* Mutants: CREATE TABLE without IF NOT EXISTS; DROP COLUMN without a look at the
\* columns.
TablesFitOnce ==
  /\ Statement.do = "create" => Statement.name \notin tables
  /\ Statement.do \in {"copy", "drop"} => "executions" \in tables
  /\ Statement.do = "rename" => "executions" \notin tables

TablesFitUnseen ==
  /\ Statement.do = "column" => Statement.name \in legacy
  /\ Statement.do \in {"copy", "drop"} => "executions" \in tables
  /\ Statement.do = "rename" => "executions" \notin tables

TablesFit ==
  /\ Statement.do \in {"copy", "drop"} => "executions" \in tables
  /\ Statement.do = "rename" => "executions" \notin tables

\* Mutant: INSERT OR IGNORE for the version.
KeysFitCopy == Statement.do = "copy" => Ids(rows) \cap Ids(copy) = {}

KeysFit ==
  /\ Statement.do = "copy" => Ids(rows) \cap Ids(copy) = {}
  /\ Statement.do = "record" => at[1] \notin recorded

RowsFit == Statement = CreateIndex("uniq_running_job") => OneRuns(rows)

CanExecute == TablesFit /\ KeysFit /\ RowsFit

\* Mutant: the swap makes a clean copy instead of stumbling over an old one.
CreateStatementClean ==
  /\ Statement.do = "create"
  /\ tables' = tables \union {Statement.name}
  /\ fields' = IF Statement.name \in {"executions"} \ tables THEN "v1" ELSE fields
  /\ copy' = IF Statement.name = "executions_new" THEN {} ELSE copy
  /\ UNCHANGED <<indexes, legacy, rows, records, recorded, kept, faults>>

\* CREATE TABLE IF NOT EXISTS.
CreateStatement ==
  /\ Statement.do = "create"
  /\ tables' = tables \union {Statement.name}
  /\ fields' = IF Statement.name \in {"executions"} \ tables THEN "v1" ELSE fields
  /\ UNCHANGED <<indexes, legacy, rows, copy, records, recorded, kept, faults>>

\* CREATE and DROP INDEX, IF NOT EXISTS and IF EXISTS.
IndexStatement ==
  /\ Statement.do \in {"index", "unindex"}
  /\ indexes' = IF Statement.do = "index"
                THEN indexes \union {Statement.name} ELSE indexes \ {Statement.name}
  /\ UNCHANGED <<tables, legacy, fields, rows, copy, records, recorded, kept, faults>>

\* A look at the columns of jobs, whose error is dropped, and ALTER TABLE if the
\* column was seen.
ColumnStatement ==
  /\ Statement.do = "column"
  /\ \/ legacy' = legacy \ {Statement.name} /\ UNCHANGED <<kept, faults>>
     \/ /\ faults < MaxFaults /\ faults' = faults + 1
        /\ UNCHANGED legacy
        /\ kept' = (kept \/ Statement.name \in legacy)
  /\ UNCHANGED <<tables, indexes, fields, rows, copy, records, recorded>>

\* The fields that version 5 adds get defaults, whatever the table has.
CopyStatement ==
  /\ Statement.do = "copy"
  /\ copy' = copy \union {[r EXCEPT !.trigger = "cron"] : r \in rows}
  /\ UNCHANGED <<tables, indexes, legacy, fields, rows, records, recorded, kept, faults>>

\* DROP TABLE takes the indexes of the table with it and, as foreign_keys is ON,
\* deletes the rows first: execution_steps has ON DELETE CASCADE.
DropStatement ==
  /\ Statement.do = "drop"
  /\ tables' = tables \ {"executions"}
  /\ indexes' = indexes \ OnExecutions
  /\ rows' = {}
  /\ records' = records \ Ids(rows)
  /\ UNCHANGED <<legacy, fields, copy, recorded, kept, faults>>

RenameStatement ==
  /\ Statement.do = "rename"
  /\ tables' = (tables \ {"executions_new"}) \union {"executions"}
  /\ fields' = "v5"
  /\ rows' = copy /\ copy' = {}
  /\ UNCHANGED <<indexes, legacy, records, recorded, kept, faults>>

\* The INSERT into schema_migrations, whose primary key is the version.
RecordStatement ==
  /\ Statement.do = "record"
  /\ recorded' = recorded \union {at[1]}
  /\ UNCHANGED <<tables, indexes, legacy, fields, rows, copy, records, kept, faults>>

\* After the record of a version the loop goes on with the next one.
Advance ==
  IF at[2] < Len(Script[at[1]])
  THEN at' = <<at[1], at[2] + 1>> /\ UNCHANGED phase
  ELSE ReadVersion(at[1])

Execute ==
  /\ phase = "migrate" /\ CanExecute
  /\ \/ CreateStatement \/ IndexStatement \/ ColumnStatement
     \/ CopyStatement \/ DropStatement \/ RenameStatement \/ RecordStatement
  /\ Advance
  /\ UNCHANGED <<cut, misread>>

Exit == phase' = "down" /\ at' = <<0, 0>> /\ misread' = FALSE

\* The statement cannot be executed: Open returns the error and main exits.
Refuse ==
  /\ phase = "migrate" /\ ~CanExecute
  /\ Exit
  /\ UNCHANGED <<dataVars, faults, cut, kept>>

\* Between the copy and the rename: there are rows to be copied a second time, or
\* the table to copy from is gone.
InSwap ==
  /\ phase = "migrate"
  /\ "executions_new" \in tables
  /\ "executions" \in tables => Ids(rows) \cap Ids(copy) # {}

\* A kill, or a statement that fails for reasons of its own, which ends main too.
\* Before the database is open it would leave nothing behind.
Die ==
  /\ phase \in {"open", "migrate", "serve"}
  /\ faults < MaxFaults /\ faults' = faults + 1
  /\ Exit
  /\ cut' = (cut \/ InSwap)
  /\ UNCHANGED <<dataVars, kept>>

\* An execution of the server: its row with its trigger, then, when it is over or a
\* later process recovers it, the rows of its steps.
Insert(e, trigger) ==
  /\ phase = "serve" /\ e \notin Ids(rows)
  /\ \A r \in rows : ~r.running
  /\ rows' = rows \union {[id |-> e, trigger |-> trigger, running |-> TRUE]}
  /\ UNCHANGED <<tables, indexes, legacy, fields, copy, records, recorded,
                 phase, at, faults, historyVars>>

Finish(r) ==
  /\ phase = "serve" /\ r \in rows /\ r.running
  /\ rows' = (rows \ {r}) \union {[r EXCEPT !.running = FALSE]}
  /\ records' = records \union {r.id}
  /\ UNCHANGED <<tables, indexes, legacy, fields, copy, recorded,
                 phase, at, faults, historyVars>>
=============================================================================
