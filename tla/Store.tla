-------------------------------- MODULE Store --------------------------------
(***************************************************************************)
(* The two tables of internal/store that the scheduler and the HTTP        *)
(* handlers share, and the SQL statements they run on them.  SQLite is     *)
(* opened with one connection, so a statement is atomic and statements of  *)
(* different goroutines interleave freely.                                 *)
(*                                                                         *)
(* Each operator below that primes a table is ONE statement (or one        *)
(* transaction) and leaves the other table to its caller.                  *)
(***************************************************************************)
EXTENDS Cron

CONSTANTS
  Job,           \* job ids
  NoJob,         \* none of them
  Adhoc,         \* the job id '__adhoc__' of POST /send, in no row of jobs
  MaxExec,       \* bound: executions that can ever be inserted
  Key,           \* Idempotency-Key values, NoKey for a request without one
  NoKey,
  StoreMayFail   \* TRUE: any statement may return an error and change nothing

Exec == 1..MaxExec
NoExec == 0
NoSlot == ZeroTime   \* scheduled_at IS NULL

ASSUME StoreAssumption ==
  /\ NoJob \notin Job /\ Adhoc \notin Job
  /\ Cron # {}
  /\ MaxExec \in Nat
  /\ NoKey \in Key
  /\ StoreMayFail \in BOOLEAN

VARIABLES
  jobs,        \* table jobs, with the ids not created yet and those deleted
  executions   \* table executions, "none" for an id not inserted yet

storeVars == <<jobs, executions>>

NoJobRow == [state |-> "unborn", enabled |-> FALSE, cron |-> CHOOSE c \in Cron : TRUE,
             nextRun |-> ZeroTime, lastRun |-> ZeroTime]

Terminal == {"success", "failed"}

EmptyRow == [status |-> "none", job |-> NoJob, trigger |-> "manual",
             slot |-> NoSlot, key |-> NoKey, error |-> ""]

JobRow == [state : {"unborn", "live", "deleted"}, enabled : BOOLEAN,
           cron : Cron, nextRun : Nat, lastRun : Nat]

\* error keeps apart the texts that say who closed the row: the run itself
\* ("run") or RecoverStaleExecutions ("restart").
ExecRow == [status : {"none", "running"} \union Terminal,
            job : Job \union {NoJob, Adhoc},
            trigger : {"cron", "manual", "adhoc"}, slot : Nat, key : Key,
            error : {"", "run", "restart"}]

StoreTypeOK ==
  /\ jobs \in [Job -> JobRow]
  /\ executions \in [Exec -> ExecRow]

Live(j) == jobs[j].state = "live"

\* WHERE enabled=1 AND next_run_at <= upTo
DueAt(j, upTo) == Live(j) /\ jobs[j].enabled /\ jobs[j].nextRun <= upTo

------------------------------------------------------------------------------
(* Statements on executions *)

Inserted(e) == executions[e].status # "none"

\* uuid.NewString: an id no row has; ids are opaque, so the first unused one.
Fresh(e) == ~Inserted(e) /\ \A d \in Exec : d < e => Inserted(d)

\* Mutant: no index on the rows that run.
ConflictsOnKeyOnly(j, k) ==
  k # NoKey /\ \E e \in Exec :
    Inserted(e) /\ executions[e].job = j /\ executions[e].key = k

\* Mutant: no index on the keys.
ConflictsOnRunningOnly(j, k) ==
  j # Adhoc /\ \E e \in Exec :
    executions[e].job = j /\ executions[e].status = "running"

\* The unique indexes the last migration leaves: uniq_running_job, which spares
\* ad-hoc rows, and uniq_idempotency reject the row.
Conflicts(j, k) ==
  \E e \in Exec :
    /\ executions[e].job = j
    /\ \/ executions[e].status = "running" /\ j # Adhoc
       \/ Inserted(e) /\ k # NoKey /\ executions[e].key = k

InsertRunningExecution(e, j, trigger, slot, k) ==
  executions' = [executions EXCEPT ![e] =
    [status |-> "running", job |-> j, trigger |-> trigger, slot |-> slot,
     key |-> k, error |-> ""]]

\* UPDATE ... WHERE id=?: there is no condition on the status it replaces.
MarkExecutionFinished(e, status) ==
  executions' = [executions EXCEPT ![e] =
    [@ EXCEPT !.status = status, !.error = IF status = "failed" THEN "run" ELSE ""]]

\* Mutant: the rows are put back to pending.
RecoverToPending ==
  executions' = [e \in Exec |->
    IF executions[e].status = "running"
    THEN [executions[e] EXCEPT !.status = "pending"]
    ELSE executions[e]]

\* Mutant: the statement has lost its WHERE clause.
RecoverEveryRow ==
  executions' = [e \in Exec |->
    IF Inserted(e)
    THEN [executions[e] EXCEPT !.status = "failed", !.error = "restart"]
    ELSE executions[e]]

\* Mutant: the rows of jobs are taken for those of sends.
RecoverAdhocOnly ==
  executions' = [e \in Exec |->
    IF executions[e].status = "running" /\ executions[e].job = Adhoc
    THEN [executions[e] EXCEPT !.status = "failed", !.error = "restart"]
    ELSE executions[e]]

RecoverStaleExecutions ==
  executions' = [e \in Exec |->
    IF executions[e].status = "running"
    THEN [executions[e] EXCEPT !.status = "failed", !.error = "restart"]
    ELSE executions[e]]

------------------------------------------------------------------------------
(* Statements on jobs; an UPDATE of a deleted id changes no row *)

\* Mutant: next_run_at is left out of the SET list.
AdvanceLastRunOnly(j, slot, next) ==
  jobs' = IF Live(j) THEN [jobs EXCEPT ![j].lastRun = slot] ELSE jobs

AdvanceJobSchedule(j, slot, next) ==
  jobs' = IF Live(j) THEN [jobs EXCEPT ![j].nextRun = next, ![j].lastRun = slot]
                     ELSE jobs

FastForwardJobNextRun(j, next) ==
  jobs' = IF Live(j) THEN [jobs EXCEPT ![j].nextRun = next] ELSE jobs

\* last_run_at is not among the columns UpdateJob writes.
UpdateJob(j, row) ==
  jobs' = [jobs EXCEPT ![j] = [row EXCEPT !.lastRun = jobs[j].lastRun]]

CreateJob(j, c, on, next) ==
  jobs' = [jobs EXCEPT ![j] = [state |-> "live", enabled |-> on, cron |-> c,
                               nextRun |-> next, lastRun |-> ZeroTime]]

\* The foreign key cascades to job_steps only: executions keep their rows.
DeleteJob(j) == jobs' = [jobs EXCEPT ![j] = [NoJobRow EXCEPT !.state = "deleted"]]
=============================================================================
