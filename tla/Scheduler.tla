------------------------------ MODULE Scheduler ------------------------------
(***************************************************************************)
(* internal/scheduler and the memory queue of internal/queue: the tick     *)
(* loop that turns due jobs into executions, the worker pool that runs     *)
(* them, and the run itself, which the trigger handler also starts in      *)
(* goroutines of its own.                                                  *)
(*                                                                         *)
(* The loop is one goroutine.  It holds a snapshot of the due jobs and of  *)
(* the clock while it works through them, one statement at a time, and     *)
(* anything may happen to the tables between two of its statements.        *)
(***************************************************************************)
EXTENDS Store, Sequences

CONSTANTS
  Workers,      \* size of the worker pool
  QueueSize,    \* capacity of the channel between the loop and the pool
  MaxLateness,  \* scheduler.max_lateness
  Minute        \* ListDueJobs compares with the clock truncated to a Minute

ASSUME SchedulerAssumption ==
  /\ Workers \in Nat \ {0}
  /\ QueueSize \in Nat \ {0}
  /\ MaxLateness \in Nat
  /\ Minute \in Nat \ {0}

VARIABLES
  now,    \* the wall clock
  pc,     \* the loop: which statement it executes next; "off" with the process
  at,     \* nowUTC of the current tick
  todo,   \* the due jobs of this tick still to be dispatched (snapshots)
  item,   \* the snapshot being dispatched
  execID, \* the execution inserted for it
  queue,  \* the channel: executions waiting for a worker
  phase   \* where the goroutine that must finish an execution stands

loopVars == <<pc, at, todo, item, execID>>
schedulerVars == <<now, loopVars, queue, phase>>

Snapshot == [job : Job, cron : Cron, slot : Nat]
NoItem == [job |-> NoJob, cron |-> CHOOSE c \in Cron : TRUE, slot |-> NoSlot]

\* "sending": a POST /send handler runs its steps itself.  "spawned", "taken":
\* not yet past GetJob; "unloaded": GetJob failed.
Running == {"spawned", "taken", "unloaded", "running"}
Held == {"dispatched", "queued", "sending"} \union Running
Phase == {"none", "over"} \union Held

SchedulerTypeOK ==
  /\ now \in Nat
  /\ pc \in {"off", "recover", "loop", "skip", "advance", "push"}
  /\ at \in Nat
  /\ todo \subseteq Snapshot
  /\ item \in Snapshot \union {NoItem}
  /\ execID \in Exec \union {NoExec}
  /\ queue \in Seq(Exec)
  /\ phase \in [Exec -> Phase]

------------------------------------------------------------------------------
(* The tick loop *)

Floor(t) == t - (t % Minute)

DueJobs == {j \in Job : DueAt(j, Floor(now))}

\* Mutant: recovery is repeated while the loop works.
RecoverPeriodically ==
  /\ pc \in {"recover", "loop"}
  /\ RecoverStaleExecutions
  /\ pc' = "loop"
  /\ UNCHANGED <<jobs, now, at, todo, item, execID, queue, phase>>

\* Mutant: stale rows are not recovered.
RecoverNothing ==
  /\ pc = "recover"
  /\ pc' = "loop"
  /\ UNCHANGED <<storeVars, now, at, todo, item, execID, queue, phase>>

\* Start: rows left running by the previous process are closed before the loop
\* and the workers start; an error is only logged.
Recover ==
  /\ pc = "recover"
  /\ \/ RecoverStaleExecutions
     \/ StoreMayFail /\ UNCHANGED executions
  /\ pc' = "loop"
  /\ UNCHANGED <<jobs, now, at, todo, item, execID, queue, phase>>

\* runOnce, when ListDueJobs finds something.
ListDue ==
  /\ pc = "loop" /\ todo = {}
  /\ DueJobs # {}
  /\ todo' = {[job |-> j, cron |-> jobs[j].cron, slot |-> jobs[j].nextRun] :
              j \in DueJobs}
  /\ at' = now
  /\ UNCHANGED <<storeVars, now, pc, item, execID, queue, phase>>

\* runOnce, when it finds nothing, or fails and logs the error.
IdleTick ==
  /\ pc = "loop" /\ todo = {}
  /\ DueJobs = {} \/ StoreMayFail
  /\ UNCHANGED <<storeVars, schedulerVars>>

\* ORDER BY next_run_at, ties in any order.
Foremost(it) == it \in todo /\ \A other \in todo : it.slot <= other.slot

\* dispatchJob returns and runOnce turns to the jobs that remain.
Return(rest) ==
  /\ pc' = "loop"
  /\ todo' = rest
  /\ at' = IF rest = {} THEN 0 ELSE at
  /\ item' = NoItem
  /\ execID' = NoExec

CanAdvance(it) == HasNextRunAfter(it.cron, it.slot, at)
Next1(it) == NextRunAfter(it.cron, it.slot, at)

\* Mutant: a slot exactly max_lateness old is late.
LateAtOnce(it) == at - it.slot >= MaxLateness

Late(it) == at - it.slot > MaxLateness

\* No next slot can be computed: the job is left as it is.
DispatchNoNext ==
  /\ pc = "loop"
  /\ \E it \in todo :
       /\ Foremost(it)
       /\ ~CanAdvance(it)
       /\ Return(todo \ {it})
  /\ UNCHANGED <<storeVars, now, queue, phase>>

\* Mutant: an overdue slot is dropped without moving the schedule.
DispatchOverdueStays ==
  /\ pc = "loop"
  /\ \E it \in todo :
       /\ Foremost(it)
       /\ CanAdvance(it) /\ Late(it)
       /\ Return(todo \ {it})
  /\ UNCHANGED <<storeVars, now, queue, phase>>

\* No catch-up: an overdue slot is dropped and the schedule moves on.
DispatchOverdue ==
  /\ pc = "loop"
  /\ \E it \in todo :
       /\ Foremost(it)
       /\ CanAdvance(it) /\ Late(it)
       /\ \/ FastForwardJobNextRun(it.job, Next1(it))
          \/ StoreMayFail /\ UNCHANGED jobs
       /\ Return(todo \ {it})
  /\ UNCHANGED <<executions, now, queue, phase>>

\* The lock of the job is free: the row is inserted with status running.
DispatchInsert ==
  /\ pc = "loop"
  /\ \E it \in todo, e \in Exec :
       /\ Foremost(it)
       /\ CanAdvance(it) /\ ~Late(it)
       /\ ~Conflicts(it.job, NoKey)
       /\ Fresh(e)
       /\ InsertRunningExecution(e, it.job, "cron", it.slot, NoKey)
       /\ pc' = "advance"
       /\ todo' = todo \ {it}
       /\ item' = it
       /\ execID' = e
       /\ phase' = [phase EXCEPT ![e] = "dispatched"]
  /\ UNCHANGED <<jobs, now, at, queue>>

\* The insert hit a unique index.
DispatchConflict ==
  /\ pc = "loop"
  /\ \E it \in todo :
       /\ Foremost(it)
       /\ CanAdvance(it) /\ ~Late(it)
       /\ Conflicts(it.job, NoKey)
       /\ pc' = "skip"
       /\ todo' = todo \ {it}
       /\ item' = it
  /\ UNCHANGED <<storeVars, now, at, execID, queue, phase>>

\* The insert failed for another reason: logged, nothing else.
DispatchInsertFails ==
  /\ pc = "loop"
  /\ StoreMayFail
  /\ \E it \in todo :
       /\ Foremost(it)
       /\ CanAdvance(it) /\ ~Late(it)
       /\ Return(todo \ {it})
  /\ UNCHANGED <<storeVars, now, queue, phase>>

\* After a conflict the schedule still moves on.
DispatchSkip ==
  /\ pc = "skip"
  /\ \/ FastForwardJobNextRun(item.job, Next1(item))
     \/ StoreMayFail /\ UNCHANGED jobs
  /\ Return(todo)
  /\ UNCHANGED <<executions, now, queue, phase>>

DispatchAdvance ==
  /\ pc = "advance"
  /\ AdvanceJobSchedule(item.job, item.slot, Next1(item))
  /\ pc' = "push"
  /\ UNCHANGED <<executions, now, at, todo, item, execID, queue, phase>>

\* The inserted row stays running and nobody is left to run it.
DispatchAdvanceFails ==
  /\ pc = "advance"
  /\ StoreMayFail
  /\ phase' = [phase EXCEPT ![execID] = "over"]
  /\ Return(todo)
  /\ UNCHANGED <<storeVars, now, queue>>

\* Push blocks the loop while the channel is full.
DispatchPush ==
  /\ pc = "push"
  /\ Len(queue) < QueueSize
  /\ queue' = Append(queue, execID)
  /\ phase' = [phase EXCEPT ![execID] = "queued"]
  /\ Return(todo)
  /\ UNCHANGED <<storeVars, now>>

------------------------------------------------------------------------------
(* The worker pool and the run *)

Started == pc \notin {"off", "recover"}

BusyWorkers ==
  {e \in Exec : executions[e].trigger = "cron" /\ phase[e] \in Running}

\* Mutant: every task gets a goroutine, there is no pool.
WorkerTakeUnbounded ==
  /\ Started
  /\ queue # <<>>
  /\ queue' = Tail(queue)
  /\ phase' = [phase EXCEPT ![Head(queue)] = "taken"]
  /\ UNCHANGED <<storeVars, now, loopVars>>

\* The rate limit only delays a worker between this step and the next.
WorkerTake ==
  /\ Started
  /\ queue # <<>>
  /\ Cardinality(BusyWorkers) < Workers
  /\ queue' = Tail(queue)
  /\ phase' = [phase EXCEPT ![Head(queue)] = "taken"]
  /\ UNCHANGED <<storeVars, now, loopVars>>

\* runJob reloads the job: the snapshot it was given is not used any further.
RunLoad(e) ==
  /\ phase[e] \in {"spawned", "taken"}
  /\ \/ /\ Live(executions[e].job)
        /\ phase' = [phase EXCEPT ![e] = "running"]
     \/ /\ ~Live(executions[e].job) \/ StoreMayFail
        /\ phase' = [phase EXCEPT ![e] = "unloaded"]
  /\ UNCHANGED <<storeVars, now, loopVars, queue>>

\* Mutant: a job that cannot be loaded ends the run without a word.
RunFinishLoadedOnly(e) ==
  /\ phase[e] \in {"running", "unloaded"}
  /\ IF phase[e] = "running"
     THEN \E status \in Terminal : MarkExecutionFinished(e, status)
     ELSE UNCHANGED executions
  /\ phase' = [phase EXCEPT ![e] = "over"]
  /\ UNCHANGED <<jobs, now, loopVars, queue>>

\* The row is closed with what the steps (or their absence) came to, and an
\* error of that statement is ignored.
RunFinish(e) ==
  /\ \/ /\ phase[e] = "running"
        /\ \E status \in Terminal : MarkExecutionFinished(e, status)
     \/ /\ phase[e] = "unloaded"
        /\ MarkExecutionFinished(e, "failed")
     \/ /\ phase[e] \in {"running", "unloaded"}
        /\ StoreMayFail /\ UNCHANGED executions
  /\ phase' = [phase EXCEPT ![e] = "over"]
  /\ UNCHANGED <<jobs, now, loopVars, queue>>

LoopNext ==
  \/ Recover
  \/ ListDue
  \/ IdleTick
  \/ DispatchNoNext
  \/ DispatchOverdue
  \/ DispatchInsert
  \/ DispatchConflict
  \/ DispatchInsertFails
  \/ DispatchSkip
  \/ DispatchAdvance
  \/ DispatchAdvanceFails
  \/ DispatchPush

RunNext(e) == RunLoad(e) \/ RunFinish(e)
=============================================================================
