------------------------------- MODULE Server -------------------------------
(***************************************************************************)
(* The whole process of cmd/server: the scheduler and the HTTP server are  *)
(* started together and die together, the database outlives them.          *)
(***************************************************************************)
EXTENDS Api

CONSTANTS
  MaxTime,     \* bound: the clock stops here
  MaxCrashes   \* bound: how often the process dies

ASSUME ServerAssumption ==
  /\ MaxTime \in Nat
  /\ MaxCrashes \in Nat

VARIABLES
  crashes      \* how often it has died

vars == <<storeVars, schedulerVars, apiVars, crashes>>

TypeOK ==
  /\ StoreTypeOK
  /\ SchedulerTypeOK
  /\ ApiTypeOK
  /\ crashes \in Nat

Init ==
  /\ jobs = [j \in Job |-> NoJobRow]
  /\ executions = [e \in Exec |-> EmptyRow]
  /\ now = 1
  /\ pc = "recover"
  /\ at = 0
  /\ todo = {}
  /\ item = NoItem
  /\ execID = NoExec
  /\ queue = <<>>
  /\ phase = [e \in Exec |-> "none"]
  /\ trig = [r \in TriggerReq |-> [pc |-> "new", job |-> NoJob, key |-> NoKey,
                code |-> 0, exec |-> NoExec, status |-> "none"]]
  /\ patch = [p \in PatchReq |-> [pc |-> "new", job |-> NoJob, row |-> NoJobRow]]
  /\ crashes = 0

------------------------------------------------------------------------------

Tick ==
  /\ now < MaxTime
  /\ now' = now + 1
  /\ UNCHANGED <<storeVars, loopVars, queue, phase, apiVars, crashes>>

\* A kill or the end of a shutdown.  On SIGTERM the context of the loop and of
\* the workers is cancelled first, and every statement they still issue fails
\* and changes nothing: a shutdown is a behaviour in which they stop stepping,
\* trigger goroutines perhaps go on, and then the process is gone.
Crash ==
  /\ Up
  /\ crashes < MaxCrashes
  /\ crashes' = crashes + 1
  /\ pc' = "off" /\ at' = 0 /\ todo' = {} /\ item' = NoItem /\ execID' = NoExec
  /\ queue' = <<>>
  /\ phase' = [e \in Exec |-> IF phase[e] \in Held THEN "over" ELSE phase[e]]
  /\ trig' = [r \in TriggerReq |->
       IF trig[r].pc = "new" THEN trig[r] ELSE [trig[r] EXCEPT !.pc = "done"]]
  /\ patch' = [p \in PatchReq |->
       IF patch[p].pc = "new" THEN patch[p] ELSE PatchDone]
  /\ UNCHANGED <<storeVars, now>>

\* main starts the scheduler in a goroutine and the listener beside it: the
\* handlers serve before, while and after the scheduler recovers stale rows.
Boot ==
  /\ pc = "off"
  /\ pc' = "recover"
  /\ UNCHANGED <<storeVars, now, at, todo, item, execID, queue, phase, apiVars,
                 crashes>>

Next ==
  \/ /\ LoopNext \/ WorkerTake \/ \E e \in Exec : RunNext(e)
     /\ UNCHANGED <<apiVars, crashes>>
  \/ ApiNext /\ UNCHANGED crashes
  \/ Tick
  \/ Crash
  \/ Boot

\* The goroutines keep being scheduled, every step of a job ends (it runs under
\* a timeout), and the container restarts whenever it stops.  Clients and the
\* clock promise nothing.
Fairness ==
  /\ WF_vars(LoopNext /\ UNCHANGED <<apiVars, crashes>>)
  /\ WF_vars(WorkerTake /\ UNCHANGED <<apiVars, crashes>>)
  /\ \A e \in Exec : WF_vars(RunNext(e) /\ UNCHANGED <<apiVars, crashes>>)
  /\ WF_vars(Boot)

Spec == Init /\ [][Next]_vars
FairSpec == Spec /\ Fairness

------------------------------------------------------------------------------
(* Safety *)

\* The row was closed by a recovery that found it running.
Recovered(e) == executions[e].status = "failed" /\ executions[e].error = "restart"

\* A row in the hands of the loop, the queue, a worker or a trigger goroutine is
\* still running in the table: nobody else closes it.  The one exception is the
\* row of a trigger or a send that the listener accepted before the recovery of
\* stale rows, which runs beside it (main.go starts both).  Rows the scheduler inserted
\* are never lost this way.
HolderOwnsRow ==
  \A e \in Exec : phase[e] \in Held =>
    \/ executions[e].status = "running"
    \/ Recovered(e) /\ executions[e].trigger # "cron"

\* Two runs of one job never overlap, whatever the scheduler, the triggers, the
\* crashes and the store errors do, unless the recovery closed the row of one of
\* them while it ran (uniq_running_job is a lock only as long as the row says
\* running).
SameJobRunsAlone ==
  \A e, f \in Exec :
    e # f /\ phase[e] \in Held /\ phase[f] \in Held
      /\ executions[e].job = executions[f].job /\ executions[e].job # Adhoc
    => Recovered(e) \/ Recovered(f)

\* Without store errors every row of a job that says running is in somebody's
\* hands as soon as the recovery is through: no lock of a job outlives its owner.
NoOrphanRow ==
  ~StoreMayFail /\ Started =>
    \A e \in Exec : executions[e].status = "running" =>
      phase[e] \in Held \/ executions[e].job = Adhoc

\* The channel holds each waiting execution once and nothing else, within its
\* capacity, and the pool never runs more than its workers.
PoolIsConsistent ==
  /\ Len(queue) <= QueueSize
  /\ \A i, k \in DOMAIN queue : queue[i] = queue[k] => i = k
  /\ {queue[i] : i \in DOMAIN queue} = {e \in Exec : phase[e] = "queued"}
  /\ Cardinality(BusyWorkers) <= Workers

\* Every reply that names an execution for an Idempotency-Key names the same one.
KeyNamesOneExecution ==
  \A r, q \in TriggerReq :
    /\ trig[r].exec # NoExec /\ trig[q].exec # NoExec
    /\ trig[r].key # NoKey /\ trig[r].key = trig[q].key
    /\ trig[r].job = trig[q].job
    => trig[r].exec = trig[q].exec

\* A client that was told its execution succeeded is not contradicted by the row
\* later, whatever polls, repeated keys, recoveries and crashes come between.  (One
\* told of a failure may be: the run whose row the recovery took goes on.)
ToldSuccessStays ==
  \A r \in TriggerReq :
    trig[r].status = "success" => executions[trig[r].exec].status = "success"

SameSlot(e, f) ==
  /\ Inserted(e) /\ Inserted(f)
  /\ executions[e].trigger = "cron" /\ executions[f].trigger = "cron"
  /\ executions[e].job = executions[f].job
  /\ executions[e].slot = executions[f].slot

NothingPatched == \A p \in PatchReq : patch[p].pc # "done"

\* What the loop promises on its own: a slot of a job becomes one execution, not
\* two, while the process has not died, the store has not failed and no PATCH has
\* written back a next_run_at it read earlier.
SlotRunsOnce ==
  crashes = 0 /\ ~StoreMayFail /\ NothingPatched =>
    \A e, f \in Exec : SameSlot(e, f) => e = f

Closed(e) == executions[e].status \in Terminal

\* A closed row keeps its status, unless it is the one exception above: the run
\* whose row the recovery took ends and overwrites the verdict.
ClosedRowStays ==
  [][\A e \in Exec :
       Closed(e) /\ executions'[e].status # executions[e].status
       => Recovered(e) /\ phase[e] \in Held]_vars

\* next_run_at of a job only moves forward, through ticks, crashes, restarts and
\* store errors, until a PATCH is written.
ScheduleNeverRewinds ==
  [][NothingPatched' =>
       \A j \in Job : Live(j) /\ Live(j)' => jobs'[j].nextRun >= jobs[j].nextRun]_vars

\* What lets the loop leave the slot next_run_at stands at: it has become an execution,
\* it is more than max_lateness old, or the insert has hit the lock of a run.
MayPass(j) ==
  \/ \E e \in Exec : /\ Inserted(e) /\ executions[e].trigger = "cron"
                     /\ executions[e].job = j /\ executions[e].slot = jobs[j].nextRun
  \/ now - jobs[j].nextRun > MaxLateness
  \/ pc = "skip"

\* The schedule of a job passes no other slot by (dispatchJob), although the loop judges
\* by the clock of its tick and by snapshots, until a PATCH is written.
NoSlotIsDroppedInTime ==
  [][NothingPatched' =>
       \A j \in Job :
         Live(j) /\ Live(j)' /\ jobs'[j].nextRun # jobs[j].nextRun => MayPass(j)]_vars

\* The row of a job that says running is its lock.
RunningRows(j) == {e \in Exec : executions[e].job = j /\ executions[e].status = "running"}
LockRow(j) == IF RunningRows(j) = {} THEN NoExec ELSE CHOOSE e \in RunningRows(j) : TRUE

RunsOf(j) == {e \in Exec : phase[e] \in Held /\ executions[e].job = j}

LockMode == IF pc = "off" THEN "off" ELSE IF pc = "recover" THEN "starting" ELSE "open"
LockHolder == [j \in Job |-> LockRow(j)]
LockRuns == [j \in Job |-> RunsOf(j)]
LockUsed == {e \in Exec : Inserted(e) /\ executions[e].job \in Job}

\* The tables, the loop, the pool and the handlers together implement a lock of
\* each job: an execution begins only with a free lock and keeps it to its verdict,
\* a verdict frees no lock but the execution's own, and only a start breaks locks.
Lock == INSTANCE JobLock WITH
  mode <- LockMode, holder <- LockHolder, runs <- LockRuns, used <- LockUsed,
  Reliable <- ~StoreMayFail
ImplementsJobLock == Lock!Spec

------------------------------------------------------------------------------
(* The inductive invariant behind the safety properties *)

\* At most one row per job says running: what uniq_running_job enforces.
OneRunningRow ==
  \A e, f \in Exec :
    executions[e].status = "running" /\ executions[f].status = "running"
      /\ executions[e].job = executions[f].job /\ executions[e].job # Adhoc
    => e = f

\* An id has a holder, or has had one, exactly when it has a row.
PhaseMatchesRow == \A e \in Exec : Inserted(e) <=> phase[e] # "none"

\* Who holds a row follows from what triggered it, and the other way round.
HolderMatchesTrigger ==
  \A e \in Exec :
    /\ phase[e] \in {"dispatched", "queued", "taken"} => executions[e].trigger = "cron"
    /\ phase[e] = "spawned" => executions[e].trigger = "manual"
    /\ phase[e] = "sending" => executions[e].trigger = "adhoc"
    /\ phase[e] \in {"running", "unloaded"} => executions[e].trigger # "adhoc"
    /\ executions[e].trigger = "adhoc" /\ Inserted(e) => executions[e].job = Adhoc

\* The loop holds the one row it has inserted and not pushed yet.
LoopHoldsDispatched ==
  /\ pc \in {"advance", "push"} => execID \in Exec
  /\ \A e \in Exec :
       phase[e] = "dispatched" <=> pc \in {"advance", "push"} /\ e = execID

\* The channel is a list, without repetition, of what waits for a worker.
QueueIsExact ==
  /\ Len(queue) <= QueueSize
  /\ \A i, k \in 1..Len(queue) : queue[i] = queue[k] => i = k
  /\ \A i \in 1..Len(queue) : phase[queue[i]] = "queued"
  /\ \A e \in Exec : phase[e] = "queued" => \E i \in 1..Len(queue) : queue[i] = e

\* Before the recovery is through, only trigger and send handlers hold rows.
NothingHeldWhileDown ==
  /\ pc = "off" => \A e \in Exec : phase[e] \notin Held
  /\ pc = "recover" =>
       \A e \in Exec : phase[e] \in Held => executions[e].trigger # "cron"

IInv ==
  /\ TypeOK
  /\ HolderOwnsRow
  /\ OneRunningRow
  /\ PhaseMatchesRow
  /\ HolderMatchesTrigger
  /\ LoopHoldsDispatched
  /\ QueueIsExact
  /\ NothingHeldWhileDown
  /\ NoOrphanRow

------------------------------------------------------------------------------
(* Liveness, under FairSpec *)

\* A due job does not stay due: its slot is run, skipped or passed over.
DueJobLeavesDueSet ==
  \A j \in Job : DueAt(j, Floor(now)) ~> ~DueAt(j, Floor(now))

\* Every execution of a job that starts is closed, by its run or by a later
\* recovery.
RunningRowIsClosed ==
  \A e \in Exec :
    executions[e].status = "running" /\ executions[e].job # Adhoc
      ~> executions[e].status \in Terminal

------------------------------------------------------------------------------
(* What comments and documents say of the code, and it does not do *)

\* store.go and internals.md: the same slot of a job is never inserted twice.
SlotIsUnique == \A e, f \in Exec : SameSlot(e, f) => e = f

\* ARCHITECTURE.md: one job is never run concurrently.
NoConcurrentRuns ==
  \A e, f \in Exec :
    e # f /\ phase[e] \in Running /\ phase[f] \in Running
    => executions[e].job # executions[f].job

\* README.md: a request that repeats a key gets the execution it names.
RepeatedKeyGetsExecution ==
  \A r \in TriggerReq :
    trig[r].code = 409 /\ trig[r].key # NoKey =>
      WithKey(trig[r].job, trig[r].key) = {}
=============================================================================
