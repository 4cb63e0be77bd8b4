---------------------------- MODULE ScheduleProofs ----------------------------
(***************************************************************************)
(* The loop works on snapshots.  Proof that the schedule of a job moves    *)
(* forward all the same, and that no slot of it becomes two executions,    *)
(* as long as nobody else writes next_run_at.                              *)
(***************************************************************************)
EXTENDS ServerProofs

\* The snapshots whose schedule the loop has still to move.
InHand == todo \union (IF pc \in {"skip", "advance"} THEN {item} ELSE {})

\* They are of slots that have come, one for each job, and the one in hand has passed
\* the check that there is a next slot.
SnapshotsAreSound ==
  /\ \A it \in InHand : it \in Snapshot /\ it.slot <= at
  /\ \A it, ot \in todo : it.job = ot.job => it = ot
  /\ pc \in {"skip", "advance"} =>
       CanAdvance(item) /\ \A it \in todo : it.job # item.job

\* Until a PATCH is written, a snapshot still says what the table does.
SnapshotsAreCurrent ==
  NothingPatched =>
    \A it \in InHand :
      /\ jobs[it.job].state # "unborn"
      /\ Live(it.job) => jobs[it.job].nextRun = it.slot

ScheduleInv == SnapshotsAreSound /\ SnapshotsAreCurrent

\* A request that is over stays over.
LEMMA PatchedForGood ==
  ASSUME [Next]_vars, ApiTypeOK, NothingPatched'
  PROVE  NothingPatched
<1>1. ASSUME NEW p \in PatchReq, patch[p].pc = "done"
      PROVE  patch'[p].pc = "done"
  <2>1. CASE UNCHANGED patch
    BY <1>1, <2>1
  <2>2. CASE Crash
    BY <1>1, <2>2 DEF Crash, PatchDone
  <2>3. CASE \E q \in PatchReq : PatchRead(q) \/ PatchApply(q) \/ PatchWrite(q)
    <3>1. PICK q \in PatchReq : PatchRead(q) \/ PatchApply(q) \/ PatchWrite(q)
      BY <2>3
    <3>2. q # p
      BY <1>1, <3>1 DEF PatchRead, PatchApply, PatchWrite
    <3>3. \E new : patch' = [patch EXCEPT ![q] = new]
      BY <3>1 DEF PatchRead, PatchApply, PatchWrite, PatchEnd
    <3> QED
      BY <1>1, <3>2, <3>3 DEF ApiTypeOK
  <2> QED
    BY <2>1, <2>2, <2>3 DEF Next, ApiNext, SendBegin, SendEnd, JobCreate, JobDelete, Tick, Boot,
       TriggerBegin, TriggerLookup, TriggerInsert, TriggerRefused, TriggerWait, apiVars, vars
<1> QED
  BY <1>1 DEF NothingPatched

\* The next slot of a snapshot lies after its slot.
LEMMA NextSlotIsLater ==
  ASSUME NEW it \in Snapshot, at \in Nat, it.slot <= at, CanAdvance(it)
  PROVE  Next1(it) \in Nat /\ Next1(it) > it.slot
<1>1. it.cron \in Cron /\ it.slot \in Nat
  BY DEF Snapshot
<1>2. Next1(it) > at
  BY <1>1, NextRunAfterIsFuture DEF CanAdvance, Next1
<1>3. Next1(it) \in Nat
  BY <1>1, NextRunAfterType DEF Next1
<1> QED
  BY <1>1, <1>2, <1>3

------------------------------------------------------------------------------
(* How the loop moves *)

Takes ==
  \E it \in todo :
    /\ pc = "loop" /\ CanAdvance(it)
    /\ todo' = todo \ {it} /\ item' = it /\ at' = at
    /\ pc' = "skip" \/ (pc' = "advance" /\ DispatchInsert)

LetsGo ==
  /\ pc' \notin {"skip", "advance"}
  /\ todo' \subseteq todo /\ (todo' = {} \/ at' = at)
  /\ pc = "advance" => DispatchAdvance \/ StoreMayFail \/ crashes' # 0

\* The loop lists due jobs, takes a snapshot in hand, lets go of some, or rests.
LEMMA LoopSteps ==
  ASSUME IInv, [Next]_vars
  PROVE  ListDue \/ Takes \/ LetsGo \/ UNCHANGED <<pc, todo, item, execID, at>>
<1>1. CASE LoopNext
  <2>1. CASE DispatchInsert
    BY <2>1 DEF DispatchInsert, Takes
  <2>2. CASE DispatchConflict
    BY <2>2 DEF DispatchConflict, Takes
  <2>3. CASE Recover \/ IdleTick
    BY <2>3 DEF Recover, IdleTick, LetsGo, schedulerVars, loopVars
  <2>4. CASE DispatchNoNext \/ DispatchOverdue \/ DispatchInsertFails \/ DispatchSkip
    BY <2>4 DEF DispatchNoNext, DispatchOverdue, DispatchInsertFails, DispatchSkip, Return, LetsGo
  <2>5. CASE DispatchAdvance
    BY <2>5 DEF DispatchAdvance, LetsGo
  <2>6. CASE DispatchAdvanceFails \/ DispatchPush
    BY <2>6 DEF DispatchAdvanceFails, DispatchPush, Return, LetsGo
  <2> QED
    BY <1>1, <2>1, <2>2, <2>3, <2>4, <2>5, <2>6 DEF LoopNext
<1>2. CASE Crash
  <2>1. crashes' # 0
    BY <1>2 DEF Crash, IInv, TypeOK
  <2>2. pc' = "off" /\ todo' = {}
    BY <1>2 DEF Crash
  <2> QED
    BY <2>1, <2>2 DEF LetsGo
<1>3. CASE Boot
  BY <1>3 DEF Boot, LetsGo
<1>4. CASE WorkerTake \/ \E e \in Exec : RunNext(e)
  BY <1>4 DEF WorkerTake, RunNext, RunLoad, RunFinish, loopVars
<1>5. CASE \E r \in TriggerReq : \/ TriggerBegin(r) \/ TriggerLookup(r) \/ TriggerInsert(r)
                                 \/ TriggerRefused(r) \/ TriggerWait(r)
  <2>1. ASSUME NEW r \in TriggerReq, TriggerBegin(r)
        PROVE  UNCHANGED schedulerVars
    BY <2>1 DEF TriggerBegin
  <2>2. ASSUME NEW r \in TriggerReq, TriggerLookup(r) \/ TriggerRefused(r) \/ TriggerWait(r)
        PROVE  UNCHANGED schedulerVars
    BY <2>2 DEF TriggerLookup, TriggerRefused, TriggerWait
  <2>3. ASSUME NEW r \in TriggerReq, TriggerInsert(r)
        PROVE  UNCHANGED loopVars
    BY <2>3 DEF TriggerInsert
  <2> QED
    BY <1>5, <2>1, <2>2, <2>3 DEF schedulerVars, loopVars
<1>6. CASE SendBegin \/ \E e \in Exec : SendEnd(e)
  BY <1>6 DEF SendBegin, SendEnd, loopVars
<1>7. CASE \/ \E j \in Job : JobCreate(j) \/ JobDelete(j)
           \/ \E p \in PatchReq : PatchRead(p) \/ PatchApply(p) \/ PatchWrite(p)
  BY <1>7 DEF JobCreate, JobDelete, PatchRead, PatchApply, PatchWrite, schedulerVars, loopVars
<1>8. CASE Tick \/ UNCHANGED vars
  BY <1>8 DEF Tick, vars, schedulerVars, loopVars
<1> QED
  BY <1>1, <1>2, <1>3, <1>4, <1>5, <1>6, <1>7, <1>8 DEF Next, ApiNext

\* The loop moves the schedule of the job of a snapshot it lets go of.
Moves(it) ==
  /\ \A j \in Job \ {it.job} : jobs'[j] = jobs[j]
  /\ Live(it.job) => jobs'[it.job].state = "live" /\ jobs'[it.job].nextRun = Next1(it)
  /\ ~Live(it.job) => jobs'[it.job] = jobs[it.job]

LoopMoves ==
  \E it \in InHand :
    /\ \/ pc = "loop" /\ it \in todo /\ Late(it)
       \/ pc \in {"skip", "advance"} /\ it = item
    /\ CanAdvance(it)
    /\ Moves(it)
    /\ pc' \notin {"skip", "advance"} /\ todo' = todo \ {it}

\* A handler creates a job under a new id or deletes one.
HandlersMove ==
  /\ UNCHANGED <<pc, todo, item, execID, at, executions>>
  /\ \A j \in Job :
       \/ jobs'[j] = jobs[j]
       \/ jobs[j].state = "unborn" /\ jobs'[j].state = "live"
       \/ jobs'[j].state = "deleted"

\* Both statements that write next_run_at do that and no more to it.
LEMMA ScheduleStatements ==
  ASSUME StoreTypeOK, NEW it \in Snapshot, NEW slot \in Nat, Next1(it) \in Nat,
         AdvanceJobSchedule(it.job, slot, Next1(it)) \/ FastForwardJobNextRun(it.job, Next1(it))
  PROVE  Moves(it)
<1> DEFINE next == Next1(it)
<1>1. it.job \in Job /\ jobs[it.job] \in JobRow /\ next \in Nat
  BY DEF StoreTypeOK, Snapshot
<1>2. AdvanceJobSchedule(it.job, slot, next) \/ FastForwardJobNextRun(it.job, next)
  OBVIOUS
<1> HIDE DEF next
<1>3. CASE Live(it.job)
  <2> DEFINE moved == [jobs[it.job] EXCEPT !.nextRun = next]
             run == [moved EXCEPT !.lastRun = slot]
  <2>1. moved \in JobRow /\ moved.state = "live" /\ moved.nextRun = next
    BY <1>1, <1>3 DEF JobRow, Live
  <2>2. run.state = "live" /\ run.nextRun = next
    BY <2>1 DEF JobRow
  <2>3. \/ jobs' = [jobs EXCEPT ![it.job] = moved]
        \/ jobs' = [jobs EXCEPT ![it.job] = run]
    BY <1>1, <1>2, <1>3 DEF AdvanceJobSchedule, FastForwardJobNextRun, StoreTypeOK
  <2> HIDE DEF moved, run
  <2>4. /\ \A j \in Job \ {it.job} : jobs'[j] = jobs[j]
        /\ jobs'[it.job].state = "live" /\ jobs'[it.job].nextRun = next
    BY <1>1, <2>1, <2>2, <2>3 DEF StoreTypeOK
  <2> QED
    BY <1>3, <2>4 DEF Moves, next
<1>4. CASE ~Live(it.job)
  BY <1>1, <1>2, <1>4 DEF AdvanceJobSchedule, FastForwardJobNextRun, Moves
<1> QED
  BY <1>3, <1>4

\* The advance after an insert is such a move, even if the job is deleted by then.
LEMMA AdvanceMoves ==
  ASSUME IInv, SnapshotsAreSound, DispatchAdvance
  PROVE  LoopMoves
<1>1. StoreTypeOK /\ at \in Nat
  BY DEF IInv, TypeOK, SchedulerTypeOK
<1>2. /\ pc = "advance" /\ item \in InHand /\ CanAdvance(item)
      /\ todo = todo \ {item} /\ item \in Snapshot /\ item.slot <= at /\ item.slot \in Nat
  BY DEF DispatchAdvance, InHand, SnapshotsAreSound, Snapshot
<1>3. Next1(item) \in Nat
  BY <1>1, <1>2, NextSlotIsLater
<1>4. Moves(item)
  BY <1>1, <1>2, <1>3, ScheduleStatements DEF DispatchAdvance
<1> QED
  BY <1>2, <1>4 DEF LoopMoves, DispatchAdvance

\* Who writes the table of jobs: the loop, for a snapshot; a handler that creates or
\* deletes; and PATCH.
LEMMA JobSteps ==
  ASSUME IInv, SnapshotsAreSound, [Next]_vars
  PROVE  UNCHANGED jobs \/ LoopMoves \/ HandlersMove \/ ~NothingPatched'
<1>1. TypeOK /\ StoreTypeOK /\ SchedulerTypeOK
  BY DEF IInv, TypeOK
<1>2. ASSUME NEW it \in InHand, CanAdvance(it)
      PROVE  it \in Snapshot /\ it.slot \in Nat /\ Next1(it) \in Nat
  BY <1>1, <1>2, NextSlotIsLater DEF SnapshotsAreSound, Snapshot, SchedulerTypeOK
<1>3. CASE LoopNext
  <2>1. CASE DispatchOverdue
    <3>1. PICK it \in todo :
            /\ pc = "loop" /\ CanAdvance(it) /\ Late(it)
            /\ FastForwardJobNextRun(it.job, Next1(it)) \/ UNCHANGED jobs
            /\ Return(todo \ {it})
      BY <2>1 DEF DispatchOverdue
    <3>2. it \in InHand
      BY DEF InHand
    <3>3. CASE FastForwardJobNextRun(it.job, Next1(it))
      <4>1. Moves(it)
        BY <1>1, <1>2, <3>1, <3>2, <3>3, ScheduleStatements
      <4> QED
        BY <3>1, <3>2, <4>1 DEF LoopMoves, Return
    <3> QED
      BY <3>1, <3>3
  <2>2. CASE DispatchSkip \/ DispatchAdvance
    <3>1. /\ pc \in {"skip", "advance"} /\ item \in InHand /\ CanAdvance(item)
          /\ todo = todo \ {item}
      BY <2>2 DEF DispatchSkip, DispatchAdvance, InHand, SnapshotsAreSound
    <3>2. todo' = todo /\ pc' \notin {"skip", "advance"}
      BY <2>2 DEF DispatchSkip, DispatchAdvance, Return
    <3>3. \/ FastForwardJobNextRun(item.job, Next1(item))
          \/ AdvanceJobSchedule(item.job, item.slot, Next1(item))
          \/ UNCHANGED jobs
      BY <2>2 DEF DispatchSkip, DispatchAdvance
    <3>4. UNCHANGED jobs \/ Moves(item)
      BY <1>1, <1>2, <3>1, <3>3, ScheduleStatements
    <3> QED
      BY <3>1, <3>2, <3>4 DEF LoopMoves
  <2>3. CASE ~DispatchOverdue /\ ~DispatchSkip /\ ~DispatchAdvance
    BY <1>3, <2>3 DEF LoopNext, Recover, ListDue, IdleTick, DispatchNoNext, DispatchInsert,
       DispatchConflict, DispatchInsertFails, DispatchAdvanceFails, DispatchPush, storeVars
  <2> QED
    BY <2>1, <2>2, <2>3
<1>4. CASE \E j \in Job : JobCreate(j) \/ JobDelete(j)
  <2>1. PICK j \in Job : JobCreate(j) \/ JobDelete(j)
    BY <1>4
  <2>2. UNCHANGED <<pc, todo, item, execID, at, executions>>
    BY <2>1 DEF JobCreate, JobDelete, schedulerVars, loopVars
  <2>3. \A i \in Job : i # j => jobs'[i] = jobs[i]
    BY <1>1, <2>1 DEF JobCreate, JobDelete, CreateJob, DeleteJob, StoreTypeOK
  <2>4. CASE JobCreate(j)
    <3>1. jobs[j].state = "unborn" /\ jobs'[j].state = "live"
      BY <1>1, <2>4 DEF JobCreate, CreateJob, StoreTypeOK
    <3> QED
      BY <2>2, <2>3, <3>1 DEF HandlersMove
  <2>5. CASE JobDelete(j)
    <3>1. jobs'[j] = [NoJobRow EXCEPT !.state = "deleted"]
      BY <1>1, <2>5 DEF JobDelete, DeleteJob, StoreTypeOK
    <3>2. jobs'[j].state = "deleted"
      BY <3>1 DEF NoJobRow
    <3> QED
      BY <2>2, <2>3, <3>2 DEF HandlersMove
  <2> QED
    BY <2>1, <2>4, <2>5
<1>5. CASE \E p \in PatchReq : PatchWrite(p)
  <2>1. PICK p \in PatchReq : PatchWrite(p)
    BY <1>5
  <2>2. patch'[p].pc = "done"
    BY <2>1 DEF PatchWrite, PatchEnd, PatchDone, IInv, TypeOK, ApiTypeOK
  <2> QED
    BY <2>2 DEF NothingPatched
<1>6. CASE /\ ApiNext /\ ~(\E p \in PatchReq : PatchWrite(p))
           /\ ~ \E j \in Job : JobCreate(j) \/ JobDelete(j)
  BY <1>6 DEF ApiNext, SendBegin, SendEnd, TriggerBegin, TriggerLookup, TriggerInsert,
       TriggerRefused, TriggerWait, PatchRead, PatchApply, storeVars
<1>7. CASE \/ WorkerTake \/ \E e \in Exec : RunNext(e)
           \/ Tick \/ Crash \/ Boot \/ UNCHANGED vars
  BY <1>7 DEF WorkerTake, RunNext, RunLoad, RunFinish, Tick, Crash, Boot, vars, storeVars
<1> QED
  BY <1>3, <1>4, <1>5, <1>6, <1>7 DEF Next

------------------------------------------------------------------------------
(* The snapshots *)

\* The loop drops snapshots and takes new ones; it holds no two of one job.
LEMMA NextSound ==
  ASSUME IInv, SnapshotsAreSound, [Next]_vars
  PROVE  SnapshotsAreSound'
<1>1. TypeOK /\ StoreTypeOK /\ SchedulerTypeOK
  BY DEF IInv, TypeOK
<1>2. CASE ListDue
  <2>1. \A j \in Job : jobs[j] \in JobRow
    BY <1>1 DEF StoreTypeOK
  <2>2. todo' = {[job |-> j, cron |-> jobs[j].cron, slot |-> jobs[j].nextRun] : j \in DueJobs}
        /\ pc' = "loop" /\ at' = now
    BY <1>2 DEF ListDue
  <2>3. Floor(now) <= now /\ Floor(now) \in Int
    BY <1>1, SchedulerAssumption DEF Floor, SchedulerTypeOK
  <2>4. \A j \in DueJobs : j \in Job /\ jobs[j].nextRun <= now
    BY <1>1, <2>1, <2>3 DEF DueJobs, DueAt, JobRow, SchedulerTypeOK
  <2>5. \A it \in todo' : it \in Snapshot /\ it.slot <= at'
    BY <2>1, <2>2, <2>4 DEF Snapshot, JobRow
  <2>6. \A it, ot \in todo' : it.job = ot.job => it = ot
    BY <2>2
  <2> QED
    BY <2>2, <2>5, <2>6 DEF SnapshotsAreSound, InHand
<1>3. CASE Takes
  <2>1. PICK it \in todo :
          /\ CanAdvance(it)
          /\ todo' = todo \ {it} /\ item' = it /\ at' = at
    BY <1>3 DEF Takes
  <2>2. CanAdvance(item)' /\ InHand' \subseteq todo
    BY <2>1 DEF CanAdvance, InHand
  <2> QED
    BY <2>1, <2>2 DEF SnapshotsAreSound, InHand
<1>4. CASE LetsGo
  BY <1>4 DEF LetsGo, SnapshotsAreSound, InHand
<1>5. CASE UNCHANGED <<pc, todo, item, execID, at>>
  BY <1>5 DEF SnapshotsAreSound, InHand, CanAdvance
<1> QED
  BY <1>2, <1>3, <1>4, <1>5, LoopSteps

\* Whoever else writes the table creates jobs under new ids or deletes them.
LEMMA NextCurrent ==
  ASSUME IInv, ScheduleInv, [Next]_vars
  PROVE  SnapshotsAreCurrent'
<1> SUFFICES ASSUME NothingPatched', NEW it \in InHand'
             PROVE  /\ jobs'[it.job].state # "unborn"
                    /\ Live(it.job)' => jobs'[it.job].nextRun = it.slot
  BY DEF SnapshotsAreCurrent
<1>1. TypeOK /\ StoreTypeOK /\ ApiTypeOK /\ SnapshotsAreSound /\ SnapshotsAreCurrent
  BY DEF IInv, TypeOK, ScheduleInv
<1>2. NothingPatched
  BY <1>1, PatchedForGood
<1>3. CASE ListDue
  <2>1. /\ todo' = {[job |-> j, cron |-> jobs[j].cron, slot |-> jobs[j].nextRun] : j \in DueJobs}
        /\ pc' = "loop" /\ jobs' = jobs
    BY <1>3 DEF ListDue, storeVars
  <2>2. PICK j \in DueJobs :
          it = [job |-> j, cron |-> jobs[j].cron, slot |-> jobs[j].nextRun]
    BY <2>1 DEF InHand
  <2> QED
    BY <2>1, <2>2 DEF DueJobs, DueAt, Live
<1>4. CASE ~ListDue
  <2>1. it \in InHand
    BY <1>4, LoopSteps DEF Takes, LetsGo, InHand
  <2>2. it.job \in Job /\ jobs[it.job].state # "unborn"
        /\ (Live(it.job) => jobs[it.job].nextRun = it.slot)
    BY <1>1, <1>2, <2>1 DEF SnapshotsAreSound, SnapshotsAreCurrent, Snapshot
  <2>3. CASE UNCHANGED jobs
    BY <2>2, <2>3 DEF Live
  <2>4. CASE LoopMoves
    <3>1. PICK ot \in InHand :
            /\ \/ pc = "loop" /\ ot \in todo
               \/ pc \in {"skip", "advance"} /\ ot = item
            /\ Moves(ot)
            /\ pc' \notin {"skip", "advance"} /\ todo' = todo \ {ot}
      BY <2>4 DEF LoopMoves
    <3>2. it \in todo \ {ot}
      BY <3>1 DEF InHand
    <3>3. it.job # ot.job
      BY <1>1, <3>1, <3>2 DEF SnapshotsAreSound
    <3>4. jobs'[it.job] = jobs[it.job]
      BY <2>2, <3>1, <3>3 DEF Moves
    <3> QED
      BY <2>2, <3>4 DEF Live
  <2>5. CASE HandlersMove
    BY <2>2, <2>5 DEF HandlersMove, Live
  <2> QED
    BY <1>1, <2>3, <2>4, <2>5, JobSteps
<1> QED
  BY <1>3, <1>4

\* A process that starts has no snapshots.
LEMMA InitSchedule == Init => ScheduleInv
BY DEF Init, ScheduleInv, SnapshotsAreSound, SnapshotsAreCurrent, InHand

\* The schedule of a job only moves forward, until a PATCH is written.
THEOREM SchedulesAdvance == Spec => ScheduleNeverRewinds
<1> DEFINE Forward == \A j \in Job : Live(j) /\ Live(j)' => jobs'[j].nextRun >= jobs[j].nextRun
<1>1. IInv /\ ScheduleInv /\ [Next]_vars => ScheduleInv'
  BY NextSound, NextCurrent DEF ScheduleInv
<1>2. IInv /\ ScheduleInv /\ [Next]_vars => [NothingPatched' => Forward]_vars
  <2> SUFFICES ASSUME IInv, ScheduleInv, [Next]_vars, NothingPatched',
                      NEW j \in Job, Live(j), Live(j)'
               PROVE  jobs'[j].nextRun >= jobs[j].nextRun
    BY Zenon
  <2>1. TypeOK /\ StoreTypeOK /\ ApiTypeOK /\ SnapshotsAreSound /\ SnapshotsAreCurrent
        /\ at \in Nat
    BY DEF IInv, TypeOK, SchedulerTypeOK, ScheduleInv
  <2>2. jobs[j].nextRun \in Nat
    BY <2>1 DEF StoreTypeOK, JobRow
  <2>3. CASE jobs'[j] = jobs[j]
    BY <2>2, <2>3
  <2>4. CASE LoopMoves
    <3>1. PICK it \in InHand : CanAdvance(it) /\ Moves(it)
      BY <2>4 DEF LoopMoves
    <3>2. CASE it.job = j
      <4>1. jobs[j].nextRun = it.slot
        BY <2>1, <3>2, PatchedForGood DEF SnapshotsAreCurrent
      <4>2. jobs'[j].nextRun = Next1(it)
        BY <3>1, <3>2 DEF Moves
      <4>3. Next1(it) \in Nat /\ Next1(it) > it.slot
        BY <2>1, <3>1, NextSlotIsLater DEF SnapshotsAreSound
      <4> QED
        BY <2>2, <4>1, <4>2, <4>3
    <3>3. CASE it.job # j
      BY <2>3, <3>1, <3>3 DEF Moves
    <3> QED
      BY <3>2, <3>3
  <2>5. CASE HandlersMove
    BY <2>3, <2>5 DEF HandlersMove, Live
  <2> QED
    BY <2>1, <2>3, <2>4, <2>5, JobSteps
<1> QED
  BY <1>1, <1>2, InitSchedule, Invariant, PTL DEF Spec, ScheduleNeverRewinds

------------------------------------------------------------------------------
(* The slots *)

Calm == crashes = 0 /\ ~StoreMayFail /\ NothingPatched

Cronned(e) == Inserted(e) /\ executions[e].trigger = "cron"

\* The slots of a job that became executions lie before its schedule, but for the
\* execution whose schedule the loop is about to move.
SlotsArePast ==
  \A e \in Exec : Cronned(e) =>
    LET j == executions[e].job
    IN /\ j \in Job /\ jobs[j].state # "unborn"
       /\ Live(j) => \/ executions[e].slot < jobs[j].nextRun
                     \/ pc = "advance" /\ e = execID

\* So do they before the snapshots that are still to be dispatched, jobs deleted
\* since then included.
SlotsPrecedeSnapshots ==
  \A it \in todo, e \in Exec :
    Cronned(e) /\ executions[e].job = it.job => executions[e].slot < it.slot

InHandIsInserted ==
  pc = "advance" => executions[execID].job = item.job /\ executions[execID].slot = item.slot

SlotsAreUnique == \A e, f \in Exec : SameSlot(e, f) => e = f

SlotInv ==
  Calm => SlotsArePast /\ SlotsPrecedeSnapshots /\ InHandIsInserted /\ SlotsAreUnique

\* Only the loop inserts executions of slots, one at a time.
LEMMA CronRows ==
  ASSUME IInv, [Next]_vars, NEW e \in Exec, Cronned(e)', ~DispatchInsert
  PROVE  Cronned(e) /\ executions'[e].job = executions[e].job
                    /\ executions'[e].slot = executions[e].slot
<1>1. StoreTypeOK /\ PhaseMatchesRow
  BY DEF IInv, TypeOK
<1>2. SUFFICES Inserted(e)
  BY <1>1, RowsKeepColumns DEF Cronned
<1>3. CASE executions'[e] = executions[e]
  BY <1>3 DEF Cronned, Inserted
<1>4. CASE \E f \in Exec, trigger \in {"manual", "adhoc"} : \E j, slot, k :
             InsertRunningExecution(f, j, trigger, slot, k)
  BY <1>1, <1>3, <1>4, InsertEffect DEF Cronned
<1>5. CASE \E f \in Exec, status \in Terminal :
             phase[f] \in Held /\ MarkExecutionFinished(f, status)
  BY <1>1, <1>3, <1>5, CloseEffect DEF PhaseMatchesRow, Held, Running
<1>6. CASE RecoverStaleExecutions
  BY <1>1, <1>3, <1>6, RecoverEffect DEF Inserted
<1>7. CASE UNCHANGED executions
  BY <1>3, <1>7
<1>8. CASE LoopNext
  BY <1>6, <1>7, <1>8 DEF LoopNext, Recover, ListDue, IdleTick, DispatchNoNext,
       DispatchOverdue, DispatchConflict, DispatchInsertFails,
       DispatchSkip, DispatchAdvance, DispatchAdvanceFails, DispatchPush, storeVars
<1>9. CASE \E g \in Exec : RunNext(g)
  BY <1>5, <1>7, <1>9 DEF RunNext, RunLoad, RunFinish, Held, Running, Terminal, storeVars
<1>10. CASE ApiNext
  <2>1. CASE \E r \in TriggerReq : TriggerInsert(r)
    BY <1>4, <2>1 DEF TriggerInsert
  <2>2. CASE SendBegin
    BY <1>4, <2>2 DEF SendBegin
  <2>3. CASE \E f \in Exec : SendEnd(f)
    BY <1>5, <1>7, <2>3 DEF SendEnd, Held
  <2> QED
    BY <1>7, <1>10, <2>1, <2>2, <2>3 DEF ApiNext, TriggerBegin, TriggerLookup, TriggerRefused,
         TriggerWait, JobCreate, JobDelete, PatchRead, PatchApply, PatchWrite, storeVars
<1>11. CASE WorkerTake \/ Tick \/ Crash \/ Boot \/ UNCHANGED vars
  BY <1>7, <1>11 DEF WorkerTake, Tick, Crash, Boot, storeVars, vars
<1> QED
  BY <1>8, <1>9, <1>10, <1>11 DEF Next

\* The loop inserts the slot of a snapshot: the slots before it are past.
LEMMA InsertKeepsSlots ==
  ASSUME IInv, ScheduleInv, Calm, SlotInv, DispatchInsert
  PROVE  (SlotsArePast /\ SlotsPrecedeSnapshots /\ InHandIsInserted /\ SlotsAreUnique)'
<1>1. StoreTypeOK /\ SnapshotsAreSound /\ SnapshotsAreCurrent
      /\ SlotsArePast /\ SlotsPrecedeSnapshots /\ SlotsAreUnique
  BY DEF IInv, TypeOK, ScheduleInv, SlotInv
<1>2. PICK it \in todo, e \in Exec :
        /\ pc = "loop" /\ Fresh(e)
        /\ InsertRunningExecution(e, it.job, "cron", it.slot, NoKey)
        /\ pc' = "advance" /\ todo' = todo \ {it} /\ item' = it /\ execID' = e
  BY DEF DispatchInsert
<1>3. jobs' = jobs
  BY DEF DispatchInsert
<1>4. /\ executions'[e].status = "running" /\ executions'[e].trigger = "cron"
      /\ executions'[e].job = it.job /\ executions'[e].slot = it.slot
      /\ \A f \in Exec : f # e => executions'[f] = executions[f]
  BY <1>1, <1>2, InsertEffect
<1>5. it \in InHand /\ it \in Snapshot /\ it.job \in Job /\ jobs[it.job].state # "unborn"
  BY <1>1, <1>2 DEF InHand, SnapshotsAreSound, SnapshotsAreCurrent, Calm, Snapshot
<1>6. \A f \in Exec : f # e => (Cronned(f)' <=> Cronned(f))
  BY <1>4 DEF Cronned, Inserted
<1>7. \A f \in Exec : f # e /\ Cronned(f) /\ executions[f].job = it.job
                        => executions[f].slot < it.slot /\ executions[f].slot # it.slot
  <2> SUFFICES ASSUME NEW f \in Exec, Cronned(f), executions[f].job = it.job
               PROVE  executions[f].slot < it.slot /\ executions[f].slot # it.slot
    OBVIOUS
  <2>1. executions[f].slot < it.slot
    BY <1>1, <1>2 DEF SlotsPrecedeSnapshots
  <2>2. executions[f].slot \in Nat /\ it.slot \in Nat
    BY <1>1, <1>5 DEF StoreTypeOK, ExecRow, Snapshot
  <2> QED
    BY <2>1, <2>2
<1>8. SlotsArePast'
  <2> SUFFICES ASSUME NEW f \in Exec, Cronned(f)'
               PROVE  /\ executions'[f].job \in Job /\ jobs'[executions'[f].job].state # "unborn"
                      /\ Live(executions[f].job)' =>
                           \/ executions'[f].slot < jobs'[executions'[f].job].nextRun
                           \/ pc' = "advance" /\ f = execID'
    BY DEF SlotsArePast
  <2>1. CASE f = e
    BY <1>2, <1>3, <1>4, <1>5, <2>1
  <2>2. CASE f # e
    BY <1>1, <1>2, <1>3, <1>4, <1>6, <2>2 DEF SlotsArePast, Live
  <2> QED
    BY <2>1, <2>2
<1>9. SlotsPrecedeSnapshots'
  <2> SUFFICES ASSUME NEW ot \in todo', NEW f \in Exec, Cronned(f)',
                      executions'[f].job = ot.job
               PROVE  executions'[f].slot < ot.slot
    BY DEF SlotsPrecedeSnapshots
  <2>1. ot \in todo /\ ot # it /\ ot.job # it.job
    BY <1>1, <1>2 DEF SnapshotsAreSound
  <2>2. f # e
    BY <1>4, <2>1
  <2> QED
    BY <1>1, <1>4, <1>6, <2>1, <2>2 DEF SlotsPrecedeSnapshots
<1>10. InHandIsInserted'
  BY <1>2, <1>4 DEF InHandIsInserted
<1>11. SlotsAreUnique'
  <2> SUFFICES ASSUME NEW f \in Exec, NEW g \in Exec, SameSlot(f, g)'
               PROVE  f = g
    BY DEF SlotsAreUnique
  <2>1. /\ Cronned(f)' /\ Cronned(g)' /\ executions'[f].job = executions'[g].job
        /\ executions'[f].slot = executions'[g].slot
    BY DEF SameSlot, Cronned
  <2>2. CASE f # e /\ g # e
    BY <1>1, <1>4, <2>1, <2>2, <1>6 DEF SlotsAreUnique, SameSlot, Cronned
  <2>3. CASE f = e \/ g = e
    BY <1>4, <1>6, <1>7, <2>1, <2>3
  <2> QED
    BY <2>2, <2>3
<1> QED
  BY <1>8, <1>9, <1>10, <1>11

\* No other step inserts a slot, and schedules only move forward.
LEMMA OthersKeepSlots ==
  ASSUME IInv, ScheduleInv, Calm, Calm', SlotInv, [Next]_vars, ~DispatchInsert
  PROVE  (SlotsArePast /\ SlotsPrecedeSnapshots /\ InHandIsInserted /\ SlotsAreUnique)'
<1>1. StoreTypeOK /\ SchedulerTypeOK /\ SnapshotsAreSound /\ SnapshotsAreCurrent
      /\ SlotsArePast /\ SlotsPrecedeSnapshots /\ InHandIsInserted /\ SlotsAreUnique
  BY DEF IInv, TypeOK, ScheduleInv, SlotInv
<1>2. \A e \in Exec : Cronned(e)' =>
        Cronned(e) /\ executions'[e].job = executions[e].job
                   /\ executions'[e].slot = executions[e].slot
  BY CronRows
<1>3. SlotsAreUnique'
  <2> SUFFICES ASSUME NEW f \in Exec, NEW g \in Exec, SameSlot(f, g)'
               PROVE  f = g
    BY DEF SlotsAreUnique
  <2>1. /\ Cronned(f)' /\ Cronned(g)' /\ executions'[f].job = executions'[g].job
        /\ executions'[f].slot = executions'[g].slot
    BY DEF SameSlot, Cronned
  <2>2. SameSlot(f, g)
    BY <1>2, <2>1 DEF SameSlot, Cronned
  <2> QED
    BY <1>1, <2>2 DEF SlotsAreUnique
<1>4. SlotsPrecedeSnapshots'
  <2> SUFFICES ASSUME NEW it \in todo', NEW e \in Exec, Cronned(e)',
                      executions'[e].job = it.job
               PROVE  executions'[e].slot < it.slot
    BY DEF SlotsPrecedeSnapshots
  <2>1. Cronned(e) /\ executions[e].job = it.job /\ executions'[e].slot = executions[e].slot
    BY <1>2
  <2>2. CASE ListDue
    <3>1. pc = "loop" /\ todo' =
            {[job |-> j, cron |-> jobs[j].cron, slot |-> jobs[j].nextRun] : j \in DueJobs}
      BY <2>2 DEF ListDue
    <3>2. PICK j \in DueJobs :
            it = [job |-> j, cron |-> jobs[j].cron, slot |-> jobs[j].nextRun]
      BY <3>1
    <3>3. Live(j) /\ j = it.job /\ it.slot = jobs[j].nextRun
      BY <3>2 DEF DueJobs, DueAt
    <3> QED
      BY <1>1, <2>1, <3>1, <3>3 DEF SlotsArePast
  <2>3. CASE ~ListDue
    <3>1. it \in todo
      BY <2>3, LoopSteps DEF Takes, LetsGo
    <3> QED
      BY <1>1, <2>1, <3>1 DEF SlotsPrecedeSnapshots
  <2> QED
    BY <2>2, <2>3
<1>5. pc' = "advance" => pc = "advance" /\ UNCHANGED <<item, execID>>
  BY LoopSteps DEF Takes, LetsGo, ListDue
<1>6. InHandIsInserted'
  <2>1. CASE pc' = "advance"
    <3>1. pc = "advance" /\ item' = item /\ execID' = execID /\ execID \in Exec
      BY <1>5, <2>1 DEF IInv, LoopHoldsDispatched
    <3>2. Inserted(execID)
      BY <3>1 DEF IInv, LoopHoldsDispatched, PhaseMatchesRow
    <3> QED
      BY <1>1, <3>1, <3>2, RowsKeepColumns DEF InHandIsInserted
  <2> QED
    BY <2>1 DEF InHandIsInserted
<1>7. SlotsArePast'
  <2> SUFFICES ASSUME NEW e \in Exec, Cronned(e)'
               PROVE  /\ executions[e].job \in Job
                      /\ jobs'[executions[e].job].state # "unborn"
                      /\ jobs'[executions[e].job].state = "live" =>
                           \/ executions[e].slot < jobs'[executions[e].job].nextRun
                           \/ pc' = "advance" /\ e = execID'
    BY <1>2 DEF SlotsArePast, Live
  <2> DEFINE j == executions[e].job
  <2>1. Cronned(e) /\ j \in Job /\ jobs[j].state # "unborn"
        /\ (Live(j) => \/ executions[e].slot < jobs[j].nextRun
                       \/ pc = "advance" /\ e = execID)
    BY <1>1, <1>2 DEF SlotsArePast
  <2>2. CASE LoopMoves
    <3>1. PICK it \in InHand :
            /\ \/ pc = "loop" /\ it \in todo
               \/ pc \in {"skip", "advance"} /\ it = item
            /\ CanAdvance(it) /\ Moves(it)
      BY <2>2 DEF LoopMoves
    <3>2. it \in Snapshot /\ it.slot \in Nat /\ Next1(it) \in Nat /\ Next1(it) > it.slot
      BY <1>1, <3>1, NextSlotIsLater DEF SnapshotsAreSound, SchedulerTypeOK, Snapshot
    <3>3. executions[e].slot \in Nat
      BY <1>1 DEF StoreTypeOK, ExecRow
    <3>4. CASE j = it.job /\ Live(j)
      <4>1. jobs'[j].state = "live" /\ jobs'[j].nextRun = Next1(it)
        BY <3>1, <3>4 DEF Moves
      <4>2. jobs[j].nextRun = it.slot
        BY <1>1, <3>1, <3>4 DEF SnapshotsAreCurrent, Calm
      <4>3. executions[e].slot <= it.slot
        <5>1. CASE pc = "advance" /\ e = execID
          BY <1>1, <3>1, <3>2, <5>1 DEF InHandIsInserted
        <5>2. CASE executions[e].slot < jobs[j].nextRun
          BY <3>2, <3>3, <4>2, <5>2
        <5> QED
          BY <2>1, <3>4, <5>1, <5>2
      <4>4. executions[e].slot < Next1(it)
        BY <3>2, <3>3, <4>3
      <4> QED
        BY <2>1, <4>1, <4>4
    <3>5. CASE j = it.job /\ ~Live(j)
      BY <2>1, <3>1, <3>5 DEF Moves, Live
    <3>6. CASE j # it.job
      <4>1. jobs'[j] = jobs[j]
        BY <2>1, <3>1, <3>6 DEF Moves
      <4>2. ~(pc = "advance" /\ e = execID)
        BY <1>1, <3>1, <3>6 DEF InHandIsInserted
      <4> QED
        BY <2>1, <4>1, <4>2 DEF Live
    <3> QED
      BY <3>4, <3>5, <3>6
  <2>3. CASE UNCHANGED jobs /\ ~LoopMoves
    <3>1. CASE pc = "advance" /\ e = execID
      <4>1. (pc' = "advance" /\ execID' = execID) \/ DispatchAdvance
        BY <3>1, LoopSteps DEF Takes, LetsGo, ListDue, Calm
      <4>2. ~DispatchAdvance
        BY <1>1, <2>3, AdvanceMoves
      <4> QED
        BY <2>1, <2>3, <3>1, <4>1, <4>2 DEF Live
    <3> QED
      BY <2>1, <2>3, <3>1 DEF Live
  <2>4. CASE HandlersMove
    BY <2>1, <2>4 DEF HandlersMove, Live
  <2> QED
    BY <1>1, <2>2, <2>3, <2>4, JobSteps DEF Calm
<1> QED
  BY <1>3, <1>4, <1>6, <1>7

\* A slot of a job becomes one execution, while nothing goes wrong around the loop.
THEOREM SlotsRunOnce == Spec => []SlotRunsOnce
<1>1. Init => ScheduleInv /\ SlotInv
  <2> SUFFICES ASSUME Init
               PROVE  SlotInv
    BY InitSchedule
  <2>1. \A e \in Exec : ~Inserted(e)
    BY DEF Init, Inserted, EmptyRow
  <2>2. todo = {} /\ pc = "recover"
    BY DEF Init
  <2> QED
    BY <2>1, <2>2 DEF SlotInv, SlotsArePast, SlotsPrecedeSnapshots, InHandIsInserted,
       SlotsAreUnique, SameSlot, Cronned
<1>2. IInv /\ ScheduleInv /\ SlotInv /\ [Next]_vars => ScheduleInv' /\ SlotInv'
  <2> SUFFICES ASSUME IInv, ScheduleInv, SlotInv, [Next]_vars
               PROVE  ScheduleInv' /\ SlotInv'
    OBVIOUS
  <2>1. ScheduleInv'
    BY NextSound, NextCurrent DEF ScheduleInv
  <2>2. ASSUME Calm'
        PROVE  Calm
    <3>1. NothingPatched
      BY <2>2, PatchedForGood DEF Calm, IInv, TypeOK
    <3>2. crashes = 0
      BY <2>2 DEF Calm, Next, Crash, Tick, Boot, vars, IInv, TypeOK
    <3> QED
      BY <2>2, <3>1, <3>2 DEF Calm
  <2> QED
    BY <2>1, <2>2, InsertKeepsSlots, OthersKeepSlots DEF SlotInv
<1>3. SlotInv => SlotRunsOnce
  BY DEF SlotInv, Calm, SlotsAreUnique, SlotRunsOnce
<1> QED
  BY <1>1, <1>2, <1>3, Invariant, PTL DEF Spec

------------------------------------------------------------------------------
(* What is passed by *)

\* The clock of a tick is never ahead.
TickIsPast == at <= now

LEMMA NextTickIsPast ==
  ASSUME IInv, TickIsPast, [Next]_vars
  PROVE  TickIsPast'
<1>1. at \in Nat /\ now \in Nat
  BY DEF IInv, TypeOK, SchedulerTypeOK
<1>2. CASE LoopNext
  BY <1>1, <1>2 DEF TickIsPast, LoopNext, Recover, ListDue, IdleTick, DispatchNoNext,
     DispatchOverdue, DispatchInsert, DispatchConflict, DispatchInsertFails, DispatchSkip,
     DispatchAdvance, DispatchAdvanceFails, DispatchPush, Return, schedulerVars, loopVars
<1>3. CASE Tick \/ Crash
  BY <1>1, <1>3 DEF TickIsPast, Tick, Crash, loopVars
<1>4. CASE ~LoopNext /\ ~Tick /\ ~Crash
  <2>1. UNCHANGED <<at, now>>
    <3>1. CASE ApiNext
      BY <3>1 DEF ApiNext, TriggerBegin, TriggerLookup, TriggerInsert, TriggerRefused,
         TriggerWait, JobCreate, JobDelete, PatchRead, PatchApply, PatchWrite, SendBegin,
         SendEnd, schedulerVars, loopVars
    <3>2. CASE WorkerTake \/ (\E e \in Exec : RunNext(e)) \/ Boot \/ UNCHANGED vars
      BY <3>2 DEF WorkerTake, RunNext, RunLoad, RunFinish, Boot, vars, schedulerVars, loopVars
    <3> QED
      BY <1>4, <3>1, <3>2 DEF Next
  <2> QED
    BY <2>1 DEF TickIsPast
<1> QED
  BY <1>2, <1>3, <1>4

\* The row of the snapshot in hand is of its job and slot, whatever fails meanwhile.
LEMMA NextInHandIsInserted ==
  ASSUME IInv, InHandIsInserted, [Next]_vars
  PROVE  InHandIsInserted'
<1>1. StoreTypeOK
  BY DEF IInv, TypeOK
<1>2. CASE DispatchInsert
  BY <1>1, <1>2, InsertEffect DEF DispatchInsert, InHandIsInserted
<1>3. CASE ~DispatchInsert /\ pc' = "advance"
  <2>1. pc = "advance" /\ UNCHANGED <<item, execID>> /\ execID \in Exec
    BY <1>3, LoopSteps DEF Takes, LetsGo, ListDue, IInv, LoopHoldsDispatched
  <2>2. Inserted(execID)
    BY <2>1 DEF IInv, LoopHoldsDispatched, PhaseMatchesRow
  <2> QED
    BY <1>1, <2>1, <2>2, RowsKeepColumns DEF InHandIsInserted
<1> QED
  BY <1>2, <1>3 DEF InHandIsInserted

\* A slot is passed by only if it has run, is overdue, or found the lock taken.
THEOREM SlotsAreDroppedLate == Spec => NoSlotIsDroppedInTime
<1> DEFINE Kept == \A j \in Job :
             Live(j) /\ Live(j)' /\ jobs'[j].nextRun # jobs[j].nextRun => MayPass(j)
           Inv == ScheduleInv /\ TickIsPast /\ InHandIsInserted
<1>1. Init => Inv
  BY InitSchedule DEF Init, TickIsPast, InHandIsInserted
<1>2. IInv /\ Inv /\ [Next]_vars => Inv'
  BY NextSound, NextCurrent, NextTickIsPast, NextInHandIsInserted DEF ScheduleInv
<1>3. IInv /\ Inv /\ [Next]_vars => [NothingPatched' => Kept]_vars
  <2> SUFFICES ASSUME IInv, Inv, [Next]_vars, NothingPatched', NEW j \in Job, Live(j), Live(j)',
                      jobs'[j].nextRun # jobs[j].nextRun
               PROVE  MayPass(j)
    BY Zenon
  <2>1. TypeOK /\ StoreTypeOK /\ ApiTypeOK /\ SnapshotsAreSound /\ SnapshotsAreCurrent
        /\ at \in Nat /\ now \in Nat /\ MaxLateness \in Nat
    BY SchedulerAssumption DEF IInv, TypeOK, SchedulerTypeOK, ScheduleInv
  <2>2. LoopMoves
    BY <2>1, JobSteps DEF HandlersMove, Live
  <2>3. PICK it \in InHand :
          /\ \/ pc = "loop" /\ it \in todo /\ Late(it)
             \/ pc \in {"skip", "advance"} /\ it = item
          /\ Moves(it)
    BY <2>2 DEF LoopMoves
  <2>4. it.job = j
    BY <2>3 DEF Moves
  <2>5. jobs[j].nextRun = it.slot /\ it.slot \in Nat
    BY <2>1, <2>4, PatchedForGood DEF SnapshotsAreCurrent, SnapshotsAreSound, Snapshot
  <2>6. CASE Late(it)
    BY <2>1, <2>5, <2>6 DEF Late, TickIsPast, MayPass
  <2>7. CASE pc = "advance" /\ it = item
    <3>1. /\ execID \in Exec /\ Inserted(execID) /\ executions[execID].trigger = "cron"
      BY <2>7 DEF IInv, LoopHoldsDispatched, PhaseMatchesRow, HolderMatchesTrigger
    <3> QED
      BY <2>4, <2>5, <2>7, <3>1 DEF InHandIsInserted, MayPass
  <2> QED
    BY <2>3, <2>6, <2>7 DEF MayPass
<1> QED
  BY <1>1, <1>2, <1>3, Invariant, PTL DEF Spec, NoSlotIsDroppedInTime
=============================================================================
