----------------------------- MODULE LockProofs -----------------------------
(***************************************************************************)
(* What the unique indexes of executions give, whatever the numbers of     *)
(* jobs, executions, workers, requests and crashes, and with or without    *)
(* store errors: the whole process implements the lock of every job        *)
(* (JobLock), and replies to requests with one Idempotency-Key never name  *)
(* two executions.                                                         *)
(***************************************************************************)
EXTENDS ServerProofs

lockVars == <<LockMode, LockHolder, LockRuns, LockUsed>>

LockRowExact ==
  \A j \in Job :
    /\ LockRow(j) \in Exec \union {NoExec}
    /\ \A e \in Exec : LockRow(j) = e <=>
         executions[e].status = "running" /\ executions[e].job = j

\* By the unique index the running row of a job is the one LockRow picks, before a
\* step and after it.
LEMMA LockRowIsRunning ==
  /\ OneRunningRow => LockRowExact
  /\ OneRunningRow' => LockRowExact'
<1>1. OneRunningRow => LockRowExact
  <2> SUFFICES ASSUME OneRunningRow, NEW j \in Job
               PROVE  /\ LockRow(j) \in Exec \union {NoExec}
                      /\ \A e \in Exec : LockRow(j) = e <=>
                           executions[e].status = "running" /\ executions[e].job = j
    BY DEF LockRowExact
  <2>1. NoExec \notin Exec /\ j # Adhoc
    BY StoreAssumption DEF NoExec, Exec
  <2>2. \A e, f \in RunningRows(j) : e = f
    BY <2>1 DEF OneRunningRow, RunningRows
  <2>3. RunningRows(j) # {} => LockRow(j) \in RunningRows(j)
    BY DEF LockRow
  <2> QED
    BY <2>1, <2>2, <2>3 DEF LockRow, RunningRows
<1> QED
  BY <1>1, PTL

\* As the lock sees it, nothing happens to e.
Untouched(e) ==
  \/ /\ executions'[e].status = executions[e].status
     /\ executions'[e].job = executions[e].job
     /\ phase'[e] \in Held <=> phase[e] \in Held
  \/ /\ executions[e].job \notin Job \/ (~Inserted(e) /\ phase[e] \notin Held)
     /\ executions'[e].job \notin Job

\* A step that leaves the rows of jobs, their holders and the mode alone leaves the
\* lock alone.
LEMMA LockFrame ==
  ASSUME OneRunningRow, OneRunningRow', LockMode' = LockMode,
         \A e \in Exec : Untouched(e)
  PROVE  UNCHANGED lockVars
<1>1. \A j \in Job : LockRow(j)' = LockRow(j)
  <2>1. LockRowExact /\ LockRowExact'
    BY LockRowIsRunning
  <2> QED
    BY <2>1 DEF LockRowExact, Inserted, Untouched
<1>2. LockHolder' = LockHolder
  BY <1>1 DEF LockHolder
<1>3. LockRuns' = LockRuns
  BY DEF LockRuns, RunsOf, Untouched
<1>4. LockUsed' = LockUsed
  BY DEF LockUsed, Inserted, Untouched
<1> QED
  BY <1>2, <1>3, <1>4 DEF lockVars

\* An insert takes the lock of its job, or is none of a job's.
LEMMA InsertAcquires ==
  ASSUME TypeOK, OneRunningRow, OneRunningRow', PhaseMatchesRow,
         NEW e \in Exec, NEW j, NEW trigger, NEW slot, NEW k, NEW hand \in Held,
         Fresh(e), j \in Job => ~Conflicts(j, k),
         InsertRunningExecution(e, j, trigger, slot, k),
         phase' = [phase EXCEPT ![e] = hand],
         LockMode' = LockMode, LockMode # "off"
  PROVE  [Lock!Next]_lockVars
<1>1. /\ executions'[e].status = "running" /\ executions'[e].job = j
      /\ \A f \in Exec : f # e => executions'[f] = executions[f]
  BY InsertEffect DEF TypeOK
<1>2. phase'[e] = hand /\ \A f \in Exec : f # e => phase'[f] = phase[f]
  BY DEF TypeOK, SchedulerTypeOK
<1>3. executions[e].status = "none" /\ phase[e] \notin Held
  BY DEF Fresh, Inserted, PhaseMatchesRow, Held, Running
<1>4. CASE j \notin Job
  <2>1. \A f \in Exec : Untouched(f)
    BY <1>1, <1>2, <1>3, <1>4 DEF Untouched, Inserted
  <2> QED
    BY <2>1, LockFrame
<1>5. CASE j \in Job
  <2>1. LockRowExact /\ LockRowExact'
    BY LockRowIsRunning
  <2>2. \A f \in Exec : executions[f].status = "running" => executions[f].job # j
    BY <1>5, StoreAssumption DEF Conflicts
  <2>3. LockRow(j) = NoExec
    BY <1>5, <2>1, <2>2 DEF LockRowExact
  <2>4. \A i \in Job : LockRow(i)' = IF i = j THEN e ELSE LockRow(i)
    BY <1>1, <1>3, <2>1, <2>2 DEF LockRowExact
  <2>5. LockHolder' = [LockHolder EXCEPT ![j] = e]
    BY <2>4 DEF LockHolder
  <2>6. LockRuns' = [LockRuns EXCEPT ![j] = @ \union {e}]
    <3>1. \A i \in Job : RunsOf(i)' = IF i = j THEN RunsOf(i) \union {e} ELSE RunsOf(i)
      BY <1>1, <1>2, <1>3 DEF RunsOf
    <3> QED
      BY <3>1 DEF LockRuns
  <2>7. e \notin LockUsed /\ LockUsed' = LockUsed \union {e}
    BY <1>1, <1>3, <1>5 DEF LockUsed, Inserted
  <2>8. Lock!Acquire(j, e)
    BY <1>5, <2>3, <2>5, <2>6, <2>7 DEF Lock!Acquire, LockHolder
  <2> QED
    BY <1>5, <2>8 DEF Lock!Next
<1> QED
  BY <1>4, <1>5

\* A holder ends: its verdict frees its own lock, or a broken lock and a failed
\* statement free nothing.
LEMMA CloseReleases ==
  ASSUME TypeOK, OneRunningRow, OneRunningRow', NEW e \in Exec, phase[e] \in Held,
         Inserted(e), phase' = [phase EXCEPT ![e] = "over"],
         \/ \E status \in Terminal : MarkExecutionFinished(e, status)
         \/ (StoreMayFail \/ executions[e].job \notin Job) /\ UNCHANGED executions,
         LockMode' = LockMode, LockMode # "off"
  PROVE  [Lock!Next]_lockVars
<1> DEFINE j == executions[e].job
<1>1. /\ executions'[e].job = j
      /\ \A f \in Exec : f # e => executions'[f] = executions[f]
      /\ \/ executions'[e].status \in Terminal
         \/ executions'[e].status = executions[e].status /\ (StoreMayFail \/ j \notin Job)
  <2>1. CASE \E status \in Terminal : MarkExecutionFinished(e, status)
    BY <2>1, CloseEffect DEF TypeOK
  <2> QED
    BY <2>1
<1>2. /\ phase'[e] = "over" /\ "over" \notin Held
      /\ \A f \in Exec : f # e => phase'[f] = phase[f]
  BY DEF TypeOK, SchedulerTypeOK, Held, Running
<1>3. CASE j \notin Job
  <2>1. \A f \in Exec : f # e => Untouched(f)
    BY <1>1, <1>2 DEF Untouched
  <2>2. Untouched(e)
    BY <1>1, <1>3 DEF Untouched
  <2> QED
    BY <2>1, <2>2, LockFrame
<1>4. CASE j \in Job
  <2>1. LockRowExact /\ LockRowExact'
    BY LockRowIsRunning
  <2>2. LockRuns' = [LockRuns EXCEPT ![j] = @ \ {e}] /\ e \in LockRuns[j]
    <3>1. \A i \in Job : RunsOf(i)' = IF i = j THEN RunsOf(i) \ {e} ELSE RunsOf(i)
      BY <1>1, <1>2 DEF RunsOf
    <3>2. e \in RunsOf(j)
      BY DEF RunsOf
    <3> QED
      BY <1>4, <3>1, <3>2 DEF LockRuns
  <2>3. LockUsed' = LockUsed
    BY <1>1 DEF LockUsed, Inserted, Terminal
  <2>4. \/ LockHolder' = [LockHolder EXCEPT ![j] = IF @ = e THEN NoExec ELSE @]
        \/ StoreMayFail /\ LockHolder' = LockHolder
    <3>1. CASE executions'[e].status \in Terminal
      <4>1. \A i \in Job : LockRow(i)' = IF i = j /\ LockRow(i) = e THEN NoExec ELSE LockRow(i)
        BY <1>1, <2>1, <3>1 DEF LockRowExact, Terminal
      <4> QED
        BY <4>1 DEF LockHolder
    <3>2. CASE executions'[e].status = executions[e].status /\ StoreMayFail
      <4>1. \A i \in Job : LockRow(i)' = LockRow(i)
        BY <1>1, <2>1, <3>2 DEF LockRowExact
      <4> QED
        BY <3>2, <4>1 DEF LockHolder
    <3> QED
      BY <1>1, <1>4, <3>1, <3>2
  <2>5. Lock!Release(j, e)
    BY <2>2, <2>3, <2>4 DEF Lock!Release
  <2> QED
    BY <1>4, <2>5 DEF Lock!Next
<1> QED
  BY <1>3, <1>4

\* The recovery breaks every lock, or fails.
LEMMA RecoverBreaks ==
  ASSUME TypeOK, OneRunningRow, OneRunningRow', Recover
  PROVE  [Lock!Next]_lockVars
<1>1. LockMode = "starting" /\ LockMode' = "open" /\ phase' = phase
  BY DEF Recover, LockMode
<1>2. LockRowExact /\ LockRowExact'
  BY LockRowIsRunning
<1>3. CASE RecoverStaleExecutions
  <2>1. \A e \in Exec :
          /\ executions'[e].job = executions[e].job
          /\ executions'[e].status = "none" <=> executions[e].status = "none"
          /\ executions'[e].status # "running"
    BY <1>3, RecoverEffect DEF TypeOK
  <2>2. \A j \in Job : LockRow(j)' = NoExec
    BY <1>2, <2>1 DEF LockRowExact
  <2>3. LockHolder' = [j \in Job |-> NoExec]
    BY <2>2 DEF LockHolder
  <2>4. \A j \in Job : RunsOf(j)' = RunsOf(j)
    BY <1>1, <2>1 DEF RunsOf
  <2>5. LockRuns' = LockRuns
    BY <2>4 DEF LockRuns
  <2>6. LockUsed' = LockUsed
    BY <2>1 DEF LockUsed, Inserted
  <2>7. Lock!BreakLocks
    BY <1>1, <2>3, <2>5, <2>6 DEF Lock!BreakLocks
  <2> QED
    BY <2>7 DEF Lock!Next
<1>4. CASE StoreMayFail /\ UNCHANGED executions
  <2>1. \A j \in Job : RunsOf(j)' = RunsOf(j) /\ LockRow(j)' = LockRow(j)
    BY <1>1, <1>2, <1>4 DEF RunsOf, LockRowExact
  <2>2. LockRuns' = LockRuns /\ LockHolder' = LockHolder
    BY <2>1 DEF LockRuns, LockHolder
  <2>3. LockUsed' = LockUsed
    BY <1>4 DEF LockUsed, Inserted
  <2>4. Lock!BreakLocks
    BY <1>1, <1>4, <2>2, <2>3 DEF Lock!BreakLocks
  <2> QED
    BY <2>4 DEF Lock!Next
<1> QED
  BY <1>3, <1>4 DEF Recover

\* The process dies with all its runs, and the rows stay; or it starts again.
LEMMA DeathAndRestart ==
  ASSUME TypeOK, OneRunningRow, OneRunningRow', Crash \/ Boot
  PROVE  [Lock!Next]_lockVars
<1>1. LockRowExact /\ LockRowExact' /\ executions' = executions
  BY LockRowIsRunning DEF Crash, Boot, storeVars
<1>2. \A j \in Job : LockRow(j)' = LockRow(j)
  BY <1>1 DEF LockRowExact
<1>3. LockHolder' = LockHolder /\ LockUsed' = LockUsed
  BY <1>1, <1>2 DEF LockHolder, LockUsed, Inserted
<1>4. CASE Crash
  <2>1. LockMode # "off" /\ LockMode' = "off"
    BY <1>4 DEF Crash, Up, LockMode
  <2>2. \A e \in Exec : phase'[e] \notin Held
    BY <1>4 DEF Crash, Held, Running
  <2>3. \A j \in Job : RunsOf(j)' = {}
    BY <2>2 DEF RunsOf
  <2>4. LockRuns' = [j \in Job |-> {}]
    BY <2>3 DEF LockRuns
  <2>5. Lock!Die
    BY <1>3, <2>1, <2>4 DEF Lock!Die
  <2> QED
    BY <2>5 DEF Lock!Next
<1>5. CASE Boot
  <2>1. LockMode = "off" /\ LockMode' = "starting" /\ phase' = phase
    BY <1>5 DEF Boot, LockMode
  <2>2. \A j \in Job : RunsOf(j)' = RunsOf(j)
    BY <1>1, <2>1 DEF RunsOf
  <2>3. LockRuns' = LockRuns
    BY <2>2 DEF LockRuns
  <2>4. Lock!Restart
    BY <1>3, <2>1, <2>3 DEF Lock!Restart
  <2> QED
    BY <2>4 DEF Lock!Next
<1> QED
  BY <1>4, <1>5

\* Every step of the process is a step of the lock or none.
LEMMA NextIsLockStep ==
  ASSUME IInv, IInv', [Next]_vars
  PROVE  [Lock!Next]_lockVars
<1>1. TypeOK /\ OneRunningRow /\ OneRunningRow' /\ PhaseMatchesRow /\ NothingHeldWhileDown
      /\ HolderMatchesTrigger
  BY DEF IInv
<1>2. CASE LockMode' = LockMode
           /\ UNCHANGED executions /\ \A e \in Exec : phase'[e] \in Held <=> phase[e] \in Held
  <2>1. \A e \in Exec : Untouched(e)
    BY <1>2 DEF Untouched
  <2> QED
    BY <1>1, <1>2, <2>1, LockFrame
<1>3. CASE LoopNext /\ ~Recover
  <2>1. CASE DispatchInsert
    <3>1. PICK e \in Exec, it \in todo :
            /\ Fresh(e) /\ ~Conflicts(it.job, NoKey)
            /\ InsertRunningExecution(e, it.job, "cron", it.slot, NoKey)
            /\ phase' = [phase EXCEPT ![e] = "dispatched"]
      BY <2>1 DEF DispatchInsert
    <3>2. LockMode' = LockMode /\ LockMode # "off"
      BY <2>1 DEF DispatchInsert, LockMode
    <3> QED
      BY <1>1, <3>1, <3>2, InsertAcquires DEF Held
  <2>2. CASE DispatchAdvanceFails
    <3>1. /\ execID \in Exec /\ phase[execID] = "dispatched" /\ Inserted(execID)
          /\ phase' = [phase EXCEPT ![execID] = "over"]
          /\ StoreMayFail /\ UNCHANGED executions
      BY <1>1, <2>2 DEF DispatchAdvanceFails, IInv, LoopHoldsDispatched, PhaseMatchesRow,
                        storeVars
    <3>2. LockMode' = LockMode /\ LockMode # "off"
      BY <2>2 DEF DispatchAdvanceFails, Return, LockMode
    <3> QED
      BY <1>1, <3>1, <3>2, CloseReleases DEF Held
  <2>3. CASE DispatchPush
    <3>1. LockMode' = LockMode /\ UNCHANGED executions
      BY <2>3 DEF DispatchPush, Return, LockMode, storeVars
    <3>2. \A e \in Exec : phase'[e] \in Held <=> phase[e] \in Held
      BY <1>1, <2>3 DEF DispatchPush, TypeOK, SchedulerTypeOK, Held, IInv, LoopHoldsDispatched
    <3> QED
      BY <1>2, <3>1, <3>2
  <2>4. CASE ~DispatchInsert /\ ~DispatchAdvanceFails /\ ~DispatchPush
    <3>1. LockMode' = LockMode /\ UNCHANGED <<executions, phase>>
      BY <1>3, <2>4 DEF LoopNext, ListDue, IdleTick, DispatchNoNext,
         DispatchOverdue, DispatchConflict, DispatchInsertFails, Return, LockMode,
         DispatchSkip, DispatchAdvance, storeVars, schedulerVars, loopVars
    <3> QED
      BY <1>2, <3>1
  <2> QED
    BY <2>1, <2>2, <2>3, <2>4
<1>4. CASE Recover
  BY <1>1, <1>4, RecoverBreaks
<1>5. CASE WorkerTake
  <2>1. /\ UNCHANGED <<pc, executions>> /\ queue # <<>>
        /\ phase' = [phase EXCEPT ![Head(queue)] = "taken"]
    BY <1>5 DEF WorkerTake, loopVars, storeVars
  <2>2. Head(queue) \in Exec /\ phase[Head(queue)] = "queued"
    BY <2>1 DEF IInv, QueueIsExact, TypeOK, SchedulerTypeOK
  <2>3. \A e \in Exec : phase'[e] \in Held <=> phase[e] \in Held
    BY <1>1, <2>1, <2>2 DEF TypeOK, SchedulerTypeOK, Held, Running
  <2> QED
    BY <1>2, <2>1, <2>3 DEF LockMode
<1>6. CASE \E e \in Exec : RunNext(e)
  <2> PICK e \in Exec : RunNext(e)
    BY <1>6
  <2>1. phase[e] \in Held /\ Inserted(e)
    BY <1>1 DEF RunNext, RunLoad, RunFinish, Held, Running, PhaseMatchesRow
  <2>2. LockMode' = LockMode /\ LockMode # "off"
    BY <1>1, <2>1 DEF RunNext, RunLoad, RunFinish, LockMode, loopVars, NothingHeldWhileDown
  <2>3. CASE RunLoad(e)
    <3>1. UNCHANGED executions
      BY <2>3 DEF RunLoad, storeVars
    <3>2. \A f \in Exec : phase'[f] \in Held <=> phase[f] \in Held
      BY <1>1, <2>3 DEF RunLoad, TypeOK, SchedulerTypeOK, Held, Running
    <3> QED
      BY <1>2, <2>2, <3>1, <3>2
  <2>4. CASE RunFinish(e)
    <3>1. /\ phase' = [phase EXCEPT ![e] = "over"]
          /\ \/ \E status \in Terminal : MarkExecutionFinished(e, status)
             \/ (StoreMayFail \/ executions[e].job \notin Job) /\ UNCHANGED executions
      BY <2>4 DEF RunFinish, Terminal
    <3> QED
      BY <1>1, <2>1, <2>2, <3>1, CloseReleases
  <2> QED
    BY <2>3, <2>4 DEF RunNext
<1>7. CASE ApiNext
  <2>1. LockMode' = LockMode
    BY <1>7 DEF ApiNext, SendBegin, SendEnd, TriggerBegin, TriggerLookup, TriggerInsert,
       TriggerRefused, TriggerWait, JobCreate, JobDelete, PatchRead, PatchApply, PatchWrite,
       LockMode, schedulerVars, loopVars
  <2>2. CASE SendBegin
    <3>1. PICK e \in Exec :
            /\ Fresh(e) /\ InsertRunningExecution(e, Adhoc, "adhoc", NoSlot, NoKey)
            /\ phase' = [phase EXCEPT ![e] = "sending"]
      BY <2>2 DEF SendBegin
    <3> QED
      BY <1>1, <2>1, <2>2, <3>1, InsertAcquires, StoreAssumption
         DEF Held, SendBegin, Up, LockMode
  <2>3. CASE \E e \in Exec : SendEnd(e)
    <3> PICK e \in Exec : SendEnd(e)
      BY <2>3
    <3>1. phase[e] \in Held /\ Inserted(e) /\ executions[e].job \notin Job
      BY <1>1, StoreAssumption DEF SendEnd, Held, PhaseMatchesRow, HolderMatchesTrigger
    <3>2. /\ phase' = [phase EXCEPT ![e] = "over"] /\ LockMode # "off"
          /\ \/ \E status \in Terminal : MarkExecutionFinished(e, status)
             \/ (StoreMayFail \/ executions[e].job \notin Job) /\ UNCHANGED executions
      BY <3>1 DEF SendEnd, Up, LockMode
    <3> QED
      BY <1>1, <2>1, <3>1, <3>2, CloseReleases
  <2>4. CASE \E r \in TriggerReq : TriggerInsert(r)
    <3> PICK r \in TriggerReq : TriggerInsert(r)
      BY <2>4
    <3>1. PICK e \in Exec :
            /\ Fresh(e) /\ ~Conflicts(trig[r].job, trig[r].key)
            /\ InsertRunningExecution(e, trig[r].job, "manual", NoSlot, trig[r].key)
            /\ phase' = [phase EXCEPT ![e] = "spawned"]
      BY DEF TriggerInsert
    <3>2. LockMode # "off"
      BY DEF TriggerInsert, Up, LockMode
    <3> QED
      BY <1>1, <2>1, <3>1, <3>2, InsertAcquires DEF Held, Running
  <2>5. CASE ~SendBegin /\ ~(\E e \in Exec : SendEnd(e))
             /\ ~\E r \in TriggerReq : TriggerInsert(r)
    <3>1. UNCHANGED <<executions, phase>>
      BY <1>7, <2>5 DEF ApiNext, TriggerBegin, TriggerLookup, TriggerRefused,
         TriggerWait, JobCreate, JobDelete, PatchRead, PatchApply, PatchWrite,
         storeVars, schedulerVars
    <3> QED
      BY <1>2, <2>1, <3>1
  <2> QED
    BY <2>2, <2>3, <2>4, <2>5
<1>8. CASE Crash \/ Boot
  BY <1>1, <1>8, DeathAndRestart
<1>9. CASE Tick \/ UNCHANGED vars
  <2>1. UNCHANGED <<executions, phase, pc>>
    BY <1>9 DEF Tick, vars, storeVars, schedulerVars, loopVars
  <2> QED
    BY <1>2, <2>1 DEF LockMode
<1> QED
  BY <1>3, <1>4, <1>5, <1>6, <1>7, <1>8, <1>9 DEF Next

\* The running row is the lock JobLock describes: an execution begins with a free
\* lock only, its verdict frees its own lock only, and only a start breaks locks.
THEOREM RowsAreLocks == Spec => ImplementsJobLock
<1>1. Init => Lock!Init
  <2> SUFFICES ASSUME Init
               PROVE  Lock!Init
    OBVIOUS
  <2>1. \A e \in Exec : executions[e].status = "none" /\ phase[e] = "none"
    BY DEF Init, EmptyRow
  <2>2. \A j \in Job : RunningRows(j) = {} /\ RunsOf(j) = {}
    BY <2>1 DEF RunningRows, RunsOf, Held, Running
  <2>3. LockHolder = [j \in Job |-> NoExec] /\ LockRuns = [j \in Job |-> {}]
    BY <2>2 DEF LockHolder, LockRuns, LockRow
  <2>4. LockMode = "starting" /\ LockUsed = {}
    BY <2>1 DEF Init, LockMode, LockUsed, Inserted
  <2> QED
    BY <2>3, <2>4 DEF Lock!Init
<1>2. IInv /\ IInv' /\ [Next]_vars => [Lock!Next]_lockVars
  BY NextIsLockStep
<1> QED
  BY <1>1, <1>2, Invariant, PTL DEF Spec, ImplementsJobLock, Lock!Spec, Lock!vars, lockVars

------------------------------------------------------------------------------
(* The other index: a key names one execution *)

\* What uniq_idempotency enforces.
OneRowPerKey ==
  \A e, f \in Exec :
    /\ Inserted(e) /\ Inserted(f)
    /\ executions[e].job = executions[f].job
    /\ executions[e].key = executions[f].key /\ executions[e].key # NoKey
    => e = f

\* What the request asked for is what the row it names has, and rows stay.
Names(r) ==
  trig[r].exec # NoExec =>
    /\ trig[r].exec \in Exec
    /\ Inserted(trig[r].exec)
    /\ executions[trig[r].exec].job = trig[r].job
    /\ executions[trig[r].exec].key = trig[r].key

\* Until then it names none, so that its job and key can still change.
NamesNoneYet(r) == trig[r].pc \in {"new", "lookup", "insert"} => trig[r].exec = NoExec

KeyInv == OneRowPerKey /\ \A r \in TriggerReq : Names(r) /\ NamesNoneYet(r)

\* The index keeps the rows of a key apart, and no row changes its key.
LEMMA NextOneRowPerKey ==
  ASSUME StoreTypeOK, PhaseMatchesRow, [Next]_vars, OneRowPerKey
  PROVE  OneRowPerKey'
<1>1. \A e \in Exec : Inserted(e) =>
         Inserted(e)' /\ executions'[e].job = executions[e].job
                      /\ executions'[e].key = executions[e].key
  BY RowsKeepColumns
<1>2. CASE \A e \in Exec : Inserted(e)' => Inserted(e)
  BY <1>1, <1>2 DEF OneRowPerKey
<1>3. CASE \E e \in Exec : Inserted(e)' /\ ~Inserted(e)
  <2>1. PICK e \in Exec : Inserted(e)' /\ ~Inserted(e)
    BY <1>3
  <2>2. executions' # executions
    BY <2>1 DEF Inserted
  <2>3. Next
    BY <2>2 DEF vars, storeVars
  <2>4. PICK f \in Exec :
          \/ \E j, trigger, slot, k :
               /\ Fresh(f) /\ (k # NoKey => ~Conflicts(j, k))
               /\ InsertRunningExecution(f, j, trigger, slot, k)
          \/ \E status \in Terminal : phase[f] \in Held /\ MarkExecutionFinished(f, status)
          \/ RecoverStaleExecutions
    BY <2>2, <2>3, ExecutionSteps
  <2>5. CASE \E j, trigger, slot, k :
               /\ Fresh(f) /\ (k # NoKey => ~Conflicts(j, k))
               /\ InsertRunningExecution(f, j, trigger, slot, k)
    <3>1. PICK j, trigger, slot, k :
            /\ k # NoKey => ~Conflicts(j, k)
            /\ InsertRunningExecution(f, j, trigger, slot, k)
      BY <2>5
    <3>2. /\ executions'[f].job = j /\ executions'[f].key = k
          /\ \A g \in Exec : g # f => executions'[g] = executions[g]
      BY <3>1, InsertEffect
    <3>3. \A g \in Exec : k # NoKey /\ Inserted(g) /\ executions[g].job = j
                            => executions[g].key # k
      BY <3>1 DEF Conflicts
    <3> QED
      BY <3>2, <3>3 DEF OneRowPerKey, Inserted
  <2>6. CASE \E status \in Terminal : phase[f] \in Held /\ MarkExecutionFinished(f, status)
    <3>1. Inserted(f)
      BY <2>6 DEF PhaseMatchesRow, Held, Running
    <3>2. \A g \in Exec : g # f => executions'[g] = executions[g]
      BY <2>6, CloseEffect
    <3> QED
      BY <2>1, <3>1, <3>2 DEF Inserted
  <2>7. CASE RecoverStaleExecutions
    <3>1. executions[e].status # "running"
      BY <2>1 DEF Inserted
    <3>2. executions'[e] = executions[e]
      BY <2>7, <3>1, RecoverEffect
    <3> QED
      BY <2>1, <3>2 DEF Inserted
  <2> QED
    BY <2>4, <2>5, <2>6, <2>7
<1> QED
  BY <1>2, <1>3

\* A request names the row it found under its key, or the one it inserted.
LEMMA NextNames ==
  ASSUME StoreTypeOK, ApiTypeOK, [Next]_vars, NEW r \in TriggerReq, Names(r), NamesNoneYet(r)
  PROVE  Names(r)' /\ NamesNoneYet(r)'
<1>1. \A e \in Exec : Inserted(e) =>
         Inserted(e)' /\ executions'[e].job = executions[e].job
                      /\ executions'[e].key = executions[e].key
  BY RowsKeepColumns
<1> DEFINE Kept == /\ trig'[r].exec = trig[r].exec \/ trig'[r].exec = NoExec
                   /\ trig'[r].job = trig[r].job
                   /\ trig'[r].key = trig[r].key
                   /\ trig'[r].pc \in {"new", "lookup", "insert"} =>
                        trig[r].pc \in {"new", "lookup", "insert"}
<1>2. CASE Kept
  BY <1>1, <1>2 DEF Names, NamesNoneYet
<1>3. ASSUME NEW q \in TriggerReq, NEW code, NEW e, NEW status, Reply(q, code, e, status)
      PROVE  /\ q # r => trig'[r] = trig[r]
             /\ q = r => /\ trig'[r].pc = "done" /\ trig'[r].exec = e
                         /\ trig'[r].job = trig[r].job /\ trig'[r].key = trig[r].key
  <2>1. trig[q] \in TriggerState
    BY DEF ApiTypeOK
  <2>2. trig' = [trig EXCEPT ![q] = [@ EXCEPT !.pc = "done", !.code = code, !.exec = e,
                                              !.status = status]]
    BY <1>3 DEF Reply
  <2> QED
    BY <2>1, <2>2 DEF ApiTypeOK, TriggerState
<1>4. ASSUME NEW q \in TriggerReq, NEW code, Refuse(q, code)
      PROVE  Kept
  BY <1>3, <1>4 DEF Refuse
<1>5. ASSUME NEW q \in TriggerReq, TriggerBegin(q)
      PROVE  Names(r)' /\ NamesNoneYet(r)'
  <2>1. PICK j \in Job, k \in Key :
          \/ /\ Live(j)
             /\ trig' = [trig EXCEPT ![q].job = j, ![q].key = k,
                           ![q].pc = IF k = NoKey THEN "insert" ELSE "lookup"]
          \/ ~Live(j) /\ Refuse(q, 404)
          \/ StoreMayFail /\ Refuse(q, 500)
    BY ONLY <1>5, Zenon DEF TriggerBegin
  <2>2. trig[q].pc = "new"
    BY <1>5 DEF TriggerBegin
  <2>3. CASE trig' = [trig EXCEPT ![q].job = j, ![q].key = k,
                        ![q].pc = IF k = NoKey THEN "insert" ELSE "lookup"]
    <3>1. CASE q = r
      <4>1. trig'[r].exec = trig[r].exec /\ trig[r].exec = NoExec
        BY <2>2, <2>3, <3>1 DEF NamesNoneYet, ApiTypeOK, TriggerState
      <4> QED
        BY <4>1 DEF Names, NamesNoneYet
    <3>2. CASE q # r
      <4>1. trig'[r] = trig[r]
        BY <2>3, <3>2 DEF ApiTypeOK
      <4> QED
        BY <1>2, <4>1
    <3> QED
      BY <3>1, <3>2
  <2>4. CASE Refuse(q, 404) \/ Refuse(q, 500)
    BY <1>2, <1>4, <2>4
  <2> QED
    BY <2>1, <2>3, <2>4
<1>6. ASSUME NEW q \in TriggerReq, TriggerLookup(q)
      PROVE  Names(r)' /\ NamesNoneYet(r)'
  <2>1. CASE \E e \in WithKey(trig[q].job, trig[q].key) :
               \E code, status : Reply(q, code, e, status)
    <3>1. PICK e \in WithKey(trig[q].job, trig[q].key) :
            \E code, status : Reply(q, code, e, status)
      BY <2>1
    <3>2. e \in Exec /\ Inserted(e) /\ executions[e].job = trig[q].job
            /\ executions[e].key = trig[q].key
      BY DEF WithKey
    <3>3. CASE q = r
      BY <1>1, <1>3, <3>1, <3>2, <3>3 DEF Names, NamesNoneYet
    <3>4. CASE q # r
      BY <1>2, <1>3, <3>1, <3>4
    <3> QED
      BY <3>3, <3>4
  <2>2. CASE trig' = [trig EXCEPT ![q].pc = "insert"] /\ trig[q].pc = "lookup"
    <3>1. Kept
      BY <2>2 DEF ApiTypeOK, TriggerState
    <3> QED
      BY <1>2, <3>1
  <2> QED
    BY <1>6, <2>1, <2>2 DEF TriggerLookup
<1>7. ASSUME NEW q \in TriggerReq, TriggerInsert(q)
      PROVE  Names(r)' /\ NamesNoneYet(r)'
  <2>1. PICK e \in Exec :
          /\ InsertRunningExecution(e, trig[q].job, "manual", NoSlot, trig[q].key)
          /\ \/ Reply(q, 201, e, "running")
             \/ trig' = [trig EXCEPT ![q].pc = "wait", ![q].exec = e]
    BY <1>7 DEF TriggerInsert
  <2>2. /\ executions'[e].job = trig[q].job /\ executions'[e].key = trig[q].key
        /\ executions'[e].status = "running"
    BY <2>1, InsertEffect
  <2>3. CASE q = r
    <3>1. /\ trig'[r].pc \in {"wait", "done"} /\ trig'[r].exec = e
          /\ trig'[r].job = trig[r].job /\ trig'[r].key = trig[r].key
      <4>1. CASE Reply(q, 201, e, "running")
        BY <1>3, <2>3, <4>1
      <4>2. CASE trig' = [trig EXCEPT ![q].pc = "wait", ![q].exec = e]
        BY <2>3, <4>2 DEF ApiTypeOK, TriggerState
      <4> QED
        BY <2>1, <4>1, <4>2
    <3> QED
      BY <2>2, <2>3, <3>1 DEF Names, NamesNoneYet, Inserted
  <2>4. CASE q # r
    <3>1. trig'[r] = trig[r]
      BY <1>3, <2>1, <2>4 DEF ApiTypeOK
    <3> QED
      BY <1>2, <3>1
  <2> QED
    BY <2>3, <2>4
<1>8. ASSUME NEW q \in TriggerReq, TriggerRefused(q)
      PROVE  Kept
  BY <1>4, <1>8 DEF TriggerRefused
<1>9. ASSUME NEW q \in TriggerReq, TriggerWait(q)
      PROVE  Kept
  <2>1. \/ \E code, status : Reply(q, code, trig[q].exec, status)
        \/ \E code : Refuse(q, code)
    BY <1>9 DEF TriggerWait
  <2>2. CASE \E code, status : Reply(q, code, trig[q].exec, status)
    BY <1>3, <2>2
  <2> QED
    BY <1>4, <2>1, <2>2
<1>10. CASE Crash
  <2>1. trig'[r] = IF trig[r].pc = "new" THEN trig[r] ELSE [trig[r] EXCEPT !.pc = "done"]
    BY <1>10 DEF Crash
  <2>2. Kept
    BY <2>1 DEF ApiTypeOK, TriggerState
  <2> QED
    BY <1>2, <2>2
<1>11. CASE UNCHANGED trig
  BY <1>2, <1>11
<1> HIDE DEF Kept
<1>12. CASE \E q \in TriggerReq : TriggerBegin(q) \/ TriggerLookup(q) \/ TriggerInsert(q)
                                  \/ TriggerRefused(q) \/ TriggerWait(q)
  BY <1>2, <1>5, <1>6, <1>7, <1>8, <1>9, <1>12
<1>13. CASE /\ ~ \E q \in TriggerReq : TriggerBegin(q) \/ TriggerLookup(q) \/ TriggerInsert(q)
                                  \/ TriggerRefused(q) \/ TriggerWait(q)
            /\ ~Crash
  <2>1. UNCHANGED trig
    BY <1>13 DEF Next, ApiNext, SendBegin, SendEnd, JobCreate, JobDelete, PatchRead,
       PatchApply, PatchWrite, Tick, Boot, apiVars, vars
  <2> QED
    BY <1>11, <2>1
<1> QED
  BY <1>10, <1>12, <1>13

\* Replies that name an execution for one key of one job name the same one.
THEOREM KeysName == Spec => []KeyNamesOneExecution
<1>1. Init => KeyInv
  <2> SUFFICES ASSUME Init
               PROVE  KeyInv
    OBVIOUS
  <2>1. \A e \in Exec : ~Inserted(e)
    BY DEF Init, Inserted, EmptyRow
  <2>2. \A r \in TriggerReq : trig[r].exec = NoExec
    BY DEF Init
  <2> QED
    BY <2>1, <2>2 DEF KeyInv, OneRowPerKey, Names, NamesNoneYet
<1>2. IInv /\ KeyInv /\ [Next]_vars => KeyInv'
  BY NextOneRowPerKey, NextNames DEF IInv, TypeOK, KeyInv
<1>3. KeyInv => KeyNamesOneExecution
  BY DEF KeyInv, OneRowPerKey, Names, KeyNamesOneExecution
<1> QED
  BY <1>1, <1>2, <1>3, Invariant, PTL DEF Spec

------------------------------------------------------------------------------
(* What clients were told *)

\* A request that was told of a success is over and names a row that is one; one that
\* waits names a row.
Told(r) ==
  /\ trig[r].pc = "wait" => trig[r].exec \in Exec
  /\ trig[r].status = "success" =>
       /\ trig[r].pc = "done"
       /\ trig[r].exec \in Exec
       /\ executions[trig[r].exec].status = "success"

\* Who would change the verdict of a row holds it, and then it is running or recovered.
LEMMA SuccessStays ==
  ASSUME IInv, [Next]_vars, NEW e \in Exec, executions[e].status = "success"
  PROVE  executions'[e].status = "success"
<1>1. StoreTypeOK /\ HolderOwnsRow
  BY DEF IInv, TypeOK
<1>2. CASE UNCHANGED executions
  BY <1>2
<1>3. CASE executions' # executions
  <2>1. Next
    BY <1>3 DEF vars, storeVars
  <2>2. PICK f \in Exec :
          \/ \E j, trigger, slot, k :
               Fresh(f) /\ InsertRunningExecution(f, j, trigger, slot, k)
          \/ \E status : phase[f] \in Held /\ MarkExecutionFinished(f, status)
          \/ RecoverStaleExecutions
    BY <1>3, <2>1, ExecutionSteps
  <2>3. CASE \E j, trigger, slot, k :
               Fresh(f) /\ InsertRunningExecution(f, j, trigger, slot, k)
    <3>1. f # e
      BY <2>3 DEF Fresh, Inserted
    <3> QED
      BY <1>1, <2>3, <3>1, InsertEffect
  <2>4. CASE \E status : phase[f] \in Held /\ MarkExecutionFinished(f, status)
    <3>1. f # e
      BY <1>1, <2>4 DEF HolderOwnsRow, Recovered
    <3> QED
      BY <1>1, <2>4, <3>1, CloseEffect
  <2>5. CASE RecoverStaleExecutions
    BY <1>1, <2>5, RecoverEffect
  <2> QED
    BY <2>2, <2>3, <2>4, <2>5
<1> QED
  BY <1>2, <1>3

\* Every reply of a success was read from the row it names.
LEMMA NextTold ==
  ASSUME IInv, [Next]_vars, NEW r \in TriggerReq, Told(r)
  PROVE  Told(r)'
<1>1. StoreTypeOK /\ ApiTypeOK
  BY DEF IInv, TypeOK
<1>2. \A e \in Exec : executions[e].status = "success" => executions'[e].status = "success"
  BY SuccessStays
<1>3. CASE trig'[r] = trig[r]
  BY <1>2, <1>3 DEF Told
<1>4. ASSUME NEW q \in TriggerReq, NEW code, NEW e, NEW status, Reply(q, code, e, status)
      PROVE  /\ q # r => trig'[r] = trig[r]
             /\ q = r => /\ trig'[r].pc = "done" /\ trig'[r].exec = e
                         /\ trig'[r].status = status
  <2>1. trig[q] \in TriggerState
    BY <1>1 DEF ApiTypeOK
  <2>2. trig' = [trig EXCEPT ![q] = [@ EXCEPT !.pc = "done", !.code = code, !.exec = e,
                                              !.status = status]]
    BY <1>4 DEF Reply
  <2> QED
    BY <1>1, <2>1, <2>2 DEF ApiTypeOK, TriggerState
<1>5. ASSUME NEW q \in TriggerReq, NEW code, NEW e, NEW status, Reply(q, code, e, status),
             status = "success" => e \in Exec /\ executions[e].status = "success"
      PROVE  Told(r)'
  <2>1. CASE q # r
    BY <1>3, <1>4, <1>5, <2>1
  <2>2. CASE q = r
    <3>1. trig'[r].pc = "done" /\ trig'[r].exec = e /\ trig'[r].status = status
      BY <1>4, <1>5, <2>2
    <3> QED
      BY <1>2, <1>5, <3>1 DEF Told
  <2> QED
    BY <2>1, <2>2
<1>6. ASSUME NEW q \in TriggerReq, NEW code, Refuse(q, code)
      PROVE  Told(r)'
  BY <1>5, <1>6 DEF Refuse
<1>7. ASSUME NEW q \in TriggerReq, trig[q].pc # "done",
             \A p \in TriggerReq : p # q => trig'[p] = trig[p],
             trig'[q].status = trig[q].status,
             trig'[q].pc = "wait" => trig'[q].exec \in Exec
      PROVE  Told(r)'
  BY <1>3, <1>7 DEF Told
<1>8. ASSUME NEW q \in TriggerReq, TriggerBegin(q)
      PROVE  Told(r)'
  <2>1. PICK j \in Job, k \in Key :
          \/ trig' = [trig EXCEPT ![q].job = j, ![q].key = k,
                        ![q].pc = IF k = NoKey THEN "insert" ELSE "lookup"]
          \/ Refuse(q, 404)
          \/ Refuse(q, 500)
    BY ONLY <1>8, Zenon DEF TriggerBegin
  <2>2. trig[q].pc = "new"
    BY <1>8 DEF TriggerBegin
  <2>3. CASE trig' = [trig EXCEPT ![q].job = j, ![q].key = k,
                        ![q].pc = IF k = NoKey THEN "insert" ELSE "lookup"]
    <3>1. /\ \A p \in TriggerReq : p # q => trig'[p] = trig[p]
          /\ trig'[q].status = trig[q].status /\ trig'[q].pc # "wait"
      BY <1>1, <2>3 DEF ApiTypeOK, TriggerState
    <3> QED
      BY <1>7, <2>2, <3>1
  <2> QED
    BY <1>6, <2>1, <2>3
<1>9. ASSUME NEW q \in TriggerReq, TriggerLookup(q)
      PROVE  Told(r)'
  <2>1. CASE \E e \in Exec : \E code : Reply(q, code, e, executions[e].status)
    BY <1>5, <2>1
  <2>2. CASE trig' = [trig EXCEPT ![q].pc = "insert"] /\ trig[q].pc = "lookup"
    <3>1. /\ \A p \in TriggerReq : p # q => trig'[p] = trig[p]
          /\ trig'[q].status = trig[q].status /\ trig'[q].pc # "wait"
      BY <1>1, <2>2 DEF ApiTypeOK, TriggerState
    <3> QED
      BY <1>7, <2>2, <3>1
  <2> QED
    BY <1>9, <2>1, <2>2 DEF TriggerLookup, WithKey
<1>10. ASSUME NEW q \in TriggerReq, TriggerInsert(q)
       PROVE  Told(r)'
  <2>1. PICK e \in Exec :
          \/ Reply(q, 201, e, "running")
          \/ trig' = [trig EXCEPT ![q].pc = "wait", ![q].exec = e]
    BY <1>10 DEF TriggerInsert
  <2>2. CASE trig' = [trig EXCEPT ![q].pc = "wait", ![q].exec = e]
    <3>1. /\ \A p \in TriggerReq : p # q => trig'[p] = trig[p]
          /\ trig'[q].status = trig[q].status /\ trig'[q].exec \in Exec
      BY <1>1, <2>2 DEF ApiTypeOK, TriggerState
    <3>2. trig[q].pc # "done"
      BY <1>10 DEF TriggerInsert
    <3> QED
      BY <1>7, <3>1, <3>2
  <2> QED
    BY <1>5, <2>1, <2>2
<1>11. ASSUME NEW q \in TriggerReq, TriggerRefused(q)
       PROVE  Told(r)'
  BY <1>6, <1>11 DEF TriggerRefused
<1>12. ASSUME NEW q \in TriggerReq, TriggerWait(q)
       PROVE  Told(r)'
  <2> DEFINE e == trig[q].exec
  <2>1. \/ Reply(q, 200, e, executions[e].status)
        \/ Refuse(q, 404)
        \/ Reply(q, 202, e, "running")
    BY <1>12 DEF TriggerWait
  <2>2. CASE Reply(q, 200, e, executions[e].status)
    <3>1. CASE q = r
      <4>1. e \in Exec
        BY <1>12, <3>1 DEF TriggerWait, Told
      <4> QED
        BY <1>5, <2>2, <4>1
    <3>2. CASE q # r
      BY <1>3, <1>4, <2>2, <3>2
    <3> QED
      BY <3>1, <3>2
  <2> QED
    BY <1>5, <1>6, <2>1, <2>2
<1>13. CASE Crash
  <2>1. trig'[r] = IF trig[r].pc = "new" THEN trig[r] ELSE [trig[r] EXCEPT !.pc = "done"]
    BY <1>13 DEF Crash
  <2> QED
    BY <1>1, <1>2, <1>3, <2>1 DEF Told, ApiTypeOK, TriggerState
<1>14. CASE /\ ~ \E q \in TriggerReq : TriggerBegin(q) \/ TriggerLookup(q) \/ TriggerInsert(q)
                                  \/ TriggerRefused(q) \/ TriggerWait(q)
            /\ ~Crash
  <2>1. UNCHANGED trig
    BY <1>14 DEF Next, ApiNext, SendBegin, SendEnd, JobCreate, JobDelete, PatchRead,
       PatchApply, PatchWrite, Tick, Boot, apiVars, vars
  <2> QED
    BY <1>3, <2>1
<1> QED
  BY <1>8, <1>9, <1>10, <1>11, <1>12, <1>13, <1>14

\* No client that was told of a success is contradicted by the row.
THEOREM SuccessIsFinal == Spec => []ToldSuccessStays
<1> DEFINE ToldInv == \A r \in TriggerReq : Told(r)
<1>1. Init => ToldInv
  BY DEF Init, Told
<1>2. IInv /\ ToldInv /\ [Next]_vars => ToldInv'
  BY NextTold
<1>3. ToldInv => ToldSuccessStays
  BY DEF Told, ToldSuccessStays
<1> QED
  BY <1>1, <1>2, <1>3, Invariant, PTL DEF Spec
=============================================================================
