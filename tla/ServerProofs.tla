---------------------------- MODULE ServerProofs ----------------------------
(***************************************************************************)
(* Proofs about Server for every value of its constants: the types, the    *)
(* inductive invariant IInv, and what follows from it.                     *)
(***************************************************************************)
EXTENDS Server, CronProofs

USE DEF ZeroTime, NoExec, NoSlot

------------------------------------------------------------------------------
(* Types *)

\* The statements on executions keep the table's columns in their domains.
LEMMA ExecutionStatementTypes ==
  ASSUME StoreTypeOK
  PROVE  /\ \A e \in Exec, j \in Job \union {NoJob, Adhoc}, slot \in Nat, k \in Key,
               trigger \in {"cron", "manual", "adhoc"} :
              InsertRunningExecution(e, j, trigger, slot, k)
                => executions' \in [Exec -> ExecRow]
         /\ \A e \in Exec, status \in Terminal :
              MarkExecutionFinished(e, status) => executions' \in [Exec -> ExecRow]
         /\ RecoverStaleExecutions => executions' \in [Exec -> ExecRow]
<1>1. ASSUME NEW e \in Exec, NEW j \in Job \union {NoJob, Adhoc}, NEW slot \in Nat,
             NEW k \in Key, NEW trigger \in {"cron", "manual", "adhoc"},
             InsertRunningExecution(e, j, trigger, slot, k)
      PROVE  executions' \in [Exec -> ExecRow]
  <2> DEFINE row == [status |-> "running", job |-> j, trigger |-> trigger,
                     slot |-> slot, key |-> k, error |-> ""]
  <2>1. row \in ExecRow
    BY DEF ExecRow
  <2>2. executions' = [executions EXCEPT ![e] = row]
    BY <1>1 DEF InsertRunningExecution
  <2> HIDE DEF row
  <2> QED
    BY <2>1, <2>2 DEF StoreTypeOK
<1>2. ASSUME NEW e \in Exec, NEW status \in Terminal,
             MarkExecutionFinished(e, status)
      PROVE  executions' \in [Exec -> ExecRow]
  <2> DEFINE row == [executions[e] EXCEPT !.status = status,
                       !.error = IF status = "failed" THEN "run" ELSE ""]
  <2>1. executions[e] \in ExecRow
    BY DEF StoreTypeOK
  <2>2. row \in ExecRow
    BY <2>1 DEF ExecRow, Terminal
  <2>3. executions' = [executions EXCEPT ![e] = row]
    BY <1>2 DEF MarkExecutionFinished, StoreTypeOK
  <2> HIDE DEF row
  <2> QED
    BY <2>2, <2>3 DEF StoreTypeOK
<1>3. ASSUME RecoverStaleExecutions
      PROVE  executions' \in [Exec -> ExecRow]
  <2>1. ASSUME NEW e \in Exec
        PROVE  [executions[e] EXCEPT !.status = "failed", !.error = "restart"] \in ExecRow
    <3>1. executions[e] \in ExecRow
      BY DEF StoreTypeOK
    <3> QED
      BY <3>1 DEF ExecRow, Terminal
  <2> QED
    BY <1>3, <2>1 DEF RecoverStaleExecutions, StoreTypeOK
<1> QED
  BY <1>1, <1>2, <1>3

\* The statements on jobs keep the table's columns in their domains.
LEMMA JobStatementTypes ==
  ASSUME StoreTypeOK
  PROVE  /\ \A j \in Job \union {NoJob}, slot \in Nat, next \in Nat :
              AdvanceJobSchedule(j, slot, next) => jobs' \in [Job -> JobRow]
         /\ \A j \in Job \union {NoJob}, next \in Nat :
              FastForwardJobNextRun(j, next) => jobs' \in [Job -> JobRow]
         /\ \A j \in Job \union {NoJob}, row \in JobRow :
              UpdateJob(j, row) => jobs' \in [Job -> JobRow]
         /\ \A j \in Job, c \in Cron, on \in BOOLEAN, next \in Nat :
              CreateJob(j, c, on, next) => jobs' \in [Job -> JobRow]
         /\ \A j \in Job : DeleteJob(j) => jobs' \in [Job -> JobRow]
<1> USE DEF StoreTypeOK, JobRow
<1>1. ASSUME NEW j \in Job \union {NoJob}, NEW slot \in Nat, NEW next \in Nat,
             AdvanceJobSchedule(j, slot, next)
      PROVE  jobs' \in [Job -> JobRow]
  <2>1. CASE j \in Job
    <3>1. [jobs[j] EXCEPT !.nextRun = next] \in JobRow
      BY <2>1
    <3>2. [[jobs[j] EXCEPT !.nextRun = next] EXCEPT !.lastRun = slot] \in JobRow
      BY <3>1
    <3>3. \/ jobs' = jobs
          \/ jobs' = [jobs EXCEPT ![j] =
                        [[jobs[j] EXCEPT !.nextRun = next] EXCEPT !.lastRun = slot]]
      BY <1>1, <2>1 DEF AdvanceJobSchedule
    <3> QED
      BY ONLY <2>1, <3>2, <3>3, jobs \in [Job -> JobRow]
  <2>2. CASE j \notin Job
    BY <1>1, <2>2 DEF AdvanceJobSchedule
  <2> QED
    BY <2>1, <2>2
<1>2. ASSUME NEW j \in Job \union {NoJob}, NEW next \in Nat,
             FastForwardJobNextRun(j, next)
      PROVE  jobs' \in [Job -> JobRow]
  <2>1. CASE j \in Job
    <3>1. [jobs[j] EXCEPT !.nextRun = next] \in JobRow
      BY <2>1
    <3>2. \/ jobs' = jobs
          \/ jobs' = [jobs EXCEPT ![j] = [jobs[j] EXCEPT !.nextRun = next]]
      BY <1>2, <2>1 DEF FastForwardJobNextRun
    <3> QED
      BY <2>1, <3>1, <3>2
  <2>2. CASE j \notin Job
    BY <1>2, <2>2 DEF FastForwardJobNextRun
  <2> QED
    BY <2>1, <2>2
<1>3. ASSUME NEW j \in Job \union {NoJob}, NEW row \in JobRow, UpdateJob(j, row)
      PROVE  jobs' \in [Job -> JobRow]
  <2>1. CASE j \in Job
    BY <1>3, <2>1 DEF UpdateJob
  <2>2. CASE j \notin Job
    BY <1>3, <2>2 DEF UpdateJob
  <2> QED
    BY <2>1, <2>2
<1>4. ASSUME NEW j \in Job, NEW c \in Cron, NEW on \in BOOLEAN, NEW next \in Nat,
             CreateJob(j, c, on, next)
      PROVE  jobs' \in [Job -> JobRow]
  BY <1>4 DEF CreateJob
<1>5. ASSUME NEW j \in Job, DeleteJob(j)
      PROVE  jobs' \in [Job -> JobRow]
  BY <1>5, StoreAssumption DEF DeleteJob, NoJobRow
<1> QED
  BY <1>1, <1>2, <1>3, <1>4, <1>5

\* What the loop, the workers and the runs store stays in its domain.
LEMMA LoopKeepsTypes ==
  ASSUME TypeOK, LoopHoldsDispatched,
         LoopNext \/ WorkerTake \/ \E e \in Exec : RunNext(e)
  PROVE  StoreTypeOK' /\ SchedulerTypeOK'
<1> USE DEF TypeOK, SchedulerTypeOK, Phase, Held, Running, loopVars, storeVars,
            schedulerVars
<1> DEFINE Rest(it) == todo \ {it}
<1>1. \A it \in Snapshot \union {NoItem} :
        it.job \in Job \union {NoJob} /\ it.slot \in Nat /\ Next1(it) \in Nat
  <2>1. NoItem.cron \in Cron
    BY StoreAssumption DEF NoItem
  <2>2. \A it \in Snapshot \union {NoItem} :
          it.job \in Job \union {NoJob} /\ it.slot \in Nat /\ it.cron \in Cron
    BY <2>1 DEF Snapshot, NoItem, NoSlot, ZeroTime
  <2>3. at \in Nat
    OBVIOUS
  <2> QED
    BY <2>2, <2>3, NextRunAfterType DEF Next1
<1>2. NoItem \in Snapshot \union {NoItem} /\ Snapshot \subseteq Snapshot \union {NoItem}
  OBVIOUS
<1>3. \A rest \in SUBSET Snapshot :
        Return(rest) => pc' = "loop" /\ todo' \subseteq Snapshot /\ at' \in Nat
                        /\ item' \in Snapshot \union {NoItem} /\ execID' = NoExec
  BY <1>2 DEF Return
<1>4. \A it \in todo : todo \ {it} \in SUBSET Snapshot
  OBVIOUS
<1>5. todo \in SUBSET Snapshot
  OBVIOUS
<1>6. UNCHANGED storeVars => StoreTypeOK'
  BY DEF StoreTypeOK
<1>7. UNCHANGED jobs /\ executions' \in [Exec -> ExecRow] => StoreTypeOK'
  BY DEF StoreTypeOK
<1>8. UNCHANGED executions /\ jobs' \in [Job -> JobRow] => StoreTypeOK'
  BY DEF StoreTypeOK
<1>9. CASE Recover
  <2>1. StoreTypeOK'
    BY <1>9, <1>6, <1>7, ExecutionStatementTypes DEF Recover
  <2> QED
    BY <1>9, <2>1 DEF Recover
<1>10. CASE ListDue
  <2>1. \A j \in Job : [job |-> j, cron |-> jobs[j].cron, slot |-> jobs[j].nextRun] \in Snapshot
    BY DEF Snapshot, StoreTypeOK, JobRow
  <2>2. todo' \subseteq Snapshot
    BY <1>10, <2>1 DEF ListDue, DueJobs
  <2> QED
    BY <1>10, <1>6, <2>2 DEF ListDue
<1>11. CASE IdleTick
  BY <1>11, <1>6 DEF IdleTick
<1>12. CASE DispatchNoNext
  BY <1>12, <1>3, <1>4, <1>6 DEF DispatchNoNext
<1>13. CASE DispatchOverdue
  <2>1. PICK it \in todo :
          /\ FastForwardJobNextRun(it.job, Next1(it)) \/ UNCHANGED jobs
          /\ Return(todo \ {it})
    BY <1>13 DEF DispatchOverdue
  <2>2. StoreTypeOK'
    BY <1>13, <2>1, <1>1, <1>6, <1>8, JobStatementTypes DEF DispatchOverdue
  <2> QED
    BY <1>13, <2>1, <2>2, <1>3, <1>4 DEF DispatchOverdue
<1>14. CASE DispatchInsert
  <2>1. PICK it \in todo, e \in Exec :
          /\ InsertRunningExecution(e, it.job, "cron", it.slot, NoKey)
          /\ pc' = "advance" /\ todo' = todo \ {it} /\ item' = it /\ execID' = e
          /\ phase' = [phase EXCEPT ![e] = "dispatched"]
    BY <1>14 DEF DispatchInsert
  <2>2. StoreTypeOK'
    BY <1>14, <2>1, <1>1, <1>7, ExecutionStatementTypes, StoreAssumption
    DEF DispatchInsert
  <2> QED
    BY <1>14, <2>1, <2>2 DEF DispatchInsert
<1>15. CASE DispatchConflict
  BY <1>15, <1>6 DEF DispatchConflict
<1>16. CASE DispatchInsertFails
  BY <1>16, <1>3, <1>4, <1>6 DEF DispatchInsertFails
<1>17. CASE DispatchSkip
  <2>1. StoreTypeOK'
    BY <1>17, <1>1, <1>6, <1>8, JobStatementTypes DEF DispatchSkip
  <2> QED
    BY <1>17, <2>1, <1>3, <1>5 DEF DispatchSkip
<1>18. CASE DispatchAdvance
  <2>1. StoreTypeOK'
    BY <1>18, <1>1, <1>8, JobStatementTypes DEF DispatchAdvance
  <2> QED
    BY <1>18, <2>1 DEF DispatchAdvance
<1>19. CASE DispatchAdvanceFails
  <2>1. phase' \in [Exec -> Phase]
    BY <1>19 DEF DispatchAdvanceFails
  <2> QED
    BY <1>19, <2>1, <1>3, <1>5, <1>6 DEF DispatchAdvanceFails
<1>20. CASE DispatchPush
  <2>1. execID \in Exec
    BY <1>20 DEF DispatchPush, LoopHoldsDispatched
  <2>2. queue' \in Seq(Exec) /\ phase' \in [Exec -> Phase]
    BY <1>20, <2>1 DEF DispatchPush
  <2> QED
    BY <1>20, <2>2, <1>3, <1>5, <1>6 DEF DispatchPush
<1>21. CASE WorkerTake
  <2>1. queue' \in Seq(Exec) /\ phase' \in [Exec -> Phase]
    BY <1>21 DEF WorkerTake
  <2> QED
    BY <1>21, <2>1, <1>6 DEF WorkerTake
<1>22. CASE \E e \in Exec : RunLoad(e)
  BY <1>22, <1>6 DEF RunLoad
<1>23. CASE \E e \in Exec : RunFinish(e)
  <2>1. PICK e \in Exec : RunFinish(e)
    BY <1>23
  <2>2. executions' \in [Exec -> ExecRow]
    BY <2>1, ExecutionStatementTypes DEF RunFinish, Terminal, StoreTypeOK
  <2> QED
    BY <2>1, <2>2, <1>7 DEF RunFinish
<1> QED
  BY <1>9, <1>10, <1>11, <1>12, <1>13, <1>14, <1>15, <1>16, <1>17, <1>18, <1>19,
     <1>20, <1>21, <1>22, <1>23 DEF LoopNext, RunNext

\* A trigger handler's reply stays in its domain.
LEMMA ReplyType ==
  ASSUME ApiTypeOK, NEW r \in TriggerReq, NEW e \in Exec \union {NoExec},
         NEW code \in {0, 200, 201, 202, 400, 404, 409, 500},
         NEW status \in {"none", "running"} \union Terminal,
         Reply(r, code, e, status)
  PROVE  trig' \in [TriggerReq -> TriggerState]
<1> DEFINE done     == [trig[r] EXCEPT !.pc = "done"]
           coded    == [done EXCEPT !.code = code]
           named    == [coded EXCEPT !.exec = e]
           replied  == [named EXCEPT !.status = status]
<1>1. trig[r] \in TriggerState
  BY DEF ApiTypeOK
<1>2. done \in TriggerState
  BY <1>1 DEF TriggerState
<1>3. trig' = [trig EXCEPT ![r] = replied]
  BY DEF Reply, ApiTypeOK
<1> HIDE DEF done
<1>4. coded \in TriggerState
  BY <1>2 DEF TriggerState
<1> HIDE DEF coded
<1>5. named \in TriggerState
  BY <1>4 DEF TriggerState
<1> HIDE DEF named
<1>6. replied \in TriggerState
  BY <1>5 DEF TriggerState
<1> HIDE DEF replied
<1> QED
  BY <1>3, <1>6 DEF ApiTypeOK

\* The handlers of triggers keep every variable in its domain.
LEMMA TriggerKeepsTypes ==
  ASSUME TypeOK, NEW r \in TriggerReq,
         \/ TriggerBegin(r) \/ TriggerLookup(r) \/ TriggerInsert(r)
         \/ TriggerRefused(r) \/ TriggerWait(r)
  PROVE  StoreTypeOK' /\ SchedulerTypeOK' /\ ApiTypeOK'
<1> USE DEF TypeOK
<1>1. trig[r] \in TriggerState
  BY DEF ApiTypeOK
<1>2. UNCHANGED <<storeVars, schedulerVars, patch>> /\ trig' \in [TriggerReq -> TriggerState]
        => StoreTypeOK' /\ SchedulerTypeOK' /\ ApiTypeOK'
  BY DEF StoreTypeOK, SchedulerTypeOK, ApiTypeOK, storeVars, schedulerVars, loopVars
<1>3. CASE TriggerBegin(r)
  <2>1. PICK j \in Job, k \in Key :
          \/ /\ Live(j)
             /\ trig' = [trig EXCEPT ![r].job = j, ![r].key = k,
                           ![r].pc = IF k = NoKey THEN "insert" ELSE "lookup"]
          \/ ~Live(j) /\ Refuse(r, 404)
          \/ StoreMayFail /\ Refuse(r, 500)
    BY ONLY <1>3, Zenon DEF TriggerBegin
  <2>2. CASE trig' = [trig EXCEPT ![r].job = j, ![r].key = k,
                        ![r].pc = IF k = NoKey THEN "insert" ELSE "lookup"]
    <3> DEFINE asked == [trig[r] EXCEPT !.job = j]
               keyed == [asked EXCEPT !.key = k]
               begun == [keyed EXCEPT !.pc = IF k = NoKey THEN "insert" ELSE "lookup"]
    <3>1. trig' = [trig EXCEPT ![r] = begun]
      BY <2>2 DEF ApiTypeOK
    <3>2. asked \in TriggerState
      BY <1>1 DEF TriggerState
    <3> HIDE DEF asked
    <3>3. keyed \in TriggerState
      BY <3>2 DEF TriggerState
    <3> HIDE DEF keyed
    <3>4. begun \in TriggerState
      BY <3>3 DEF TriggerState
    <3> HIDE DEF begun
    <3> QED
      BY <1>2, <1>3, <3>1, <3>4 DEF TriggerBegin, ApiTypeOK
  <2>3. CASE Refuse(r, 404) \/ Refuse(r, 500)
    <3>1. trig' \in [TriggerReq -> TriggerState]
      BY <2>3, ReplyType DEF Refuse
    <3> QED
      BY <1>2, <1>3, <3>1 DEF TriggerBegin
  <2> QED
    BY <2>1, <2>2, <2>3
<1>4. CASE TriggerLookup(r)
  <2>1. CASE \E e \in WithKey(trig[r].job, trig[r].key) :
               LET status == executions[e].status
               IN Reply(r, IF status \in Terminal THEN 200 ELSE 201, e, status)
    <3>1. PICK e \in Exec :
            Reply(r, IF executions[e].status \in Terminal THEN 200 ELSE 201,
                  e, executions[e].status)
      BY <2>1 DEF WithKey
    <3>2. executions[e].status \in {"none", "running"} \union Terminal
      BY DEF StoreTypeOK, ExecRow
    <3>3. ApiTypeOK
      OBVIOUS
    <3>4. trig' \in [TriggerReq -> TriggerState]
      <4> DEFINE status == executions[e].status
                 code   == IF status \in Terminal THEN 200 ELSE 201
      <4>1. code \in {0, 200, 201, 202, 400, 404, 409, 500}
        OBVIOUS
      <4>2. Reply(r, code, e, status)
        BY <3>1
      <4>3. status \in {"none", "running"} \union Terminal
        BY <3>2
      <4>4. e \in Exec \union {NoExec}
        OBVIOUS
      <4> HIDE DEF code, status
      <4> QED
        BY ONLY <3>3, <4>1, <4>2, <4>3, <4>4, ReplyType, r \in TriggerReq
    <3> QED
      BY <1>2, <1>4, <3>4 DEF TriggerLookup
  <2>2. CASE trig' = [trig EXCEPT ![r].pc = "insert"]
    <3>1. [trig[r] EXCEPT !.pc = "insert"] \in TriggerState
      BY <1>1 DEF TriggerState
    <3>2. trig' \in [TriggerReq -> TriggerState]
      BY <2>2, <3>1 DEF ApiTypeOK
    <3> QED
      BY <1>2, <1>4, <3>2 DEF TriggerLookup
  <2> QED
    BY <1>4, <2>1, <2>2 DEF TriggerLookup
<1>5. CASE TriggerInsert(r)
  <2>1. PICK e \in Exec :
          /\ InsertRunningExecution(e, trig[r].job, "manual", NoSlot, trig[r].key)
          /\ phase' = [phase EXCEPT ![e] = "spawned"]
          /\ \/ Reply(r, 201, e, "running")
             \/ trig' = [trig EXCEPT ![r].pc = "wait", ![r].exec = e]
    BY <1>5 DEF TriggerInsert
  <2>2. trig[r].job \in Job \union {NoJob} /\ trig[r].key \in Key
    BY <1>1 DEF TriggerState
  <2>3. executions' \in [Exec -> ExecRow]
    BY <2>1, <2>2, ExecutionStatementTypes
  <2>4. phase' \in [Exec -> Phase]
    BY <2>1 DEF SchedulerTypeOK, Phase, Held, Running
  <2>5. ASSUME trig' = [trig EXCEPT ![r].pc = "wait", ![r].exec = e]
        PROVE  trig' \in [TriggerReq -> TriggerState]
    <3> DEFINE waiting == [trig[r] EXCEPT !.pc = "wait"]
               named == [waiting EXCEPT !.exec = e]
    <3>1. trig' = [trig EXCEPT ![r] = named]
      BY <2>5 DEF ApiTypeOK
    <3>2. waiting \in TriggerState
      BY <1>1 DEF TriggerState
    <3> HIDE DEF waiting
    <3>3. named \in TriggerState
      BY <3>2 DEF TriggerState
    <3> HIDE DEF named
    <3> QED
      BY <3>1, <3>3 DEF ApiTypeOK
  <2>6. ASSUME Reply(r, 201, e, "running")
        PROVE  trig' \in [TriggerReq -> TriggerState]
    BY <2>6, ReplyType
  <2>7. trig' \in [TriggerReq -> TriggerState]
    BY <2>1, <2>5, <2>6
  <2> QED
    BY <1>5, <2>3, <2>4, <2>7
    DEF TriggerInsert, StoreTypeOK, SchedulerTypeOK, ApiTypeOK, loopVars
<1>6. CASE TriggerRefused(r)
  <2>1. trig' \in [TriggerReq -> TriggerState]
    <3>1. ApiTypeOK
      OBVIOUS
    <3>2. \E code \in {400, 409, 500} : Reply(r, code, NoExec, "none")
      BY <1>6 DEF TriggerRefused, Refuse
    <3> QED
      BY ONLY <3>1, <3>2, ReplyType, r \in TriggerReq
  <2> QED
    BY <1>2, <1>6, <2>1 DEF TriggerRefused
<1>7. CASE TriggerWait(r)
  <2>1. trig[r].exec \in Exec \union {NoExec}
    BY <1>1 DEF TriggerState
  <2>2. CASE \E status \in Terminal : Reply(r, 200, trig[r].exec, status)
    <3>1. PICK status \in Terminal : Reply(r, 200, trig[r].exec, status)
      BY <2>2
    <3>2. status \in {"none", "running"} \union Terminal
      OBVIOUS
    <3>3. trig' \in [TriggerReq -> TriggerState]
      BY <2>1, <3>1, <3>2, ReplyType
    <3> QED
      BY <1>2, <1>7, <3>3 DEF TriggerWait
  <2>3. CASE Refuse(r, 404)
    <3>1. trig' \in [TriggerReq -> TriggerState]
      BY <2>3, ReplyType DEF Refuse
    <3> QED
      BY <1>2, <1>7, <3>1 DEF TriggerWait
  <2>4. CASE Reply(r, 202, trig[r].exec, "running")
    <3>1. trig' \in [TriggerReq -> TriggerState]
      BY <2>1, <2>4, ReplyType
    <3> QED
      BY <1>2, <1>7, <3>1 DEF TriggerWait
  <2> QED
    BY <1>7, <2>2, <2>3, <2>4 DEF TriggerWait
<1> QED
  BY <1>3, <1>4, <1>5, <1>6, <1>7

\* The copy a PATCH handler edits is a row of the table.
LEMMA PatchKeepsTypes ==
  ASSUME TypeOK, NEW p \in PatchReq, PatchRead(p) \/ PatchApply(p) \/ PatchWrite(p)
  PROVE  StoreTypeOK' /\ SchedulerTypeOK' /\ ApiTypeOK'
<1> USE DEF TypeOK
<1>1. patch[p] \in PatchState /\ patch[p].row \in JobRow /\ patch[p].job \in Job \union {NoJob}
  BY DEF ApiTypeOK, PatchState
<1>2. NoJobRow \in JobRow
  BY StoreAssumption DEF NoJobRow, JobRow
<1>3. PatchDone \in PatchState
  BY <1>2 DEF PatchDone, PatchState
<1>4. PatchEnd(p) => patch' \in [PatchReq -> PatchState]
  BY <1>3 DEF PatchEnd, ApiTypeOK
<1>5. UNCHANGED <<storeVars, schedulerVars, trig>> /\ patch' \in [PatchReq -> PatchState]
        => StoreTypeOK' /\ SchedulerTypeOK' /\ ApiTypeOK'
  BY DEF StoreTypeOK, SchedulerTypeOK, ApiTypeOK, storeVars, schedulerVars, loopVars
<1>6. CASE PatchRead(p)
  <2>1. PICK j \in Job : \/ patch' = [patch EXCEPT ![p] =
                                    [pc |-> "read", job |-> j, row |-> jobs[j]]]
                         \/ PatchEnd(p)
    BY <1>6 DEF PatchRead
  <2>2. [pc |-> "read", job |-> j, row |-> jobs[j]] \in PatchState
    BY DEF StoreTypeOK, PatchState
  <2>3. patch' \in [PatchReq -> PatchState]
    BY <1>4, <2>1, <2>2 DEF ApiTypeOK
  <2> QED
    BY <1>5, <1>6, <2>3 DEF PatchRead
<1>7. CASE PatchApply(p)
  <2> DEFINE Edited(given, on, c) ==
               [patch EXCEPT ![p] =
                 [@ EXCEPT !.pc = "write",
                           !.row = [patch[p].row EXCEPT !.cron = c, !.enabled = on,
                             !.nextRun = IF on /\ (given \/ on # patch[p].row.enabled)
                                         THEN NextRun(c, now) ELSE @]]]
  <2>1. ASSUME NEW given \in BOOLEAN, NEW on \in BOOLEAN, NEW c \in Cron,
               patch' = Edited(given, on, c)
        PROVE  patch' \in [PatchReq -> PatchState]
    <3> DEFINE next == IF on /\ (given \/ on # patch[p].row.enabled)
                       THEN NextRun(c, now) ELSE patch[p].row.nextRun
               first == [patch[p].row EXCEPT !.cron = c]
               second == [first EXCEPT !.enabled = on]
               third == [second EXCEPT !.nextRun = next]
               fourth == [patch[p] EXCEPT !.pc = "write"]
               fifth == [fourth EXCEPT !.row = third]
    <3>1. next \in Nat
      BY <1>1, NextRunType DEF JobRow, SchedulerTypeOK
    <3>2. first \in JobRow
      BY <1>1 DEF JobRow
    <3>3. second.nextRun = patch[p].row.nextRun
      BY <1>1 DEF JobRow
    <3>4. patch' = [patch EXCEPT ![p] = fifth]
      BY <2>1, <3>3 DEF ApiTypeOK
    <3> HIDE DEF next, first
    <3>5. second \in JobRow
      BY <3>2 DEF JobRow
    <3> HIDE DEF second
    <3>6. third \in JobRow
      BY <3>1, <3>5 DEF JobRow
    <3> HIDE DEF third
    <3>7. fourth \in PatchState
      BY <1>1 DEF PatchState
    <3> HIDE DEF fourth
    <3>8. fifth \in PatchState
      BY <3>6, <3>7 DEF PatchState
    <3> HIDE DEF fifth
    <3> QED
      BY <3>4, <3>8 DEF ApiTypeOK
  <2>2. patch[p].row.cron \in Cron
    BY <1>1 DEF JobRow
  <2>3. \/ \E given \in BOOLEAN, on \in BOOLEAN :
             \E c \in IF given THEN Cron ELSE {patch[p].row.cron} :
               patch' = Edited(given, on, c)
        \/ PatchEnd(p)
    BY ONLY <1>7 DEF PatchApply
  <2> HIDE DEF Edited
  <2>4. patch' \in [PatchReq -> PatchState]
    <3>1. CASE PatchEnd(p)
      BY <1>4, <3>1
    <3>2. CASE \E given \in BOOLEAN, on \in BOOLEAN :
                 \E c \in IF given THEN Cron ELSE {patch[p].row.cron} :
                   patch' = Edited(given, on, c)
      BY ONLY <2>1, <2>2, <3>2
    <3> QED
      BY <2>3, <3>1, <3>2
  <2> QED
    BY <1>5, <1>7, <2>4 DEF PatchApply
<1>8. CASE PatchWrite(p)
  <2>1. jobs' \in [Job -> JobRow]
    BY <1>1, <1>8, JobStatementTypes DEF PatchWrite, StoreTypeOK
  <2>2. patch' \in [PatchReq -> PatchState]
    BY <1>4, <1>8 DEF PatchWrite
  <2> QED
    BY <1>8, <2>1, <2>2
    DEF PatchWrite, StoreTypeOK, SchedulerTypeOK, ApiTypeOK, schedulerVars, loopVars
<1> QED
  BY <1>6, <1>7, <1>8

\* The remaining handlers keep every variable in its domain.
LEMMA HandlersKeepTypes ==
  ASSUME TypeOK,
         \/ SendBegin
         \/ \E e \in Exec : SendEnd(e)
         \/ \E j \in Job : JobCreate(j) \/ JobDelete(j)
  PROVE  StoreTypeOK' /\ SchedulerTypeOK' /\ ApiTypeOK'
<1> USE DEF TypeOK, SchedulerTypeOK, ApiTypeOK, schedulerVars, loopVars, apiVars
<1>1. CASE SendBegin
  <2>1. PICK e \in Exec : /\ InsertRunningExecution(e, Adhoc, "adhoc", NoSlot, NoKey)
                          /\ phase' = [phase EXCEPT ![e] = "sending"]
    BY <1>1 DEF SendBegin
  <2>2. executions' \in [Exec -> ExecRow]
    BY <2>1, ExecutionStatementTypes, StoreAssumption
  <2>3. phase' \in [Exec -> Phase]
    BY <2>1 DEF Phase, Held
  <2> QED
    BY <1>1, <2>2, <2>3 DEF SendBegin, StoreTypeOK
<1>2. CASE \E e \in Exec : SendEnd(e)
  <2>1. PICK e \in Exec : SendEnd(e)
    BY <1>2
  <2>2. executions' \in [Exec -> ExecRow]
    BY <2>1, ExecutionStatementTypes DEF SendEnd, StoreTypeOK
  <2>3. phase' \in [Exec -> Phase]
    BY <2>1 DEF SendEnd, Phase
  <2> QED
    BY <2>1, <2>2, <2>3 DEF SendEnd, StoreTypeOK
<1>3. CASE \E j \in Job : JobCreate(j) \/ JobDelete(j)
  <2>1. PICK j \in Job : JobCreate(j) \/ JobDelete(j)
    BY <1>3
  <2>2. jobs' \in [Job -> JobRow]
    BY <2>1, JobStatementTypes, NextRunType DEF JobCreate, JobDelete
  <2> QED
    BY <2>1, <2>2 DEF JobCreate, JobDelete, StoreTypeOK
<1> QED
  BY <1>1, <1>2, <1>3

\* The end and the start of the process keep every variable in its domain.
LEMMA ProcessKeepsTypes ==
  ASSUME TypeOK, Tick \/ Crash \/ Boot
  PROVE  TypeOK'
<1> USE DEF TypeOK, StoreTypeOK, SchedulerTypeOK, ApiTypeOK, storeVars, loopVars, apiVars
<1>1. CASE Tick
  BY <1>1, ServerAssumption DEF Tick
<1>2. CASE Crash
  <2>1. phase' \in [Exec -> Phase]
    BY <1>2 DEF Crash, Phase, Held
  <2>2. ASSUME NEW r \in TriggerReq
        PROVE  [trig[r] EXCEPT !.pc = "done"] \in TriggerState
    <3>1. trig[r] \in TriggerState
      OBVIOUS
    <3> QED
      BY ONLY <3>1 DEF TriggerState
  <2>3. trig' \in [TriggerReq -> TriggerState]
    BY <1>2, <2>2 DEF Crash
  <2>4. PatchDone \in PatchState
    BY StoreAssumption DEF PatchDone, PatchState, NoJobRow, JobRow
  <2>5. patch' \in [PatchReq -> PatchState]
    BY <1>2, <2>4 DEF Crash
  <2>6. queue' \in Seq(Exec)
    BY <1>2 DEF Crash
  <2> QED
    BY <1>2, <2>1, <2>3, <2>5, <2>6 DEF Crash
<1>3. CASE Boot
  BY <1>3 DEF Boot
<1> QED
  BY <1>1, <1>2, <1>3

\* Every variable starts in its domain.
LEMMA InitTypeOK ==
  ASSUME Init
  PROVE  TypeOK
<1> USE DEF Init
<1>1. NoJobRow \in JobRow
  BY StoreAssumption DEF NoJobRow, JobRow
<1>2. EmptyRow \in ExecRow
  BY StoreAssumption DEF EmptyRow, ExecRow
<1>3. StoreTypeOK
  BY <1>1, <1>2 DEF StoreTypeOK
<1>4. SchedulerTypeOK
  BY DEF SchedulerTypeOK, Phase
<1>5. \A r \in TriggerReq : trig[r] \in TriggerState
  BY StoreAssumption DEF TriggerState
<1>6. \A p \in PatchReq : patch[p] \in PatchState
  BY <1>1 DEF PatchState
<1>7. ApiTypeOK
  BY <1>5, <1>6 DEF ApiTypeOK
<1> QED
  BY <1>3, <1>4, <1>7 DEF TypeOK

\* Every step keeps every variable in its domain.
LEMMA NextKeepsTypes ==
  ASSUME TypeOK, LoopHoldsDispatched, [Next]_vars
  PROVE  TypeOK'
<1>1. CASE /\ LoopNext \/ WorkerTake \/ \E e \in Exec : RunNext(e)
           /\ UNCHANGED <<apiVars, crashes>>
  <2>1. StoreTypeOK' /\ SchedulerTypeOK'
    BY <1>1, LoopKeepsTypes
  <2> QED
    BY <1>1, <2>1 DEF TypeOK, ApiTypeOK, apiVars
<1>2. CASE ApiNext /\ UNCHANGED crashes
  <2>1. StoreTypeOK' /\ SchedulerTypeOK' /\ ApiTypeOK'
    BY <1>2, TriggerKeepsTypes, PatchKeepsTypes, HandlersKeepTypes DEF ApiNext
  <2> QED
    BY <1>2, <2>1 DEF TypeOK
<1>3. CASE UNCHANGED vars
  BY <1>3 DEF vars, storeVars, schedulerVars, loopVars, apiVars, TypeOK, StoreTypeOK,
              SchedulerTypeOK, ApiTypeOK
<1> QED
  BY <1>1, <1>2, <1>3, ProcessKeepsTypes DEF Next

------------------------------------------------------------------------------
(* What the statements on executions do to the columns the invariants read *)

\* An insert claims an unused execution id and changes no other row.
LEMMA InsertEffect ==
  ASSUME StoreTypeOK, NEW e \in Exec, NEW j, NEW trigger, NEW slot, NEW k,
         InsertRunningExecution(e, j, trigger, slot, k)
  PROVE  /\ executions'[e].status = "running"
         /\ executions'[e].job = j
         /\ executions'[e].trigger = trigger
         /\ executions'[e].slot = slot
         /\ executions'[e].key = k
         /\ \A f \in Exec : f # e => executions'[f] = executions[f]
BY DEF InsertRunningExecution, StoreTypeOK

\* Closing writes a verdict into one row and changes no other.
LEMMA CloseEffect ==
  ASSUME StoreTypeOK, NEW e \in Exec, NEW status, MarkExecutionFinished(e, status)
  PROVE  /\ executions'[e].status = status
         /\ executions'[e].job = executions[e].job
         /\ executions'[e].trigger = executions[e].trigger
         /\ executions'[e].slot = executions[e].slot
         /\ executions'[e].key = executions[e].key
         /\ \A f \in Exec : f # e => executions'[f] = executions[f]
<1>1. executions[e] \in ExecRow
  BY DEF StoreTypeOK
<1>2. executions'[e] = [executions[e] EXCEPT !.status = status,
                         !.error = IF status = "failed" THEN "run" ELSE ""]
  BY DEF MarkExecutionFinished, StoreTypeOK
<1>3. \A f \in Exec : f # e => executions'[f] = executions[f]
  BY DEF MarkExecutionFinished, StoreTypeOK
<1> QED
  BY <1>1, <1>2, <1>3 DEF ExecRow

\* The recovery touches running rows only, and closes every row it touches.
LEMMA RecoverEffect ==
  ASSUME StoreTypeOK, RecoverStaleExecutions, NEW e \in Exec
  PROVE  IF executions[e].status = "running"
         THEN /\ executions'[e].status = "failed"
              /\ executions'[e].error = "restart"
              /\ executions'[e].job = executions[e].job
              /\ executions'[e].trigger = executions[e].trigger
              /\ executions'[e].slot = executions[e].slot
              /\ executions'[e].key = executions[e].key
         ELSE executions'[e] = executions[e]
<1>1. executions[e] \in ExecRow
  BY DEF StoreTypeOK
<1>2. executions'[e] = IF executions[e].status = "running"
                       THEN [executions[e] EXCEPT !.status = "failed", !.error = "restart"]
                       ELSE executions[e]
  BY DEF RecoverStaleExecutions
<1> QED
  BY <1>1, <1>2 DEF ExecRow

------------------------------------------------------------------------------
(* The parts of IInv that relate a row to its holder, by kind of step *)

RowInv == HolderOwnsRow /\ OneRunningRow /\ PhaseMatchesRow /\ HolderMatchesTrigger

\* A row is inserted and handed to the one who will close it.
LEMMA InsertKeepsRowInv ==
  ASSUME TypeOK, RowInv, NEW e \in Exec, NEW j, NEW trigger, NEW slot, NEW k,
         NEW holder,
         Fresh(e), j # Adhoc => ~Conflicts(j, k),
         InsertRunningExecution(e, j, trigger, slot, k),
         phase' = [phase EXCEPT ![e] = holder],
         \/ trigger = "cron" /\ holder = "dispatched"
         \/ trigger = "manual" /\ holder = "spawned"
         \/ trigger = "adhoc" /\ holder = "sending" /\ j = Adhoc
  PROVE  RowInv'
<1>1. /\ executions'[e].status = "running"
      /\ executions'[e].job = j
      /\ executions'[e].trigger = trigger
      /\ \A f \in Exec : f # e => executions'[f] = executions[f]
  BY InsertEffect DEF TypeOK
<1>2. phase'[e] = holder /\ \A f \in Exec : f # e => phase'[f] = phase[f]
  BY DEF TypeOK, SchedulerTypeOK
<1>3. executions[e].status = "none"
  BY DEF Fresh, Inserted
<1>4. HolderOwnsRow'
  BY <1>1, <1>2 DEF RowInv, HolderOwnsRow, Recovered
<1>5. OneRunningRow'
  BY <1>1, <1>3 DEF RowInv, OneRunningRow, Conflicts
<1>6. PhaseMatchesRow'
  BY <1>1, <1>2 DEF RowInv, PhaseMatchesRow, Inserted
<1>7. HolderMatchesTrigger'
  BY <1>1, <1>2 DEF RowInv, HolderMatchesTrigger, Inserted
<1> QED
  BY <1>4, <1>5, <1>6, <1>7 DEF RowInv

\* A holder closes its row, or fails to, and lets go of it.
LEMMA CloseKeepsRowInv ==
  ASSUME TypeOK, RowInv, NEW e \in Exec, phase[e] \in Held,
         phase' = [phase EXCEPT ![e] = "over"],
         \/ \E status \in Terminal : MarkExecutionFinished(e, status)
         \/ UNCHANGED executions
  PROVE  RowInv'
<1>1. /\ executions'[e].status = executions[e].status \/ executions'[e].status \in Terminal
      /\ executions'[e].job = executions[e].job
      /\ executions'[e].trigger = executions[e].trigger
      /\ \A f \in Exec : f # e => executions'[f] = executions[f]
  <2>1. CASE UNCHANGED executions
    BY <2>1
  <2>2. CASE \E status \in Terminal : MarkExecutionFinished(e, status)
    BY <2>2, CloseEffect DEF TypeOK
  <2> QED
    BY <2>1, <2>2
<1>2. phase'[e] = "over" /\ \A f \in Exec : f # e => phase'[f] = phase[f]
  BY DEF TypeOK, SchedulerTypeOK
<1>3. HolderOwnsRow'
  BY <1>1, <1>2 DEF RowInv, HolderOwnsRow, Recovered, Held, Running
<1>4. OneRunningRow'
  BY <1>1 DEF RowInv, OneRunningRow, Terminal
<1>5. PhaseMatchesRow'
  BY <1>1, <1>2 DEF RowInv, PhaseMatchesRow, Inserted, Terminal, Held, Running
<1>6. HolderMatchesTrigger'
  BY <1>1, <1>2 DEF RowInv, HolderMatchesTrigger, Inserted, Terminal,
                    PhaseMatchesRow, Held, Running
<1> QED
  BY <1>3, <1>4, <1>5, <1>6 DEF RowInv

\* A row goes from one holder to the next.
LEMMA MoveKeepsRowInv ==
  ASSUME TypeOK, RowInv, NEW e \in Exec, NEW holder,
         UNCHANGED executions, phase' = [phase EXCEPT ![e] = holder],
         \/ phase[e] = "dispatched" /\ holder = "queued"
         \/ phase[e] = "queued" /\ holder = "taken"
         \/ phase[e] \in {"spawned", "taken"} /\ holder \in {"running", "unloaded"}
  PROVE  RowInv'
<1>1. phase'[e] = holder /\ \A f \in Exec : f # e => phase'[f] = phase[f]
  BY DEF TypeOK, SchedulerTypeOK
<1>2. HolderOwnsRow'
  BY <1>1 DEF RowInv, HolderOwnsRow, Recovered, Held, Running
<1>3. OneRunningRow'
  BY DEF RowInv, OneRunningRow
<1>4. PhaseMatchesRow'
  BY <1>1 DEF RowInv, PhaseMatchesRow, Inserted
<1>5. HolderMatchesTrigger'
  BY <1>1 DEF RowInv, HolderMatchesTrigger, Inserted
<1> QED
  BY <1>2, <1>3, <1>4, <1>5 DEF RowInv

------------------------------------------------------------------------------
(* The parts of IInv that relate the loop, the channel and the holders *)

PoolInv == LoopHoldsDispatched /\ QueueIsExact /\ NothingHeldWhileDown /\ NoOrphanRow

\* Steps that touch neither rows nor holders and leave the loop where it holds none.
LEMMA FrameKeepsInv ==
  ASSUME RowInv, PoolInv, UNCHANGED <<executions, phase, queue>>,
         \/ UNCHANGED <<pc, execID>>
         \/ pc \in {"loop", "skip"} /\ pc' \in {"loop", "skip"}
  PROVE  RowInv' /\ PoolInv'
<1>1. RowInv'
  BY DEF RowInv, HolderOwnsRow, Recovered, OneRunningRow, PhaseMatchesRow, Inserted,
         HolderMatchesTrigger
<1>2. LoopHoldsDispatched'
  BY DEF PoolInv, LoopHoldsDispatched
<1>3. QueueIsExact'
  BY DEF PoolInv, QueueIsExact
<1>4. NothingHeldWhileDown'
  BY DEF PoolInv, NothingHeldWhileDown
<1>5. NoOrphanRow'
  BY DEF PoolInv, NoOrphanRow, Started
<1> QED
  BY <1>1, <1>2, <1>3, <1>4, <1>5 DEF PoolInv

\* A row is inserted: nobody else's hands change.
LEMMA InsertKeepsPoolInv ==
  ASSUME TypeOK, RowInv, PoolInv, NEW e \in Exec, NEW j, NEW trigger, NEW slot, NEW k,
         NEW holder,
         Fresh(e), InsertRunningExecution(e, j, trigger, slot, k),
         phase' = [phase EXCEPT ![e] = holder], UNCHANGED queue, Up,
         \/ trigger \in {"manual", "adhoc"} /\ holder \in {"spawned", "sending"}
              /\ UNCHANGED <<pc, execID>>
         \/ trigger = "cron" /\ holder = "dispatched"
              /\ pc = "loop" /\ pc' = "advance" /\ execID' = e
  PROVE  PoolInv'
<1>1. /\ executions'[e].trigger = trigger
      /\ \A f \in Exec : f # e => executions'[f] = executions[f]
  BY InsertEffect DEF TypeOK
<1>2. phase'[e] = holder /\ \A f \in Exec : f # e => phase'[f] = phase[f]
  BY DEF TypeOK, SchedulerTypeOK
<1>3. phase[e] = "none"
  BY DEF Fresh, RowInv, PhaseMatchesRow
<1>4. LoopHoldsDispatched'
  BY <1>2, <1>3 DEF PoolInv, LoopHoldsDispatched
<1>5. QueueIsExact'
  BY <1>2, <1>3 DEF PoolInv, QueueIsExact, TypeOK, SchedulerTypeOK
<1>6. NothingHeldWhileDown'
  BY <1>1, <1>2 DEF PoolInv, NothingHeldWhileDown, Up
<1>7. NoOrphanRow'
  BY <1>1, <1>2 DEF PoolInv, NoOrphanRow, Started, Held, Running
<1> QED
  BY <1>4, <1>5, <1>6, <1>7 DEF PoolInv

\* A run goes on or ends: the loop and the channel do not notice.
LEMMA RunKeepsInv ==
  ASSUME IInv, NEW e \in Exec, RunNext(e) \/ SendEnd(e)
  PROVE  RowInv' /\ PoolInv'
<1>1. TypeOK /\ RowInv /\ PoolInv
  BY DEF IInv, RowInv, PoolInv
<1>2. PICK holder : phase' = [phase EXCEPT ![e] = holder]
  BY DEF RunNext, RunLoad, RunFinish, SendEnd
<1>3. phase'[e] = holder /\ \A f \in Exec : f # e => phase'[f] = phase[f]
  BY <1>1, <1>2 DEF TypeOK, SchedulerTypeOK
<1>4. UNCHANGED <<pc, execID, queue>>
  BY DEF RunNext, RunLoad, RunFinish, SendEnd, loopVars
<1>5. /\ phase[e] \in Running \union {"sending"}
      /\ phase'[e] \in {"running", "unloaded", "over"}
  BY <1>1 DEF RunNext, RunLoad, RunFinish, SendEnd, Running, TypeOK, SchedulerTypeOK
<1>6. LoopHoldsDispatched' /\ QueueIsExact'
  BY <1>1, <1>3, <1>4, <1>5
  DEF PoolInv, LoopHoldsDispatched, QueueIsExact, Running, TypeOK, SchedulerTypeOK
<1>7. CASE RunLoad(e)
  <2>1. UNCHANGED executions /\ phase[e] \in {"spawned", "taken"}
          /\ phase'[e] \in {"running", "unloaded"}
    BY <1>1, <1>7 DEF RunLoad, storeVars, TypeOK, SchedulerTypeOK
  <2>2. RowInv'
    BY <1>1, <1>2, <1>3, <2>1, MoveKeepsRowInv
  <2>3. NothingHeldWhileDown' /\ NoOrphanRow'
    BY <1>1, <1>3, <1>4, <2>1
    DEF PoolInv, NothingHeldWhileDown, NoOrphanRow, Started, Held, Running
  <2> QED
    BY <1>6, <2>2, <2>3 DEF PoolInv
<1>8. CASE RunFinish(e) \/ SendEnd(e)
  <2>1. /\ phase[e] \in Held /\ phase' = [phase EXCEPT ![e] = "over"]
        /\ \/ \E status \in Terminal : MarkExecutionFinished(e, status)
           \/ UNCHANGED executions
    BY <1>8 DEF RunFinish, SendEnd, Held, Running, Terminal
  <2>2. RowInv'
    BY <1>1, <2>1, CloseKeepsRowInv
  <2>3. /\ \A f \in Exec : executions'[f].trigger = executions[f].trigger
        /\ \A f \in Exec : executions'[f].job = executions[f].job
        /\ \A f \in Exec : f # e => executions'[f] = executions[f]
    BY <1>1, <2>1, CloseEffect DEF TypeOK
  <2>4. \/ executions'[e].status \in Terminal
        \/ StoreMayFail
        \/ executions[e].job = Adhoc
    <3>1. CASE \E status \in Terminal : MarkExecutionFinished(e, status)
      BY <1>1, <3>1, CloseEffect DEF TypeOK
    <3>2. CASE RunFinish(e) /\ UNCHANGED executions
      BY <3>2, <3>1 DEF RunFinish, Terminal
    <3>3. CASE SendEnd(e)
      BY <1>1, <3>3 DEF SendEnd, RowInv, HolderMatchesTrigger, PhaseMatchesRow
    <3> QED
      BY <1>8, <2>1, <3>1, <3>2, <3>3
  <2>5. NothingHeldWhileDown'
    BY <1>1, <1>3, <1>4, <2>1, <2>3 DEF PoolInv, NothingHeldWhileDown, Held, Running
  <2>6. NoOrphanRow'
    BY <1>1, <1>3, <1>4, <2>1, <2>3, <2>4
    DEF PoolInv, NoOrphanRow, Started, Held, Running, Terminal
  <2> QED
    BY <1>6, <2>2, <2>5, <2>6 DEF PoolInv
<1> QED
  BY <1>7, <1>8 DEF RunNext

\* The statements of the loop.
LEMMA LoopKeepsInv ==
  ASSUME IInv, LoopNext
  PROVE  RowInv' /\ PoolInv'
<1>1. TypeOK /\ RowInv /\ PoolInv
  BY DEF IInv, RowInv, PoolInv
<1>2. CASE Recover
  <2>1. UNCHANGED <<phase, queue, execID>> /\ pc = "recover" /\ pc' = "loop"
    BY <1>2 DEF Recover
  <2>2. CASE RecoverStaleExecutions
    <3>1. \A e \in Exec :
            /\ executions'[e].status # "running"
            /\ executions'[e].job = executions[e].job
            /\ executions'[e].trigger = executions[e].trigger
            /\ Inserted(e) <=> executions'[e].status # "none"
            /\ \/ executions'[e] = executions[e] /\ executions[e].status # "running"
               \/ executions'[e].status = "failed" /\ executions'[e].error = "restart"
      BY <1>1, <2>2, RecoverEffect DEF TypeOK, Inserted
    <3>2. HolderOwnsRow'
      BY <1>1, <2>1, <3>1
      DEF PoolInv, NothingHeldWhileDown, RowInv, HolderOwnsRow, Recovered
    <3>3. OneRunningRow' /\ NoOrphanRow'
      BY <3>1 DEF OneRunningRow, NoOrphanRow
    <3>4. PhaseMatchesRow'
      BY <1>1, <2>1, <3>1 DEF RowInv, PhaseMatchesRow, Inserted
    <3>5. HolderMatchesTrigger'
      BY <1>1, <2>1, <3>1 DEF RowInv, HolderMatchesTrigger, Inserted
    <3>6. LoopHoldsDispatched' /\ QueueIsExact' /\ NothingHeldWhileDown'
      BY <1>1, <2>1
      DEF PoolInv, LoopHoldsDispatched, QueueIsExact, NothingHeldWhileDown
    <3> QED
      BY <3>2, <3>3, <3>4, <3>5, <3>6 DEF RowInv, PoolInv
  <2>3. CASE StoreMayFail /\ UNCHANGED executions
    <3>1. RowInv'
      BY <1>1, <2>1, <2>3 DEF RowInv, HolderOwnsRow, Recovered, OneRunningRow,
                              PhaseMatchesRow, Inserted, HolderMatchesTrigger
    <3>2. PoolInv'
      BY <1>1, <2>1, <2>3 DEF PoolInv, LoopHoldsDispatched, QueueIsExact,
                              NothingHeldWhileDown, NoOrphanRow
    <3> QED
      BY <3>1, <3>2
  <2> QED
    BY <1>2, <2>2, <2>3 DEF Recover
<1>3. CASE ListDue \/ IdleTick
  BY <1>1, <1>3, FrameKeepsInv DEF ListDue, IdleTick, storeVars, schedulerVars, loopVars
<1>4. CASE DispatchNoNext \/ DispatchOverdue \/ DispatchInsertFails
  <2>1. /\ UNCHANGED <<executions, phase, queue>>
        /\ pc = "loop" /\ pc' = "loop"
    BY <1>4 DEF DispatchNoNext, DispatchOverdue, DispatchInsertFails, Return, storeVars
  <2> QED
    BY <1>1, <2>1, FrameKeepsInv
<1>5. CASE DispatchConflict \/ DispatchSkip
  <2>1. /\ UNCHANGED <<executions, phase, queue>>
        /\ pc \in {"loop", "skip"} /\ pc' \in {"loop", "skip"}
    BY <1>5 DEF DispatchConflict, DispatchSkip, Return, storeVars
  <2> QED
    BY <1>1, <2>1, FrameKeepsInv
<1>6. CASE DispatchInsert
  <2>1. PICK it \in todo, e \in Exec :
          /\ ~Conflicts(it.job, NoKey)
          /\ Fresh(e)
          /\ InsertRunningExecution(e, it.job, "cron", it.slot, NoKey)
          /\ pc' = "advance" /\ execID' = e
          /\ phase' = [phase EXCEPT ![e] = "dispatched"]
    BY <1>6 DEF DispatchInsert
  <2>2. RowInv'
    BY <1>1, <2>1, InsertKeepsRowInv
  <2>3. pc = "loop" /\ Up /\ UNCHANGED queue
    BY <1>6 DEF DispatchInsert, Up
  <2>4. PoolInv'
    BY <1>1, <2>1, <2>3, InsertKeepsPoolInv
  <2> QED
    BY <2>2, <2>4
<1>7. CASE DispatchAdvance
  <2>1. UNCHANGED <<executions, phase, queue, execID>> /\ pc = "advance" /\ pc' = "push"
    BY <1>7 DEF DispatchAdvance
  <2>2. RowInv'
    BY <1>1, <2>1 DEF RowInv, HolderOwnsRow, Recovered, OneRunningRow,
                      PhaseMatchesRow, Inserted, HolderMatchesTrigger
  <2>3. PoolInv'
    BY <1>1, <2>1 DEF PoolInv, LoopHoldsDispatched, QueueIsExact,
                      NothingHeldWhileDown, NoOrphanRow, Started
  <2> QED
    BY <2>2, <2>3
<1>8. CASE DispatchAdvanceFails
  <2>1. /\ execID \in Exec /\ phase[execID] = "dispatched"
        /\ phase' = [phase EXCEPT ![execID] = "over"]
        /\ UNCHANGED <<executions, queue>> /\ pc = "advance" /\ pc' = "loop"
        /\ StoreMayFail
    BY <1>1, <1>8 DEF DispatchAdvanceFails, PoolInv, LoopHoldsDispatched, Return, storeVars
  <2>2. phase'[execID] = "over" /\ \A f \in Exec : f # execID => phase'[f] = phase[f]
    BY <1>1, <2>1 DEF TypeOK, SchedulerTypeOK
  <2>3. RowInv'
    BY <1>1, <2>1, CloseKeepsRowInv DEF Held
  <2>4. LoopHoldsDispatched'
    BY <1>1, <2>1, <2>2 DEF PoolInv, LoopHoldsDispatched
  <2>5. QueueIsExact'
    BY <1>1, <2>1, <2>2 DEF PoolInv, QueueIsExact, TypeOK, SchedulerTypeOK
  <2>6. NothingHeldWhileDown' /\ NoOrphanRow'
    BY <2>1 DEF NothingHeldWhileDown, NoOrphanRow
  <2> QED
    BY <2>3, <2>4, <2>5, <2>6 DEF PoolInv
<1>9. CASE DispatchPush
  <2>1. /\ execID \in Exec /\ phase[execID] = "dispatched"
        /\ phase' = [phase EXCEPT ![execID] = "queued"]
        /\ queue' = Append(queue, execID) /\ Len(queue) < QueueSize
        /\ UNCHANGED executions /\ pc = "push" /\ pc' = "loop"
    BY <1>1, <1>9 DEF DispatchPush, PoolInv, LoopHoldsDispatched, Return, storeVars
  <2>2. phase'[execID] = "queued" /\ \A f \in Exec : f # execID => phase'[f] = phase[f]
    BY <1>1, <2>1 DEF TypeOK, SchedulerTypeOK
  <2>3. RowInv'
    BY <1>1, <2>1, MoveKeepsRowInv
  <2>4. LoopHoldsDispatched'
    BY <1>1, <2>1, <2>2 DEF PoolInv, LoopHoldsDispatched
  <2>5. QueueIsExact'
    <3>1. /\ Len(queue') = Len(queue) + 1
          /\ queue'[Len(queue) + 1] = execID
          /\ \A i \in 1..Len(queue) : queue'[i] = queue[i]
          /\ Len(queue) \in Nat
      BY <1>1, <2>1 DEF TypeOK, SchedulerTypeOK
    <3>2. \A i \in 1..Len(queue) : queue[i] # execID
      BY <1>1, <2>1 DEF PoolInv, QueueIsExact
    <3>3. Len(queue') <= QueueSize
      BY <2>1, <3>1, SchedulerAssumption
    <3>4. \A i, k \in 1..Len(queue') : queue'[i] = queue'[k] => i = k
      BY <1>1, <3>1, <3>2 DEF PoolInv, QueueIsExact
    <3>5. \A i \in 1..Len(queue') : phase'[queue'[i]] = "queued"
      BY <1>1, <2>2, <3>1, <3>2 DEF PoolInv, QueueIsExact, TypeOK, SchedulerTypeOK
    <3>6. \A e \in Exec : phase'[e] = "queued" => \E i \in 1..Len(queue') : queue'[i] = e
      BY <1>1, <2>2, <3>1 DEF PoolInv, QueueIsExact
    <3> QED
      BY <3>3, <3>4, <3>5, <3>6 DEF QueueIsExact
  <2>6. NothingHeldWhileDown' /\ NoOrphanRow'
    BY <1>1, <2>1, <2>2 DEF PoolInv, NothingHeldWhileDown, NoOrphanRow, Started, Held
  <2> QED
    BY <2>3, <2>4, <2>5, <2>6 DEF PoolInv
<1> QED
  BY <1>2, <1>3, <1>4, <1>5, <1>6, <1>7, <1>8, <1>9 DEF LoopNext

\* A worker takes the head of the channel.
LEMMA WorkerKeepsInv ==
  ASSUME IInv, WorkerTake
  PROVE  RowInv' /\ PoolInv'
<1> DEFINE e == Head(queue)
<1>1. TypeOK /\ RowInv /\ PoolInv
  BY DEF IInv, RowInv, PoolInv
<1>2. /\ queue # <<>> /\ queue' = Tail(queue)
      /\ phase' = [phase EXCEPT ![e] = "taken"]
      /\ UNCHANGED <<executions, pc, execID>> /\ Started
  BY DEF WorkerTake, storeVars, loopVars
<1>3. /\ Len(queue) \in Nat \ {0}
      /\ Len(queue') = Len(queue) - 1
      /\ e = queue[1] /\ e \in Exec
      /\ \A i \in 1..Len(queue') : queue'[i] = queue[i + 1] /\ i + 1 \in 1..Len(queue)
  BY <1>1, <1>2 DEF TypeOK, SchedulerTypeOK
<1>4. phase[e] = "queued"
  BY <1>1, <1>3 DEF PoolInv, QueueIsExact
<1> HIDE DEF e
<1>5. phase'[e] = "taken" /\ \A f \in Exec : f # e => phase'[f] = phase[f]
  BY <1>1, <1>2, <1>3 DEF TypeOK, SchedulerTypeOK
<1>6. RowInv'
  BY <1>1, <1>2, <1>3, <1>4, MoveKeepsRowInv
<1>7. LoopHoldsDispatched' /\ NothingHeldWhileDown' /\ NoOrphanRow'
  BY <1>1, <1>2, <1>4, <1>5
  DEF PoolInv, LoopHoldsDispatched, NothingHeldWhileDown, NoOrphanRow, Started, Held, Running
<1>8. QueueIsExact'
  <2>1. Len(queue') <= QueueSize
    BY <1>1, <1>3, SchedulerAssumption DEF PoolInv, QueueIsExact
  <2>2. \A i, k \in 1..Len(queue') : queue'[i] = queue'[k] => i = k
    <3>1. \A i, k \in 1..Len(queue) : queue[i] = queue[k] => i = k
      BY <1>1 DEF PoolInv, QueueIsExact
    <3>2. SUFFICES ASSUME NEW i \in 1..Len(queue'), NEW k \in 1..Len(queue'),
                          queue'[i] = queue'[k]
                   PROVE  i = k
      OBVIOUS
    <3>3. queue[i + 1] = queue[k + 1] /\ i + 1 \in 1..Len(queue) /\ k + 1 \in 1..Len(queue)
      BY <1>3, <3>2
    <3>4. i + 1 = k + 1
      BY <3>1, <3>3
    <3> QED
      BY <3>4
  <2>3. \A i \in 1..Len(queue') : queue'[i] # e /\ queue'[i] \in Exec
    <3>1. SUFFICES ASSUME NEW i \in 1..Len(queue')
                   PROVE  queue'[i] # e /\ queue'[i] \in Exec
      OBVIOUS
    <3>2. queue'[i] = queue[i + 1] /\ i + 1 \in 1..Len(queue) /\ i + 1 # 1 /\ 1 \in 1..Len(queue)
      BY <1>3
    <3>3. queue[i + 1] # queue[1]
      BY <1>1, <3>2 DEF PoolInv, QueueIsExact
    <3>4. queue[i + 1] \in Exec
      BY <1>1, <3>2 DEF TypeOK, SchedulerTypeOK
    <3> QED
      BY <1>3, <3>2, <3>3, <3>4
  <2>4. \A i \in 1..Len(queue') : phase'[queue'[i]] = "queued"
    BY <1>1, <1>3, <1>5, <2>3 DEF PoolInv, QueueIsExact
  <2>5. ASSUME NEW f \in Exec, phase'[f] = "queued"
        PROVE  \E i \in 1..Len(queue') : queue'[i] = f
    <3>1. f # e /\ phase[f] = "queued"
      BY <1>5, <2>5
    <3>2. PICK i \in 1..Len(queue) : queue[i] = f
      BY <1>1, <3>1 DEF PoolInv, QueueIsExact
    <3>3. i # 1
      BY <1>3, <3>1, <3>2
    <3>4. i - 1 \in 1..Len(queue') /\ (i - 1) + 1 = i
      BY <1>3, <3>3
    <3>5. queue'[i - 1] = f
      BY <1>3, <3>2, <3>4
    <3> QED
      BY <3>4, <3>5
  <2> QED
    BY <2>1, <2>2, <2>4, <2>5 DEF QueueIsExact
<1> QED
  BY <1>6, <1>7, <1>8 DEF PoolInv

\* The handlers that insert a row, and those that do not.
LEMMA ApiKeepsInv ==
  ASSUME IInv, ApiNext
  PROVE  RowInv' /\ PoolInv'
<1>1. TypeOK /\ RowInv /\ PoolInv
  BY DEF IInv, RowInv, PoolInv
<1>2. CASE SendBegin
  <2>1. PICK e \in Exec : /\ Fresh(e)
                          /\ InsertRunningExecution(e, Adhoc, "adhoc", NoSlot, NoKey)
                          /\ phase' = [phase EXCEPT ![e] = "sending"]
    BY <1>2 DEF SendBegin
  <2>2. RowInv'
    BY <1>1, <2>1, InsertKeepsRowInv
  <2>3. Up /\ UNCHANGED <<queue, pc, execID>>
    BY <1>2 DEF SendBegin, loopVars
  <2>4. PoolInv'
    BY <1>1, <2>1, <2>3, InsertKeepsPoolInv
  <2> QED
    BY <2>2, <2>4
<1>3. CASE \E e \in Exec : SendEnd(e)
  BY <1>3, RunKeepsInv
<1>4. ASSUME NEW r \in TriggerReq, TriggerInsert(r)
      PROVE  RowInv' /\ PoolInv'
  <2>1. PICK e \in Exec :
          /\ Fresh(e)
          /\ InsertRunningExecution(e, trig[r].job, "manual", NoSlot, trig[r].key)
          /\ phase' = [phase EXCEPT ![e] = "spawned"]
    BY <1>4 DEF TriggerInsert
  <2>2. ~Conflicts(trig[r].job, trig[r].key) /\ Up /\ UNCHANGED <<queue, pc, execID>>
    BY <1>4 DEF TriggerInsert, loopVars
  <2>3. RowInv'
    BY <1>1, <2>1, <2>2, InsertKeepsRowInv
  <2>4. PoolInv'
    BY <1>1, <2>1, <2>2, InsertKeepsPoolInv
  <2> QED
    BY <2>3, <2>4
<1>5. ASSUME NEW r \in TriggerReq,
             TriggerBegin(r) \/ TriggerLookup(r) \/ TriggerRefused(r) \/ TriggerWait(r)
      PROVE  RowInv' /\ PoolInv'
  <2>1. UNCHANGED <<executions, phase, queue, pc, execID>>
    BY <1>5 DEF TriggerBegin, TriggerLookup, TriggerRefused, TriggerWait, storeVars,
                schedulerVars, loopVars
  <2> QED
    BY <1>1, <2>1, FrameKeepsInv
<1>6. ASSUME NEW j \in Job, JobCreate(j) \/ JobDelete(j)
      PROVE  RowInv' /\ PoolInv'
  BY <1>1, <1>6, FrameKeepsInv DEF JobCreate, JobDelete, schedulerVars, loopVars
<1>7. ASSUME NEW p \in PatchReq, PatchRead(p) \/ PatchApply(p) \/ PatchWrite(p)
      PROVE  RowInv' /\ PoolInv'
  <2>1. UNCHANGED <<executions, phase, queue, pc, execID>>
    BY <1>7 DEF PatchRead, PatchApply, PatchWrite, storeVars, schedulerVars, loopVars
  <2> QED
    BY <1>1, <2>1, FrameKeepsInv
<1> QED
  BY <1>2, <1>3, <1>4, <1>5, <1>6, <1>7 DEF ApiNext

\* A crash lets go of every row; the next process starts with none.
LEMMA ProcessKeepsInv ==
  ASSUME IInv, Tick \/ Crash \/ Boot
  PROVE  RowInv' /\ PoolInv'
<1>1. TypeOK /\ RowInv /\ PoolInv
  BY DEF IInv, RowInv, PoolInv
<1>2. CASE Tick
  BY <1>1, <1>2, FrameKeepsInv DEF Tick, storeVars, loopVars
<1>3. CASE Crash
  <2>1. /\ UNCHANGED executions /\ queue' = <<>> /\ pc' = "off"
        /\ \A e \in Exec : phase'[e] = IF phase[e] \in Held THEN "over" ELSE phase[e]
    BY <1>3 DEF Crash, storeVars
  <2>2. \A e \in Exec : phase'[e] \notin Held
    BY <2>1 DEF Held, Running
  <2>3. \A e \in Exec : phase'[e] # "none" <=> phase[e] # "none"
    BY <2>1 DEF Held, Running
  <2>4. RowInv'
    BY <1>1, <2>1, <2>2, <2>3
    DEF RowInv, HolderOwnsRow, OneRunningRow, PhaseMatchesRow, Inserted,
        HolderMatchesTrigger, Held, Running
  <2>5. LoopHoldsDispatched' /\ NothingHeldWhileDown' /\ NoOrphanRow'
    BY <2>1, <2>2
    DEF LoopHoldsDispatched, NothingHeldWhileDown, NoOrphanRow, Started, Held
  <2>6. Len(queue') = 0
    BY <2>1
  <2>7. QueueIsExact'
    BY <2>2, <2>6, SchedulerAssumption DEF QueueIsExact, Held
  <2> QED
    BY <2>4, <2>5, <2>7 DEF PoolInv
<1>4. CASE Boot
  <2>1. UNCHANGED <<executions, phase, queue>> /\ pc = "off" /\ pc' = "recover"
    BY <1>4 DEF Boot, storeVars
  <2>2. RowInv'
    BY <1>1, <2>1 DEF RowInv, HolderOwnsRow, Recovered, OneRunningRow,
                      PhaseMatchesRow, Inserted, HolderMatchesTrigger
  <2>3. PoolInv'
    BY <1>1, <2>1 DEF PoolInv, LoopHoldsDispatched, QueueIsExact,
                      NothingHeldWhileDown, NoOrphanRow, Started
  <2> QED
    BY <2>2, <2>3
<1> QED
  BY <1>2, <1>3, <1>4

------------------------------------------------------------------------------
(* The invariant and what follows from it *)

\* The inductive invariant holds when the process first starts.
LEMMA InitIInv ==
  ASSUME Init
  PROVE  IInv
<1>1. TypeOK
  BY InitTypeOK
<1>2. /\ \A e \in Exec : phase[e] = "none" /\ executions[e].status = "none"
      /\ queue = <<>> /\ pc = "recover"
  BY DEF Init, EmptyRow
<1>3. HolderOwnsRow /\ NothingHeldWhileDown
  BY <1>2 DEF HolderOwnsRow, NothingHeldWhileDown, Held, Running
<1>4. OneRunningRow /\ PhaseMatchesRow /\ HolderMatchesTrigger
  BY <1>2 DEF OneRunningRow, PhaseMatchesRow, HolderMatchesTrigger, Inserted
<1>5. LoopHoldsDispatched /\ NoOrphanRow
  BY <1>2 DEF LoopHoldsDispatched, NoOrphanRow, Started
<1>6. Len(queue) = 0
  BY <1>2
<1>7. QueueIsExact
  BY <1>2, <1>6, SchedulerAssumption DEF QueueIsExact
<1> QED
  BY <1>1, <1>3, <1>4, <1>5, <1>7 DEF IInv

\* Every step of the server preserves the inductive invariant.
LEMMA NextIInv ==
  ASSUME IInv, [Next]_vars
  PROVE  IInv'
<1>1. TypeOK'
  BY NextKeepsTypes DEF IInv
<1>2. RowInv' /\ PoolInv'
  <2>1. CASE UNCHANGED vars
    BY <2>1, FrameKeepsInv DEF IInv, RowInv, PoolInv, vars, storeVars, schedulerVars, loopVars
  <2>2. CASE LoopNext
    BY <2>2, LoopKeepsInv
  <2>3. CASE WorkerTake
    BY <2>3, WorkerKeepsInv
  <2>4. CASE \E e \in Exec : RunNext(e)
    BY <2>4, RunKeepsInv
  <2>5. CASE ApiNext
    BY <2>5, ApiKeepsInv
  <2>6. CASE Tick \/ Crash \/ Boot
    BY <2>6, ProcessKeepsInv
  <2> QED
    BY <2>1, <2>2, <2>3, <2>4, <2>5, <2>6 DEF Next
<1> QED
  BY <1>1, <1>2 DEF IInv, RowInv, PoolInv

\* The invariant that the proofs below rest on holds in every reachable state.
THEOREM Invariant == Spec => []IInv
<1>1. Init => IInv
  BY InitIInv
<1>2. IInv /\ [Next]_vars => IInv'
  BY NextIInv
<1> QED
  BY <1>1, <1>2, PTL DEF Spec

\* Every variable stays in its domain.
THEOREM TypeCorrect == Spec => []TypeOK
<1>1. IInv => TypeOK
  BY DEF IInv
<1> QED
  BY <1>1, Invariant, PTL

\* A row in somebody's hands is running in the table, but for the trigger and
\* send rows that the recovery closed beside them.
THEOREM HolderKeepsRow == Spec => []HolderOwnsRow
<1>1. IInv => HolderOwnsRow
  BY DEF IInv
<1> QED
  BY <1>1, Invariant, PTL

\* A store that does not fail leaves no running row without a holder once the
\* recovery is through: no lock of a job outlives its owner.
THEOREM LocksAreReleased == Spec => []NoOrphanRow
<1>1. IInv => NoOrphanRow
  BY DEF IInv
<1> QED
  BY <1>1, Invariant, PTL

\* Two runs of one job never overlap, but for one whose row the recovery closed.
THEOREM RunsExclude == Spec => []SameJobRunsAlone
<1>1. IInv => SameJobRunsAlone
  BY DEF IInv, HolderOwnsRow, OneRunningRow, SameJobRunsAlone
<1> QED
  BY <1>1, Invariant, PTL

\* Rows change in three ways only.
LEMMA ExecutionSteps ==
  ASSUME Next, NEW e \in Exec, executions' # executions
  PROVE  \E f \in Exec :
           \/ \E j, trigger, slot, k :
                /\ Fresh(f) /\ (k # NoKey => ~Conflicts(j, k))
                /\ InsertRunningExecution(f, j, trigger, slot, k)
           \/ \E status \in Terminal : phase[f] \in Held /\ MarkExecutionFinished(f, status)
           \/ RecoverStaleExecutions
<1>1. CASE LoopNext
  BY <1>1 DEF LoopNext, Recover, ListDue, IdleTick, DispatchNoNext,
       DispatchOverdue, DispatchInsert, DispatchConflict, DispatchInsertFails,
       DispatchSkip, DispatchAdvance, DispatchAdvanceFails, DispatchPush, storeVars
<1>2. CASE \E g \in Exec : RunNext(g)
  BY <1>2 DEF RunNext, RunLoad, RunFinish, Held, Running, Terminal, storeVars
<1>3. CASE ApiNext
  <2>1. CASE \E r \in TriggerReq : TriggerInsert(r)
    BY <2>1 DEF TriggerInsert
  <2>2. CASE SendBegin
    BY <2>2 DEF SendBegin
  <2>3. CASE \E f \in Exec : SendEnd(f)
    BY <2>3 DEF SendEnd, Held
  <2> QED
    BY <1>3, <2>1, <2>2, <2>3 DEF ApiNext, TriggerBegin, TriggerLookup, TriggerRefused,
         TriggerWait, JobCreate, JobDelete, PatchRead, PatchApply, PatchWrite, storeVars
<1>4. CASE WorkerTake \/ Tick \/ Crash \/ Boot
  BY <1>4 DEF WorkerTake, Tick, Crash, Boot, storeVars
<1> QED
  BY <1>1, <1>2, <1>3, <1>4 DEF Next

\* A row that exists stays, and keeps the columns the run does not write.
LEMMA RowsKeepColumns ==
  ASSUME StoreTypeOK, [Next]_vars, NEW e \in Exec, Inserted(e)
  PROVE  /\ Inserted(e)'
         /\ executions'[e].job = executions[e].job
         /\ executions'[e].trigger = executions[e].trigger
         /\ executions'[e].slot = executions[e].slot
         /\ executions'[e].key = executions[e].key
<1> USE DEF Inserted
<1>1. CASE UNCHANGED executions
  BY <1>1
<1>2. CASE executions' # executions
  <2>1. Next
    BY <1>2 DEF vars, storeVars
  <2>2. PICK f \in Exec :
          \/ \E j, trigger, slot, k :
               Fresh(f) /\ InsertRunningExecution(f, j, trigger, slot, k)
          \/ \E status \in Terminal : MarkExecutionFinished(f, status)
          \/ RecoverStaleExecutions
    BY <1>2, <2>1, ExecutionSteps
  <2>3. CASE \E j, trigger, slot, k :
               Fresh(f) /\ InsertRunningExecution(f, j, trigger, slot, k)
    <3>1. f # e
      BY <2>3 DEF Fresh
    <3> QED
      BY <2>3, <3>1, InsertEffect
  <2>4. CASE \E status \in Terminal : MarkExecutionFinished(f, status)
    <3>1. CASE f = e
      BY <2>4, <3>1, CloseEffect DEF Terminal
    <3>2. CASE f # e
      BY <2>4, <3>2, CloseEffect
    <3> QED
      BY <3>1, <3>2
  <2>5. CASE RecoverStaleExecutions
    BY <2>5, RecoverEffect
  <2> QED
    BY <2>2, <2>3, <2>4, <2>5
<1> QED
  BY <1>1, <1>2

\* A closed row keeps its status, but for the row the recovery took from a run
\* that is still going on.
THEOREM VerdictsStay == Spec => ClosedRowStays
<1> DEFINE Kept(e) == Closed(e) /\ executions'[e].status # executions[e].status
                      => Recovered(e) /\ phase[e] \in Held
<1>1. IInv /\ [Next]_vars => [\A e \in Exec : Kept(e)]_vars
  <2> SUFFICES ASSUME IInv, Next, NEW e \in Exec, Closed(e),
                      executions'[e].status # executions[e].status
               PROVE  Recovered(e) /\ phase[e] \in Held
    BY Zenon
  <2>1. StoreTypeOK /\ HolderOwnsRow
    BY DEF IInv, TypeOK
  <2>2. executions[e].status \notin {"none", "running"}
    BY DEF Closed, Terminal
  <2>3. executions' # executions
    OBVIOUS
  <2>4. PICK f \in Exec :
          \/ \E j, trigger, slot, k :
               Fresh(f) /\ InsertRunningExecution(f, j, trigger, slot, k)
          \/ \E status : phase[f] \in Held /\ MarkExecutionFinished(f, status)
          \/ RecoverStaleExecutions
    BY <2>3, ExecutionSteps
  <2>5. CASE \E j, trigger, slot, k :
               Fresh(f) /\ InsertRunningExecution(f, j, trigger, slot, k)
    <3>1. f # e
      BY <2>2, <2>5 DEF Fresh, Inserted
    <3> QED
      BY <2>1, <2>5, <3>1, InsertEffect
  <2>6. CASE \E status : phase[f] \in Held /\ MarkExecutionFinished(f, status)
    <3>1. f = e
      BY <2>1, <2>6, CloseEffect
    <3> QED
      BY <2>1, <2>2, <2>6, <3>1 DEF HolderOwnsRow
  <2>7. CASE RecoverStaleExecutions
    BY <2>1, <2>2, <2>7, RecoverEffect
  <2> QED
    BY <2>4, <2>5, <2>6, <2>7
<1> QED
  BY <1>1, Invariant, PTL DEF Spec, ClosedRowStays

------------------------------------------------------------------------------
(* The worker pool *)

WorkersBounded == Cardinality(BusyWorkers) <= Workers

\* The busy workers are finitely many, so that they can be counted.
LEMMA BusyWorkersFinite == IsFiniteSet(BusyWorkers)
<1>1. IsFiniteSet(Exec)
  BY StoreAssumption, FS_Interval DEF Exec
<1> QED
  BY <1>1, FS_Subset DEF BusyWorkers

\* Only a worker that takes a task enters the pool.
LEMMA NextWorkersBounded ==
  ASSUME IInv, IInv', WorkersBounded, [Next]_vars
  PROVE  WorkersBounded'
<1>1. TypeOK /\ StoreTypeOK
  BY DEF IInv, TypeOK
<1>2. IsFiniteSet(BusyWorkers)
  BY BusyWorkersFinite
<1>3. SUFFICES ASSUME ~WorkerTake
               PROVE  BusyWorkers' \subseteq BusyWorkers
  <2>1. CASE WorkerTake
    <3> DEFINE e == Head(queue)
    <3>1. /\ Cardinality(BusyWorkers) < Workers
          /\ UNCHANGED executions
          /\ phase' = [phase EXCEPT ![e] = "taken"]
      BY <2>1 DEF WorkerTake, storeVars
    <3>2. \A f \in Exec : f # e => phase'[f] = phase[f]
      BY <1>1, <3>1 DEF TypeOK, SchedulerTypeOK
    <3> HIDE DEF e
    <3>3. BusyWorkers' \subseteq BusyWorkers \union {e}
      BY <3>1, <3>2 DEF BusyWorkers
    <3>4. /\ IsFiniteSet(BusyWorkers \union {e})
          /\ Cardinality(BusyWorkers \union {e}) <= Cardinality(BusyWorkers) + 1
      <4>1. Cardinality(BusyWorkers) \in Nat
        BY <1>2, FS_CardinalityType
      <4>2. /\ IsFiniteSet(BusyWorkers \union {e})
            /\ Cardinality(BusyWorkers \union {e}) =
                 IF e \in BusyWorkers THEN Cardinality(BusyWorkers)
                                      ELSE Cardinality(BusyWorkers) + 1
        BY <1>2, FS_AddElement
      <4> QED
        BY <4>1, <4>2
    <3>5. /\ IsFiniteSet(BusyWorkers')
          /\ Cardinality(BusyWorkers') <= Cardinality(BusyWorkers \union {e})
      BY <3>3, <3>4, FS_Subset
    <3>6. /\ Cardinality(BusyWorkers) \in Nat
          /\ Cardinality(BusyWorkers \union {e}) \in Nat
          /\ Cardinality(BusyWorkers') \in Nat
      BY <1>2, <3>4, <3>5, FS_CardinalityType
    <3> QED
      BY <3>1, <3>4, <3>5, <3>6, SchedulerAssumption DEF WorkersBounded
  <2>2. CASE ~WorkerTake
    <3>1. BusyWorkers' \subseteq BusyWorkers
      BY <1>3, <2>2
    <3>2. /\ IsFiniteSet(BusyWorkers')
          /\ Cardinality(BusyWorkers') <= Cardinality(BusyWorkers)
      BY <1>2, <3>1, FS_Subset
    <3>3. Cardinality(BusyWorkers) \in Nat /\ Cardinality(BusyWorkers') \in Nat
      BY <1>2, <3>2, FS_CardinalityType
    <3> QED
      BY <3>2, <3>3, SchedulerAssumption DEF WorkersBounded
  <2> QED
    BY <2>1, <2>2
<1>4. SUFFICES ASSUME NEW e \in Exec, executions'[e].trigger = "cron",
                      phase'[e] \in Running
               PROVE  executions[e].trigger = "cron" /\ phase[e] \in Running
  BY DEF BusyWorkers
<1>5. phase[e] \in Running
  <2> USE <1>1 DEF Running
  <2>1. CASE UNCHANGED phase
    BY <2>1, <1>4
  <2>2. CASE LoopNext
    <3>1. \/ UNCHANGED phase
          \/ \E f, x : x \notin Running /\ phase' = [phase EXCEPT ![f] = x]
      BY <2>2 DEF LoopNext, Recover, ListDue, IdleTick, DispatchNoNext,
           DispatchOverdue, DispatchInsert, DispatchConflict, DispatchInsertFails,
           DispatchSkip, DispatchAdvance, DispatchAdvanceFails, DispatchPush, schedulerVars
    <3> QED
      BY <3>1, <1>4 DEF TypeOK, SchedulerTypeOK
  <2>3. CASE \E f \in Exec : RunNext(f)
    BY <2>3, <1>4 DEF RunNext, RunLoad, RunFinish, TypeOK, SchedulerTypeOK
  <2>4. CASE ApiNext
    <3>1. CASE \E r \in TriggerReq : TriggerInsert(r)
      <4>1. PICK f \in Exec :
              /\ \E j, k : InsertRunningExecution(f, j, "manual", NoSlot, k)
              /\ phase' = [phase EXCEPT ![f] = "spawned"]
        BY <3>1 DEF TriggerInsert
      <4>2. f # e
        BY <4>1, <1>4, InsertEffect
      <4> QED
        BY <4>1, <4>2, <1>4 DEF TypeOK, SchedulerTypeOK
    <3>2. CASE SendBegin \/ \E f \in Exec : SendEnd(f)
      BY <3>2, <1>4 DEF SendBegin, SendEnd, TypeOK, SchedulerTypeOK
    <3> QED
      BY <2>1, <2>4, <3>1, <3>2 DEF ApiNext, TriggerBegin, TriggerLookup, TriggerRefused,
           TriggerWait, JobCreate, JobDelete, PatchRead, PatchApply, PatchWrite,
           schedulerVars
  <2>5. CASE Crash
    BY <2>5, <1>4 DEF Crash
  <2>6. CASE Tick \/ Boot \/ UNCHANGED vars
    BY <2>1, <2>6 DEF Tick, Boot, vars, schedulerVars
  <2> QED
    BY <1>3, <2>2, <2>3, <2>4, <2>5, <2>6 DEF Next
<1>6. Inserted(e)
  BY <1>5 DEF IInv, PhaseMatchesRow, Running
<1> QED
  BY <1>1, <1>4, <1>5, <1>6, RowsKeepColumns

\* The channel holds what waits, once and within its capacity, and the pool runs
\* no more than its workers.
THEOREM PoolStaysConsistent == Spec => []PoolIsConsistent
<1>1. Init => WorkersBounded
  <2>1. Init => BusyWorkers = {}
    BY DEF Init, BusyWorkers, Running
  <2> QED
    BY <2>1, FS_EmptySet, SchedulerAssumption DEF WorkersBounded
<1>2. IInv /\ IInv' /\ WorkersBounded /\ [Next]_vars => WorkersBounded'
  BY NextWorkersBounded
<1>3. IInv /\ WorkersBounded => PoolIsConsistent
  <2> SUFFICES ASSUME IInv, WorkersBounded
               PROVE  PoolIsConsistent
    OBVIOUS
  <2>1. DOMAIN queue = 1..Len(queue) /\ \A i \in 1..Len(queue) : queue[i] \in Exec
    BY DEF IInv, TypeOK, SchedulerTypeOK
  <2>2. {queue[i] : i \in DOMAIN queue} = {e \in Exec : phase[e] = "queued"}
    BY <2>1 DEF IInv, QueueIsExact
  <2> QED
    BY <2>1, <2>2 DEF PoolIsConsistent, IInv, QueueIsExact, WorkersBounded
<1> QED
  BY <1>1, <1>2, <1>3, Invariant, PTL DEF Spec
=============================================================================
