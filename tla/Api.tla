--------------------------------- MODULE Api ---------------------------------
(***************************************************************************)
(* The handlers of internal/api that change jobs or executions.  A handler *)
(* is a goroutine of its own; what it read from the store may be stale     *)
(* when it writes.  A request is served once: the sets of requests bound   *)
(* how many of each kind arrive.                                           *)
(***************************************************************************)
EXTENDS Scheduler

CONSTANTS
  TriggerReq,   \* POST /jobs/{id}/trigger requests
  PatchReq,     \* PATCH /jobs/{id} requests
  MaxSends      \* bound: POST /send requests

ASSUME ApiAssumption == MaxSends \in Nat

VARIABLES
  trig,    \* the trigger handlers, with the reply they sent
  patch    \* the patch handlers, with the copy of the job they edit

apiVars == <<trig, patch>>

Up == pc # "off"

\* code 0: no reply (yet, or the connection broke).
TriggerState ==
  [pc : {"new", "lookup", "insert", "wait", "done"}, job : Job \union {NoJob},
   key : Key, code : {0, 200, 201, 202, 400, 404, 409, 500}, exec : Exec \union {NoExec},
   status : {"none", "running"} \union Terminal]

PatchState == [pc : {"new", "read", "write", "done"},
               job : Job \union {NoJob}, row : JobRow]

ApiTypeOK ==
  /\ trig \in [TriggerReq -> TriggerState]
  /\ patch \in [PatchReq -> PatchState]

------------------------------------------------------------------------------
(* triggerJob *)

Reply(r, code, e, status) ==
  trig' = [trig EXCEPT ![r] =
    [@ EXCEPT !.pc = "done", !.code = code, !.exec = e, !.status = status]]

Refuse(r, code) == Reply(r, code, NoExec, "none")

\* GetJob, and whether the request carries an Idempotency-Key.
TriggerBegin(r) ==
  /\ Up /\ trig[r].pc = "new"
  /\ \E j \in Job, k \in Key :
       \/ /\ Live(j)
          /\ trig' = [trig EXCEPT ![r].job = j, ![r].key = k,
                        ![r].pc = IF k = NoKey THEN "insert" ELSE "lookup"]
       \/ ~Live(j) /\ Refuse(r, 404)
       \/ StoreMayFail /\ Refuse(r, 500)
  /\ UNCHANGED <<storeVars, schedulerVars, patch>>

WithKey(j, k) ==
  {e \in Exec : Inserted(e) /\ executions[e].job = j /\ executions[e].key = k}

\* FindExecutionByIdempotencyKey: a hit answers with the row as it is now; an
\* error is treated like a miss.
TriggerLookup(r) ==
  /\ Up /\ trig[r].pc = "lookup"
  /\ \/ \E e \in WithKey(trig[r].job, trig[r].key) :
          LET status == executions[e].status
          IN Reply(r, IF status \in Terminal THEN 200 ELSE 201, e, status)
     \/ /\ WithKey(trig[r].job, trig[r].key) = {} \/ StoreMayFail
        /\ trig' = [trig EXCEPT ![r].pc = "insert"]
  /\ UNCHANGED <<storeVars, schedulerVars, patch>>

\* The row is inserted and a goroutine that no client and no shutdown can
\* cancel runs it; the handler answers at once or waits (?wait=true).
TriggerInsert(r) ==
  /\ Up /\ trig[r].pc = "insert"
  /\ ~Conflicts(trig[r].job, trig[r].key)
  /\ \E e \in Exec :
       /\ Fresh(e)
       /\ InsertRunningExecution(e, trig[r].job, "manual", NoSlot, trig[r].key)
       /\ phase' = [phase EXCEPT ![e] = "spawned"]
       /\ \/ Reply(r, 201, e, "running")
          \/ trig' = [trig EXCEPT ![r].pc = "wait", ![r].exec = e]
  /\ UNCHANGED <<jobs, now, loopVars, queue, patch>>

\* A malformed body, a conflict with either unique index, a store error.
TriggerRefused(r) ==
  /\ Up /\ trig[r].pc = "insert"
  /\ \/ Refuse(r, 400)
     \/ Conflicts(trig[r].job, trig[r].key) /\ Refuse(r, 409)
     \/ StoreMayFail /\ Refuse(r, 500)
  /\ UNCHANGED <<storeVars, schedulerVars, patch>>

\* The polling loop ends with a terminal row, a failed read or the timeout.
TriggerWait(r) ==
  /\ Up /\ trig[r].pc = "wait"
  /\ LET e == trig[r].exec
         status == executions[e].status
     IN \/ status \in Terminal /\ Reply(r, 200, e, status)
        \/ StoreMayFail /\ Refuse(r, 404)
        \/ Reply(r, 202, e, "running")
  /\ UNCHANGED <<storeVars, schedulerVars, patch>>

------------------------------------------------------------------------------
(* createJob, patchJob, deleteJob *)

JobCreate(j) ==
  /\ Up /\ jobs[j].state = "unborn"
  /\ \E c \in Cron, on \in BOOLEAN : CreateJob(j, c, on, NextRun(c, now))
  /\ UNCHANGED <<executions, schedulerVars, apiVars>>

JobDelete(j) ==
  /\ Up /\ Live(j)
  /\ DeleteJob(j)
  /\ UNCHANGED <<executions, schedulerVars, apiVars>>

\* The handler returns and its copy is gone.
PatchDone == [pc |-> "done", job |-> NoJob, row |-> NoJobRow]
PatchEnd(p) == patch' = [patch EXCEPT ![p] = PatchDone]

\* GetJob: the handler now edits a copy of the row.
PatchRead(p) ==
  /\ Up /\ patch[p].pc = "new"
  /\ \E j \in Job :
       \/ /\ Live(j)
          /\ patch' = [patch EXCEPT ![p] =
               [pc |-> "read", job |-> j, row |-> jobs[j]]]
       \/ (~Live(j) \/ StoreMayFail) /\ PatchEnd(p)
  /\ UNCHANGED <<storeVars, schedulerVars, trig>>

\* The body may set the schedule and the enabled flag; next_run_at is computed
\* anew only for an enabled job whose schedule or flag the body touches, and is
\* otherwise the one that was read.  An invalid body ends the request.
PatchApply(p) ==
  /\ Up /\ patch[p].pc = "read"
  /\ LET row == patch[p].row IN
     \/ \E given, on \in BOOLEAN :
        \E c \in IF given THEN Cron ELSE {row.cron} :
          patch' = [patch EXCEPT ![p] =
            [@ EXCEPT !.pc = "write",
                      !.row = [row EXCEPT !.cron = c, !.enabled = on,
                        !.nextRun = IF on /\ (given \/ on # row.enabled)
                                    THEN NextRun(c, now) ELSE @]]]
     \/ PatchEnd(p)
  /\ UNCHANGED <<storeVars, schedulerVars, trig>>

\* UpdateJob writes every column of the copy.
PatchWrite(p) ==
  /\ Up /\ patch[p].pc = "write"
  /\ \/ Live(patch[p].job) /\ UpdateJob(patch[p].job, patch[p].row)
     \/ (~Live(patch[p].job) \/ StoreMayFail) /\ UNCHANGED jobs
  /\ PatchEnd(p)
  /\ UNCHANGED <<executions, schedulerVars, trig>>

------------------------------------------------------------------------------
(* sendHandler *)

AdhocRows == {e \in Exec : executions[e].job = Adhoc}

\* No lock to take: the row is inserted whatever else runs.
SendBegin ==
  /\ Up
  /\ Cardinality(AdhocRows) < MaxSends
  /\ \E e \in Exec :
       /\ Fresh(e)
       /\ InsertRunningExecution(e, Adhoc, "adhoc", NoSlot, NoKey)
       /\ phase' = [phase EXCEPT ![e] = "sending"]
  /\ UNCHANGED <<jobs, now, loopVars, queue, apiVars>>

\* The handler closes its row with the request's context: once the client has
\* gone that statement fails, and the row stays running.
SendEnd(e) ==
  /\ Up /\ phase[e] = "sending"
  /\ \/ \E status \in Terminal : MarkExecutionFinished(e, status)
     \/ UNCHANGED executions
  /\ phase' = [phase EXCEPT ![e] = "over"]
  /\ UNCHANGED <<jobs, now, loopVars, queue, apiVars>>

ApiNext ==
  \/ SendBegin
  \/ \E e \in Exec : SendEnd(e)
  \/ \E r \in TriggerReq :
       \/ TriggerBegin(r)
       \/ TriggerLookup(r)
       \/ TriggerInsert(r)
       \/ TriggerRefused(r)
       \/ TriggerWait(r)
  \/ \E j \in Job : JobCreate(j) \/ JobDelete(j)
  \/ \E p \in PatchReq : PatchRead(p) \/ PatchApply(p) \/ PatchWrite(p)
=============================================================================
