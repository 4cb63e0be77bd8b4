------------------------------- MODULE Runner -------------------------------
(***************************************************************************)
(* One execution from the inside: the loop over the steps in runJob        *)
(* (internal/scheduler) and in sendHandler (internal/api), the attempts of *)
(* a step, and what the executors do in one: the shell command, the        *)
(* request, the loop over the channels of a notification.  Meanwhile the   *)
(* API edits the tables the run reads, its own job among them.  Server     *)
(* sees all of this as RunLoad and RunFinish, or SendBegin and SendEnd.    *)
(***************************************************************************)
EXTENDS Channels, Integers, Sequences

CONSTANTS
  StepId,         \* the ids steps have within their list
  Plans,          \* the lists of steps jobs and requests may have
  Overrides,      \* the overrides a manual trigger may carry: step ids to channels
  Orphans,        \* whether a shell command may leave children with its output open
  StoreMayFail,   \* whether the statements that record results may fail
  Fallbacks       \* the types config.yaml configures a notifier for

StepRecord == [id : StepId, kind : {"shell", "webhook", "notify", "unknown"},
               channels : Seq(ChannelId), retry : Int, cont : BOOLEAN]

ASSUME RunnerAssumption ==
  /\ \A list \in Plans : list \in Seq(StepRecord)
  /\ \A o \in Overrides :
       DOMAIN o \subseteq StepId /\ \A id \in DOMAIN o : o[id] \in Seq(ChannelId)

VARIABLES
  job,       \* the job of the run: whether its row is there, its rows of job_steps
  had,       \* the lists of steps the job has had so far (a history)
  mode,      \* who runs: a worker ("cron"), a trigger's goroutine, POST /send
  ctx,       \* the context of that goroutine: "live" or "cancelled"
  steps,     \* the steps of this execution, none before they are loaded
  over,      \* the overrides it carries
  pc,        \* where the goroutine is
  attempt,   \* attempts of the current step, this one included
  res,       \* how the last attempt went
  outcome,   \* how each step went
  n,         \* the channel of the current step that is next
  errs,      \* has a channel failed in this attempt
  dest,      \* that channel's row as it was read
  effects,   \* what the attempts did to the world: steps, attempts and channels
  saved,     \* the rows of execution_steps
  verdict    \* the status the run gives its row

jobVars == <<job, had>>
stepVars == <<attempt, res, n, errs, dest>>
planVars == <<mode, steps, over>>
runVars == <<mode, ctx, steps, over, pc, stepVars, outcome, effects, saved, verdict>>
vars == <<tableVars, jobVars, runVars>>

Status == {"success", "failed"}

Current == Len(outcome) + 1
Step == steps[Current]

\* applyStepOverride: an override replaces a field of the step's configuration.
ChannelsOf(step) == IF step.id \in DOMAIN over THEN over[step.id] ELSE step.channels

\* Mutant: one attempt too many.
OneMoreAttempt(step) == IF step.retry < 1 THEN 1 ELSE step.retry + 1

MaxAttempts(step) == IF step.retry < 1 THEN 1 ELSE step.retry

\* UNIQUE(job_id, step_id)
UniqueIds(list) == \A k, l \in DOMAIN list : list[k].id = list[l].id => k = l

FailedSteps == {k \in DOMAIN outcome : outcome[k] = "failed"}

\* Deleted, its steps with it; /send has none.
NoJob == [live |-> FALSE, steps |-> <<>>]

RunnerTypeOK ==
  /\ ChannelsTypeOK
  /\ job \in [live : BOOLEAN, steps : Plans \union {<<>>}]
  /\ had \subseteq Plans
  /\ mode \in {"cron", "manual", "send"}
  /\ ctx \in {"live", "cancelled"}
  /\ steps \in Plans \union {<<>>}
  /\ over \in Overrides \union {<<>>}
  /\ pc \in {"load", "steps", "abandon", "step", "attempt", "shell", "pipes", "channel",
             "provider", "deliver", "backoff", "save", "finish", "done"}
  /\ attempt \in Nat
  /\ res \in Status \union {"none"}
  /\ outcome \in Seq(Status)
  /\ Len(outcome) <= Len(steps)
  /\ n \in Nat
  /\ errs \in BOOLEAN
  /\ dest \in ChannelRow
  /\ effects \subseteq [step : Nat, attempt : Nat, n : Nat]
  /\ saved \in Seq([step : Nat, status : Status])
  /\ verdict \in {"running"} \union Status

\* Only /send takes repeated ids, and no steps are no request; a job may have steps
\* of any type, which PATCH does not check.  Only a manual trigger carries overrides.
\* A run finds its job deleted, or as whatever edits before it left it.
Init ==
  /\ ChannelsInit
  /\ mode \in {"cron", "manual", "send"}
  /\ ctx = "live"
  /\ \/ mode = "send" /\ steps \in Plans \ {<<>>} /\ job = NoJob
     \/ /\ mode # "send" /\ steps = <<>>
        /\ \/ job = NoJob
           \/ \E list \in Plans : UniqueIds(list) /\ job = [live |-> TRUE, steps |-> list]
  /\ had = IF job.live THEN {job.steps} ELSE {}
  /\ over \in IF mode = "manual" THEN Overrides ELSE {<<>>}
  /\ pc = IF mode = "send" THEN "step" ELSE "load"
  /\ attempt = 0 /\ res = "none"
  /\ outcome = <<>>
  /\ n = 0 /\ errs = FALSE /\ dest = NoChannel
  /\ effects = {} /\ saved = <<>>
  /\ verdict = "running"

------------------------------------------------------------------------------
(* Around the steps *)

\* A statement fails when its context is over, and may fail otherwise.
MayFail == StoreMayFail \/ ctx = "cancelled"

\* GetJob reads the row of the job ...
LoadRow ==
  /\ pc = "load"
  /\ \/ ctx = "live" /\ job.live /\ pc' = "steps"
     \/ (~job.live \/ MayFail) /\ pc' = "abandon"
  /\ UNCHANGED <<planVars, ctx, stepVars, outcome, effects, saved, verdict>>

\* ... and with another statement its steps, which is no error when there are none.
LoadSteps ==
  /\ pc = "steps"
  /\ \/ ctx = "live" /\ steps' = job.steps /\ pc' = "step"
     \/ MayFail /\ pc' = "abandon" /\ UNCHANGED steps
  /\ UNCHANGED <<mode, over, ctx, stepVars, outcome, effects, saved, verdict>>

\* MarkExecutionFinished; its error is dropped.
Finished(status) ==
  /\ \/ ctx = "live" /\ verdict' = status
     \/ MayFail /\ UNCHANGED verdict
  /\ pc' = "done"
  /\ UNCHANGED <<planVars, ctx, stepVars, outcome, effects, saved>>

Abandon == pc = "abandon" /\ Finished("failed")

\* Mutant: a step that continues on error does not fail the execution.
FinishTolerant ==
  /\ pc = "finish"
  /\ Finished(IF \A k \in FailedSteps : steps[k].cont THEN "success" ELSE "failed")

Finish ==
  /\ pc = "finish"
  /\ Finished(IF FailedSteps = {} THEN "success" ELSE "failed")

\* A client that has gone ends the context of /send, a shutdown that of the
\* workers; a trigger's goroutine has one that never ends.
Cancel ==
  /\ mode # "manual" /\ ctx = "live"
  /\ ctx' = "cancelled"
  /\ UNCHANGED <<planVars, pc, stepVars, outcome, effects, saved, verdict>>

------------------------------------------------------------------------------
(* One step: its attempts, and the record of it *)

\* Mutant: nothing is put down as the result of a step of unknown type.
BeginStepNoResult ==
  /\ pc = "step" /\ Current <= Len(steps)
  /\ IF Step.kind = "unknown"
     THEN pc' = "save" /\ attempt' = 0 /\ res' = "none"
     ELSE pc' = "attempt" /\ attempt' = 1 /\ res' = "none"
  /\ UNCHANGED <<planVars, ctx, n, errs, dest, outcome, effects, saved, verdict>>

BeginStep ==
  /\ pc = "step" /\ Current <= Len(steps)
  /\ IF Step.kind = "unknown"
     THEN pc' = "save" /\ attempt' = 0 /\ res' = "failed"
     ELSE pc' = "attempt" /\ attempt' = 1 /\ res' = "none"
  /\ UNCHANGED <<planVars, ctx, n, errs, dest, outcome, effects, saved, verdict>>

NoMoreSteps ==
  /\ pc = "step" /\ Current > Len(steps)
  /\ pc' = "finish"
  /\ UNCHANGED <<planVars, ctx, stepVars, outcome, effects, saved, verdict>>

AttemptEnds(status) ==
  /\ res' = status
  /\ pc' = IF status = "success" \/ attempt >= MaxAttempts(Step)
           THEN "save" ELSE "backoff"

Effect(m) == effects' = effects \union {[step |-> Current, attempt |-> attempt, n |-> m]}

\* The request was made, and answered well or not, or late; or it did not come to
\* that (the configuration, a template, the context).
AttemptWebhook ==
  /\ pc = "attempt" /\ Step.kind = "webhook"
  /\ \/ ctx = "live" /\ Effect(0) /\ \E status \in Status : AttemptEnds(status)
     \/ UNCHANGED effects /\ AttemptEnds("failed")
  /\ UNCHANGED <<planVars, ctx, attempt, n, errs, dest, outcome, saved, verdict>>

\* cmd.Run starts the command, unless the configuration or the context forbids.
AttemptShell ==
  /\ pc = "attempt" /\ Step.kind = "shell"
  /\ \/ ctx = "live" /\ Effect(0) /\ pc' = "shell" /\ UNCHANGED res
     \/ UNCHANGED effects /\ AttemptEnds("failed")
  /\ UNCHANGED <<planVars, ctx, attempt, n, errs, dest, outcome, saved, verdict>>

\* The shell exits or is killed, by the timeout or with the context; but Run waits
\* for whoever else has its output open.
ShellExits ==
  /\ pc = "shell"
  /\ \/ \E status \in Status : AttemptEnds(status)
     \/ Orphans /\ pc' = "pipes" /\ UNCHANGED res
  /\ UNCHANGED <<planVars, ctx, attempt, n, errs, dest, outcome, effects, saved, verdict>>

\* The last of the shell's children closes the output, if it ever does.
PipesClose ==
  /\ pc = "pipes"
  /\ \E status \in Status : AttemptEnds(status)
  /\ UNCHANGED <<planVars, ctx, attempt, n, errs, dest, outcome, effects, saved, verdict>>

\* The channels are gone through; or the configuration or a template is wrong.
AttemptNotify ==
  /\ pc = "attempt" /\ Step.kind = "notify"
  /\ \/ /\ ChannelsOf(Step) # <<>>
        /\ pc' = "channel" /\ n' = 1 /\ errs' = FALSE /\ UNCHANGED res
     \/ AttemptEnds("failed") /\ UNCHANGED <<n, errs>>
  /\ UNCHANGED <<planVars, ctx, attempt, dest, outcome, effects, saved, verdict>>

\* time.Sleep, whatever the context says.  Mutant: attempts are not counted.
BackoffUncounted ==
  /\ pc = "backoff"
  /\ pc' = "attempt"
  /\ UNCHANGED <<planVars, ctx, stepVars, outcome, effects, saved, verdict>>

Backoff ==
  /\ pc = "backoff"
  /\ pc' = "attempt" /\ attempt' = attempt + 1
  /\ UNCHANGED <<planVars, ctx, res, n, errs, dest, outcome, effects, saved, verdict>>

\* Mutant: a failed step never ends the run.
SaveStepAndContinue ==
  /\ pc = "save"
  /\ \/ ctx = "live" /\ saved' = Append(saved, [step |-> Current, status |-> res])
     \/ MayFail /\ UNCHANGED saved
  /\ outcome' = Append(outcome, res)
  /\ pc' = "step"
  /\ attempt' = 0 /\ res' = "none"
  /\ n' = 0 /\ errs' = FALSE /\ dest' = NoChannel
  /\ UNCHANGED <<planVars, ctx, effects, verdict>>

\* The row of the step is inserted or lost; the results and failedSteps grow.
SaveStep ==
  /\ pc = "save"
  /\ \/ ctx = "live" /\ saved' = Append(saved, [step |-> Current, status |-> res])
     \/ MayFail /\ UNCHANGED saved
  /\ outcome' = Append(outcome, res)
  /\ pc' = IF res = "failed" /\ ~Step.cont THEN "finish" ELSE "step"
  /\ attempt' = 0 /\ res' = "none"
  /\ n' = 0 /\ errs' = FALSE /\ dest' = NoChannel
  /\ UNCHANGED <<planVars, ctx, effects, verdict>>

------------------------------------------------------------------------------
(* The notification executor *)

\* Mutant: only the last channel's error is reported.
NextChannelForgets(failed) == errs' = failed /\ n' = n + 1 /\ pc' = "channel"

NextChannel(failed) == errs' = (errs \/ failed) /\ n' = n + 1 /\ pc' = "channel"

\* A lookup can always fail: the step's timeout, the context, the store.
ReadChannel ==
  /\ pc = "channel" /\ n <= Len(ChannelsOf(Step))
  /\ LET row == channels[ChannelsOf(Step)[n]] IN
     \/ /\ ctx = "live" /\ row # NoChannel
        /\ dest' = row
        /\ pc' = IF row.provider = NoProvider THEN "deliver" ELSE "provider"
        /\ UNCHANGED <<n, errs>>
     \/ NextChannel(TRUE) /\ UNCHANGED dest
  /\ UNCHANGED <<planVars, ctx, attempt, res, outcome, effects, saved, verdict>>

ReadProvider ==
  /\ pc = "provider"
  /\ \/ /\ ctx = "live" /\ providers[dest.provider] # "none"
        /\ pc' = "deliver" /\ UNCHANGED <<n, errs>>
     \/ NextChannel(TRUE)
  /\ UNCHANGED <<planVars, ctx, attempt, res, dest, outcome, effects, saved, verdict>>

\* Whatever a provider holds is tried; without one the notifier of config.yaml
\* is, if there is one, and a webhook needs none.
CanSend ==
  dest.provider # NoProvider \/ dest.type = "webhook" \/ dest.type \in Fallbacks

\* The message is delivered, which the notifier may report as an error all the
\* same (an answer that is late, a QUIT that fails); or it is not.
Deliver ==
  /\ pc = "deliver"
  /\ \/ /\ ctx = "live" /\ CanSend /\ Effect(n)
        /\ \E failed \in BOOLEAN : NextChannel(failed)
     \/ NextChannel(TRUE) /\ UNCHANGED effects
  /\ UNCHANGED <<planVars, ctx, attempt, res, dest, outcome, saved, verdict>>

NotifyEnds ==
  /\ pc = "channel" /\ n > Len(ChannelsOf(Step))
  /\ AttemptEnds(IF errs THEN "failed" ELSE "success")
  /\ UNCHANGED <<planVars, ctx, attempt, n, errs, dest, outcome, effects, saved, verdict>>

------------------------------------------------------------------------------

(* The API edits the job *)

\* Mutant: the statements of UpdateJob are not one transaction.
PatchStepsPiecemeal(list) ==
  /\ Edit /\ job.live
  /\ job' = [live |-> TRUE, steps |-> IF UniqueIds(list) THEN list ELSE SubSeq(list, 1, 1)]
  /\ had' = IF UniqueIds(list) THEN had \union {list} ELSE had
  /\ UNCHANGED <<channels, providers, creating, runVars>>

\* UpdateJob replaces all steps or, when the index refuses one of them, none.
PatchSteps(list) ==
  /\ Edit /\ job.live /\ UniqueIds(list)
  /\ job' = [live |-> TRUE, steps |-> list]
  /\ had' = had \union {list}
  /\ UNCHANGED <<channels, providers, creating, runVars>>

DeleteJob ==
  /\ Edit /\ job.live
  /\ job' = NoJob
  /\ UNCHANGED <<channels, providers, creating, had, runVars>>

------------------------------------------------------------------------------

AttemptNext ==
  \/ AttemptWebhook \/ AttemptShell \/ ShellExits
  \/ AttemptNotify \/ ReadChannel \/ ReadProvider \/ Deliver \/ NotifyEnds
  \/ Backoff

RunNext ==
  \/ LoadRow \/ LoadSteps \/ Abandon
  \/ BeginStep \/ AttemptNext \/ SaveStep
  \/ NoMoreSteps \/ Finish

Next ==
  \/ (RunNext \/ Cancel \/ PipesClose) /\ UNCHANGED <<tableVars, jobVars>>
  \/ EditTables /\ UNCHANGED <<jobVars, runVars>>
  \/ DeleteJob \/ \E list \in Plans : PatchSteps(list)

Spec == Init /\ [][Next]_vars

\* Every attempt ends: the executors work under the step's timeout.  Nothing makes
\* an orphaned child close its output.
FairSpec == Spec /\ WF_vars(RunNext /\ UNCHANGED <<tableVars, jobVars>>)

------------------------------------------------------------------------------
(* Properties *)

\* The run does what an execution of these steps promises, retries, lost records
\* and edits of the tables notwithstanding.
Promised == INSTANCE Execution WITH begun <- pc \notin {"load", "steps", "abandon"}
ImplementsExecution == Promised!Spec

\* An execution reported as a success had, for every notification step, one last
\* attempt that delivered to every channel, while channels and providers come
\* and go and notifiers report deliveries as errors.
SuccessReachesEveryChannel ==
  verdict = "success" =>
    \A k \in DOMAIN steps : steps[k].kind = "notify" =>
      \E a \in 1..MaxAttempts(steps[k]) :
        /\ \A m \in DOMAIN ChannelsOf(steps[k]) :
             [step |-> k, attempt |-> a, n |-> m] \in effects
        /\ \A f \in effects : f.step = k => f.attempt <= a

\* A step touches the world only if no earlier step was fatal, and no more often
\* than its retries allow.
EffectsAreAllowed ==
  \A f \in effects :
    /\ f.step \in DOMAIN steps
    /\ f.attempt <= (IF steps[f.step].retry < 2 THEN 1 ELSE steps[f.step].retry)
    /\ \A k \in 1..(f.step - 1) : outcome[k] = "failed" => steps[k].cont

\* The recorded steps explain the verdict: none of a success has failed, one of a
\* failure has, unless a record was lost or the job was not there.
RecordsExplainVerdict ==
  /\ verdict = "success" => \A i \in DOMAIN saved : saved[i].status = "success"
  /\ verdict = "failed" /\ outcome # <<>> /\ Len(saved) = Len(outcome) =>
       \E i \in DOMAIN saved : saved[i].status = "failed"

\* A run of a job runs a whole list the job had at some time, whatever PATCH requests
\* do between the reads, or nothing when the job was deleted between them.
RunsWholeList ==
  mode # "send" /\ pc \notin {"load", "steps", "abandon", "done"} =>
    steps \in had \/ (steps = <<>> /\ ~job.live)

\* The run comes to an end, or a shell command has left a child behind that never
\* closes the command's output.
RunEnds == <>(pc = "done") \/ <>[](pc = "pipes")

\* What README.md says of continue_on_error: a step that has it may fail and the
\* execution is still a success.
ToleratedFailureSucceeds ==
  verdict = "failed" /\ outcome # <<>> => ~steps[Len(outcome)].cont
=============================================================================
