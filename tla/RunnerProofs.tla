---------------------------- MODULE RunnerProofs ----------------------------
(***************************************************************************)
(* A run implements the abstract Execution, whatever the steps, retries,   *)
(* overrides, tables and failures; its success means that every channel    *)
(* was reached; it runs a whole list its job had, touches the world no     *)
(* more than the steps allow, and its records explain its verdict.         *)
(***************************************************************************)
EXTENDS Runner, TLAPS

InAttempt == pc \in {"attempt", "shell", "pipes", "channel", "provider", "deliver", "backoff"}
InStep == InAttempt \/ pc = "save"
Unstopped == \A k \in DOMAIN outcome : outcome[k] = "failed" => steps[k].cont

\* What the promise needs: where the goroutine is says how far the steps are.
OrderInv ==
  /\ steps \in Seq(StepRecord) /\ job.steps \in Seq(StepRecord)
  /\ over \in Overrides \union {<<>>}
  /\ outcome \in Seq(Status)
  /\ res \in Status \union {"none"}
  /\ Len(outcome) <= Len(steps)
  /\ pc \in {"load", "steps", "abandon"} => outcome = <<>>
  /\ pc # "done" => verdict = "running"
  /\ pc \in {"load", "steps", "step"} \/ InStep => Unstopped
  /\ InStep => Len(outcome) < Len(steps)
  /\ pc = "save" => res \in Status
  /\ pc = "finish" => Len(outcome) = Len(steps) \/ ~Unstopped

Begun == pc \notin {"load", "steps", "abandon"}
promisedVars == <<Begun, steps, outcome, verdict>>

\* Every list of steps there may be, none included, is a sequence of steps.
LEMMA PlansAreSequences == Plans \union {<<>>} \subseteq Seq(StepRecord)
<1>1. <<>> \in Seq(StepRecord)
  OBVIOUS
<1>2. \A list \in Plans : list \in Seq(StepRecord)
  BY RunnerAssumption
<1> QED
  BY <1>1, <1>2, Zenon

\* Every step keeps the order, and is a step of the promise or none.
LEMMA StepKeepsPromise ==
  ASSUME OrderInv, [Next]_vars
  PROVE  OrderInv' /\ [Promised!Next]_promisedVars
<1> USE DEF OrderInv, Begun, promisedVars
<1>1. CASE LoadRow /\ UNCHANGED jobVars
  BY <1>1 DEF LoadRow, planVars, stepVars, jobVars, InStep, InAttempt, Unstopped
<1>2. CASE LoadSteps /\ UNCHANGED jobVars
  <2>1. /\ pc = "steps" /\ outcome = <<>> /\ verdict = "running"
        /\ UNCHANGED <<over, res, outcome, verdict, job>>
        /\ \/ pc' = "step" /\ steps' = job.steps
           \/ pc' = "abandon" /\ UNCHANGED steps
    BY <1>2 DEF LoadSteps, planVars, stepVars, jobVars
  <2>2. OrderInv'
    BY <2>1 DEF InStep, InAttempt, Unstopped
  <2> QED
    BY <2>1, <2>2 DEF Promised!Next, Promised!Begin
<1>3. CASE Abandon /\ UNCHANGED jobVars
  <2>1. /\ pc = "abandon" /\ pc' = "done" /\ verdict' \in {verdict, "failed"}
        /\ UNCHANGED <<steps, over, res, outcome, job>>
    BY <1>3 DEF Abandon, Finished, planVars, stepVars, jobVars
  <2>2. OrderInv'
    BY <2>1 DEF InStep, InAttempt
  <2> QED
    BY <2>1, <2>2 DEF Promised!Next, Promised!GiveUp, Promised!Begin
<1>4. CASE Finish /\ UNCHANGED jobVars
  <2>1. /\ verdict' \in {verdict, IF FailedSteps = {} THEN "success" ELSE "failed"}
        /\ UNCHANGED <<steps, over, res, outcome, job>> /\ pc = "finish" /\ pc' = "done"
    BY <1>4 DEF Finish, Finished, planVars, stepVars, jobVars
  <2>2. Promised!Ended
    BY <2>1 DEF Promised!Ended, Promised!Fatal, Unstopped
  <2>3. verdict' = verdict \/ Promised!Close
    BY <2>1, <2>2 DEF Promised!Close, FailedSteps, Promised!FailedSteps
  <2>4. OrderInv'
    BY <2>1 DEF InStep, InAttempt
  <2> QED
    BY <2>1, <2>3, <2>4 DEF Promised!Next
<1>5. CASE BeginStep /\ UNCHANGED jobVars
  BY <1>5 DEF BeginStep, planVars, jobVars, InStep, InAttempt, Unstopped, Current, Step, Status
<1>6. CASE NoMoreSteps /\ UNCHANGED jobVars
  BY <1>6 DEF NoMoreSteps, planVars, stepVars, jobVars, InStep, InAttempt, Unstopped, Current
<1>7. CASE SaveStep /\ UNCHANGED jobVars
  <2>1. /\ pc = "save" /\ res \in Status /\ res' = "none"
        /\ outcome' = Append(outcome, res)
        /\ UNCHANGED <<steps, over, verdict, job>>
        /\ pc' = IF res = "failed" /\ ~Step.cont THEN "finish" ELSE "step"
    BY <1>7 DEF SaveStep, planVars, jobVars
  <2>2. Len(outcome) < Len(steps) /\ Unstopped /\ verdict = "running"
    BY <2>1 DEF InStep
  <2>3. /\ outcome' \in Seq(Status)
        /\ Len(outcome') = Len(outcome) + 1
        /\ \A k \in DOMAIN outcome : outcome'[k] = outcome[k]
        /\ outcome'[Current] = res
        /\ DOMAIN outcome' = DOMAIN outcome \union {Current}
    BY <2>1 DEF Current
  <2>4. Unstopped' <=> ~(res = "failed" /\ ~Step.cont)
    BY <2>1, <2>2, <2>3 DEF Unstopped, Step, Current
  <2>5. OrderInv'
    BY <2>1, <2>2, <2>3, <2>4 DEF InStep, InAttempt
  <2>6. ~Promised!Ended
    BY <2>2 DEF Promised!Ended, Promised!Fatal, Unstopped
  <2>7. Promised!RunStep
    BY <2>1, <2>2, <2>6 DEF Promised!RunStep, Status
  <2> QED
    BY <2>5, <2>7 DEF Promised!Next
<1>8. CASE (AttemptNext \/ PipesClose) /\ UNCHANGED jobVars
  <2>1. InAttempt /\ InStep' /\ UNCHANGED <<steps, over, outcome, verdict, job>>
    BY <1>8 DEF AttemptNext, Backoff, AttemptWebhook, AttemptShell, ShellExits, PipesClose,
         AttemptNotify, ReadChannel, ReadProvider, Deliver, NotifyEnds, NextChannel,
         AttemptEnds, InAttempt, InStep, planVars, jobVars
  <2>2. res' \in Status \union {"none"} /\ (pc' = "save" => res' \in Status)
    BY <1>8 DEF AttemptNext, Backoff, AttemptWebhook, AttemptShell, ShellExits, PipesClose,
         AttemptNotify, ReadChannel, ReadProvider, Deliver, NotifyEnds, NextChannel,
         AttemptEnds, Status
  <2> QED
    BY <2>1, <2>2 DEF InAttempt, InStep, Unstopped
<1>9. CASE (Cancel \/ UNCHANGED runVars) /\ UNCHANGED jobVars
  BY <1>9 DEF Cancel, runVars, planVars, stepVars, jobVars, InStep, InAttempt, Unstopped
<1>10. CASE DeleteJob \/ \E list \in Plans : PatchSteps(list)
  <2>1. job'.steps \in Plans \union {<<>>}
    BY <1>10 DEF DeleteJob, PatchSteps, NoJob
  <2>2. job'.steps \in Seq(StepRecord)
    BY <2>1, PlansAreSequences
  <2>3. UNCHANGED <<steps, over, pc, res, outcome, verdict>>
    BY <1>10 DEF DeleteJob, PatchSteps, runVars, stepVars
  <2> QED
    BY <2>2, <2>3 DEF InStep, InAttempt, Unstopped
<1> QED
  BY <1>1, <1>2, <1>3, <1>4, <1>5, <1>6, <1>7, <1>8, <1>9, <1>10
     DEF Next, RunNext, AttemptNext, vars

\* A run begins before its first step.
LEMMA InitOrder == Init => OrderInv
<1> SUFFICES ASSUME Init PROVE OrderInv
  OBVIOUS
<1>1. steps \in Plans \union {<<>>} /\ job.steps \in Plans \union {<<>>}
  BY DEF Init, NoJob
<1>2. steps \in Seq(StepRecord) /\ job.steps \in Seq(StepRecord)
  BY <1>1, PlansAreSequences
<1> QED
  BY <1>2 DEF Init, OrderInv, InStep, InAttempt, Unstopped, Status

\* A run of steps, by a worker, a trigger or /send, is an execution as promised:
\* the steps in order, nothing after a fatal one, one verdict at the end.
THEOREM RunIsExecution == Spec => ImplementsExecution
<1>1. Init => OrderInv
  BY InitOrder
<1>2. Init => Promised!Init
  BY DEF Init, Promised!Init
<1> QED
  BY <1>1, <1>2, StepKeepsPromise, PTL DEF Spec, ImplementsExecution, Promised!Spec,
     Promised!vars, promisedVars, Begun

------------------------------------------------------------------------------
(* Success reaches every channel *)

Logged(k, a, m) == [step |-> k, attempt |-> a, n |-> m] \in effects
AllReached(k, a) == \A m \in DOMAIN ChannelsOf(steps[k]) : Logged(k, a, m)
LastAttempt(k, a) == \A f \in effects : f.step = k => f.attempt <= a

\* The notification step k is over and did what it should.
Reached(k) ==
  steps[k].kind = "notify" =>
    \E a \in 1..MaxAttempts(steps[k]) : AllReached(k, a) /\ LastAttempt(k, a)

\* What has happened belongs to finished steps, or to attempts of the current one.
EffectsInv ==
  /\ effects \subseteq [step : Nat, attempt : Nat, n : Nat]
  /\ \A f \in effects :
       \/ f.step \in DOMAIN outcome
       \/ f.step = Current /\ InStep /\ f.attempt <= attempt

\* Where the loops over attempts and channels are.
LoopInv ==
  /\ attempt \in Nat /\ n \in Nat /\ errs \in BOOLEAN
  /\ InAttempt => attempt \in 1..MaxAttempts(Step)
  /\ pc = "backoff" => attempt + 1 \in 1..MaxAttempts(Step)
  /\ pc \in {"shell", "pipes"} => Step.kind = "shell"
  /\ pc \in {"channel", "provider", "deliver"} =>
       /\ n >= 1
       /\ ~errs => \A m \in 1..(n - 1) : Logged(Current, attempt, m)
  /\ pc \in {"provider", "deliver"} => n <= Len(ChannelsOf(Step))

ReachInv ==
  /\ \A k \in DOMAIN outcome : outcome[k] = "success" => Reached(k)
  /\ pc = "save" /\ res = "success" => Reached(Current)
  /\ verdict = "success" => Len(outcome) = Len(steps) /\ FailedSteps = {}

\* What the last theorem's proof needs of a state.
SuccessInv == OrderInv /\ EffectsInv /\ LoopInv /\ ReachInv

\* The lists of channels, overridden or not, are sequences.
LEMMA ChannelsAreSequences ==
  ASSUME OrderInv, NEW k \in DOMAIN steps
  PROVE  ChannelsOf(steps[k]) \in Seq(ChannelId)
<1>1. steps[k] \in StepRecord
  BY DEF OrderInv
<1>2. over \in Overrides \/ DOMAIN over = {}
  BY DEF OrderInv
<1> QED
  BY <1>1, <1>2, RunnerAssumption DEF ChannelsOf, StepRecord

\* A step that leaves the finished ones and their effects alone keeps them reached.
LEMMA FinishedStayReached ==
  ASSUME SuccessInv, UNCHANGED <<steps, over, outcome>>,
         effects \subseteq effects',
         \A f \in effects' : f \in effects \/ f.step = Current
  PROVE  \A k \in DOMAIN outcome : outcome[k] = "success" => Reached(k)'
<1> USE DEF SuccessInv
<1>1. SUFFICES ASSUME NEW k \in DOMAIN outcome, Reached(k), steps[k].kind = "notify"
               PROVE  Reached(k)'
  BY DEF ReachInv, Reached
<1>2. PICK a \in 1..MaxAttempts(steps[k]) : AllReached(k, a) /\ LastAttempt(k, a)
  BY <1>1 DEF Reached
<1>3. k # Current
  BY DEF Current, OrderInv
<1>4. AllReached(k, a)' /\ LastAttempt(k, a)'
  BY <1>2, <1>3 DEF AllReached, LastAttempt, Logged, ChannelsOf
<1> QED
  BY <1>2, <1>4 DEF Reached, MaxAttempts

\* An attempt ends well and is the last one, or it may be repeated.
LEMMA AttemptEndsInv ==
  ASSUME SuccessInv, InAttempt, NEW status \in Status, AttemptEnds(status),
         effects' \subseteq effects \union {[step |-> Current, attempt |-> attempt, n |-> 0]},
         effects \subseteq effects',
         status = "success" /\ Step.kind = "notify" =>
           AllReached(Current, attempt) /\ effects' = effects,
         attempt' = attempt, n' \in Nat, errs' \in BOOLEAN,
         UNCHANGED <<steps, over, outcome, verdict>>
  PROVE  EffectsInv' /\ LoopInv' /\ ReachInv'
<1> USE DEF SuccessInv
<1>1. InStep /\ InStep' /\ pc' \in {"save", "backoff"} /\ Current' = Current /\ Step' = Step
  BY DEF AttemptEnds, InStep, InAttempt, Current, Step
<1>2. attempt \in 1..MaxAttempts(Step) /\ MaxAttempts(Step)' = MaxAttempts(Step)
  BY <1>1 DEF LoopInv, MaxAttempts
<1>3. EffectsInv'
  <2>1. Current \in Nat
    BY DEF Current, OrderInv
  <2>2. [step |-> Current, attempt |-> attempt, n |-> 0] \in [step : Nat, attempt : Nat, n : Nat]
    BY <2>1 DEF LoopInv
  <2> QED
    BY <1>1, <1>2, <2>2 DEF EffectsInv
<1>4. LoopInv'
  <2>1. Step \in StepRecord
    BY <1>1 DEF Step, Current, OrderInv
  <2>2. MaxAttempts(Step) \in Nat
    BY <2>1 DEF MaxAttempts, StepRecord
  <2>3. pc' = "backoff" => attempt < MaxAttempts(Step)
    BY <1>2, <2>2 DEF AttemptEnds
  <2>4. attempt + 1 \in 1..MaxAttempts(Step) \/ pc' # "backoff"
    BY <1>2, <2>2, <2>3
  <2>5. attempt' \in Nat /\ n' \in Nat /\ errs' \in BOOLEAN
    BY DEF LoopInv
  <2> QED
    BY <1>1, <1>2, <2>4, <2>5 DEF LoopInv
<1>5. \A k \in DOMAIN outcome : outcome[k] = "success" => Reached(k)'
  BY FinishedStayReached
<1>6. ASSUME res' = "success" PROVE Reached(Current)'
  <2>1. SUFFICES ASSUME Step.kind = "notify" PROVE Reached(Current)'
    BY <1>1 DEF Reached, Step
  <2>2. AllReached(Current, attempt) /\ effects' = effects
    BY <1>6, <2>1 DEF AttemptEnds
  <2>3. LastAttempt(Current, attempt)
    BY DEF LastAttempt, EffectsInv, Current, OrderInv
  <2>4. AllReached(Current, attempt)' /\ LastAttempt(Current, attempt)'
    BY <1>1, <2>2, <2>3 DEF AllReached, LastAttempt, Logged, ChannelsOf
  <2> QED
    BY <1>1, <1>2, <2>4 DEF Reached, Step, MaxAttempts
<1>7. ReachInv'
  BY <1>1, <1>5, <1>6 DEF ReachInv, FailedSteps
<1> QED
  BY <1>3, <1>4, <1>7

\* The next channel is taken up: the one left behind was reached, or has failed.
LEMMA NextChannelInv ==
  ASSUME SuccessInv, pc \in {"channel", "provider", "deliver"}, n <= Len(ChannelsOf(Step)),
         NEW failed \in BOOLEAN, NextChannel(failed),
         effects \subseteq effects',
         effects' \subseteq effects \union {[step |-> Current, attempt |-> attempt, n |-> n]},
         ~failed => [step |-> Current, attempt |-> attempt, n |-> n] \in effects',
         attempt' = attempt,
         UNCHANGED <<steps, over, outcome, verdict>>
  PROVE  EffectsInv' /\ LoopInv' /\ ReachInv'
<1> USE DEF SuccessInv
<1>1. /\ InStep /\ InStep' /\ InAttempt /\ pc' = "channel"
      /\ Current' = Current /\ Step' = Step /\ n' = n + 1 /\ errs' = (errs \/ failed)
      /\ MaxAttempts(Step)' = MaxAttempts(Step)
  BY DEF NextChannel, InStep, InAttempt, Current, Step, MaxAttempts
<1>2. EffectsInv'
  <2>1. [step |-> Current, attempt |-> attempt, n |-> n] \in [step : Nat, attempt : Nat, n : Nat]
    BY DEF LoopInv, Current, OrderInv
  <2> QED
    BY <1>1, <2>1 DEF EffectsInv, LoopInv
<1>3. LoopInv'
  <2>1. n' \in Nat /\ n' >= 1 /\ n' - 1 = n /\ errs' \in BOOLEAN
    BY <1>1 DEF LoopInv
  <2>2. ~errs' => \A m \in 1..n : Logged(Current, attempt, m)'
    <3>1. SUFFICES ASSUME ~errs, ~failed, NEW m \in 1..n
                   PROVE  Logged(Current, attempt, m)'
      BY <1>1
    <3>2. CASE m = n
      BY <1>1, <3>1, <3>2 DEF Logged
    <3>3. CASE m # n
      <4>1. Logged(Current, attempt, m)
        BY <3>1, <3>3 DEF LoopInv
      <4> QED
        BY <1>1, <4>1 DEF Logged
    <3> QED
      BY <3>2, <3>3
  <2> QED
    BY <1>1, <2>1, <2>2 DEF LoopInv
<1>4. ReachInv'
  BY <1>1, FinishedStayReached DEF ReachInv, FailedSteps
<1> QED
  BY <1>2, <1>3, <1>4

\* Steps between the loops, or into them, that have no effect.
LEMMA QuietKeepsSuccess ==
  ASSUME SuccessInv, UNCHANGED <<steps, over, outcome, effects, verdict>>,
         ~InStep, ~(pc' = "save" /\ res' = "success"), LoopInv'
  PROVE  EffectsInv' /\ ReachInv'
<1> USE DEF SuccessInv
<1>1. EffectsInv'
  BY DEF EffectsInv, Current
<1>2. ReachInv'
  BY FinishedStayReached DEF ReachInv, FailedSteps
<1> QED
  BY <1>1, <1>2

\* The record of a step: its effects now belong to a finished one.
LEMMA SaveStepInv ==
  ASSUME SuccessInv, SaveStep
  PROVE  EffectsInv' /\ LoopInv' /\ ReachInv'
<1> USE DEF SuccessInv
<1>1. /\ pc = "save" /\ pc' \in {"step", "finish"} /\ InStep /\ verdict = "running"
      /\ attempt' = 0 /\ n' = 0 /\ errs' = FALSE
      /\ outcome' = Append(outcome, res) /\ res \in Status
      /\ UNCHANGED <<steps, over, effects, verdict>>
  BY DEF SaveStep, planVars, OrderInv, InStep
<1>2. /\ DOMAIN outcome' = DOMAIN outcome \union {Current}
      /\ \A k \in DOMAIN outcome : outcome'[k] = outcome[k]
      /\ outcome'[Current] = res
  BY <1>1 DEF Current, OrderInv
<1>3. EffectsInv'
  BY <1>1, <1>2 DEF EffectsInv
<1>4. LoopInv'
  BY <1>1 DEF LoopInv, InAttempt
<1>5. ASSUME NEW k \in DOMAIN outcome', outcome'[k] = "success" PROVE Reached(k)'
  <2>1. Reached(k)
    BY <1>1, <1>2, <1>5 DEF ReachInv
  <2> QED
    BY <1>1, <2>1 DEF Reached, MaxAttempts, AllReached, LastAttempt, Logged, ChannelsOf
<1>6. ReachInv'
  BY <1>1, <1>5 DEF ReachInv
<1> QED
  BY <1>3, <1>4, <1>6

\* The steps of the goroutine outside the attempts.
LEMMA OuterStepsInv ==
  ASSUME SuccessInv, LoadRow \/ LoadSteps \/ Abandon \/ Finish \/ BeginStep \/ NoMoreSteps
  PROVE  EffectsInv' /\ LoopInv' /\ ReachInv'
<1> USE DEF SuccessInv
<1>1. CASE LoadRow \/ NoMoreSteps
  <2>1. /\ ~InStep /\ pc' \in {"abandon", "steps", "finish"}
        /\ UNCHANGED <<steps, over, outcome, effects, verdict, attempt, n, errs>>
    BY <1>1 DEF LoadRow, NoMoreSteps, planVars, stepVars, InStep, InAttempt
  <2>2. LoopInv'
    BY <2>1 DEF LoopInv, InAttempt
  <2> QED
    BY <2>1, <2>2, QuietKeepsSuccess
<1>2. CASE Abandon \/ Finish
  <2>1. /\ ~InStep /\ pc' = "done" /\ pc \in {"abandon", "finish"}
        /\ UNCHANGED <<steps, over, outcome, effects, attempt, n, errs>>
    BY <1>2 DEF Abandon, Finish, Finished, planVars, stepVars, InStep, InAttempt
  <2>2. EffectsInv' /\ LoopInv'
    BY <2>1 DEF EffectsInv, LoopInv, InAttempt, Current
  <2>3. \A k \in DOMAIN outcome : outcome[k] = "success" => Reached(k)'
    BY <2>1, FinishedStayReached
  <2>4. ASSUME verdict' = "success" PROVE Len(outcome) = Len(steps) /\ FailedSteps = {}
    <3>1. CASE Abandon
      BY <1>2, <2>1, <2>4, <3>1 DEF Abandon, Finished, OrderInv
    <3>2. CASE Finish
      <4>1. pc = "finish" /\ FailedSteps = {}
        BY <2>1, <2>4, <3>2 DEF Finish, Finished, OrderInv
      <4>2. Unstopped
        BY <4>1 DEF Unstopped, FailedSteps
      <4> QED
        BY <4>1, <4>2 DEF OrderInv
    <3> QED
      BY <1>2, <3>1, <3>2
  <2> QED
    BY <2>1, <2>2, <2>3, <2>4 DEF ReachInv, FailedSteps
<1>3. CASE LoadSteps
  <2>1. /\ ~InStep /\ outcome = <<>> /\ verdict # "success" /\ pc' \in {"step", "abandon"}
        /\ UNCHANGED <<over, outcome, effects, verdict, attempt, n, errs>>
    BY <1>3 DEF LoadSteps, planVars, stepVars, InStep, InAttempt, OrderInv
  <2>2. effects = {}
    BY <2>1 DEF EffectsInv
  <2>3. EffectsInv' /\ LoopInv'
    BY <2>1, <2>2 DEF EffectsInv, LoopInv, InAttempt
  <2> QED
    BY <2>1, <2>3 DEF ReachInv
<1>4. CASE BeginStep
  <2>1. /\ pc = "step" /\ ~InStep /\ ~(pc' = "save" /\ res' = "success")
        /\ pc' \in {"save", "attempt"} /\ attempt' \in {0, 1} /\ (pc' = "attempt" => attempt' = 1)
        /\ UNCHANGED <<steps, over, outcome, effects, verdict, n, errs>>
        /\ Current \in DOMAIN steps /\ Current' = Current
    BY <1>4 DEF BeginStep, planVars, InStep, InAttempt, Current, OrderInv
  <2>2. 1 \in 1..MaxAttempts(Step)
    <3>1. Step \in StepRecord
      BY <2>1 DEF Step, OrderInv
    <3>2. MaxAttempts(Step) \in Nat /\ MaxAttempts(Step) >= 1
      BY <3>1 DEF MaxAttempts, StepRecord
    <3> QED
      BY <3>2
  <2>3. Step' = Step /\ MaxAttempts(Step)' = MaxAttempts(Step)
    BY <2>1 DEF Step, MaxAttempts
  <2>4. LoopInv'
    <3>1. attempt' \in Nat /\ n' \in Nat /\ errs' \in BOOLEAN
      BY <2>1 DEF LoopInv
    <3>2. InAttempt' => attempt' \in 1..MaxAttempts(Step)'
      BY <2>1, <2>2, <2>3 DEF InAttempt
    <3> QED
      BY <2>1, <3>1, <3>2 DEF LoopInv
  <2> QED
    BY <2>1, <2>4, QuietKeepsSuccess
<1> QED
  BY <1>1, <1>2, <1>3, <1>4

\* The steps within an attempt that neither end it nor a channel.
LEMMA InnerStepsInv ==
  ASSUME SuccessInv, InAttempt,
         pc' \in {"attempt", "shell", "pipes", "channel", "provider", "deliver"},
         UNCHANGED <<steps, over, outcome, verdict>>,
         effects \subseteq effects',
         effects' \subseteq effects \union {[step |-> Current, attempt |-> attempt, n |-> 0]},
         attempt' \in 1..MaxAttempts(Step), attempt' >= attempt,
         n' \in Nat, errs' \in BOOLEAN,
         pc' \in {"shell", "pipes"} => Step.kind = "shell",
         pc' \in {"provider", "deliver"} => n' <= Len(ChannelsOf(Step)),
         pc' \in {"channel", "provider", "deliver"} =>
           n' >= 1 /\ (~errs' => \A m \in 1..(n' - 1) :
                         [step |-> Current, attempt |-> attempt', n |-> m] \in effects)
  PROVE  EffectsInv' /\ LoopInv' /\ ReachInv'
<1> USE DEF SuccessInv
<1>1. /\ InStep /\ InStep' /\ Current' = Current /\ Step' = Step
      /\ MaxAttempts(Step)' = MaxAttempts(Step) /\ ChannelsOf(Step)' = ChannelsOf(Step)
  BY DEF InStep, InAttempt, Current, Step, MaxAttempts, ChannelsOf
<1>2. MaxAttempts(Step) \in Nat /\ attempt' \in Nat /\ attempt \in Nat
  <2>1. Step \in StepRecord
    BY <1>1 DEF Step, Current, OrderInv
  <2> QED
    BY <2>1 DEF MaxAttempts, StepRecord, LoopInv
<1>3. EffectsInv'
  <2>1. [step |-> Current, attempt |-> attempt, n |-> 0] \in [step : Nat, attempt : Nat, n : Nat]
    BY <1>2 DEF Current, OrderInv
  <2> QED
    BY <1>1, <1>2, <2>1 DEF EffectsInv
<1>4. LoopInv'
  BY <1>1, <1>2 DEF LoopInv, Logged
<1>5. ReachInv'
  BY <1>1, FinishedStayReached DEF ReachInv, FailedSteps
<1> QED
  BY <1>3, <1>4, <1>5

\* The steps within an attempt.
LEMMA AttemptStepsInv ==
  ASSUME SuccessInv, AttemptNext \/ PipesClose
  PROVE  EffectsInv' /\ LoopInv' /\ ReachInv'
<1> USE DEF SuccessInv
<1>1. InAttempt /\ UNCHANGED <<steps, over, outcome, verdict>>
  BY DEF AttemptNext, Backoff, AttemptWebhook, AttemptShell, ShellExits, PipesClose,
         AttemptNotify, ReadChannel, ReadProvider, Deliver, NotifyEnds, InAttempt, planVars
<1>2. /\ attempt \in 1..MaxAttempts(Step) /\ n \in Nat /\ errs \in BOOLEAN /\ attempt \in Nat
      /\ InStep
  BY <1>1 DEF LoopInv, InStep
<1>3. CASE Backoff
  <2>1. /\ attempt' = attempt + 1 /\ pc' = "attempt" /\ UNCHANGED <<n, errs, effects>>
        /\ attempt' \in 1..MaxAttempts(Step)
    BY <1>3 DEF Backoff, LoopInv
  <2>2. attempt' >= attempt
    BY <1>2, <2>1
  <2> QED
    BY <1>1, <1>2, <2>1, <2>2, InnerStepsInv
<1>4. CASE AttemptWebhook \/ AttemptShell \/ ShellExits \/ PipesClose
  <2>1. /\ effects' \subseteq effects \union {[step |-> Current, attempt |-> attempt, n |-> 0]}
        /\ effects \subseteq effects' /\ UNCHANGED <<attempt, n, errs>>
    BY <1>4 DEF AttemptWebhook, AttemptShell, ShellExits, PipesClose, Effect
  <2>2. CASE \E status \in Status : AttemptEnds(status)
    <3>1. PICK status \in Status : AttemptEnds(status)
      BY <2>2
    <3>2. Step.kind # "notify"
      BY <1>4 DEF AttemptWebhook, AttemptShell, ShellExits, PipesClose, LoopInv
    <3> QED
      BY <1>1, <1>2, <2>1, <3>1, <3>2, AttemptEndsInv
  <2>3. CASE pc' \in {"shell", "pipes"}
    <3>1. attempt' \in 1..MaxAttempts(Step) /\ attempt' >= attempt
      BY <1>2, <2>1
    <3>2. errs' \in BOOLEAN
      BY <1>2, <2>1, Zenon
    <3>3. Step.kind = "shell"
      BY <1>4, <2>3 DEF AttemptWebhook, AttemptShell, ShellExits, PipesClose, AttemptEnds, LoopInv
    <3> QED
      BY <1>1, <1>2, <2>1, <2>3, <3>1, <3>2, <3>3, InnerStepsInv
  <2> QED
    BY <1>4, <2>2, <2>3 DEF AttemptWebhook, AttemptShell, ShellExits, PipesClose, Status
<1>5. CASE AttemptNotify
  <2>1. UNCHANGED <<attempt, effects>>
    BY <1>5 DEF AttemptNotify
  <2>2. CASE pc' = "channel" /\ n' = 1 /\ errs' = FALSE
    <3>1. attempt' \in 1..MaxAttempts(Step) /\ attempt' >= attempt
      BY <1>2, <2>1
    <3>2. \A m \in 1..(n' - 1) : [step |-> Current, attempt |-> attempt', n |-> m] \in effects
      BY <2>2
    <3>3. errs' \in BOOLEAN
      BY <2>2, Zenon
    <3>4. /\ n' \in Nat /\ n' >= 1
          /\ pc' \in {"attempt", "channel", "provider", "deliver"}
          /\ pc' \notin {"shell", "pipes"}
          /\ pc' \in {"provider", "deliver"} => n' <= Len(ChannelsOf(Step))
      BY <2>2
    <3> QED
      BY <1>1, <2>1, <3>1, <3>2, <3>3, <3>4, InnerStepsInv
  <2>3. CASE AttemptEnds("failed") /\ UNCHANGED <<n, errs>>
    BY <1>1, <1>2, <2>1, <2>3, AttemptEndsInv DEF Status
  <2> QED
    BY <1>5, <2>2, <2>3 DEF AttemptNotify
<1>6. CASE ReadChannel
  <2>1. /\ pc = "channel" /\ n <= Len(ChannelsOf(Step)) /\ UNCHANGED <<attempt, effects>>
        /\ \/ pc' \in {"deliver", "provider"} /\ UNCHANGED <<n, errs>>
           \/ NextChannel(TRUE)
    BY <1>6 DEF ReadChannel
  <2>2. CASE pc' \in {"deliver", "provider"} /\ UNCHANGED <<n, errs>>
    BY <1>1, <1>2, <2>1, <2>2, InnerStepsInv DEF LoopInv, Logged
  <2>3. CASE NextChannel(TRUE)
    BY <1>1, <2>1, <2>3, NextChannelInv
  <2> QED
    BY <2>1, <2>2, <2>3
<1>7. CASE ReadProvider
  <2>1. /\ pc = "provider" /\ n <= Len(ChannelsOf(Step)) /\ UNCHANGED <<attempt, effects>>
        /\ \/ pc' = "deliver" /\ UNCHANGED <<n, errs>>
           \/ NextChannel(TRUE)
    BY <1>7 DEF ReadProvider, LoopInv
  <2>2. CASE pc' = "deliver" /\ UNCHANGED <<n, errs>>
    BY <1>1, <1>2, <2>1, <2>2, InnerStepsInv DEF LoopInv, Logged
  <2>3. CASE NextChannel(TRUE)
    BY <1>1, <2>1, <2>3, NextChannelInv
  <2> QED
    BY <2>1, <2>2, <2>3
<1>8. CASE Deliver
  <2>1. /\ pc = "deliver" /\ n <= Len(ChannelsOf(Step)) /\ UNCHANGED attempt
        /\ effects \subseteq effects'
        /\ effects' \subseteq effects \union {[step |-> Current, attempt |-> attempt, n |-> n]}
    BY <1>8 DEF Deliver, LoopInv, Effect
  <2>2. PICK failed \in BOOLEAN :
          /\ NextChannel(failed)
          /\ ~failed => [step |-> Current, attempt |-> attempt, n |-> n] \in effects'
    BY <1>8 DEF Deliver, Effect
  <2> QED
    BY <1>1, <2>1, <2>2, NextChannelInv
<1>9. CASE NotifyEnds
  <2>1. PICK status \in Status : status = (IF errs THEN "failed" ELSE "success")
    BY DEF Status
  <2>2. /\ AttemptEnds(status) /\ pc = "channel" /\ n > Len(ChannelsOf(Step))
        /\ UNCHANGED <<attempt, n, errs, effects>>
    BY <1>9, <2>1 DEF NotifyEnds
  <2>3. status = "success" => AllReached(Current, attempt)
    <3>1. SUFFICES ASSUME ~errs PROVE AllReached(Current, attempt)
      BY <2>1
    <3>2. \A m \in 1..(n - 1) : Logged(Current, attempt, m)
      BY <2>2, <3>1 DEF LoopInv
    <3>3. Current \in DOMAIN steps
      BY <1>2 DEF Current, OrderInv
    <3>4. ChannelsOf(Step) \in Seq(ChannelId)
      BY <3>3, ChannelsAreSequences DEF Step
    <3>5. DOMAIN ChannelsOf(Step) \subseteq 1..(n - 1)
      BY <1>2, <2>2, <3>4
    <3> QED
      BY <3>2, <3>5 DEF AllReached, Step
  <2> QED
    BY <1>1, <1>2, <2>2, <2>3, AttemptEndsInv
<1> QED
  BY <1>3, <1>4, <1>5, <1>6, <1>7, <1>8, <1>9 DEF AttemptNext

\* Every step keeps what the theorem needs.
LEMMA StepKeepsSuccess ==
  ASSUME SuccessInv, [Next]_vars
  PROVE  SuccessInv'
<1> USE DEF SuccessInv
<1>1. OrderInv'
  BY StepKeepsPromise
<1>2. CASE LoadRow \/ LoadSteps \/ Abandon \/ Finish \/ BeginStep \/ NoMoreSteps
  BY <1>1, <1>2, OuterStepsInv
<1>3. CASE SaveStep
  BY <1>1, <1>3, SaveStepInv
<1>4. CASE AttemptNext \/ PipesClose
  BY <1>1, <1>4, AttemptStepsInv
<1>5. CASE Cancel \/ UNCHANGED runVars
  <2>1. UNCHANGED <<steps, over, pc, attempt, res, n, errs, outcome, effects, verdict>>
    BY <1>5 DEF Cancel, runVars, planVars, stepVars
  <2>2. EffectsInv'
    BY <2>1 DEF EffectsInv, InStep, InAttempt, Current
  <2>3. LoopInv'
    BY <2>1 DEF LoopInv, InAttempt, Current, Step, MaxAttempts, ChannelsOf, Logged
  <2>4. \A k : Reached(k) => Reached(k)'
    BY <2>1 DEF Reached, MaxAttempts, AllReached, LastAttempt, Logged, ChannelsOf
  <2>5. ReachInv'
    BY <2>1, <2>4 DEF ReachInv, FailedSteps, Current
  <2> QED
    BY <1>1, <2>2, <2>3, <2>5
<1> QED
  BY <1>2, <1>3, <1>4, <1>5 DEF Next, RunNext, AttemptNext, DeleteJob, PatchSteps, vars

\* And it holds at first.
LEMMA InitSuccess == Init => SuccessInv
<1> SUFFICES ASSUME Init PROVE SuccessInv
  OBVIOUS
<1>1. OrderInv
  BY InitOrder
<1>2. EffectsInv
  BY DEF Init, EffectsInv
<1>3. /\ attempt = 0 /\ n = 0 /\ errs = FALSE /\ pc \in {"step", "load"}
      /\ outcome = <<>> /\ verdict = "running"
  BY DEF Init
<1>4. LoopInv
  BY <1>3 DEF LoopInv, InAttempt
<1>5. ReachInv
  BY <1>3 DEF ReachInv
<1> QED
  BY <1>1, <1>2, <1>4, <1>5 DEF SuccessInv

\* An execution that is reported as a success has delivered every notification to
\* every channel in one attempt, its last, whatever channels, providers, notifiers,
\* the store and the contexts did in the meantime.
THEOREM SuccessIsComplete == Spec => []SuccessReachesEveryChannel
<1>1. Init => SuccessInv
  BY InitSuccess
<1>2. SuccessInv => SuccessReachesEveryChannel
  <2> SUFFICES ASSUME SuccessInv, verdict = "success",
                      NEW k \in DOMAIN steps, steps[k].kind = "notify"
               PROVE  \E a \in 1..MaxAttempts(steps[k]) : AllReached(k, a) /\ LastAttempt(k, a)
    BY DEF SuccessReachesEveryChannel, AllReached, LastAttempt, Logged
  <2>1. k \in DOMAIN outcome /\ outcome[k] = "success"
    BY DEF SuccessInv, ReachInv, OrderInv, FailedSteps, Status
  <2> QED
    BY <2>1 DEF SuccessInv, ReachInv, Reached
<1> QED
  BY <1>1, <1>2, StepKeepsSuccess, PTL DEF Spec

------------------------------------------------------------------------------
(* The rows, the lists and the records of a run *)

\* The rows of a job that is there, and of one that is not.
LEMMA JobRows ==
  /\ NoJob \in [live : BOOLEAN, steps : Plans \union {<<>>}]
  /\ \A list \in Plans :
       [live |-> TRUE, steps |-> list] \in [live : BOOLEAN, steps : Plans \union {<<>>}]
<1> DEFINE none == <<>>
           Lists == Plans \union {none}
<1>1. none \in Lists /\ Plans \subseteq Lists
  OBVIOUS
<1> HIDE DEF none, Lists
<1>2. /\ [live |-> FALSE, steps |-> none] \in [live : BOOLEAN, steps : Lists]
      /\ \A list \in Plans : [live |-> TRUE, steps |-> list] \in [live : BOOLEAN, steps : Lists]
  BY <1>1
<1> QED
  BY <1>2, Zenon DEF NoJob, none, Lists

\* Every edit of the tables leaves rows in them.
LEMMA EditsKeepTables ==
  ASSUME ChannelsTypeOK, EditTables
  PROVE  ChannelsTypeOK'
<1> USE ChannelsAssumption DEF ChannelsTypeOK, Edit
<1>1. NoChannel \in ChannelRow
  BY DEF NoChannel, ChannelRow
<1>2. ASSUME NEW p \in ProviderId, DeleteProvider(p) PROVE ChannelsTypeOK'
  BY <1>2 DEF DeleteProvider
<1>3. ASSUME NEW p \in ProviderId, NEW t \in Type, CreateProvider(p, t) PROVE ChannelsTypeOK'
  BY <1>3 DEF CreateProvider
<1>4. ASSUME NEW c \in ChannelId, DeleteChannel(c) PROVE ChannelsTypeOK'
  BY <1>1, <1>4 DEF DeleteChannel
<1>5. ASSUME NEW c \in ChannelId, NEW t \in Type, NEW p \in ProviderId \union {NoProvider},
             CheckChannel(c, t, p)
      PROVE  ChannelsTypeOK'
  BY <1>5 DEF CheckChannel
<1>6. ASSUME NEW new \in creating, InsertChannel(new) PROVE ChannelsTypeOK'
  <2>1. /\ new.id \in ChannelId /\ creating' = creating \ {new}
        /\ [type |-> new.type, provider |-> new.provider] \in ChannelRow
    BY <1>6 DEF InsertChannel, ChannelRow
  <2> QED
    BY <1>6, <2>1 DEF InsertChannel
<1> QED
  BY <1>2, <1>3, <1>4, <1>5, <1>6 DEF EditTables

\* What the type invariant says of the run, beyond what SuccessInv does.
FieldsInv ==
  /\ ChannelsTypeOK
  /\ job \in [live : BOOLEAN, steps : Plans \union {<<>>}]
  /\ had \subseteq Plans
  /\ mode \in {"cron", "manual", "send"}
  /\ ctx \in {"live", "cancelled"}
  /\ steps \in Plans \union {<<>>}
  /\ dest \in ChannelRow
  /\ pc \in {"load", "steps", "abandon", "step", "attempt", "shell", "pipes", "channel",
             "provider", "deliver", "backoff", "save", "finish", "done"}
  /\ verdict \in {"running"} \union Status

\* The steps of the goroutine keep the fields in their sets.
LEMMA RunKeepsFields ==
  ASSUME SuccessInv, FieldsInv, RunNext \/ Cancel \/ PipesClose, UNCHANGED <<tableVars, jobVars>>
  PROVE  FieldsInv'
<1> USE DEF FieldsInv
<1>1. ChannelsTypeOK' /\ UNCHANGED <<channels, providers, creating, edits, job, had>>
  BY DEF tableVars, jobVars, ChannelsTypeOK
<1>2. CASE LoadRow \/ LoadSteps \/ Abandon \/ Finish \/ NoMoreSteps \/ Cancel
  BY <1>1, <1>2 DEF LoadRow, LoadSteps, Abandon, Finish, Finished, NoMoreSteps, Cancel,
     planVars, stepVars, Status
<1>3. CASE BeginStep \/ Backoff \/ AttemptWebhook \/ AttemptShell \/ ShellExits \/ PipesClose
           \/ AttemptNotify \/ NotifyEnds \/ ReadProvider \/ Deliver
  BY <1>1, <1>3 DEF BeginStep, Backoff, AttemptWebhook, AttemptShell, ShellExits, PipesClose,
     AttemptNotify, NotifyEnds, ReadProvider, Deliver, NextChannel, AttemptEnds, planVars
<1>4. CASE SaveStep
  <2>1. NoChannel \in ChannelRow
    BY DEF NoChannel, ChannelRow
  <2> QED
    BY <1>1, <1>4, <2>1 DEF SaveStep, planVars
<1>5. CASE ReadChannel
  <2>1. Current \in DOMAIN steps /\ n \in Nat
    BY <1>5 DEF ReadChannel, SuccessInv, OrderInv, LoopInv, Current, InStep, InAttempt
  <2>2. n >= 1 /\ n <= Len(ChannelsOf(Step)) /\ ChannelsOf(Step) \in Seq(ChannelId)
    BY <1>5, <2>1, ChannelsAreSequences DEF ReadChannel, SuccessInv, LoopInv, Step
  <2>3. channels[ChannelsOf(Step)[n]] \in ChannelRow
    BY <2>1, <2>2 DEF ChannelsTypeOK
  <2> QED
    BY <1>1, <1>5, <2>3 DEF ReadChannel, NextChannel, planVars
<1> QED
  BY <1>2, <1>3, <1>4, <1>5 DEF RunNext, AttemptNext

\* And so do the edits.
LEMMA StepKeepsFields ==
  ASSUME SuccessInv, FieldsInv, [Next]_vars
  PROVE  FieldsInv'
<1> USE DEF FieldsInv
<1>1. CASE UNCHANGED vars
  BY <1>1 DEF vars, tableVars, jobVars, runVars, planVars, stepVars, ChannelsTypeOK
<1>2. CASE (RunNext \/ Cancel \/ PipesClose) /\ UNCHANGED <<tableVars, jobVars>>
  BY <1>2, RunKeepsFields
<1>3. CASE EditTables /\ UNCHANGED <<jobVars, runVars>>
  <2>1. ChannelsTypeOK'
    BY <1>3, EditsKeepTables
  <2> QED
    BY <1>3, <2>1 DEF jobVars, runVars, planVars, stepVars
<1>4. CASE DeleteJob \/ \E list \in Plans : PatchSteps(list)
  <2>1. /\ UNCHANGED <<channels, providers, creating, runVars>> /\ edits < MaxEdits
        /\ edits' = edits + 1 /\ edits \in 0..MaxEdits
    BY <1>4 DEF DeleteJob, PatchSteps, Edit, ChannelsTypeOK
  <2>2. ChannelsTypeOK'
    BY <2>1, ChannelsAssumption DEF ChannelsTypeOK
  <2>3. job' \in [live : BOOLEAN, steps : Plans \union {<<>>}] /\ had' \subseteq Plans
    <3>1. CASE DeleteJob
      BY <3>1, JobRows DEF DeleteJob
    <3>2. CASE \E list \in Plans : PatchSteps(list)
      BY <3>2, JobRows DEF PatchSteps
    <3> QED
      BY <1>4, <3>1, <3>2
  <2> QED
    BY <2>1, <2>2, <2>3 DEF runVars, planVars, stepVars
<1> QED
  BY <1>1, <1>2, <1>3, <1>4 DEF Next

------------------------------------------------------------------------------
(* Whole lists *)

\* The job is there with a list it has had, or has no steps.
WholeInv ==
  /\ IF job.live THEN job.steps \in had ELSE job.steps = <<>>
  /\ RunsWholeList

\* Every step keeps the lists whole.
LEMMA StepKeepsWhole ==
  ASSUME WholeInv, [Next]_vars
  PROVE  WholeInv'
<1> USE DEF WholeInv, RunsWholeList
<1>1. CASE LoadSteps /\ UNCHANGED jobVars
  BY <1>1 DEF LoadSteps, jobVars
<1>2. CASE (LoadRow \/ Abandon \/ Finish) /\ UNCHANGED jobVars
  BY <1>2 DEF LoadRow, Abandon, Finish, Finished, jobVars, planVars
<1>3. CASE (BeginStep \/ NoMoreSteps \/ SaveStep) /\ UNCHANGED jobVars
  BY <1>3 DEF BeginStep, NoMoreSteps, SaveStep, jobVars, planVars
<1>4. CASE (AttemptNext \/ PipesClose) /\ UNCHANGED jobVars
  <2>1. InAttempt /\ UNCHANGED <<mode, steps, job, had>>
    BY <1>4 DEF AttemptNext, Backoff, AttemptWebhook, AttemptShell, ShellExits, PipesClose,
         AttemptNotify, ReadChannel, ReadProvider, Deliver, NotifyEnds, InAttempt,
         jobVars, planVars
  <2> QED
    BY <2>1 DEF InAttempt
<1>5. CASE (Cancel \/ UNCHANGED runVars) /\ UNCHANGED jobVars
  BY <1>5 DEF Cancel, runVars, jobVars, planVars
<1>6. CASE DeleteJob
  BY <1>6 DEF DeleteJob, NoJob, runVars
<1>7. CASE \E list \in Plans : PatchSteps(list)
  BY <1>7 DEF PatchSteps, runVars
<1> QED
  BY <1>1, <1>2, <1>3, <1>4, <1>5, <1>6, <1>7 DEF Next, RunNext, vars

\* A run of a job runs one whole list the job had, whatever PATCH and DELETE do
\* between the two reads of GetJob and afterwards.
THEOREM WholeLists == Spec => []RunsWholeList
<1>1. Init => WholeInv
  BY DEF Init, WholeInv, RunsWholeList, NoJob
<1>2. WholeInv => RunsWholeList
  BY DEF WholeInv
<1> QED
  BY <1>1, <1>2, StepKeepsWhole, PTL DEF Spec

------------------------------------------------------------------------------
(* Effects *)

\* Effects are within the retries of their steps, and only the last outcome may be
\* that of a fatal step.
AllowedInv ==
  /\ \A f \in effects : f.step \in DOMAIN steps /\ f.attempt <= MaxAttempts(steps[f.step])
  /\ \A k \in 1..(Len(outcome) - 1) : outcome[k] = "failed" => steps[k].cont

\* New effects come from the current attempt.
LEMMA EffectsOfAttempts ==
  ASSUME SuccessInv, [Next]_vars, NEW f \in effects', f \notin effects
  PROVE  InAttempt /\ f.step = Current /\ f.attempt = attempt
<1>1. CASE AttemptWebhook \/ AttemptShell \/ Deliver
  BY <1>1 DEF AttemptWebhook, AttemptShell, Deliver, Effect, InAttempt, NextChannel
<1>2. CASE ~AttemptWebhook /\ ~AttemptShell /\ ~Deliver
  BY <1>2 DEF Next, RunNext, AttemptNext, Backoff, ShellExits, PipesClose, AttemptNotify,
     ReadChannel, ReadProvider, NotifyEnds, LoadRow, LoadSteps, Abandon, Finish, Finished,
     BeginStep, NoMoreSteps, SaveStep, Cancel, DeleteJob, PatchSteps, runVars, vars
<1> QED
  BY <1>1, <1>2

\* The steps change only while there is nothing they could change.
LEMMA OutcomesGrow ==
  ASSUME SuccessInv, [Next]_vars
  PROVE  \/ UNCHANGED <<steps, outcome>>
         \/ outcome = <<>> /\ outcome' = <<>> /\ effects = {} /\ effects' = {}
         \/ SaveStep
<1>1. CASE LoadSteps
  <2>1. outcome = <<>> /\ outcome' = <<>> /\ effects' = effects /\ ~InStep
    BY <1>1 DEF LoadSteps, SuccessInv, OrderInv, InStep, InAttempt
  <2> QED
    BY <2>1 DEF SuccessInv, EffectsInv
<1>2. CASE ~LoadSteps /\ ~SaveStep
  BY <1>2 DEF Next, RunNext, AttemptNext, Backoff, ShellExits, PipesClose, AttemptNotify,
     AttemptWebhook, AttemptShell, Deliver, ReadChannel, ReadProvider, NotifyEnds, LoadRow,
     Abandon, Finish, Finished, BeginStep, NoMoreSteps, Cancel, DeleteJob, PatchSteps,
     runVars, planVars, vars
<1> QED
  BY <1>1, <1>2

\* Every step keeps the effects allowed.
LEMMA StepKeepsAllowed ==
  ASSUME SuccessInv, AllowedInv, [Next]_vars
  PROVE  AllowedInv'
<1> USE DEF AllowedInv
<1>1. InAttempt => Current \in DOMAIN steps /\ attempt <= MaxAttempts(Step)
  BY DEF SuccessInv, OrderInv, LoopInv, InStep, Current
<1>2. CASE UNCHANGED <<steps, outcome>>
  <2>1. ASSUME NEW f \in effects'
        PROVE  f.step \in DOMAIN steps /\ f.attempt <= MaxAttempts(steps[f.step])
    <3>1. CASE f \in effects
      BY <3>1
    <3>2. CASE f \notin effects
      <4>1. InAttempt /\ f.step = Current /\ f.attempt = attempt
        BY <2>1, <3>2, EffectsOfAttempts
      <4> QED
        BY <1>1, <4>1 DEF Step
    <3> QED
      BY <3>1, <3>2
  <2> QED
    BY <1>2, <2>1 DEF MaxAttempts
<1>3. CASE outcome' = <<>> /\ effects' = {}
  BY <1>3
<1>4. CASE SaveStep
  <2>1. /\ pc = "save" /\ outcome' = Append(outcome, res) /\ UNCHANGED <<steps, effects>>
        /\ outcome \in Seq(Status) /\ res \in Status
    BY <1>4 DEF SaveStep, planVars, SuccessInv, OrderInv
  <2>2. Unstopped
    BY <2>1 DEF SuccessInv, OrderInv, InStep
  <2> QED
    BY <2>1, <2>2 DEF Unstopped, MaxAttempts
<1> QED
  BY <1>2, <1>3, <1>4, OutcomesGrow

\* No step touches the world after a fatal one, nor more often than its retries allow.
THEOREM EffectsStayAllowed == Spec => []EffectsAreAllowed
<1>1. Init => SuccessInv /\ AllowedInv
  BY InitSuccess DEF Init, AllowedInv
<1>2. SuccessInv /\ AllowedInv => EffectsAreAllowed
  <2> SUFFICES ASSUME SuccessInv, AllowedInv, NEW f \in effects
               PROVE  /\ f.step \in DOMAIN steps
                      /\ f.attempt <= (IF steps[f.step].retry < 2
                                       THEN 1 ELSE steps[f.step].retry)
                      /\ \A k \in 1..(f.step - 1) : outcome[k] = "failed" => steps[k].cont
    BY DEF EffectsAreAllowed
  <2>1. f.step \in DOMAIN steps /\ f.attempt <= MaxAttempts(steps[f.step])
    BY DEF AllowedInv
  <2>2. steps[f.step] \in StepRecord
    BY <2>1 DEF SuccessInv, OrderInv
  <2>3. f.attempt <= (IF steps[f.step].retry < 2 THEN 1 ELSE steps[f.step].retry)
    BY <2>1, <2>2 DEF MaxAttempts, StepRecord
  <2>4. ASSUME NEW k \in 1..(f.step - 1), outcome[k] = "failed" PROVE steps[k].cont
    <3>1. f.step \in Nat /\ outcome \in Seq(Status)
      BY <2>1 DEF SuccessInv, OrderInv
    <3>2. CASE f.step \in DOMAIN outcome
      BY <2>4, <3>1, <3>2 DEF AllowedInv
    <3>3. CASE f.step = Current /\ InStep
      <4>1. k \in DOMAIN outcome /\ Unstopped
        BY <3>1, <3>3 DEF Current, SuccessInv, OrderInv
      <4> QED
        BY <2>4, <4>1 DEF Unstopped
    <3> QED
      BY <3>2, <3>3 DEF SuccessInv, EffectsInv
  <2> QED
    BY <2>1, <2>3, <2>4
<1> QED
  BY <1>1, <1>2, StepKeepsSuccess, StepKeepsAllowed, PTL DEF Spec

------------------------------------------------------------------------------
(* Records *)

\* A record says how its step went, none is repeated, and if none was lost they are
\* the outcomes; and a verdict of failure has a failed step.
RecordInv ==
  /\ saved \in Seq([step : Nat, status : Status])
  /\ Len(saved) <= Len(outcome)
  /\ \A i \in DOMAIN saved :
       saved[i].step \in DOMAIN outcome /\ saved[i].status = outcome[saved[i].step]
  /\ Len(saved) = Len(outcome) => \A i \in DOMAIN saved : saved[i].step = i
  /\ (verdict = "failed" /\ outcome # <<>>) => FailedSteps # {}

\* Every step keeps the records true.
LEMMA StepKeepsRecords ==
  ASSUME SuccessInv, RecordInv, [Next]_vars
  PROVE  RecordInv'
<1> USE DEF RecordInv
<1>1. CASE SaveStep
  <2>1. /\ outcome' = Append(outcome, res) /\ verdict' = verdict /\ verdict = "running"
        /\ saved' = saved \/ saved' = Append(saved, [step |-> Current, status |-> res])
        /\ outcome \in Seq(Status) /\ res \in Status
    BY <1>1 DEF SaveStep, SuccessInv, OrderInv
  <2>2. /\ Len(outcome') = Len(outcome) + 1 /\ outcome'[Current] = res
        /\ \A k \in DOMAIN outcome : k \in DOMAIN outcome' /\ outcome'[k] = outcome[k]
        /\ Current \in DOMAIN outcome' /\ Current = Len(outcome) + 1 /\ Current \in Nat
    BY <2>1 DEF Current
  <2>3. CASE saved' = saved
    BY <2>1, <2>2, <2>3
  <2>4. CASE saved' = Append(saved, [step |-> Current, status |-> res])
    <3> DEFINE row == [step |-> Current, status |-> res]
    <3>1. row \in [step : Nat, status : Status] /\ row.step = Current /\ row.status = res
      BY <2>1, <2>2
    <3> HIDE DEF row
    <3>2. /\ saved' = Append(saved, row) /\ saved' \in Seq([step : Nat, status : Status])
          /\ Len(saved') = Len(saved) + 1 /\ saved'[Len(saved) + 1] = row
          /\ \A i \in DOMAIN saved : saved'[i] = saved[i]
          /\ DOMAIN saved' = DOMAIN saved \union {Len(saved) + 1}
      BY <2>4, <3>1 DEF row
    <3>3. \A i \in DOMAIN saved' :
            saved'[i].step \in DOMAIN outcome' /\ saved'[i].status = outcome'[saved'[i].step]
      BY <2>2, <3>1, <3>2
    <3>4. Len(saved') = Len(outcome') => \A i \in DOMAIN saved' : saved'[i].step = i
      BY <2>1, <2>2, <3>1, <3>2, SMTT(30)
    <3> QED
      BY <2>1, <2>2, <3>2, <3>3, <3>4
  <2> QED
    BY <2>1, <2>3, <2>4
<1>2. CASE Finish
  BY <1>2 DEF Finish, Finished, SuccessInv, OrderInv, FailedSteps
<1>3. CASE Abandon
  BY <1>3 DEF Abandon, Finished, SuccessInv, OrderInv
<1>4. CASE ~SaveStep /\ ~Finish /\ ~Abandon
  <2>1. UNCHANGED <<outcome, saved, verdict>>
    BY <1>4 DEF Next, RunNext, AttemptNext, Backoff, ShellExits, PipesClose, AttemptNotify,
       AttemptWebhook, AttemptShell, Deliver, ReadChannel, ReadProvider, NotifyEnds, LoadRow,
       LoadSteps, BeginStep, NoMoreSteps, Cancel, DeleteJob, PatchSteps, runVars, vars
  <2> QED
    BY <2>1 DEF FailedSteps
<1> QED
  BY <1>1, <1>2, <1>3, <1>4

\* The rows of execution_steps explain the status of the execution.
THEOREM RecordsExplain == Spec => []RecordsExplainVerdict
<1>1. Init => SuccessInv /\ RecordInv
  BY InitSuccess DEF Init, RecordInv
<1>2. SuccessInv /\ RecordInv => RecordsExplainVerdict
  <2> SUFFICES ASSUME SuccessInv, RecordInv PROVE RecordsExplainVerdict
    OBVIOUS
  <2>1. ASSUME verdict = "success", NEW i \in DOMAIN saved PROVE saved[i].status = "success"
    BY <2>1, SMTT(30) DEF SuccessInv, OrderInv, ReachInv, RecordInv, FailedSteps, Status
  <2>2. ASSUME verdict = "failed", outcome # <<>>, Len(saved) = Len(outcome)
        PROVE  \E i \in DOMAIN saved : saved[i].status = "failed"
    <3>1. PICK k \in DOMAIN outcome : outcome[k] = "failed"
      BY <2>2 DEF RecordInv, FailedSteps
    <3>2. k \in DOMAIN saved
      BY <2>2, <3>1 DEF RecordInv, SuccessInv, OrderInv
    <3> QED
      BY <2>2, <3>1, <3>2 DEF RecordInv
  <2> QED
    BY <2>1, <2>2 DEF RecordsExplainVerdict
<1> QED
  BY <1>1, <1>2, StepKeepsSuccess, StepKeepsRecords, PTL DEF Spec

\* Every variable of a run has its type.
THEOREM RunnerTypes == Spec => []RunnerTypeOK
<1>1. Init => SuccessInv /\ RecordInv /\ FieldsInv
  <2> SUFFICES ASSUME Init PROVE SuccessInv /\ RecordInv /\ FieldsInv
    OBVIOUS
  <2>1. RecordInv
    BY DEF Init, RecordInv
  <2>2. ChannelsTypeOK
    BY ChannelsAssumption DEF Init, ChannelsInit, ChannelsTypeOK
  <2>3. job \in [live : BOOLEAN, steps : Plans \union {<<>>}] /\ had \subseteq Plans
    <3>1. job = NoJob \/ \E list \in Plans : job = [live |-> TRUE, steps |-> list]
      BY DEF Init
    <3>2. had \subseteq {job.steps} /\ (job.live \/ had = {})
      BY DEF Init
    <3> QED
      BY <3>1, <3>2, JobRows DEF NoJob
  <2>4. dest \in ChannelRow
    BY DEF Init, NoChannel, ChannelRow
  <2>5. /\ steps \in Plans \union {<<>>} /\ mode \in {"cron", "manual", "send"} /\ ctx = "live"
        /\ pc \in {"step", "load"} /\ verdict = "running"
    BY DEF Init
  <2> QED
    BY <2>1, <2>2, <2>3, <2>4, <2>5, InitSuccess DEF FieldsInv
<1>2. SuccessInv /\ RecordInv /\ FieldsInv => RunnerTypeOK
  BY DEF SuccessInv, OrderInv, LoopInv, EffectsInv, RecordInv, FieldsInv, RunnerTypeOK
<1> QED
  BY <1>1, <1>2, StepKeepsSuccess, StepKeepsRecords, StepKeepsFields, PTL DEF Spec
=============================================================================
