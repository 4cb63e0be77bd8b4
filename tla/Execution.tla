----------------------------- MODULE Execution -----------------------------
(***************************************************************************)
(* What the execution of a list of steps promises, whoever runs it: the    *)
(* steps are gone through in order, each with one outcome; a failed step   *)
(* that does not continue on error is the last one; and there is one       *)
(* verdict, given at the end, that is a failure if any step failed.  The   *)
(* list is settled once, when the execution begins; one that cannot begin  *)
(* is a failure.  An execution may be left without a verdict.              *)
(***************************************************************************)
EXTENDS Naturals, Sequences

VARIABLES
  begun,     \* the list of steps is settled
  steps,     \* the steps, as far as the verdict depends on them: cont
  outcome,   \* the outcomes so far
  verdict    \* the column executions.status

FailedSteps == {k \in DOMAIN outcome : outcome[k] = "failed"}

\* No step is run after this one.
Fatal(k) == outcome[k] = "failed" /\ ~steps[k].cont

Ended ==
  \/ Len(outcome) = Len(steps)
  \/ \E k \in DOMAIN outcome : Fatal(k)

vars == <<begun, steps, outcome, verdict>>

Init == outcome = <<>> /\ verdict = "running"

Begin ==
  /\ ~begun /\ begun'
  /\ UNCHANGED <<outcome, verdict>>

RunStep ==
  /\ begun /\ verdict = "running" /\ ~Ended
  /\ \E status \in {"success", "failed"} : outcome' = Append(outcome, status)
  /\ UNCHANGED <<begun, steps, verdict>>

Close ==
  /\ begun /\ verdict = "running" /\ Ended
  /\ verdict' = IF FailedSteps = {} THEN "success" ELSE "failed"
  /\ UNCHANGED <<begun, steps, outcome>>

\* The job could not be loaded: a failure without any step.
GiveUp ==
  /\ ~begun /\ begun'
  /\ verdict' = "failed"
  /\ UNCHANGED <<steps, outcome>>

Next == Begin \/ RunStep \/ Close \/ GiveUp

Spec == Init /\ [][Next]_vars
=============================================================================
