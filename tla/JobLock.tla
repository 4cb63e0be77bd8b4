------------------------------ MODULE JobLock ------------------------------
(***************************************************************************)
(* What the running row of a job is meant to be: a lock that one execution *)
(* of the job holds from its insert to its verdict.  The lock outlives the *)
(* process that holds it, and the next process breaks every lock once,     *)
(* before it starts to schedule: a run that was let in before that goes on *)
(* without its lock.                                                       *)
(***************************************************************************)
EXTENDS Naturals

CONSTANTS
  Job,
  Exec,
  NoExec,     \* no execution
  Reliable    \* whether a lock is always given back by its holder

VARIABLES
  mode,     \* the process: "off", "starting", "open" once all locks were broken
  holder,   \* the execution whose running row is the lock of a job
  runs,     \* the executions of a job in somebody's hands
  used      \* the executions there have been

vars == <<mode, holder, runs, used>>

Init ==
  /\ mode = "starting"
  /\ holder = [j \in Job |-> NoExec]
  /\ runs = [j \in Job |-> {}]
  /\ used = {}

\* Only a new execution, and only with the lock.
Acquire(j, e) ==
  /\ mode # "off"
  /\ holder[j] = NoExec /\ e \notin used
  /\ holder' = [holder EXCEPT ![j] = e]
  /\ runs' = [runs EXCEPT ![j] = @ \union {e}]
  /\ used' = used \union {e}
  /\ UNCHANGED mode

\* The holder's verdict frees the job; one whose lock was broken frees nothing,
\* least of all the lock another execution holds by now.
Release(j, e) ==
  /\ mode # "off" /\ e \in runs[j]
  /\ runs' = [runs EXCEPT ![j] = @ \ {e}]
  /\ \/ holder' = [holder EXCEPT ![j] = IF @ = e THEN NoExec ELSE @]
     \/ ~Reliable /\ UNCHANGED holder
  /\ UNCHANGED <<mode, used>>

BreakLocks ==
  /\ mode = "starting" /\ mode' = "open"
  /\ \/ holder' = [j \in Job |-> NoExec]
     \/ ~Reliable /\ UNCHANGED holder
  /\ UNCHANGED <<runs, used>>

Die ==
  /\ mode # "off" /\ mode' = "off"
  /\ runs' = [j \in Job |-> {}]
  /\ UNCHANGED <<holder, used>>

Restart ==
  /\ mode = "off" /\ mode' = "starting"
  /\ UNCHANGED <<holder, runs, used>>

Next ==
  \/ \E j \in Job, e \in Exec : Acquire(j, e) \/ Release(j, e)
  \/ BreakLocks \/ Die \/ Restart

Spec == Init /\ [][Next]_vars
=============================================================================
