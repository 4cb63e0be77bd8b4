-------------------------------- MODULE Cron --------------------------------
(***************************************************************************)
(* Schedule arithmetic of internal/cron: the next slot of a cron           *)
(* expression, and the next slot that lies after the scheduler's clock.    *)
(*                                                                         *)
(* An expression with its time zone is a name in Cron; Slots[c] is the set *)
(* of instants at which it fires.  An expression that parses but never     *)
(* fires (30 February) has no slot.  Time is counted from ZeroTime, Go's   *)
(* zero time.Time, which precedes every slot.                              *)
(***************************************************************************)
EXTENDS Integers, FiniteSets

CONSTANTS
  Cron,      \* cron expressions, each together with its time zone
  Slots,     \* Slots[c]: the instants at which c fires
  MaxSkips   \* iterations NextRunAfter allows itself (10000 in the code)

ZeroTime == 0

ASSUME CronAssumption ==
  /\ Slots \in [Cron -> SUBSET (Nat \ {ZeroTime})]
  /\ MaxSkips \in Nat

\* The first slot after t; the library answers the zero time when it finds none.
NextRun(c, t) ==
  IF \E s \in Slots[c] : s > t
  THEN CHOOSE s \in Slots[c] : s > t /\ \A u \in Slots[c] : u > t => s <= u
  ELSE ZeroTime

\* The variable "next" of NextRunAfter before the loop and after each iteration: an
\* iteration steps to the slot after it, unless the loop has ended.
Iterations(c, from, after) ==
  LET step == [t \in Nat |-> IF t > after THEN t ELSE NextRun(c, t)]
      next[i \in 0..MaxSkips] == IF i = 0 THEN NextRun(c, from) ELSE step[next[i - 1]]
  IN next

NextRunAfter(c, from, after) == Iterations(c, from, after)[MaxSkips]

\* Mutant: what the loop has come to is not examined.
HasNextRunUnchecked(c, from, after) == TRUE

\* The caller gets an error when the loop has not come past its clock.
HasNextRunAfter(c, from, after) == NextRunAfter(c, from, after) > after

------------------------------------------------------------------------------

\* The slots to be stepped over on the way from one instant to a later one.
Skipped(c, from, after) == {s \in Slots[c] : from < s /\ s <= after}

\* What the loop is for, without the loop: there is a slot after the clock, and no
\* more slots before it than there are iterations.
Reachable(c, from, after) ==
  /\ \E s \in Slots[c] : s > after
  /\ Cardinality(Skipped(c, from, after)) <= MaxSkips
=============================================================================
