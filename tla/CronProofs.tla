----------------------------- MODULE CronProofs -----------------------------
(***************************************************************************)
(* What the schedule arithmetic of internal/cron answers, for every set of *)
(* slots.                                                                  *)
(***************************************************************************)
EXTENDS Cron, Induction

\* NextRun: a slot it finds lies after the given instant, is one of the
\* schedule's and is the first such slot.
THEOREM NextRunIsFirstSlot ==
  ASSUME NEW c \in Cron, NEW t \in Nat, \E s \in Slots[c] : s > t
  PROVE  /\ NextRun(c, t) \in Slots[c]
         /\ NextRun(c, t) > t
         /\ \A u \in Slots[c] : u > t => NextRun(c, t) <= u
<1> DEFINE Later == {s \in Slots[c] : s > t}
<1>1. Later \in SUBSET Nat /\ Later # {}
  BY CronAssumption
<1>2. PICK n \in Later : \A m \in Later : n <= m
  BY <1>1, LeastNatural
<1>3. n \in Slots[c] /\ n > t /\ \A u \in Slots[c] : u > t => n <= u
  BY <1>2
<1> QED
  BY <1>3 DEF NextRun

\* NextRun: a slot or the zero time, in any case an instant.
LEMMA NextRunType ==
  ASSUME NEW c \in Cron, NEW t \in Nat
  PROVE  NextRun(c, t) \in Slots[c] \union {ZeroTime} /\ NextRun(c, t) \in Nat
<1>1. CASE \E s \in Slots[c] : s > t
  BY <1>1, NextRunIsFirstSlot, CronAssumption
<1>2. CASE ~ \E s \in Slots[c] : s > t
  BY <1>2 DEF NextRun, ZeroTime
<1> QED
  BY <1>1, <1>2

------------------------------------------------------------------------------
(* The loop of NextRunAfter *)

Steps(c, after) == [t \in Nat |-> IF t > after THEN t ELSE NextRun(c, t)]

Loop(c, from, after, m, next) ==
  next = [i \in 0..m |-> IF i = 0 THEN NextRun(c, from) ELSE Steps(c, after)[next[i - 1]]]

\* There is such a function for any number of iterations.
LEMMA LoopExists ==
  ASSUME NEW c, NEW from, NEW after, NEW m \in Nat
  PROVE  \E next : Loop(c, from, after, m, next)
<1> DEFINE T == {k \in 0..m : \E next : Loop(c, from, after, k, next)}
<1>1. 0 \in T
  <2>1. Loop(c, from, after, 0, [i \in 0..0 |-> NextRun(c, from)])
    BY DEF Loop
  <2> QED
    BY <2>1
<1>2. ASSUME NEW k \in 1..m, k - 1 \in T
      PROVE  k \in T
  <2>1. PICK next : Loop(c, from, after, k - 1, next)
    BY <1>2
  <2> DEFINE more == [i \in 0..k |-> IF i = k THEN Steps(c, after)[next[k - 1]] ELSE next[i]]
             goal == [i \in 0..k |-> IF i = 0 THEN NextRun(c, from)
                                     ELSE Steps(c, after)[more[i - 1]]]
  <2>2. ASSUME NEW i \in 0..k
        PROVE  more[i] = goal[i]
    <3>1. CASE i = k
      <4>1. i - 1 \in 0..k /\ i - 1 # k /\ i # 0
        BY <3>1
      <4> QED
        BY <3>1, <4>1
    <3>2. CASE i \in 1..(k - 1)
      <4>1. i - 1 \in 0..k /\ i - 1 # k /\ i # k /\ i # 0 /\ i \in 0..(k - 1)
        BY <3>2
      <4>2. next[i] = Steps(c, after)[next[i - 1]]
        BY <2>1, <4>1 DEF Loop
      <4> QED
        BY <4>1, <4>2
    <3>3. CASE i = 0
      <4>1. i # k /\ 0 \in 0..(k - 1)
        BY <3>3
      <4>2. next[0] = NextRun(c, from)
        BY <2>1, <4>1 DEF Loop
      <4> QED
        BY <3>3, <4>1, <4>2
    <3> QED
      BY <3>1, <3>2, <3>3
  <2>3. more = goal
    <3> HIDE DEF goal
    <3>1. goal = [i \in 0..k |-> goal[i]]
      BY DEF goal
    <3> QED
      BY <2>2, <3>1
  <2>4. Loop(c, from, after, k, more)
    BY <2>3 DEF Loop
  <2> QED
    BY <2>4
<1>3. m \in T
  <2>1. 0..m \subseteq T
    <3> HIDE DEF T
    <3> QED
      BY <1>1, <1>2, CountUp
  <2> QED
    BY <2>1
<1> QED
  BY <1>3

\* So the function of the module is one, and its values are instants.
LEMMA IterationsAre ==
  ASSUME NEW c \in Cron, NEW from \in Nat, NEW after \in Nat
  PROVE  LET next == Iterations(c, from, after)
         IN /\ next[0] = NextRun(c, from)
            /\ \A i \in 1..MaxSkips :
                 next[i] = IF next[i - 1] > after THEN next[i - 1] ELSE NextRun(c, next[i - 1])
            /\ \A i \in 0..MaxSkips : next[i] \in Slots[c] \union {ZeroTime} /\ next[i] \in Nat
<1> DEFINE next == Iterations(c, from, after)
<1>1. Loop(c, from, after, MaxSkips, next)
  <2>1. \E g : Loop(c, from, after, MaxSkips, g)
    BY LoopExists, CronAssumption
  <2>2. next = CHOOSE g : Loop(c, from, after, MaxSkips, g)
    BY DEF Iterations, Loop, Steps
  <2> QED
    BY <2>1, <2>2
<1> HIDE DEF next
<1>2. next[0] = NextRun(c, from) /\ \A i \in 1..MaxSkips : next[i] = Steps(c, after)[next[i - 1]]
  <2>1. MaxSkips \in Nat
    BY CronAssumption
  <2> QED
    BY <1>1, <2>1 DEF Loop
<1> DEFINE T == {i \in 0..MaxSkips : next[i] \in Slots[c] \union {ZeroTime} /\ next[i] \in Nat}
<1>3. 0 \in T
  BY <1>2, NextRunType, CronAssumption
<1>4. ASSUME NEW i \in 1..MaxSkips, i - 1 \in T
      PROVE  i \in T
  <2>1. next[i - 1] \in Nat /\ next[i - 1] \in Slots[c] \union {ZeroTime}
    BY <1>4
  <2>2. next[i] = IF next[i - 1] > after THEN next[i - 1] ELSE NextRun(c, next[i - 1])
    BY <1>2, <2>1 DEF Steps
  <2> QED
    BY <2>1, <2>2, NextRunType
<1>5. 0..MaxSkips \subseteq T
  <2> HIDE DEF T
  <2> QED
    BY <1>3, <1>4, CountUp, CronAssumption
<1>6. \A i \in 1..MaxSkips :
        next[i] = IF next[i - 1] > after THEN next[i - 1] ELSE NextRun(c, next[i - 1])
  <2> SUFFICES ASSUME NEW i \in 1..MaxSkips
               PROVE  next[i] = IF next[i - 1] > after THEN next[i - 1] ELSE NextRun(c, next[i - 1])
    OBVIOUS
  <2>1. i - 1 \in 0..MaxSkips
    BY CronAssumption
  <2>2. next[i - 1] \in Nat
    BY <1>5, <2>1
  <2> QED
    BY <1>2, <2>2 DEF Steps
<1> QED
  BY <1>2, <1>5, <1>6 DEF next

\* NextRunAfter answers an instant.
LEMMA NextRunAfterType ==
  ASSUME NEW c \in Cron, NEW from \in Nat, NEW after \in Nat
  PROVE  NextRunAfter(c, from, after) \in Slots[c] \union {ZeroTime}
         /\ NextRunAfter(c, from, after) \in Nat
BY IterationsAre, CronAssumption DEF NextRunAfter

\* The tick loop moves a job to NextRunAfter: when the loop has come past the clock,
\* the answer is a slot of the schedule and lies after the clock.
THEOREM NextRunAfterIsFuture ==
  ASSUME NEW c \in Cron, NEW from \in Nat, NEW after \in Nat, HasNextRunAfter(c, from, after)
  PROVE  NextRunAfter(c, from, after) \in Slots[c] /\ NextRunAfter(c, from, after) > after
BY NextRunAfterType DEF HasNextRunAfter, ZeroTime

\* The first slot after an instant adds one to the slots stepped over, and no other.
LEMMA OneMoreSkipped ==
  ASSUME NEW c \in Cron, NEW from \in Nat, NEW t \in Nat, from <= t, \E s \in Slots[c] : s > t
  PROVE  Skipped(c, from, NextRun(c, t)) = Skipped(c, from, t) \union {NextRun(c, t)}
         /\ NextRun(c, t) \notin Skipped(c, from, t)
<1>1. /\ NextRun(c, t) \in Slots[c] /\ NextRun(c, t) > t
      /\ \A u \in Slots[c] : u > t => NextRun(c, t) <= u
  BY NextRunIsFirstSlot
<1>2. Slots[c] \subseteq Nat
  BY CronAssumption
<1> QED
  BY <1>1, <1>2 DEF Skipped

\* A slot past the clock whose predecessor is not past it is the first one past it.
LEMMA FirstPastClock ==
  ASSUME NEW c \in Cron, NEW t \in Nat, NEW after \in Nat, t <= after,
         \E s \in Slots[c] : s > after, NextRun(c, t) > after
  PROVE  NextRun(c, t) = NextRun(c, after)
<1>1. Slots[c] \subseteq Nat
  BY CronAssumption
<1>2. \E s \in Slots[c] : s > t
  BY <1>1
<1>3. /\ NextRun(c, t) \in Slots[c] /\ NextRun(c, t) > t
      /\ \A u \in Slots[c] : u > t => NextRun(c, t) <= u
  BY <1>2, NextRunIsFirstSlot
<1>4. /\ NextRun(c, after) \in Slots[c] /\ NextRun(c, after) > after
      /\ \A u \in Slots[c] : u > after => NextRun(c, after) <= u
  BY NextRunIsFirstSlot
<1>5. NextRun(c, t) <= NextRun(c, after)
  BY <1>1, <1>3, <1>4
<1>6. NextRun(c, after) <= NextRun(c, t)
  BY <1>3, <1>4
<1> QED
  BY <1>1, <1>3, <1>4, <1>5, <1>6

\* How far the loop has come after i iterations, when there is a slot past the clock:
\* it stands on the slot i + 1 after its start, or on the first one past the clock.
LEMMA LoopAdvances ==
  ASSUME NEW c \in Cron, NEW from \in Nat, NEW after \in Nat, from <= after,
         \E s \in Slots[c] : s > after
  PROVE  LET next == Iterations(c, from, after)
         IN \A i \in 0..MaxSkips :
              \/ /\ next[i] <= after
                 /\ IsFiniteSet(Skipped(c, from, next[i]))
                 /\ Cardinality(Skipped(c, from, next[i])) = i + 1
              \/ /\ next[i] = NextRun(c, after)
                 /\ IsFiniteSet(Skipped(c, from, after))
                 /\ Cardinality(Skipped(c, from, after)) <= i
<1> DEFINE next == Iterations(c, from, after)
           Short(i) == /\ next[i] <= after
                       /\ next[i] >= from
                       /\ IsFiniteSet(Skipped(c, from, next[i]))
                       /\ Cardinality(Skipped(c, from, next[i])) = i + 1
           Past(i) == /\ next[i] = NextRun(c, after)
                      /\ IsFiniteSet(Skipped(c, from, after))
                      /\ Cardinality(Skipped(c, from, after)) <= i
           T == {i \in 0..MaxSkips : Short(i) \/ Past(i)}
<1>1. /\ next[0] = NextRun(c, from)
      /\ \A i \in 1..MaxSkips :
           next[i] = IF next[i - 1] > after THEN next[i - 1] ELSE NextRun(c, next[i - 1])
      /\ \A i \in 0..MaxSkips : next[i] \in Nat
  BY IterationsAre
<1>2. Slots[c] \subseteq Nat /\ MaxSkips \in Nat
  BY CronAssumption
<1>3. NextRun(c, after) \in Nat /\ NextRun(c, after) > after
  BY <1>2, NextRunIsFirstSlot
<1> HIDE DEF next
\* One step of the loop, from an instant that is not past the clock.
<1>4. ASSUME NEW t \in Nat, from <= t, t <= after, NEW i \in 0..MaxSkips,
             next[i] = NextRun(c, t), IsFiniteSet(Skipped(c, from, t)),
             Cardinality(Skipped(c, from, t)) = i
      PROVE  i \in T
  <2>1. \E s \in Slots[c] : s > t
    BY <1>2, <1>4
  <2>2. next[i] \in Nat /\ next[i] > t /\ next[i] \in Slots[c]
        /\ \A u \in Slots[c] : u > t => next[i] <= u
    BY <1>2, <1>4, <2>1, NextRunIsFirstSlot
  <2>3. CASE next[i] <= after
    <3>1. Skipped(c, from, next[i]) = Skipped(c, from, t) \union {next[i]}
          /\ next[i] \notin Skipped(c, from, t)
      BY <1>4, <2>1, OneMoreSkipped
    <3>2. IsFiniteSet(Skipped(c, from, next[i]))
          /\ Cardinality(Skipped(c, from, next[i])) = i + 1
      BY <1>4, <3>1, FS_AddElement
    <3> QED
      BY <1>4, <2>2, <2>3, <3>2
  <2>4. CASE next[i] > after
    <3>1. next[i] = NextRun(c, after)
      BY <1>4, <2>4, FirstPastClock
    <3>2. Skipped(c, from, after) = Skipped(c, from, t)
      BY <1>2, <1>4, <2>2, <2>4 DEF Skipped
    <3> QED
      BY <1>4, <3>1, <3>2
  <2> QED
    BY <2>2, <2>3, <2>4
<1>5. 0 \in T
  <2>1. Skipped(c, from, from) = {}
    BY <1>2 DEF Skipped
  <2>2. IsFiniteSet(Skipped(c, from, from)) /\ Cardinality(Skipped(c, from, from)) = 0
    BY <2>1, FS_EmptySet
  <2> HIDE DEF T
  <2> QED
    BY <1>1, <1>2, <1>4, <2>2
<1>6. ASSUME NEW i \in 1..MaxSkips, i - 1 \in T
      PROVE  i \in T
  <2>1. i - 1 \in 0..MaxSkips /\ i \in 0..MaxSkips
    BY <1>2
  <2>2. CASE Short(i - 1)
    <3>1. next[i] = NextRun(c, next[i - 1])
      BY <1>1, <2>1, <2>2
    <3>2. next[i - 1] \in Nat /\ Cardinality(Skipped(c, from, next[i - 1])) = i
      BY <1>1, <2>1, <2>2
    <3> HIDE DEF T
    <3> QED
      BY <1>4, <2>1, <2>2, <3>1, <3>2
  <2>3. CASE Past(i - 1)
    <3>1. next[i] = next[i - 1]
      BY <1>1, <1>3, <2>1, <2>3
    <3>2. Cardinality(Skipped(c, from, after)) \in Nat
      BY <2>3, FS_CardinalityType
    <3>3. Past(i)
      BY <2>1, <2>3, <3>1, <3>2
    <3> QED
      BY <2>1, <3>3
  <2> QED
    BY <1>6, <2>2, <2>3
<1>7. 0..MaxSkips \subseteq T
  <2> HIDE DEF T
  <2> QED
    BY <1>2, <1>5, <1>6, CountUp
<1> QED
  BY <1>7 DEF next

\* NextRunAfter against what its loop is for: the tick loop gets a next run exactly
\* when the schedule has a slot past the clock and the loop is long enough for the
\* slots that were missed, and then it is the first slot past the clock, however
\* many were missed.
THEOREM LoopFindsFirstFutureSlot ==
  ASSUME NEW c \in Cron, NEW from \in Nat, NEW after \in Nat, from <= after
  PROVE  /\ HasNextRunAfter(c, from, after) <=> Reachable(c, from, after)
         /\ HasNextRunAfter(c, from, after) =>
              NextRunAfter(c, from, after) = NextRun(c, after)
<1> DEFINE last == NextRunAfter(c, from, after)
           all == Skipped(c, from, after)
<1>1. Slots[c] \subseteq Nat /\ MaxSkips \in Nat /\ MaxSkips \in 0..MaxSkips
  BY CronAssumption
<1>2. last \in Slots[c] \union {ZeroTime} /\ last \in Nat
  BY NextRunAfterType
<1>3. CASE ~ \E s \in Slots[c] : s > after
  BY <1>1, <1>2, <1>3 DEF HasNextRunAfter, Reachable, ZeroTime
<1>4. CASE \E s \in Slots[c] : s > after
  <2>1. NextRun(c, after) > after
    BY <1>4, NextRunIsFirstSlot
  <2>2. \/ /\ last <= after
           /\ Cardinality(Skipped(c, from, last)) = MaxSkips + 1
        \/ /\ last = NextRun(c, after)
           /\ Cardinality(all) <= MaxSkips
    BY <1>1, <1>4, LoopAdvances DEF NextRunAfter
  <2>3. ASSUME last <= after, Cardinality(Skipped(c, from, last)) = MaxSkips + 1
        PROVE  ~ (Cardinality(all) <= MaxSkips)
    <3>1. Skipped(c, from, last) \subseteq all
      BY <1>1, <1>2, <2>3 DEF Skipped
    <3>2. IsFiniteSet(all)
      <4>1. all \subseteq (from + 1)..after
        BY <1>1 DEF Skipped
      <4>2. IsFiniteSet((from + 1)..after)
        BY FS_Interval
      <4> QED
        BY <4>1, <4>2, FS_Subset
    <3>3. Cardinality(Skipped(c, from, last)) <= Cardinality(all)
          /\ Cardinality(all) \in Nat
      BY <3>1, <3>2, FS_Subset, FS_CardinalityType
    <3> QED
      BY <1>1, <2>3, <3>3
  <2> QED
    BY <1>1, <1>2, <1>4, <2>1, <2>2, <2>3 DEF HasNextRunAfter, Reachable
<1> QED
  BY <1>3, <1>4
=============================================================================
