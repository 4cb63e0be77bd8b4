---------------------------- MODULE ConfigProofs ----------------------------
(***************************************************************************)
(* The parser of internal/config means what a file says, for every file:   *)
(* by induction over the lines, with what stands above the next line as    *)
(* the meaning of the stack.                                               *)
(***************************************************************************)
EXTENDS Config, Induction, SequenceTheorems

(* The recursive function *)

Parses(file, m, after) ==
  after = [n \in 0..m |-> IF n = 0 THEN Empty ELSE ParseLine(after[n - 1], file[n])]

\* There is such a function for any number of lines.
LEMMA ParseExists ==
  ASSUME NEW file, NEW m \in Nat
  PROVE  \E after : Parses(file, m, after)
<1> DEFINE T == {k \in 0..m : \E after : Parses(file, k, after)}
<1>1. 0 \in T
  <2>1. Parses(file, 0, [n \in 0..0 |-> Empty])
    BY DEF Parses
  <2> QED
    BY <2>1
<1>2. ASSUME NEW k \in 1..m, k - 1 \in T
      PROVE  k \in T
  <2>1. PICK after : Parses(file, k - 1, after)
    BY <1>2
  <2> DEFINE more == [n \in 0..k |-> IF n = k THEN ParseLine(after[k - 1], file[k]) ELSE after[n]]
             goal == [n \in 0..k |-> IF n = 0 THEN Empty ELSE ParseLine(more[n - 1], file[n])]
  <2>2. ASSUME NEW n \in 0..k
        PROVE  more[n] = goal[n]
    <3>1. CASE n = k
      <4>1. n - 1 \in 0..k /\ n - 1 # k /\ n # 0
        BY <3>1
      <4> QED
        BY <3>1, <4>1
    <3>2. CASE n \in 1..(k - 1)
      <4>1. n - 1 \in 0..k /\ n - 1 # k /\ n # k /\ n # 0 /\ n \in 0..(k - 1)
        BY <3>2
      <4>2. after[n] = ParseLine(after[n - 1], file[n])
        BY <2>1, <4>1 DEF Parses
      <4> QED
        BY <4>1, <4>2
    <3>3. CASE n = 0
      <4>1. n # k /\ 0 \in 0..(k - 1)
        BY <3>3
      <4>2. after[0] = Empty
        BY <2>1, <4>1 DEF Parses
      <4> QED
        BY <3>3, <4>1, <4>2
    <3> QED
      BY <3>1, <3>2, <3>3
  <2>3. more = goal
    <3> HIDE DEF goal
    <3>1. goal = [n \in 0..k |-> goal[n]]
      BY DEF goal
    <3> QED
      BY <2>2, <3>1
  <2>4. Parses(file, k, more)
    BY <2>3 DEF Parses
  <2> QED
    BY <2>4
<1>3. 0..m \subseteq T
  <2> HIDE DEF T
  <2> QED
    BY <1>1, <1>2, CountUp
<1> QED
  BY <1>3

\* So the function of the module is one.
LEMMA AfterLinesAre ==
  ASSUME NEW file \in Seq(Line)
  PROVE  /\ AfterLines(file)[0] = Empty
         /\ \A n \in 1..Len(file) :
              AfterLines(file)[n] = ParseLine(AfterLines(file)[n - 1], file[n])
<1> DEFINE after == AfterLines(file)
<1>1. Parses(file, Len(file), after)
  <2>1. \E g : Parses(file, Len(file), g)
    <3>1. Len(file) \in Nat
      OBVIOUS
    <3> QED
      BY <3>1, ParseExists
  <2>2. after = CHOOSE g : Parses(file, Len(file), g)
    BY DEF AfterLines, Parses
  <2> QED
    BY <2>1, <2>2
<1> HIDE DEF after
<1>2. Len(file) \in Nat
  OBVIOUS
<1>3. after[0] = Empty /\ \A n \in 1..Len(file) : after[n] = ParseLine(after[n - 1], file[n])
  BY <1>1, <1>2 DEF Parses
<1> QED
  BY <1>3 DEF after

------------------------------------------------------------------------------
(* What stands above a line *)

\* A line after all the others is the latest.
LEMMA LatestIs ==
  ASSUME NEW lines \in SUBSET Int, NEW n \in lines, \A k \in lines : k <= n
  PROVE  Latest(lines) = n
<1>1. \A k \in lines : (\A m \in lines : m <= k) => k = n
  OBVIOUS
<1> QED
  BY <1>1 DEF Latest

\* A key line is above the lines after it, for its level and the deeper ones.
LEMMA AboveNext ==
  ASSUME NEW file \in Seq(Line), NEW n \in 1..Len(file), NEW level \in Nat
  PROVE  Above(file, n + 1, level) =
           IF file[n].kind # "item" /\ file[n].level <= level THEN n ELSE Above(file, n, level)
<1> DEFINE Before(i) == {k \in Keys(file) : k < i /\ file[k].level <= level}
<1>1. Keys(file) \subseteq 1..Len(file)
  BY DEF Keys
<1>2. CASE file[n].kind # "item" /\ file[n].level <= level
  <2>1. n \in Before(n + 1) /\ \A k \in Before(n + 1) : k <= n
    BY <1>1, <1>2 DEF Keys
  <2>2. Before(n + 1) \subseteq Int
    BY <1>1
  <2> HIDE DEF Before
  <2>3. Latest(Before(n + 1)) = n
    BY <2>1, <2>2, LatestIs
  <2> QED
    BY <1>2, <2>1, <2>3 DEF Above, Before
<1>3. CASE ~ (file[n].kind # "item" /\ file[n].level <= level)
  <2>1. Before(n + 1) = Before(n)
    BY <1>1, <1>3 DEF Keys
  <2> QED
    BY <1>3, <2>1 DEF Above
<1> QED
  BY <1>2, <1>3

\* The section that is open after a line is that of the line, if it has a key, and
\* otherwise what was open before it.
LEMMA OwnerNext ==
  ASSUME NEW file \in Seq(Line), NEW n \in 1..Len(file)
  PROVE  Owner(file, n + 1) =
           IF file[n].kind = "item" THEN Owner(file, n)
           ELSE IF file[n].kind = "section" THEN PathOf(file, n) ELSE Front(PathOf(file, n))
<1> DEFINE Before(i) == {k \in Keys(file) : k < i}
<1>1. Keys(file) \subseteq 1..Len(file)
  BY DEF Keys
<1>2. CASE file[n].kind # "item"
  <2>1. n \in Before(n + 1) /\ \A k \in Before(n + 1) : k <= n
    BY <1>1, <1>2 DEF Keys
  <2>2. Before(n + 1) \subseteq Int
    BY <1>1
  <2> HIDE DEF Before
  <2>3. Latest(Before(n + 1)) = n
    BY <2>1, <2>2, LatestIs
  <2>4. Owner(file, n + 1) =
          IF Before(n + 1) = {} THEN <<>>
          ELSE IF file[Latest(Before(n + 1))].kind = "section"
               THEN PathOf(file, Latest(Before(n + 1)))
               ELSE Front(PathOf(file, Latest(Before(n + 1))))
    BY DEF Owner, Before
  <2>5. Owner(file, n + 1) =
          IF file[n].kind = "section" THEN PathOf(file, n) ELSE Front(PathOf(file, n))
    BY <2>1, <2>3, <2>4
  <2> QED
    BY <1>2, <2>5
<1>3. CASE file[n].kind = "item"
  <2> DEFINE Open(S) == IF S = {} THEN <<>>
                        ELSE IF file[Latest(S)].kind = "section" THEN PathOf(file, Latest(S))
                        ELSE Front(PathOf(file, Latest(S)))
  <2>1. Before(n + 1) = Before(n)
    BY <1>1, <1>3 DEF Keys
  <2>2. Owner(file, n + 1) = Open(Before(n + 1)) /\ Owner(file, n) = Open(Before(n))
    BY DEF Owner, Before
  <2> HIDE DEF Before, Open
  <2> QED
    BY <1>3, <2>1, <2>2
<1> QED
  BY <1>2, <1>3

------------------------------------------------------------------------------
(* The stack *)

\* The stack after n lines is the path of the section that is open there, a section
\* is open at each of its levels, and none at the next one.
Stacked(file, n, stack) ==
  /\ stack \in Seq(STRING)
  /\ stack = Owner(file, n + 1)
  /\ \A level \in 0..(Len(stack) - 1) :
       /\ Opens(file, Above(file, n + 1, level), level)
       /\ file[Above(file, n + 1, level)].key = stack[level + 1]
  /\ ~ Opens(file, Above(file, n + 1, Len(stack)), Len(stack))

\* The parser's test of the indentation is that the line is well placed.
LEMMA PlacedWell ==
  ASSUME NEW file \in Seq(Line), NEW n \in 0..(Len(file) - 1), NEW stack, Stacked(file, n, stack)
  PROVE  WellPlaced(file, n + 1) <=> file[n + 1].level <= Len(stack)
<1>1. file[n + 1].level \in Nat /\ Len(stack) \in Nat
  <2>1. n + 1 \in 1..Len(file)
    OBVIOUS
  <2>2. file[n + 1] \in Line
    BY <2>1
  <2> QED
    BY <2>2 DEF Line, Stacked
<1>2. ASSUME file[n + 1].level <= Len(stack)
      PROVE  WellPlaced(file, n + 1)
  BY <1>1, <1>2 DEF WellPlaced, Stacked
<1>3. ASSUME file[n + 1].level > Len(stack)
      PROVE  ~ WellPlaced(file, n + 1)
  <2>1. Len(stack) \in 0..(file[n + 1].level - 1)
    BY <1>1, <1>3
  <2> QED
    BY <2>1 DEF WellPlaced, Stacked
<1> QED
  BY <1>1, <1>2, <1>3

\* What the parser takes for the path of such a line is its path.
LEMMA PathIs ==
  ASSUME NEW file \in Seq(Line), NEW n \in 0..(Len(file) - 1), NEW stack, Stacked(file, n, stack),
         file[n + 1].level <= Len(stack)
  PROVE  LET level == file[n + 1].level
             path == PathOf(file, n + 1)
         IN /\ path = Append(SubSeq(stack, 1, level), file[n + 1].key)
            /\ path \in Seq(STRING) /\ Len(path) = level + 1
            /\ path[level + 1] = file[n + 1].key
            /\ \A m \in 1..level : path[m] = stack[m]
            /\ Front(path) = SubSeq(stack, 1, level)
            /\ Front(path) \in Seq(STRING) /\ Len(Front(path)) = level
            /\ \A m \in 1..level : Front(path)[m] = stack[m]
<1> DEFINE level == file[n + 1].level
           key == file[n + 1].key
           path == PathOf(file, n + 1)
           cut == SubSeq(stack, 1, level)
<1>1. level \in Nat /\ key \in STRING
  <2>1. file[n + 1] \in Line
    OBVIOUS
  <2> QED
    BY <2>1 DEF Line
<1>2. stack \in Seq(STRING) /\ level <= Len(stack) /\ Len(stack) \in Nat
  BY DEF Stacked
<1>3. \A m \in 1..level : file[Above(file, n + 1, m - 1)].key = stack[m]
  <2> SUFFICES ASSUME NEW m \in 1..level
               PROVE  file[Above(file, n + 1, m - 1)].key = stack[m]
    OBVIOUS
  <2>1. m - 1 \in 0..(Len(stack) - 1) /\ (m - 1) + 1 = m
    BY <1>1, <1>2
  <2> QED
    BY <2>1 DEF Stacked
<1>4. path = [m \in 1..(level + 1) |->
                IF m = level + 1 THEN key ELSE file[Above(file, n + 1, m - 1)].key]
  BY DEF PathOf
<1> HIDE DEF level, key, path
<1>5. cut \in Seq(STRING) /\ Len(cut) = level /\ \A m \in 1..level : cut[m] = stack[m]
  BY <1>1, <1>2
<1> HIDE DEF cut
<1>6. path = Append(cut, key)
  <2>1. Append(cut, key) \in Seq(STRING) /\ Len(Append(cut, key)) = level + 1
    BY <1>1, <1>5
  <2>2. Append(cut, key)[level + 1] = key /\ \A m \in 1..level : Append(cut, key)[m] = cut[m]
    BY <1>1, <1>5
  <2>3. ASSUME NEW m \in 1..(level + 1)
        PROVE  path[m] = Append(cut, key)[m] /\ path[m] \in STRING
    <3>1. m = level + 1 \/ m \in 1..level
      BY <1>1
    <3>2. CASE m = level + 1
      BY <1>1, <1>4, <2>2, <3>2
    <3>3. CASE m \in 1..level
      <4>1. m # level + 1
        BY <1>1, <3>3
      <4>2. path[m] = stack[m]
        BY <1>3, <1>4, <3>3, <4>1
      <4>3. stack[m] \in STRING
        BY <1>1, <1>2, <3>3
      <4> QED
        BY <1>5, <2>2, <3>3, <4>2, <4>3
    <3> QED
      BY <3>1, <3>2, <3>3
  <2>4. path \in [1..(level + 1) -> STRING]
    BY <1>4, <2>3
  <2>5. path \in Seq(STRING) /\ Len(path) = level + 1
    BY <1>1, <2>4
  <2> QED
    BY <2>1, <2>3, <2>5, SeqEqual
<1>7. path \in Seq(STRING) /\ Len(path) = level + 1 /\ path[level + 1] = key
      /\ \A m \in 1..level : path[m] = cut[m]
  BY <1>1, <1>5, <1>6
<1>8. Front(path) = cut
  <2>1. Front(path) = SubSeq(path, 1, level)
    BY <1>1, <1>7 DEF Front
  <2>2. Front(path) \in Seq(STRING) /\ Len(Front(path)) = level
        /\ \A m \in 1..level : Front(path)[m] = path[m]
    BY <1>1, <1>7, <2>1
  <2> QED
    BY <1>1, <1>5, <1>7, <2>2
<1> QED
  BY <1>1, <1>5, <1>6, <1>7, <1>8 DEF level, key, path, cut

\* A line of a list leaves the stack what it is.
LEMMA StackedItem ==
  ASSUME NEW file \in Seq(Line), NEW n \in 0..(Len(file) - 1), NEW stack, Stacked(file, n, stack),
         file[n + 1].kind = "item"
  PROVE  Stacked(file, n + 1, stack)
<1>1. n + 1 \in 1..Len(file) /\ Len(stack) \in Nat
  BY DEF Stacked
<1>2. Owner(file, (n + 1) + 1) = Owner(file, n + 1)
  BY <1>1, OwnerNext
<1>3. \A level \in Nat : Above(file, (n + 1) + 1, level) = Above(file, n + 1, level)
  BY <1>1, AboveNext
<1>4. 0..(Len(stack) - 1) \subseteq Nat
  BY <1>1
<1> QED
  BY <1>1, <1>2, <1>3, <1>4 DEF Stacked

\* A line with a key makes the stack the path it opens, or the one it stands in.
LEMMA StackedKey ==
  ASSUME NEW file \in Seq(Line), NEW n \in 0..(Len(file) - 1), NEW stack, Stacked(file, n, stack),
         file[n + 1].kind \in {"section", "scalar"}, file[n + 1].level <= Len(stack)
  PROVE  LET path == PathOf(file, n + 1)
         IN Stacked(file, n + 1, IF file[n + 1].kind = "section" THEN path ELSE Front(path))
<1> DEFINE level == file[n + 1].level
           path == PathOf(file, n + 1)
           open == IF file[n + 1].kind = "section" THEN path ELSE Front(path)
<1> SUFFICES Stacked(file, n + 1, open)
  OBVIOUS
<1>1. n + 1 \in 1..Len(file) /\ level \in Nat /\ Len(stack) \in Nat /\ file[n + 1].key \in STRING
  <2>1. n + 1 \in 1..Len(file)
    OBVIOUS
  <2>2. file[n + 1] \in Line
    BY <2>1
  <2> QED
    BY <2>1, <2>2 DEF Line, Stacked
<1>2. /\ path \in Seq(STRING) /\ Len(path) = level + 1
      /\ path[level + 1] = file[n + 1].key
      /\ \A m \in 1..level : path[m] = stack[m]
      /\ Front(path) \in Seq(STRING) /\ Len(Front(path)) = level
      /\ \A m \in 1..level : Front(path)[m] = stack[m]
  BY PathIs
<1>3. Owner(file, (n + 1) + 1) = open
  BY <1>1, OwnerNext
<1>4. \A l \in Nat : Above(file, (n + 1) + 1, l) =
                       IF level <= l THEN n + 1 ELSE Above(file, n + 1, l)
  BY <1>1, AboveNext
<1>5. n + 1 # 0
  OBVIOUS
<1>6. \A l \in 0..(level - 1) :
        /\ Opens(file, Above(file, (n + 1) + 1, l), l)
        /\ file[Above(file, (n + 1) + 1, l)].key = stack[l + 1]
  <2> SUFFICES ASSUME NEW l \in 0..(level - 1)
               PROVE  /\ Opens(file, Above(file, (n + 1) + 1, l), l)
                      /\ file[Above(file, (n + 1) + 1, l)].key = stack[l + 1]
    OBVIOUS
  <2>1. l \in Nat /\ ~ (level <= l) /\ l \in 0..(Len(stack) - 1)
    BY <1>1
  <2> QED
    BY <1>4, <2>1 DEF Stacked
<1>7. Above(file, (n + 1) + 1, level) = n + 1 /\ Above(file, (n + 1) + 1, level + 1) = n + 1
  BY <1>1, <1>4
<1> HIDE DEF path
<1>8. CASE file[n + 1].kind = "section"
  <2>1. open = path /\ Len(open) = level + 1
    BY <1>2, <1>8
  <2>2. Opens(file, n + 1, level) /\ ~ Opens(file, n + 1, level + 1)
    BY <1>1, <1>5, <1>8 DEF Opens
  <2>3. \A l \in 0..(Len(open) - 1) :
          /\ Opens(file, Above(file, (n + 1) + 1, l), l)
          /\ file[Above(file, (n + 1) + 1, l)].key = open[l + 1]
    <3> SUFFICES ASSUME NEW l \in 0..level
                 PROVE  /\ Opens(file, Above(file, (n + 1) + 1, l), l)
                        /\ file[Above(file, (n + 1) + 1, l)].key = path[l + 1]
      BY <1>1, <2>1
    <3>1. l = level \/ l \in 0..(level - 1)
      BY <1>1
    <3>2. CASE l = level
      BY <1>2, <1>7, <2>2, <3>2
    <3>3. CASE l \in 0..(level - 1)
      <4>1. l + 1 \in 1..level
        BY <1>1, <3>3
      <4> QED
        BY <1>2, <1>6, <3>3, <4>1
    <3> QED
      BY <3>1, <3>2, <3>3
  <2>4. open \in Seq(STRING)
    BY <1>2, <2>1
  <2>5. ~ Opens(file, Above(file, (n + 1) + 1, Len(open)), Len(open))
    BY <1>7, <2>1, <2>2
  <2> HIDE DEF open
  <2> QED
    BY <1>3, <2>3, <2>4, <2>5 DEF Stacked
<1>9. CASE file[n + 1].kind = "scalar"
  <2>1. open = Front(path) /\ Len(open) = level
    BY <1>2, <1>9
  <2>2. ~ Opens(file, n + 1, level)
    BY <1>9 DEF Opens
  <2>3. \A l \in 0..(Len(open) - 1) :
          /\ Opens(file, Above(file, (n + 1) + 1, l), l)
          /\ file[Above(file, (n + 1) + 1, l)].key = open[l + 1]
    <3> SUFFICES ASSUME NEW l \in 0..(level - 1)
                 PROVE  /\ Opens(file, Above(file, (n + 1) + 1, l), l)
                        /\ file[Above(file, (n + 1) + 1, l)].key = Front(path)[l + 1]
      BY <1>1, <2>1
    <3>1. l + 1 \in 1..level
      BY <1>1
    <3> QED
      BY <1>2, <1>6, <3>1
  <2>4. open \in Seq(STRING)
    BY <1>2, <2>1
  <2>5. ~ Opens(file, Above(file, (n + 1) + 1, Len(open)), Len(open))
    BY <1>7, <2>1, <2>2
  <2> HIDE DEF open
  <2> QED
    BY <1>3, <2>3, <2>4, <2>5 DEF Stacked
<1> QED
  BY <1>8, <1>9

------------------------------------------------------------------------------
(* The values *)

ScalarsTo(file, n) == {i \in 1..n : file[i].kind = "scalar"}
ItemsTo(file, n) == {i \in 1..n : file[i].kind = "item"}

\* After n lines a path has the last of the values these lines give it.
Scalared(file, n, scalars) ==
  /\ DOMAIN scalars = {PathOf(file, i) : i \in ScalarsTo(file, n)}
  /\ \A path \in DOMAIN scalars :
       \E i \in ScalarsTo(file, n) :
          /\ PathOf(file, i) = path
          /\ \A k \in ScalarsTo(file, n) : PathOf(file, k) = path => k <= i
          /\ scalars[path] = file[i].value

\* After n lines a path has the list of the items of these lines that are in it.
Listed(file, n, lists) ==
  /\ DOMAIN lists = {Owner(file, i) : i \in ItemsTo(file, n)}
  /\ \A path \in DOMAIN lists :
       HasValuesOf(lists[path], file, {i \in ItemsTo(file, n) : Owner(file, i) = path})

\* One more line with a value.
LEMMA ScalaredNext ==
  ASSUME NEW file, NEW n \in Nat, NEW scalars, Scalared(file, n, scalars),
         file[n + 1].kind = "scalar"
  PROVE  Scalared(file, n + 1, Put(scalars, PathOf(file, n + 1), file[n + 1].value))
<1> DEFINE new == PathOf(file, n + 1)
           more == Put(scalars, new, file[n + 1].value)
<1>1. ScalarsTo(file, n + 1) = ScalarsTo(file, n) \union {n + 1}
  BY DEF ScalarsTo
<1>2. \A k \in ScalarsTo(file, n) : k \in Nat /\ k <= n
  BY DEF ScalarsTo
<1>3. DOMAIN more = DOMAIN scalars \union {new}
  BY DEF Put
<1>4. /\ more[new] = file[n + 1].value
      /\ \A path \in DOMAIN scalars : path # new => more[path] = scalars[path]
  BY DEF Put
<1> HIDE DEF new, more
<1>5. DOMAIN more = {PathOf(file, i) : i \in ScalarsTo(file, n + 1)}
  BY <1>1, <1>3 DEF Scalared, new
<1>6. ASSUME NEW path \in DOMAIN more
      PROVE  \E i \in ScalarsTo(file, n + 1) :
                /\ PathOf(file, i) = path
                /\ \A k \in ScalarsTo(file, n + 1) : PathOf(file, k) = path => k <= i
                /\ more[path] = file[i].value
  <2>1. CASE path = new
    <3>1. \A k \in ScalarsTo(file, n + 1) : k <= n + 1
      BY <1>1, <1>2
    <3>2. n + 1 \in ScalarsTo(file, n + 1)
      BY <1>1
    <3> QED
      BY <1>4, <2>1, <3>1, <3>2 DEF new
  <2>2. CASE path # new
    <3>1. PICK i \in ScalarsTo(file, n) :
            /\ PathOf(file, i) = path
            /\ \A k \in ScalarsTo(file, n) : PathOf(file, k) = path => k <= i
            /\ scalars[path] = file[i].value
      BY <1>3, <1>6, <2>2 DEF Scalared
    <3>2. more[path] = scalars[path]
      BY <1>3, <1>4, <1>6, <2>2
    <3>3. \A k \in ScalarsTo(file, n + 1) : PathOf(file, k) = path => k <= i
      BY <1>1, <2>2, <3>1 DEF new
    <3> QED
      BY <1>1, <3>1, <3>2, <3>3
  <2> QED
    BY <2>1, <2>2
<1> QED
  BY <1>5, <1>6 DEF Scalared, more, new

\* The list of some lines, and of those and a later one.
LEMMA HasValuesOfNext ==
  ASSUME NEW file, NEW n \in Nat, NEW list, NEW lines \in SUBSET (1..n),
         HasValuesOf(list, file, lines), file[n + 1].value \in STRING
  PROVE  HasValuesOf(Append(list, file[n + 1].value), file, lines \union {n + 1})
<1> DEFINE more == Append(list, file[n + 1].value)
           m == Len(list) + 1
<1>1. list \in Seq(STRING) /\ Len(list) \in Nat /\ DOMAIN list = 1..Len(list)
  BY DEF HasValuesOf
<1>2. PICK line \in [DOMAIN list -> lines] :
        /\ \A i, j \in DOMAIN list : i < j => line[i] < line[j]
        /\ \A k \in lines : \E i \in DOMAIN list : line[i] = k
        /\ \A i \in DOMAIN list : list[i] = file[line[i]].value
  BY DEF HasValuesOf
<1>3. /\ more \in Seq(STRING) /\ Len(more) = m
      /\ \A i \in 1..Len(list) : more[i] = list[i]
      /\ more[m] = file[n + 1].value
  BY <1>1, AppendProperties
<1>4. DOMAIN more = 1..m
  BY <1>1, <1>3
<1>5. \A i \in 1..m : i # m => i \in DOMAIN list
  BY <1>1
<1> HIDE DEF more, m
<1> DEFINE next == [i \in 1..m |-> IF i = m THEN n + 1 ELSE line[i]]
<1>6. m \in 1..m /\ \A i \in DOMAIN list : i \in 1..m /\ i # m /\ i < m
  BY <1>1 DEF m
<1>7. \A i \in DOMAIN list : line[i] \in lines /\ line[i] \in Nat /\ line[i] <= n
  <2>1. \A i \in DOMAIN list : line[i] \in lines
    BY <1>2
  <2>2. \A k \in lines : k \in Nat /\ k <= n
    <3>1. \A k \in lines : k \in 1..n
      OBVIOUS
    <3>2. \A k \in 1..n : k \in Nat /\ k <= n
      OBVIOUS
    <3> QED
      BY <3>1, <3>2
  <2> QED
    BY <2>1, <2>2
<1>8. next[m] = n + 1 /\ \A i \in DOMAIN list : next[i] = line[i]
  BY <1>6
<1>9. next \in [DOMAIN more -> lines \union {n + 1}]
  BY <1>4, <1>5, <1>7
<1> HIDE DEF next
<1>10. ASSUME NEW i \in 1..m, NEW j \in 1..m, i < j
       PROVE  next[i] < next[j]
  <2>1. i # m
    BY <1>1, <1>10 DEF m
  <2>2. i \in DOMAIN list
    BY <1>5, <2>1
  <2>3. CASE j = m
    BY <1>7, <1>8, <2>2, <2>3
  <2>4. CASE j # m
    BY <1>2, <1>5, <1>8, <1>10, <2>2, <2>4
  <2> QED
    BY <2>3, <2>4
<1>11. ASSUME NEW k \in lines \union {n + 1}
       PROVE  \E i \in 1..m : next[i] = k
  BY <1>2, <1>6, <1>8
<1>12. ASSUME NEW i \in 1..m
       PROVE  more[i] = file[next[i]].value
  <2>1. CASE i = m
    BY <1>3, <1>8, <2>1
  <2>2. CASE i # m
    BY <1>1, <1>2, <1>3, <1>5, <1>8, <2>2
  <2> QED
    BY <2>1, <2>2
<1>13. HasValuesOf(more, file, lines \union {n + 1})
  <2>1. \E l \in [DOMAIN more -> lines \union {n + 1}] :
          /\ \A i, j \in DOMAIN more : i < j => l[i] < l[j]
          /\ \A k \in lines \union {n + 1} : \E i \in DOMAIN more : l[i] = k
          /\ \A i \in DOMAIN more : more[i] = file[l[i]].value
    <3> WITNESS next \in [DOMAIN more -> lines \union {n + 1}]
    <3> QED
      BY <1>4, <1>10, <1>11, <1>12
  <2> QED
    BY <1>3, <2>1 DEF HasValuesOf
<1> QED
  BY <1>13 DEF more

\* The list of no lines.
LEMMA NoValues ==
  ASSUME NEW file
  PROVE  HasValuesOf(<<>>, file, {})
<1>1. <<>> \in Seq(STRING) /\ DOMAIN <<>> = {}
  OBVIOUS
<1>2. [i \in {} |-> i] \in [{} -> {}]
  OBVIOUS
<1> QED
  BY <1>1, <1>2 DEF HasValuesOf

\* One more item.
LEMMA ListedNext ==
  ASSUME NEW file, NEW n \in Nat, NEW lists, Listed(file, n, lists),
         file[n + 1].kind = "item", file[n + 1].value \in STRING
  PROVE  LET owner == Owner(file, n + 1)
         IN Listed(file, n + 1,
                   Put(lists, owner, Append(Get(lists, owner, <<>>), file[n + 1].value)))
<1> DEFINE owner == Owner(file, n + 1)
           list == Append(Get(lists, owner, <<>>), file[n + 1].value)
           more == Put(lists, owner, list)
           Of(i, path) == {k \in ItemsTo(file, i) : Owner(file, k) = path}
<1>1. ItemsTo(file, n + 1) = ItemsTo(file, n) \union {n + 1}
  BY DEF ItemsTo
<1>2. ItemsTo(file, n) \subseteq 1..n
  BY DEF ItemsTo
<1>3. DOMAIN more = DOMAIN lists \union {owner}
  BY DEF Put
<1>4. more[owner] = list /\ \A path \in DOMAIN lists : path # owner => more[path] = lists[path]
  BY DEF Put
<1> HIDE DEF owner, list, more
<1>5. DOMAIN more = {Owner(file, i) : i \in ItemsTo(file, n + 1)}
  BY <1>1, <1>3 DEF Listed, owner
<1>6. HasValuesOf(list, file, Of(n + 1, owner))
  <2>1. Of(n + 1, owner) = Of(n, owner) \union {n + 1}
    BY <1>1 DEF owner
  <2>2. HasValuesOf(Get(lists, owner, <<>>), file, Of(n, owner))
    <3>1. CASE owner \in DOMAIN lists
      BY <3>1 DEF Listed, Get
    <3>2. CASE owner \notin DOMAIN lists
      <4>1. Of(n, owner) = {}
        BY <3>2 DEF Listed
      <4>2. Get(lists, owner, <<>>) = <<>>
        BY <3>2 DEF Get
      <4> QED
        BY <4>1, <4>2, NoValues
    <3> QED
      BY <3>1, <3>2
  <2>3. Of(n, owner) \in SUBSET (1..n)
    BY <1>2
  <2> HIDE DEF Of
  <2>4. HasValuesOf(Append(Get(lists, owner, <<>>), file[n + 1].value), file,
                    Of(n, owner) \union {n + 1})
    BY <2>2, <2>3, HasValuesOfNext
  <2> QED
    BY <2>1, <2>4 DEF list
<1>7. ASSUME NEW path \in DOMAIN more
      PROVE  HasValuesOf(more[path], file, Of(n + 1, path))
  <2>1. CASE path = owner
    BY <1>4, <1>6, <2>1
  <2>2. CASE path # owner
    <3>1. Of(n + 1, path) = Of(n, path)
      BY <1>1, <2>2 DEF owner
    <3>2. path \in DOMAIN lists /\ more[path] = lists[path]
      BY <1>3, <1>4, <1>7, <2>2
    <3> QED
      BY <3>1, <3>2 DEF Listed
  <2> QED
    BY <2>1, <2>2
<1>8. Listed(file, n + 1, more)
  BY <1>5, <1>7 DEF Listed
<1> QED
  BY <1>8 DEF more, list, owner

\* A line of another kind gives no value, and no item.
LEMMA OthersSayNothing ==
  ASSUME NEW file, NEW n \in Nat
  PROVE  /\ file[n + 1].kind # "scalar" =>
              \A scalars : Scalared(file, n, scalars) => Scalared(file, n + 1, scalars)
         /\ file[n + 1].kind # "item" =>
              \A lists : Listed(file, n, lists) => Listed(file, n + 1, lists)
<1>1. file[n + 1].kind # "scalar" => ScalarsTo(file, n + 1) = ScalarsTo(file, n)
  BY DEF ScalarsTo
<1>2. file[n + 1].kind # "item" => ItemsTo(file, n + 1) = ItemsTo(file, n)
  BY DEF ItemsTo
<1> QED
  BY <1>1, <1>2 DEF Scalared, Listed

------------------------------------------------------------------------------
(* The parser *)

\* The parser's tests of an item are that the section it is in has a name and no
\* value before it.
LEMMA ItemFits ==
  ASSUME NEW file \in Seq(Line), NEW n \in 0..(Len(file) - 1), NEW stack, NEW scalars,
         Stacked(file, n, stack), Scalared(file, n, scalars), file[n + 1].kind = "item"
  PROVE  Fits(file, n + 1) <=> ~ (stack = <<>> \/ stack \in DOMAIN scalars)
<1>1. stack = Owner(file, n + 1)
  BY DEF Stacked
<1>2. DOMAIN file = 1..Len(file) /\ Len(file) \in Nat
  OBVIOUS
<1>3. stack \in DOMAIN scalars <=> \E k \in ScalarLines(file, stack) : ~ (k > n + 1)
  <2>1. ASSUME stack \in DOMAIN scalars
        PROVE  \E k \in ScalarLines(file, stack) : ~ (k > n + 1)
    <3>1. PICK k \in ScalarsTo(file, n) : PathOf(file, k) = stack
      BY <2>1 DEF Scalared
    <3>2. k \in 1..n /\ k \in DOMAIN file /\ file[k].kind = "scalar" /\ ~ (k > n + 1)
      BY <1>2, <3>1 DEF ScalarsTo
    <3> QED
      BY <3>1, <3>2 DEF ScalarLines
  <2>2. ASSUME NEW k \in ScalarLines(file, stack), ~ (k > n + 1)
        PROVE  stack \in DOMAIN scalars
    <3>1. k \in 1..Len(file) /\ file[k].kind = "scalar" /\ PathOf(file, k) = stack
      BY <1>2, <2>2 DEF ScalarLines
    <3>2. k # n + 1
      BY <3>1
    <3>3. k \in 1..n
      BY <1>2, <2>2, <3>1, <3>2
    <3> QED
      BY <3>1, <3>3 DEF Scalared, ScalarsTo
  <2> QED
    BY <2>1, <2>2
<1> QED
  BY <1>1, <1>3 DEF Fits

\* A parser that fails keeps the rest.
LEMMA FailIs ==
  ASSUME NEW ok, NEW stack, NEW scalars, NEW lists
  PROVE  Fail([ok |-> ok, stack |-> stack, scalars |-> scalars, lists |-> lists]) =
           [ok |-> FALSE, stack |-> stack, scalars |-> scalars, lists |-> lists]
<1>1. ASSUME NEW v
      PROVE  [[ok |-> ok, stack |-> stack, scalars |-> scalars, lists |-> lists] EXCEPT !.ok = v] =
               [ok |-> v, stack |-> stack, scalars |-> scalars, lists |-> lists]
  OBVIOUS
<1> QED
  BY <1>1 DEF Fail

\* What the parser has after n lines: it has gone on exactly if each line fits where
\* it stands, and then the stack and the values are those of the file so far.
Follows(file, n, st) ==
  /\ st = [ok |-> st.ok, stack |-> st.stack, scalars |-> st.scalars, lists |-> st.lists]
  /\ st.ok \in BOOLEAN
  /\ st.ok <=> \A i \in 1..n : Fits(file, i)
  /\ st.ok => /\ Stacked(file, n, st.stack)
              /\ Scalared(file, n, st.scalars)
              /\ Listed(file, n, st.lists)

\* One more line.
LEMMA FollowsNext ==
  ASSUME NEW file \in Seq(Line), NEW n \in 0..(Len(file) - 1), NEW st, Follows(file, n, st)
  PROVE  Follows(file, n + 1, ParseLine(st, file[n + 1]))
<1> DEFINE line == file[n + 1]
           next == ParseLine(st, line)
<1> SUFFICES Follows(file, n + 1, next)
  OBVIOUS
<1>1. /\ n \in Nat /\ n + 1 \in 1..Len(file)
      /\ line.kind \in {"section", "scalar", "item", "bad"}
      /\ line.level \in Nat /\ line.value \in STRING
  <2>1. n \in Nat /\ n + 1 \in 1..Len(file)
    OBVIOUS
  <2>2. line \in Line
    BY <2>1
  <2> QED
    BY <2>1, <2>2 DEF Line
<1>2. (\A i \in 1..(n + 1) : Fits(file, i)) <=> (\A i \in 1..n : Fits(file, i)) /\ Fits(file, n + 1)
  <2>1. 1..(n + 1) = (1..n) \union {n + 1}
    BY <1>1
  <2> QED
    BY <2>1
<1>3. st = [ok |-> st.ok, stack |-> st.stack, scalars |-> st.scalars, lists |-> st.lists]
      /\ st.ok \in BOOLEAN /\ (st.ok <=> \A i \in 1..n : Fits(file, i))
  BY DEF Follows
<1> DEFINE failed == [ok |-> FALSE, stack |-> st.stack, scalars |-> st.scalars, lists |-> st.lists]
<1>4. Fail(st) = failed
  <2> DEFINE same == [ok |-> st.ok, stack |-> st.stack, scalars |-> st.scalars, lists |-> st.lists]
  <2>1. Fail(same) = failed
    BY FailIs
  <2>2. st = same
    BY <1>3
  <2> HIDE DEF same, failed
  <2> QED
    BY <2>1, <2>2
<1>5. ASSUME ~ Fits(file, n + 1), next = failed
      PROVE  Follows(file, n + 1, next)
  BY <1>2, <1>5 DEF Follows
<1>6. CASE ~ st.ok
  <2>1. next = st
    BY <1>6 DEF ParseLine
  <2> HIDE DEF next
  <2> QED
    BY <1>2, <1>3, <1>6, <2>1 DEF Follows
<1> SUFFICES ASSUME st.ok PROVE Follows(file, n + 1, next)
  BY <1>6
<1>7. Stacked(file, n, st.stack) /\ Scalared(file, n, st.scalars) /\ Listed(file, n, st.lists)
  BY DEF Follows
<1>8. ASSUME Fits(file, n + 1), NEW stack, NEW scalars, NEW lists,
             next = [ok |-> TRUE, stack |-> stack, scalars |-> scalars, lists |-> lists],
             Stacked(file, n + 1, stack), Scalared(file, n + 1, scalars), Listed(file, n + 1, lists)
      PROVE  Follows(file, n + 1, next)
  BY <1>2, <1>3, <1>8 DEF Follows
<1>9. CASE line.kind = "item"
  <2>1. next = Item(st, line)
    BY <1>9 DEF ParseLine
  <2>2. Fits(file, n + 1) <=> ~ (st.stack = <<>> \/ st.stack \in DOMAIN st.scalars)
    BY <1>7, <1>9, ItemFits
  <2>3. CASE ~ Fits(file, n + 1)
    <3>1. next = failed
      BY <1>4, <2>1, <2>2, <2>3 DEF Item
    <3> QED
      BY <1>5, <2>3, <3>1
  <2>4. CASE Fits(file, n + 1)
    <3> DEFINE lists == Put(st.lists, st.stack, Append(Get(st.lists, st.stack, <<>>), line.value))
    <3>1. next = [ok |-> TRUE, stack |-> st.stack, scalars |-> st.scalars, lists |-> lists]
      BY <1>3, <2>1, <2>2, <2>4 DEF Item
    <3>2. Listed(file, n + 1, lists)
      <4>1. st.stack = Owner(file, n + 1)
        BY <1>7 DEF Stacked
      <4>2. LET owner == Owner(file, n + 1)
            IN Listed(file, n + 1,
                      Put(st.lists, owner, Append(Get(st.lists, owner, <<>>), line.value)))
        BY <1>1, <1>7, <1>9, ListedNext
      <4> QED
        BY <4>1, <4>2
    <3>3. Stacked(file, n + 1, st.stack)
      BY <1>7, <1>9, StackedItem
    <3>4. Scalared(file, n + 1, st.scalars)
      BY <1>1, <1>7, <1>9, OthersSayNothing
    <3> HIDE DEF lists, next
    <3> QED
      BY <1>8, <2>4, <3>1, <3>2, <3>3, <3>4
  <2> QED
    BY <2>3, <2>4
<1>10. CASE line.kind = "bad"
  <2>1. ~ Fits(file, n + 1)
    BY <1>10 DEF Fits
  <2>2. next = failed
    BY <1>4, <1>10 DEF ParseLine, Key
  <2> QED
    BY <1>5, <2>1, <2>2
<1>11. CASE line.kind \in {"section", "scalar"}
  <2> DEFINE path == PathOf(file, n + 1)
  <2>1. next = Key(st, line)
    BY <1>11 DEF ParseLine
  <2>2. Fits(file, n + 1) <=> line.level <= Len(st.stack)
    <3>1. Fits(file, n + 1) <=> WellPlaced(file, n + 1)
      BY <1>11 DEF Fits
    <3> QED
      BY <1>7, <3>1, PlacedWell
  <2>3. Len(st.stack) \in Nat
    BY <1>7 DEF Stacked
  <2>4. CASE ~ (line.level <= Len(st.stack))
    <3>1. next = failed
      BY <1>1, <1>4, <2>1, <2>3, <2>4 DEF Key
    <3> QED
      BY <1>5, <2>2, <2>4, <3>1
  <2>5. CASE line.level <= Len(st.stack)
    <3>1. path = Append(SubSeq(st.stack, 1, line.level), line.key)
      <4>1. ASSUME NEW stack, Stacked(file, n, stack), file[n + 1].level <= Len(stack)
            PROVE  PathOf(file, n + 1) = Append(SubSeq(stack, 1, file[n + 1].level), file[n + 1].key)
        BY <4>1, PathIs
      <4> QED
        BY <1>7, <2>5, <4>1
    <3>2. Stacked(file, n + 1, IF line.kind = "section" THEN path ELSE Front(path))
      BY <1>7, <1>11, <2>5, StackedKey
    <3>3. Listed(file, n + 1, st.lists)
      BY <1>1, <1>7, <1>11, OthersSayNothing
    <3>4. ~ (line.level > Len(st.stack))
      BY <1>1, <2>3, <2>5
    <3> HIDE DEF path, line
    <3>5. CASE line.kind = "section"
      <4>1. next = [ok |-> TRUE, stack |-> path, scalars |-> st.scalars, lists |-> st.lists]
        BY <1>3, <2>1, <3>1, <3>4, <3>5 DEF Key
      <4>2. Scalared(file, n + 1, st.scalars)
        BY <1>1, <1>7, <3>5, OthersSayNothing DEF line
      <4>3. Stacked(file, n + 1, path)
        BY <3>2, <3>5
      <4> HIDE DEF next
      <4> QED
        BY <1>8, <2>2, <2>5, <3>3, <4>1, <4>2, <4>3
    <3>6. CASE line.kind = "scalar"
      <4> DEFINE scalars == Put(st.scalars, path, line.value)
      <4>1. next = [ok |-> TRUE, stack |-> Front(path), scalars |-> scalars, lists |-> st.lists]
        BY <1>3, <2>1, <3>1, <3>4, <3>6 DEF Key
      <4>2. Scalared(file, n + 1, scalars)
        BY <1>1, <1>7, <3>6, ScalaredNext DEF line, path
      <4>3. Stacked(file, n + 1, Front(path))
        BY <3>2, <3>6
      <4> HIDE DEF next, scalars
      <4> QED
        BY <1>8, <2>2, <2>5, <3>3, <4>1, <4>2, <4>3
    <3> QED
      BY <1>11, <3>5, <3>6 DEF line
  <2> QED
    BY <2>4, <2>5
<1> QED
  BY <1>1, <1>9, <1>10, <1>11

\* Before the first line.
LEMMA FollowsEmpty ==
  ASSUME NEW file \in Seq(Line)
  PROVE  Follows(file, 0, Empty)
<1>1. \A i : ~ (i \in 1..0)
  OBVIOUS
<1>2. \A i \in Keys(file) : ~ (i < 1)
  BY DEF Keys
<1>3. Owner(file, 0 + 1) = <<>>
  BY <1>2 DEF Owner
<1>4. Above(file, 0 + 1, 0) = 0
  BY <1>2 DEF Above
<1>5. Stacked(file, 0, <<>>)
  BY <1>1, <1>3, <1>4 DEF Stacked, Opens
<1>6. DOMAIN <<>> = {}
  OBVIOUS
<1>7. Scalared(file, 0, <<>>)
  BY <1>1, <1>6 DEF Scalared, ScalarsTo
<1>8. Listed(file, 0, <<>>)
  BY <1>1, <1>6 DEF Listed, ItemsTo
<1> QED
  BY <1>1, <1>5, <1>7, <1>8 DEF Follows, Empty

\* parseSimpleYAML: for every file, the parser accepts it exactly if each line fits
\* where it stands, and then its scalars and its lists are those of the file.
THEOREM ParserReadsTheFile ==
  ASSUME NEW file \in Seq(Line)
  PROVE  Means(file, Parse(file))
<1> DEFINE after == AfterLines(file)
           T == {n \in 0..Len(file) : Follows(file, n, after[n])}
<1>1. after[0] = Empty /\ \A n \in 1..Len(file) : after[n] = ParseLine(after[n - 1], file[n])
  BY AfterLinesAre
<1>2. Len(file) \in Nat /\ DOMAIN file = 1..Len(file)
  OBVIOUS
<1> HIDE DEF after
<1>3. 0 \in T
  BY <1>1, <1>2, FollowsEmpty
<1>4. ASSUME NEW n \in 1..Len(file), n - 1 \in T
      PROVE  n \in T
  <2>1. n - 1 \in 0..(Len(file) - 1) /\ (n - 1) + 1 = n /\ n \in 0..Len(file)
    BY <1>2
  <2>2. Follows(file, (n - 1) + 1, ParseLine(after[n - 1], file[(n - 1) + 1]))
    BY <1>4, <2>1, FollowsNext
  <2> QED
    BY <1>1, <2>1, <2>2
<1>5. Len(file) \in T
  <2> HIDE DEF T
  <2>1. 0..Len(file) \subseteq T
    BY <1>2, <1>3, <1>4, CountUp
  <2> QED
    BY <1>2, <2>1
<1> DEFINE parsed == after[Len(file)]
<1>6. Follows(file, Len(file), parsed)
  BY <1>5
<1>7. Parse(file) = parsed
  BY DEF Parse, after
<1> HIDE DEF parsed, T
<1>8. parsed.ok = Acceptable(file)
  BY <1>2, <1>6 DEF Follows, Acceptable
<1>9. ASSUME parsed.ok
      PROVE  Scalared(file, Len(file), parsed.scalars) /\ Listed(file, Len(file), parsed.lists)
  BY <1>6, <1>9 DEF Follows
<1>10. ScalarsTo(file, Len(file)) = {k \in DOMAIN file : file[k].kind = "scalar"}
       /\ ItemsTo(file, Len(file)) = {k \in DOMAIN file : file[k].kind = "item"}
  BY <1>2 DEF ScalarsTo, ItemsTo
<1>11. \A path : /\ ScalarLines(file, path) = {i \in ScalarsTo(file, Len(file)) : PathOf(file, i) = path}
                 /\ ItemLines(file, path) = {i \in ItemsTo(file, Len(file)) : Owner(file, i) = path}
  BY <1>10 DEF ScalarLines, ItemLines
<1>12. ASSUME parsed.ok, NEW path \in DOMAIN parsed.scalars
       PROVE  \E i \in ScalarLines(file, path) :
                 /\ \A k \in ScalarLines(file, path) : k <= i
                 /\ parsed.scalars[path] = file[i].value
  BY <1>9, <1>11, <1>12 DEF Scalared
<1>13. ASSUME parsed.ok, NEW path \in DOMAIN parsed.lists
       PROVE  HasValuesOf(parsed.lists[path], file, ItemLines(file, path))
  BY <1>9, <1>11, <1>13 DEF Listed
<1>14. ASSUME parsed.ok
       PROVE  /\ DOMAIN parsed.scalars =
                   {PathOf(file, i) : i \in {k \in DOMAIN file : file[k].kind = "scalar"}}
              /\ DOMAIN parsed.lists =
                   {Owner(file, i) : i \in {k \in DOMAIN file : file[k].kind = "item"}}
  BY <1>9, <1>10, <1>14 DEF Scalared, Listed
<1>15. Means(file, parsed)
  BY <1>8, <1>12, <1>13, <1>14 DEF Means
<1> QED
  BY <1>7, <1>15

------------------------------------------------------------------------------
(* The sources *)

\* What Load looks up is what the file says.
LEMMA LookedUp ==
  ASSUME NEW file \in Seq(Line), Parse(file).ok, NEW path
  PROVE  Get(Parse(file).scalars, path, "") = Says(file, path)
<1> DEFINE scalars == Parse(file).scalars
           lines == ScalarLines(file, path)
<1>1. /\ DOMAIN scalars = {PathOf(file, i) : i \in {k \in DOMAIN file : file[k].kind = "scalar"}}
      /\ \A p \in DOMAIN scalars :
           \E i \in ScalarLines(file, p) :
              /\ \A k \in ScalarLines(file, p) : k <= i
              /\ scalars[p] = file[i].value
  BY ParserReadsTheFile DEF Means
<1>2. path \in DOMAIN scalars <=> lines # {}
  BY <1>1 DEF ScalarLines
<1>3. lines \in SUBSET Int
  <2>1. DOMAIN file = 1..Len(file) /\ Len(file) \in Nat
    OBVIOUS
  <2> QED
    BY <2>1 DEF ScalarLines
<1> HIDE DEF scalars
<1>4. CASE path \in DOMAIN scalars
  <2>1. PICK i \in lines : (\A k \in lines : k <= i) /\ scalars[path] = file[i].value
    BY <1>1, <1>4
  <2> HIDE DEF lines
  <2>2. Latest(lines) = i
    BY <1>3, <2>1, LatestIs
  <2>3. Says(file, path) = file[Latest(lines)].value
    BY <1>2, <1>4 DEF Says, lines
  <2> QED
    BY <1>4, <2>1, <2>2, <2>3 DEF Get, scalars
<1>5. CASE path \notin DOMAIN scalars
  BY <1>2, <1>5 DEF Says, Get, scalars
<1> QED
  BY <1>4, <1>5

\* The first of some texts that counts.
LEMMA FirstUsable ==
  ASSUME NEW texts, DOMAIN texts \in SUBSET Int, NEW default, NEW i \in DOMAIN texts, Positive(texts[i]),
         \A k \in DOMAIN texts : Positive(texts[k]) => i <= k
  PROVE  FirstPositive(texts, default) = Number[texts[i]]
<1> DEFINE usable == {k \in DOMAIN texts : Positive(texts[k])}
           first == CHOOSE k \in usable : \A n \in usable : k <= n
<1>2. i \in usable /\ \A k \in usable : i <= k
  OBVIOUS
<1>3. usable \subseteq Int
  OBVIOUS
<1>4. FirstPositive(texts, default) = Number[texts[first]]
  BY <1>2 DEF FirstPositive
<1> HIDE DEF usable
<1>5. \A k \in usable : (\A n \in usable : k <= n) => k = i
  BY <1>2, <1>3
<1>6. first = i
  BY <1>2, <1>5
<1> HIDE DEF first
<1> QED
  BY <1>4, <1>6

\* Counting from the least source up is taking the best one that counts.
LEMMA BestOfThree ==
  ASSUME NEW a, NEW b, NEW c, NEW default
  PROVE  FirstPositive(<<a, b, c>>, default) = Count(Count(Count(default, c), b), a)
<1> DEFINE texts == <<a, b, c>>
<1>1. DOMAIN texts = {1, 2, 3} /\ texts[1] = a /\ texts[2] = b /\ texts[3] = c
  OBVIOUS
<1> HIDE DEF texts
<1>2. CASE Positive(a)
  <2>1. 1 \in DOMAIN texts /\ DOMAIN texts \in SUBSET Int
        /\ \A k \in DOMAIN texts : Positive(texts[k]) => 1 <= k
    BY <1>1, <1>2
  <2>2. FirstPositive(texts, default) = Number[texts[1]]
    BY <1>1, <1>2, <2>1, FirstUsable
  <2> QED
    BY <1>1, <1>2, <2>2 DEF Count, texts
<1>3. CASE ~ Positive(a) /\ Positive(b)
  <2>1. 2 \in DOMAIN texts /\ DOMAIN texts \in SUBSET Int
        /\ \A k \in DOMAIN texts : Positive(texts[k]) => 2 <= k
    BY <1>1, <1>3
  <2>2. FirstPositive(texts, default) = Number[texts[2]]
    BY <1>1, <1>3, <2>1, FirstUsable
  <2> QED
    BY <1>1, <1>3, <2>2 DEF Count, texts
<1>4. CASE ~ Positive(a) /\ ~ Positive(b) /\ Positive(c)
  <2>1. 3 \in DOMAIN texts /\ DOMAIN texts \in SUBSET Int
        /\ \A k \in DOMAIN texts : Positive(texts[k]) => 3 <= k
    BY <1>1, <1>4
  <2>2. FirstPositive(texts, default) = Number[texts[3]]
    BY <1>1, <1>4, <2>1, FirstUsable
  <2> QED
    BY <1>1, <1>4, <2>2 DEF Count, texts
<1>5. CASE ~ Positive(a) /\ ~ Positive(b) /\ ~ Positive(c)
  <2>1. FirstPositive(texts, default) = default
    BY <1>1, <1>5 DEF FirstPositive
  <2> QED
    BY <1>5, <2>1 DEF Count, texts
<1> QED
  BY <1>2, <1>3, <1>4, <1>5

\* The same for two.
LEMMA BestOfTwo ==
  ASSUME NEW a, NEW b, NEW default
  PROVE  FirstPositive(<<a, b>>, default) = Count(Count(default, b), a)
<1> DEFINE texts == <<a, b>>
<1>1. DOMAIN texts = {1, 2} /\ texts[1] = a /\ texts[2] = b
  OBVIOUS
<1> HIDE DEF texts
<1>2. CASE Positive(a)
  <2>1. 1 \in DOMAIN texts /\ DOMAIN texts \in SUBSET Int
        /\ \A k \in DOMAIN texts : Positive(texts[k]) => 1 <= k
    BY <1>1, <1>2
  <2>2. FirstPositive(texts, default) = Number[texts[1]]
    BY <1>1, <1>2, <2>1, FirstUsable
  <2> QED
    BY <1>1, <1>2, <2>2 DEF Count, texts
<1>3. CASE ~ Positive(a) /\ Positive(b)
  <2>1. 2 \in DOMAIN texts /\ DOMAIN texts \in SUBSET Int
        /\ \A k \in DOMAIN texts : Positive(texts[k]) => 2 <= k
    BY <1>1, <1>3
  <2>2. FirstPositive(texts, default) = Number[texts[2]]
    BY <1>1, <1>3, <2>1, FirstUsable
  <2> QED
    BY <1>1, <1>3, <2>2 DEF Count, texts
<1>4. CASE ~ Positive(a) /\ ~ Positive(b)
  <2>1. FirstPositive(texts, default) = default
    BY <1>1, <1>4 DEF FirstPositive
  <2> QED
    BY <1>4, <2>1 DEF Count, texts
<1> QED
  BY <1>2, <1>3, <1>4

\* Load: when it succeeds, the file is one the parser accepts, the token is not
\* empty, and the settings are each from the best source that has one: the
\* environment, the file, the default.
THEOREM LoadTakesTheBest ==
  ASSUME NEW file \in Seq(Line), NEW env, Load(file, env).ok
  PROVE  TakesTheBest(Load(file, env), file, env)
<1> DEFINE Said(path) == Get(Parse(file).scalars, path, "")
           loaded == Load(file, env)
<1>1. /\ loaded.ok = (Parse(file).ok /\ loaded.token # "")
      /\ loaded.token = Text(Said(<<"api_token">>), env.API_TOKEN)
      /\ loaded.workers = Count(Count(Count(10, Said(<<"queue", "workers">>)), env.WORKERS),
                                env.QUEUE_WORKERS)
      /\ loaded.size = Count(Count(100, Said(<<"queue", "size">>)), env.QUEUE_SIZE)
  BY DEF Load
<1>2. /\ loaded.mail = [host |-> Text(Said(<<"smtp", "host">>), env.SMTP_HOST),
                        user |-> Text(Said(<<"smtp", "user">>), env.SMTP_USER),
                        pass |-> Text(Said(<<"smtp", "pass">>), env.SMTP_PASS),
                        from |-> Text(Said(<<"smtp", "from">>), env.SMTP_FROM)]
      /\ LET late == Said(<<"scheduler", "max_lateness">>)
         IN loaded.late = IF late \in DOMAIN Duration /\ Duration[late] > 0
                          THEN Duration[late] ELSE 2
  BY DEF Load
<1> HIDE DEF loaded
<1>3. Parse(file).ok /\ loaded.token # ""
  BY <1>1 DEF loaded
<1>4. Acceptable(file)
  BY <1>3, ParserReadsTheFile DEF Means
<1>5. \A path : Said(path) = Says(file, path)
  BY <1>3, LookedUp
<1> HIDE DEF Said
<1>6. loaded.token \in {env.API_TOKEN, Says(file, <<"api_token">>)}
      /\ (env.API_TOKEN # "" => loaded.token = env.API_TOKEN)
  BY <1>1, <1>5 DEF Text
<1>7. loaded.workers = FirstPositive(
        <<env.QUEUE_WORKERS, env.WORKERS, Says(file, <<"queue", "workers">>)>>, 10)
  <2>1. \A a, b, c : FirstPositive(<<a, b, c>>, 10) = Count(Count(Count(10, c), b), a)
    BY BestOfThree
  <2> QED
    BY <1>1, <1>5, <2>1
<1>8. loaded.size = FirstPositive(<<env.QUEUE_SIZE, Says(file, <<"queue", "size">>)>>, 100)
  BY <1>1, <1>5, BestOfTwo
<1>9. /\ \A best, second : Text(second, best) = FirstText(best, second)
       /\ \A text : Lateness(text) = IF text \in DOMAIN Duration /\ Duration[text] > 0
                                     THEN Duration[text] ELSE 2
  <2>1. \A best, second : Text(second, best) = FirstText(best, second)
    BY DEF Text, FirstText
  <2> QED
    BY <2>1 DEF Lateness
<1>10. loaded.mail =
         [host |-> FirstText(env.SMTP_HOST, Says(file, <<"smtp", "host">>)),
          user |-> FirstText(env.SMTP_USER, Says(file, <<"smtp", "user">>)),
          pass |-> FirstText(env.SMTP_PASS, Says(file, <<"smtp", "pass">>)),
          from |-> FirstText(env.SMTP_FROM, Says(file, <<"smtp", "from">>))]
  BY <1>5, <1>2, <1>9
<1>11. loaded.late = Lateness(Says(file, <<"scheduler", "max_lateness">>))
  BY <1>5, <1>2, <1>9
<1>12. TakesTheBest(loaded, file, env)
  BY <1>3, <1>4, <1>6, <1>7, <1>8, <1>10, <1>11 DEF TakesTheBest
<1> QED
  BY <1>12 DEF loaded
=============================================================================
