------------------------------- MODULE Config -------------------------------
(***************************************************************************)
(* internal/config: the settings of the server, from defaults, a file in a *)
(* small subset of YAML, and the environment.  A line of the file is       *)
(* [kind, level, key, value]: a "section" opens a key, a "scalar" gives it *)
(* a value, an "item" belongs to a list, and a line the parser rejects     *)
(* wherever it stands is "bad".  Comments and blank lines are left out and *)
(* keys have no dots: the program joins the keys of a path with dots.      *)
(***************************************************************************)
EXTENDS Integers, Sequences, SequencesExt

CONSTANTS
  Number,      \* the texts that are integers, and what they are
  Duration     \* the texts that are durations, in the time unit of Scheduler

ASSUME ConfigAssumption ==
  /\ Number \in [DOMAIN Number -> Int]
  /\ Duration \in [DOMAIN Duration -> Int]

Line ==
  [kind : {"section", "scalar", "item", "bad"}, level : Nat, key : STRING, value : STRING]

Empty == [ok |-> TRUE, stack |-> <<>>, scalars |-> <<>>, lists |-> <<>>]

\* A map of paths with one more entry; the entry of a path that has none is blank.
Put(map, path, value) == [p \in DOMAIN map \union {path} |-> IF p = path THEN value ELSE map[p]]
Get(map, path, blank) == IF path \in DOMAIN map THEN map[path] ELSE blank

Fail(st) == [st EXCEPT !.ok = FALSE]

\* "- x" goes to the key on top of the stack, wherever it is indented.
Item(st, line) ==
  IF st.stack = <<>> \/ st.stack \in DOMAIN st.scalars
  THEN Fail(st)
  ELSE [st EXCEPT !.lists =
          Put(@, st.stack, Append(Get(@, st.stack, <<>>), line.value))]

\* Mutant: the keys of the sections before stay on the stack.
KeyDeeper(st, line) ==
  IF line.kind = "bad" \/ line.level > Len(st.stack)
  THEN Fail(st)
  ELSE LET path == Append(st.stack, line.key)
       IN IF line.kind = "section"
          THEN [st EXCEPT !.stack = path]
          ELSE [st EXCEPT !.scalars = Put(@, path, line.value)]

\* A line with a key cuts the stack to its level.
Key(st, line) ==
  IF line.kind = "bad" \/ line.level > Len(st.stack)
  THEN Fail(st)
  ELSE LET path == Append(SubSeq(st.stack, 1, line.level), line.key)
       IN IF line.kind = "section"
          THEN [st EXCEPT !.stack = path]
          ELSE [st EXCEPT !.stack = Front(path), !.scalars = Put(@, path, line.value)]

ParseLine(st, line) ==
  IF ~st.ok THEN st
  ELSE IF line.kind = "item" THEN Item(st, line) ELSE Key(st, line)

\* What the parser has after each line of the file, and before the first one.
AfterLines(file) ==
  LET after[n \in 0..Len(file)] ==
        IF n = 0 THEN Empty ELSE ParseLine(after[n - 1], file[n])
  IN after

Parse(file) == AfterLines(file)[Len(file)]

------------------------------------------------------------------------------

Positive(text) == text \in DOMAIN Number /\ Number[text] > 0

\* Mutant: any integer counts.
CountAny(value, given) == IF given \in DOMAIN Number THEN Number[given] ELSE value

\* The value so far and what one more source says: an empty text, or one that is no
\* positive number, says nothing.
Text(value, given) == IF given # "" THEN given ELSE value
Count(value, given) == IF Positive(given) THEN Number[given] ELSE value

\* Load stands for every setting with some of each sort: texts, a number with two
\* variables, a number with one, and the lateness, which only the file can give and
\* which New of internal/scheduler corrects to a minute unless it is positive.
Load(file, env) ==
  LET parsed == Parse(file)
      Said(path) == Get(parsed.scalars, path, "")
      late == Said(<<"scheduler", "max_lateness">>)
      token == Text(Said(<<"api_token">>), env.API_TOKEN)
  IN [ok      |-> parsed.ok /\ token # "",
      token   |-> token,
      workers |-> Count(Count(Count(10, Said(<<"queue", "workers">>)), env.WORKERS),
                        env.QUEUE_WORKERS),
      mail    |-> [host |-> Text(Said(<<"smtp", "host">>), env.SMTP_HOST),
                   user |-> Text(Said(<<"smtp", "user">>), env.SMTP_USER),
                   pass |-> Text(Said(<<"smtp", "pass">>), env.SMTP_PASS),
                   from |-> Text(Said(<<"smtp", "from">>), env.SMTP_FROM)],
      size    |-> Count(Count(100, Said(<<"queue", "size">>)), env.QUEUE_SIZE),
      late    |-> IF late \in DOMAIN Duration /\ Duration[late] > 0 THEN Duration[late] ELSE 2]

------------------------------------------------------------------------------
(* What a file means, said without a parser. *)

Keys(file) == {i \in DOMAIN file : file[i].kind # "item"}

Latest(lines) == CHOOSE k \in lines : \A n \in lines : n <= k

\* The last line before line i that has a key and stands no deeper than level.
Above(file, i, level) ==
  LET before == {k \in Keys(file) : k < i /\ file[k].level <= level}
  IN IF before = {} THEN 0 ELSE Latest(before)

\* A key stands at the margin, or under sections that are open at each level.
Opens(file, k, level) == k # 0 /\ file[k].kind = "section" /\ file[k].level = level

WellPlaced(file, i) ==
  \A level \in 0..(file[i].level - 1) : Opens(file, Above(file, i, level), level)

PathOf(file, i) ==
  [n \in 1..(file[i].level + 1) |->
     IF n = file[i].level + 1 THEN file[i].key ELSE file[Above(file, i, n - 1)].key]

\* The section that is open at line i, for an item: the key before it, or, if that
\* one has a value, the section this key is in.
Owner(file, i) ==
  LET before == {k \in Keys(file) : k < i}
      path == PathOf(file, Latest(before))
  IN IF before = {} THEN <<>>
     ELSE IF file[Latest(before)].kind = "section" THEN path ELSE Front(path)

ScalarLines(file, path) ==
  {i \in DOMAIN file : file[i].kind = "scalar" /\ PathOf(file, i) = path}
ItemLines(file, path) ==
  {i \in DOMAIN file : file[i].kind = "item" /\ Owner(file, i) = path}

Fits(file, i) ==
  /\ file[i].kind # "bad"
  /\ file[i].kind # "item" => WellPlaced(file, i)
  /\ file[i].kind = "item" =>
       /\ Owner(file, i) # <<>>
       /\ \A k \in ScalarLines(file, Owner(file, i)) : k > i

Acceptable(file) == \A i \in DOMAIN file : Fits(file, i)

\* A list has the values of these lines, in the order of the file.
HasValuesOf(list, file, lines) ==
  /\ list \in Seq(STRING)
  /\ \E line \in [DOMAIN list -> lines] :
       /\ \A m, n \in DOMAIN list : m < n => line[m] < line[n]
       /\ \A k \in lines : \E n \in DOMAIN list : line[n] = k
       /\ \A n \in DOMAIN list : list[n] = file[line[n]].value

\* The parser accepts exactly these files; the last scalar of a path is its value,
\* and the items of a path are its list, in the order of the file.
Means(file, parsed) ==
  /\ parsed.ok = Acceptable(file)
  /\ parsed.ok =>
       /\ DOMAIN parsed.scalars =
            {PathOf(file, i) : i \in {k \in DOMAIN file : file[k].kind = "scalar"}}
       /\ \A path \in DOMAIN parsed.scalars :
            \E i \in ScalarLines(file, path) :
               /\ \A k \in ScalarLines(file, path) : k <= i
               /\ parsed.scalars[path] = file[i].value
       /\ DOMAIN parsed.lists = {Owner(file, i) : i \in {k \in DOMAIN file : file[k].kind = "item"}}
       /\ \A path \in DOMAIN parsed.lists :
            HasValuesOf(parsed.lists[path], file, ItemLines(file, path))

\* The last value the file gives a path, and the first of a list of texts that counts.
Says(file, path) ==
  LET lines == ScalarLines(file, path)
  IN IF lines = {} THEN "" ELSE file[Latest(lines)].value

FirstPositive(texts, default) ==
  LET usable == {i \in DOMAIN texts : Positive(texts[i])}
  IN IF usable = {} THEN default
     ELSE Number[texts[CHOOSE i \in usable : \A k \in usable : i <= k]]

FirstText(best, second) == IF best = "" THEN second ELSE best

\* A minute is 2 units of time.
Lateness(text) ==
  LET usable == {d \in DOMAIN Duration : d = text /\ Duration[d] > 0}
  IN IF usable = {} THEN 2 ELSE Duration[text]

\* Each setting is from the best source that has one.
TakesTheBest(loaded, file, env) ==
  /\ Acceptable(file)
  /\ loaded.token # ""
  /\ loaded.token \in {env.API_TOKEN, Says(file, <<"api_token">>)}
  /\ env.API_TOKEN # "" => loaded.token = env.API_TOKEN
  /\ loaded.workers = FirstPositive(
       <<env.QUEUE_WORKERS, env.WORKERS, Says(file, <<"queue", "workers">>)>>, 10)
  /\ loaded.size = FirstPositive(<<env.QUEUE_SIZE, Says(file, <<"queue", "size">>)>>, 100)
  /\ loaded.mail =
       [host |-> FirstText(env.SMTP_HOST, Says(file, <<"smtp", "host">>)),
        user |-> FirstText(env.SMTP_USER, Says(file, <<"smtp", "user">>)),
        pass |-> FirstText(env.SMTP_PASS, Says(file, <<"smtp", "pass">>)),
        from |-> FirstText(env.SMTP_FROM, Says(file, <<"smtp", "from">>))]
  /\ loaded.late = Lateness(Says(file, <<"scheduler", "max_lateness">>))
=============================================================================
