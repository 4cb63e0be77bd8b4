# A verification project for kind-reminder

kind-reminder is a small Go server: it keeps cron jobs in SQLite, finds the due
ones every 30 seconds, runs their steps in a worker pool, and serves an HTTP API
that edits jobs, triggers them by hand and sends ad-hoc notifications. This
directory models the parts of it where goroutines, statements and restarts meet:
the life of an execution from the moment it is decided to the moment its row is
closed; what happens in between (steps, attempts, notifications); and the start of
the process, from its configuration through the migrations to the listener.

- `tlc -workers 2 -config failures.cfg MCServer` checks a run; the module of each
  is in the table under *Runs*;
- `tlapm ServerProofs.tla` checks proofs; the modules with proofs are `Induction`,
  `CronProofs`, `ServerProofs`, `LockProofs`, `ScheduleProofs`, `RunnerProofs`,
  `ConfigProofs` and `StartupProofs`.

## Inventory of the system

| part | state it keeps | operations | modelled in |
|---|---|---|---|
| `internal/cron` | none | `NextRun`, `NextRunAfter` | `Cron` |
| `internal/store`: jobs, executions | two tables, two unique indexes | one SQL statement or transaction each | `Store` |
| `internal/store`: migrations | the schema, its version, the rows that are moved | five migrations, statement by statement | `Migrations` |
| `internal/store`: steps, records of steps | two tables | `GetJob`'s two reads, `UpdateJob`'s transaction, inserts | `Runner` |
| `internal/scheduler`: tick loop | `nowUTC` and the snapshots of a tick | `Start`, `runOnce`, `dispatchJob` | `Scheduler` |
| `internal/queue` | a channel, a pool, a shared rate ticker | `Push`, `StartWorkers` | `Scheduler` (the rate limit is a delay) |
| `internal/scheduler`: step runner | results and failures of one run | `runJob`, `applyStepOverride` | `Runner`; load and close also in `Scheduler` |
| `internal/api`: trigger | one handler per request | `triggerJob` with `?wait` | `Api` |
| `internal/api`: jobs | one handler per request | `createJob`, `patchJob`, `deleteJob` | `Api`; edits of the steps in `Runner` |
| `internal/api`: send | one handler per request | `sendHandler` | row in `Api`, steps in `Runner` |
| `internal/api`: channels, providers | two tables that refer to each other | create, delete | `Channels` |
| `internal/executor` | none | notification, shell, webhook | `Runner` |
| `internal/notifier` | none | Telegram, SMTP, webhook | `Runner` as a delivery; a mail stage by stage in `Mail` |
| `internal/api`, `internal/notifier`: SMTP diagnostics | none | `POST /diagnostics/smtp`, `ProbeSMTP` | `Mail` |
| `internal/config` | none | `Load` with its parser | `Config` |
| `cmd/server` | the process | start, signal, exit, restart by the container | `Startup` up to the listener, `Server` from there |
| `internal/tmpl`, statistics, listings, dashboard, Redis queue, scripts | none | read only, or a stub | not modelled |

How they interact. The loop, the workers, the goroutines of manual triggers and
the HTTP handlers share nothing but the channel and the database. The database
has one connection (`SetMaxOpenConns(1)`), so a statement is atomic, and
anything may happen between two statements of one goroutine. The lock that keeps
two runs of a job apart is a row: `uniq_running_job` admits one row with status
`running` per job. Whoever inserts the row must see it closed; when the process
dies, the next one closes all running rows (`RecoverStaleExecutions`). A run reads
its job, its channels and their providers anew, while the API edits them. The
configuration and the migrations come before all of this, and alone: nothing is
served before they are through.

What is hard: that lock outliving or missing its owner; a crash between the
insert of an execution and the advance of `next_run_at`; snapshots and copies of
jobs used after they changed (the loop's list of due jobs, `patchJob`'s edited
row, `GetJob`'s two statements); the recovery, which runs *beside* the listener; a
full channel that blocks the loop; statements whose error is only logged, or
dropped; migrations without a transaction, one of which swaps a table; retries of
deliveries that were made and reported as errors; a child process that outlives
its shell; two implementations of one protocol (the probe and the mailer); and
the arithmetic of schedules at its limits. `PROJECT.json` lists them under
`hazards`, each at its line with the properties that would notice.

What makes each part correct, in a line: **cron** — the answer is the first slot
after the clock; **store** — at most one running row per job, one row per key,
verdicts stay; **loop** — every due slot is run, skipped or passed over, once,
and the schedule only moves forward; **queue** — no task lost, duplicated or run
beyond the pool; **runs** — a row in somebody's hands is running, a row in
nobody's hands is closed; **step runner** — steps in order, none after a fatal
one, and a success means that every channel was reached; **API** — a key names
one execution; **process** — a restart leaves no lock behind; **migrations** — no
start loses an execution, and what is served has the current schema;
**configuration** — what is loaded is what is written, from the best source;
**diagnosis** — it names the stage at which a mail would fail;
**clients** — what they were told of a success stays true.

## Modules

There are three models, and two abstract specifications that two of them
implement.

### The life of an execution

`Cron` <- `Store` <- `Scheduler` <- `Api` <- `Server` <- `MCServer`: each EXTENDS
the one before it, because each part acts directly on the tables and variables of
those below; `Server` is the composition, with the process as its own part.

- **Cron.** An expression with its time zone is a name; `Slots[c]` is the set of
  instants at which it fires (the parser and the zone data are the library's).
  `Iterations` is the variable of `NextRunAfter`'s loop after each of the iterations
  it allows itself (`MaxSkips`, 10000 in the code), `NextRunAfter` what it has come
  to, and the caller gets an error (`~HasNextRunAfter`) when that is not past its
  clock. `Reachable` says without the loop when it succeeds; that the two agree is
  proved.
- **Store.** `jobs` and `executions` are functions from ids to rows; an operator
  that primes a table is one statement. `Conflicts` is the two unique indexes. A
  row's `error` keeps only who closed it. `StoreMayFail` lets any statement of
  the callers return an error and change nothing.
- **Scheduler.** The loop is a process with a program counter (`pc`), the clock
  of the tick (`at`), the snapshots still to dispatch (`todo`) and the one in
  hand (`item`, `execID`); every statement of `dispatchJob` is one action, every
  early return a disjunct. `queue` is the channel; `phase[e]` says in whose hands
  execution `e` is: the loop (`dispatched`), the channel (`queued`), a worker
  (`taken`), a trigger goroutine (`spawned`), a `/send` handler (`sending`), a run
  past `GetJob` (`running`, `unloaded`), nobody any more (`over`). `phase` is the
  control state of those goroutines, not a column.
- **Api.** Each trigger and PATCH request is a process with its own copy of what
  it read; create and delete are single statements. The set of replies keeps the
  status code and the execution they name. Titles, steps and the texts of errors
  are left out; a malformed body is a reply 400 that may happen whenever the code
  reaches the decoding.
- **Server.** `Init` is a fresh database with the process just started: the
  listener is up and the scheduler has not recovered yet. `Crash` drops all that
  is in memory; `Boot` starts the next process. A graceful shutdown is the same
  behaviour: the context of the loop and the workers ends, their statements fail
  and change nothing, then the process exits.
- **JobLock** is what the running row is meant to be: a lock that an execution
  acquires with its insert and releases with its verdict, that outlives the
  process, and that every start breaks once before it schedules. `Server`
  implements it (`ImplementsJobLock`). The mapping: the process is `off`,
  `starting` (before the recovery is through) or `open`, from `pc` (`LockMode`);
  the holder of a job is its running row (`LockHolder`); the runs of a job are
  the executions somebody holds (`LockRuns`); the used ones are the rows there
  are (`LockUsed`). The lock is `Reliable` when the store does not fail.

### One execution from the inside

`Channels` <- `Runner` <- `MCRunner` shows what `Server` sees as the pair
`RunLoad`, `RunFinish` (or `SendBegin`, `SendEnd`) with any verdict.

- **Execution** is what a run promises: a list of outcomes that grows until it is
  as long as the steps or its last failure is fatal, then one verdict; or a
  failure without any step, when the job cannot be loaded.
- **Channels.** The tables `channels` and `providers`. `createChannel` is two
  actions, the check of the provider and the insert, with the request in
  `creating` in between; deleting a provider leaves its channels bound to it.
  Configurations are left out but for the type.
- **Runner.** One goroutine with a program counter: `load` and `steps` (the two
  statements of `GetJob`), then for each step `attempt` (with `shell` and `pipes`,
  or `channel`, `provider` and `deliver` for each channel of a notification),
  `backoff` between attempts, `save`, and `finish`. Meanwhile the job is a variable
  of its own, which PATCH (all steps replaced in one transaction, or none when an
  id is repeated) and DELETE change; `had` remembers the lists it has had. Types of
  steps are not checked by PATCH, so a run meets kinds nobody knows. `effects` is
  what the attempts did to the world, `saved` the rows of `execution_steps`,
  `verdict` what the closing statement put in the row. The three callers differ in
  the beginning (`/send` loads no job, only a trigger carries overrides, only
  `/send` takes repeated ids) and in their context (`Cancel`: the client's, the
  process's, or one that never ends). A shell is started, exits or is killed, and
  is then waited for until nobody keeps its output open; `Orphans` says whether a
  command may leave such a child. Lookups can fail at any time, because the
  step's timeout can strike at any time; a delivery can be made and still be
  reported as an error (a late answer, a QUIT that fails). No notifier looks at
  the type of the provider. The reply of `/send` is left out.

### The start of the process

`Config`, `Migrations` and `Mail` <- `Startup` <- `MCStartup`: `main` until it
listens, over what the starts before it have left.

- **Config.** A file is a list of lines, each a section, a scalar, an item of a
  list, or one the parser rejects wherever it stands, with its level and key.
  `Parse` is what the code's parser, with its stack of keys, has after the last line
  (`AfterLines`); `Load` puts environment, file and default together for some
  settings of each sort. `Means` says what a file means without a parser, and
  `TakesTheBest` what the sources amount to without an order of assignments: these
  are what `Parse` and `Load` are compared with. Comments, blank lines and quotes
  are left out.
- **Migrations.** `Script` is what each migration executes, in order; `at` is the
  statement that comes next. One action per kind of statement does to the tables,
  indexes, columns and rows what SQLite does; `CanExecute` says when SQLite
  refuses it, and then the process exits (`Refuse`). `Die` ends the process at any
  statement. The two reads whose errors the code drops (the version, the columns
  of `jobs`) may fail without ending anything. `Init` is a database of any version,
  or the one the first server left, which recorded none. `cut`, `misread` and
  `kept` remember that a swap was cut off, that the version could not be read, and
  that a look at the columns failed; no action depends on them.
- **Mail.** An SMTP session, as the probe walks through it (`ProbeStages`) and as
  `Send` does (`SendStages`): two lists of stages, of which those are missing that the
  code skips. The probe says Hello as `kind-reminder.local`; `Send` says none, so
  net/smtp greets as `localhost` inside `Extension`, which drops the error, and it
  shows at MAIL FROM (`SendSays`). So a relay is a function from the name it is
  greeted with to the stages it refuses or stalls at, the extensions it advertises
  and the recipients it takes. `Fails` also has what net/smtp refuses by itself: TLS
  without the name of the server, a password in the clear to any host but localhost.
  An empty host is the local system. A provider of any type may have any
  configuration: the diagnosis asks for its type, `sendEmail` does not
  (`DiagnosisCode`, `HasNotifier`). A recipient may have spaces around it, or nothing
  else: the diagnosis trims it, the send does not (`Trimmed`).
- **Startup** composes the three: `Boot`, `LoadConfig`, `OpenStore`, `Migrate`, and
  in the server that listens the executions (`Work`), which a later start must
  not harm, and a diagnosis with the mail that follows it (`Session`), under the
  settings that were loaded.

Abstractions a reader should know: in `Server` the clock is a number and moves by
one unit (30 s, the tick interval, so `Minute` is 2); the loop may tick at any
time, not only when its ticker fires; the steps of a job are one action that ends
with either verdict (`Runner` shows how); `createJob` reads the clock and inserts
in one step; ids are numbered in the order of their insertion, which no property
depends on. In `Startup` the executions are all of one job, so that the index on
running rows is about any two of them; the file and the environment do not change
between starts, so a later start goes on with what the first one loaded.

## Runs

| run | module | instance | what it shows |
|---|---|---|---|
| `failures` | `MCServer` | 1 job, 2 schedules of which one runs out, 1 trigger, 1 PATCH, any statement may fail, 1 crash, 4 units of time | `TypeOK`, `HolderOwnsRow`, `SameJobRunsAlone`, the inductive invariant `IInv`, `ClosedRowStays`, `ScheduleNeverRewinds`, `NoSlotIsDroppedInTime` |
| `backpressure` | `MCServer` | 3 jobs due together, twice, 1 worker, channel of 1, deletions, 5 units | `PoolIsConsistent`, `NoOrphanRow`, `SlotRunsOnce` |
| `requests` | `MCServer` | 2 triggers with or without the same key, 1 send, 1 crash, before the first slot | `KeyNamesOneExecution`, `ToldSuccessStays`, `SameJobRunsAlone`, `NoOrphanRow`, and `Server` implements `JobLock` (`ImplementsJobLock`) |
| `progress` | `MCServer` | 2 jobs, 1 crash, fairness | `DueJobLeavesDueSet`, `RunningRowIsClosed` |
| `runner` | `MCRunner` | 5 lists of steps, 3 callers, 2 channels and a provider in any state, an override, 1 edit of the tables or of the job, orphans, statements may fail, cancellation, fairness | `RunnerTypeOK`, `SuccessReachesEveryChannel`, `EffectsAreAllowed`, `RecordsExplainVerdict`, `RunsWholeList`, `RunEnds`, and `Runner` implements `Execution` (`ImplementsExecution`) |
| `startup` | `MCStartup` | every file of up to 3 of 15 lines in 6 environments over an empty disk, every older database with 2 executions, 3 faults, mail through channels, providers and relays of every kind below, fairness | `TypeOK`, `FileMeansWhatItSays`, `BestSourceWins`, `DiagnosisIsRight`, `ServedSchemaIsCurrent`, `EveryRefusalHasACause`, `ExecutionsSurvive`, `TriggersSurvive`, `ComesUp` |
| `slot_twice` | `MCServer` | violation | comments and documents speak of a unique index on (job, slot); it is gone since migration 5, and a restart at the wrong moment runs a slot twice |
| `recovery_race` | `MCServer` | violation | the recovery takes the lock from a trigger served before it: two runs of one job at once |
| `repeated_key` | `MCServer` | violation | the second of two simultaneous requests with one key gets 409, not the execution |
| `wedged_job` | `MCServer` | violation | a job that missed more slots than `NextRunAfter` steps over stays due for ever |
| `tolerated_failure` | `MCRunner` | violation | README and `llms.txt` say a failed step that continues on error leaves the execution a success; the code, its test and `internals.md` make it a failure |
| `history_lost` | `MCStartup` | violation | migration 5 says it copies existing data; its `DROP TABLE executions` with `foreign_keys` on deletes, through `ON DELETE CASCADE`, every row of `execution_steps` |

Bounds of `Server`: `MaxExec` executions, `MaxTime` instants, `MaxCrashes` deaths,
`MaxSends` ad-hoc sends, and one action sequence per request in `TriggerReq` and
`PatchReq`. They are small, but each hazard needs few actors: two holders of one
job, one crash between two statements, two requests with one key. A job has at most
one running row, so it takes three jobs due together to keep the worker busy, fill
the channel of one and block the loop in `Push` with the third: `backpressure` has
them, for two slots each; there are no triggers and edits in it. In `requests` the
clock stops before the first slot is due, so the loop recovers and ticks but does
not dispatch; a trigger beside a dispatching loop is in `failures`, and the theorems
about the properties of this run know no such bound. In `progress` there are two
jobs, so the channel fills and empties but never stands full behind a busy worker:
with three jobs, a second slot and a crash the liveness check takes too long.
`backpressure` and `requests` use
the symmetry of jobs and of requests, which none of their properties tells apart
and which is not used where liveness is checked. `MaxSkips` is 10 where the run is not
about it (more than the slots there are) and 1 in `wedged_job`.

Bounds of `Runner`: the lists of steps in `MCRunner` are the smallest with a retry
over two channels, a step after a fatal one, an unknown kind under an id used
twice, and nothing at all. One edit (`MaxEdits`) suffices: the tables and the job
begin in any state, so what came before a run is covered, and one edit falls
between any two reads of it. Two channels are needed for an error to be followed
by a success.

Bounds of `Startup`: `MaxLines` is 3, enough for a section, a line below it and one
that cuts the stack or stays on it. `MaxFaults` is 3: a swap that is cut off, an
error that is dropped in the next start, and another one after it. Two executions
are needed for two running rows. Files and environments vary only over an empty
disk, because what was loaded and what is in the database meet nowhere but in the
server that listens; a mail session is looked at before the first execution, which
it has nothing to do with. `MCMailCases` has channels of another type, none, without
a recipient or with one between spaces; providers that are gone, of either type,
without readable configuration, without host, login, password or sender, or at
localhost; and relays that refuse each one of the stages, or two, lack either
extension, take other recipients, or mind one of the two names. A relay too slow
for the 30 s of the probe and in time for a mail is left out.

Fairness of `Server` (`FairSpec`) is weak fairness of the loop, of the workers
together, of each run, and of `Boot`. The goroutines of a process are scheduled;
the loop has a ticker; a step of a job runs under a timeout, so a run ends, which
`Runner` shows unless a child of a shell keeps its output open;
`docker-compose.yml` restarts the container whenever it stops. Requests, edits and
the clock get none. The liveness run has no store errors: a failed closing
statement leaves a row running until the next restart, which nothing obliges to
come. In `Runner` fairness is of the goroutine's next step: attempts work under
the step's timeout and the backoff is a sleep; nothing makes an orphan close its
output, which is why `RunEnds` has a second case. In `Startup` (`FairSpec`, and
`MCFairSpec` with the smaller `Init`) `Boot`, `LoadConfig`, `OpenStore` and `Migrate`
are weakly fair: `main` goes on, and `restart: always` starts it again; faults are
finitely many by `MaxFaults`.

Preconditions that deserve a word. `SlotRunsOnce` is stated for a process that has
not died, without store errors and before a PATCH is written: each of the three
really can run a slot twice (`slot_twice` shows the first). `ScheduleNeverRewinds`
excludes PATCH: `patchJob` writes back the `next_run_at` it read. `ComesUp` excludes
what no start gets past: a configuration that will not do, a swap that was cut
off (between its copy and its rename the next start stumbles over the copy, or
over the missing table), and a database of version 1 or 2 with two running rows
of one job. `EveryRefusalHasACause` says that these, and a version that could not
be read this time, are all there is.

Things the models show that contradict no document, and so are no findings. A
version that cannot be read, on a database cut off between DROP and RENAME,
makes the first migration create an empty `executions`, and the start that
follows gets through while the rows wait in `executions_new` (`cut` covers it). Four
differences between the probe and the mail, which `DiagnosisForetells` names as its
exceptions: they greet with different names, and a relay may mind only one; the
diagnosis refuses (400) a provider of another type, through which mail goes out all
the same when its configuration has a host; it trims the recipient, which the mail
names as it is; and without user and password it skips AUTH, which `Send` never does
when the relay advertises it. Without a sender the probe goes from the greeting to
the recipient, which is out of sequence, while the mail has an empty sender; and a
relay that closes the connection at the probe's RSET fails its QUIT, which says
nothing of a mail. The environment cannot set a number to 0,
and keys with dots collide with paths (excluded in `Config`). The sample in
`src/README.md` documents `scheduler.workers` and `queue_size`, which `config.go`
deliberately ignores (`TestLegacySchedulerWorkersIgnored`).

Hazards without a property. Some are what the code does, and nothing in it would
prevent them: a PATCH that undoes an advance (`api.go:225`); a row that stays
running when the advance, the closing statement or the client of a `/send` fails
(`scheduler.go:173` and `299`, `send.go:162`), until the next start closes it; a client
that retries `POST /jobs` after the router's 503 and creates the job twice
(`api.go:74`); a column that stays for good after a failed look at the table
(`store.go:186`); a `max_lateness` below the tick, with which every slot found late is
dropped (`config.go:198`). The properties near them say so in their preconditions:
`NoOrphanRow` is about a store that does not fail and leaves ad-hoc rows out,
`SlotRunsOnce`, `ScheduleNeverRewinds` and `NoSlotIsDroppedInTime` stop at a PATCH,
`ServedSchemaIsCurrent` has `kept`. Two have no counterpart in the model: how long a
backoff sleeps after a cancellation (`scheduler.go:279`), and the rate ticker at
which a worker drops its task (`memory.go:62`), which happens only when the process
ends and is `Crash` with a row in the channel.

## Proofs

Every invariant, every action property and both refinements that the runs check
are also proved for every value of the constants, each from an inductive invariant
that holds in the initial states and is kept by every step. Only the liveness
properties are not (see *Model-checked only*).

### The server (`ServerProofs`, `LockProofs`, `ScheduleProofs`, `CronProofs`)

For every number of jobs, executions, workers, requests and crashes, and with or
without store errors:

- `Invariant`: `Spec => []IInv`;
- `TypeCorrect`, `HolderKeepsRow`, `LocksAreReleased`, `RunsExclude`,
  `PoolStaysConsistent`: the invariants `TypeOK`, `HolderOwnsRow`, `NoOrphanRow`,
  `SameJobRunsAlone`, `PoolIsConsistent`;
- `VerdictsStay`: the action property `ClosedRowStays`;
- `RowsAreLocks`: `Spec => ImplementsJobLock`, the refinement;
- `KeysName` and `SuccessIsFinal`: `KeyNamesOneExecution`, `ToldSuccessStays`;
- `SchedulesAdvance`, `SlotsRunOnce` and `SlotsAreDroppedLate`: `ScheduleNeverRewinds`,
  `SlotRunsOnce`, `NoSlotIsDroppedInTime`;
- `NextRunIsFirstSlot`, `NextRunAfterIsFuture`: what `NextRun` and `NextRunAfter`
  answer is a slot, and the right one;
- `LoopFindsFirstFutureSlot`: the loop of `NextRunAfter` succeeds exactly when there
  is a slot after the clock and no more than `MaxSkips` before it, and then answers
  the first slot after the clock.

*The invariant.* `SameJobRunsAlone` speaks of goroutines, while the index
constrains rows. The bridge is `HolderOwnsRow` (who holds a row finds it running,
unless a recovery took it) together with `OneRunningRow` (the index).
`HolderOwnsRow` survives the recovery only because nothing but triggers and sends
is held before it is through (`NothingHeldWhileDown`), and this needs to know
which holders belong to which trigger (`HolderMatchesTrigger`), that the loop and
the channel hold exactly what they say (`LoopHoldsDispatched`, `QueueIsExact`) and
that unused ids have no holder (`PhaseMatchesRow`). Three lemmas say what a
statement does to the columns the invariants read (`InsertEffect`, `CloseEffect`,
`RecoverEffect`); three say that inserting, closing and handing on a row keep the
relation of rows and holders (`InsertKeepsRowInv`, `CloseKeepsRowInv`,
`MoveKeepsRowInv`); then one lemma per process goes through its actions, and
`NextIInv` puts them together.

*The refinement.* By the index the running row of a job is the one the mapping
picks (`LockRowIsRunning`), so each kind of step maps to one of the lock: an insert
acquires (`InsertAcquires`), a verdict releases (`CloseReleases`), the recovery
breaks (`RecoverBreaks`), the process dies and restarts (`DeathAndRestart`), and
all others leave the four mapped variables alone (`LockFrame`).

*Keys.* `KeyInv`: the index keeps the rows of a job and key apart
(`OneRowPerKey`), the row a request names has the request's job and key (`Names`),
and a request names none before its insert (`NamesNoneYet`). What makes it
inductive is that rows stay and never change job or key (`RowsKeepColumns`).

*Replies.* `Told`: a request that was told of a success is over and names a row that
is one. The row stays one (`SuccessStays`), since who would write a verdict holds the
row, and a held row is running or was taken by the recovery (`HolderOwnsRow`).

*Schedules.* The loop writes `next_run_at` from snapshots. `ScheduleInv`: those in
hand are of slots that have come, one for each job (`SnapshotsAreSound`), and
until a PATCH is written each still says what the table does
(`SnapshotsAreCurrent`). So each write moves the schedule from the snapshot's slot
to a later one. For `SlotRunsOnce` the invariant adds, while the process lives and
the store works, that the slots that became rows lie before the schedule, but for
the row whose schedule the loop is about to move (`SlotsArePast`, `InHandIsInserted`),
and before the snapshots still to be dispatched, those of deleted jobs included
(`SlotsPrecedeSnapshots`). For `NoSlotIsDroppedInTime` it adds that the clock of a tick
is never ahead (`TickIsPast`) and that the row in hand is of the snapshot's slot
(`InHandIsInserted`). The proofs first sort the steps by what they do to jobs and to
the loop, then treat each sort once.

*The loop.* After iteration `i` the variable of the loop is past the clock, or
exactly `i` slots lie between the start and it, itself included (`LoopAdvances`);
since an iteration adds one (`OneMoreSkipped`), the iterations run out exactly when
there are more slots than iterations, and the first value past the clock is the
first slot after it (`FirstPastClock`). The theorem speaks of a start that is not
after the clock: with a later one (a `next_run_at` in the future, which the loop of
the scheduler never has in hand) the code answers the next slot after the start.

*Induction.* The induction theorems of the library take a predicate, which the
provers cannot instantiate. `Induction` says the same of sets, which they can: a set of
naturals with an element has a least one (`LeastNatural`, from the
well-foundedness of inclusion between finite sets), so a set that has 0 and, with
each number up to `m`, the next one, has them all (`CountUp`). The recursive functions
`Iterations` and `AfterLines` are shown to exist, and to obey their equations, by
the set of the numbers up to which they do (`LoopExists`, `ParseExists`).

### One execution (`RunnerProofs`)

For any steps, retries, overrides, tables, edits and failures:

- `RunIsExecution`: `Spec => ImplementsExecution`, the step simulation. Steps and
  outcomes keep their names, so the mapping is the identity on them, and an
  execution has begun when its steps are loaded; `OrderInv` ties the program
  counter to how far the outcomes are, and makes every step a step of `Execution`
  or none;
- `SuccessIsComplete`: `SuccessReachesEveryChannel`. The invariant adds what the
  loops have done so far: without an error in this attempt all channels before
  `n` have their effect (`LoopInv`), effects belong to finished steps or to the
  current one's attempts up to this one (`EffectsInv`), and a step with outcome
  success was reached (`ReachInv`). One lemma ends an attempt, one a channel, one
  records a step, and `StepKeepsSuccess` puts the actions together;
- `WholeLists`: `RunsWholeList`; what the second read returns is a list the job has
  had, or nothing when it is gone for good;
- `EffectsStayAllowed` and `RecordsExplain`: `EffectsAreAllowed`,
  `RecordsExplainVerdict`, from what the same invariant says of attempts and from a
  correspondence of records and outcomes that a lost record weakens to a shorter
  list;
- `RunnerTypes`: `RunnerTypeOK`.

### The start (`StartupProofs`, `ConfigProofs`)

For any set of executions, any number of faults, any files, environments, channels,
providers and relays:

- `SchemaOfTheServer`, `RefusalsHaveCauses`, `ExecutionsAreKept`, `TriggersAreKept`,
  `Types`: `ServedSchemaIsCurrent`, `EveryRefusalHasACause`, `ExecutionsSurvive`,
  `TriggersSurvive`, `TypeOK`;
- `ParserReadsTheFile`: `Means(file, Parse(file))` for every file of any length;
  `FilesMean`: with it, `FileMeansWhatItSays`;
- `LoadTakesTheBest`: whatever `Load` accepts, `TakesTheBest` says of it;
  `BestSourcesWin`: with it, `BestSourceWins`;
- `DiagnosesForetell`: `DiagnosisIsRight`.

*The migrations.* `IInv` says what the recorded versions and the statements
executed so far have left: versions are recorded in order and a migration runs
that is not recorded, unless the version could not be read (`Ordered`); tables,
indexes and columns are there from their statement on (`Built`, `Swapped`); no row
is only in a table that goes away, and before version 5 all rows are of cron
(`RowsKept`); and where the swap stands, with nothing left of it outside unless
one was cut off (`SwapStands`). `WhereItIs` names the statement at each place of
the script; then there is one lemma for each kind of statement, and one each for
loading, opening, refusing, dying and the work of the server.

*The parser.* `FollowsNext` is the step of an induction over the lines: what the
parser has after a line is what the lines so far mean. Its parts are one for each
thing the parser keeps. The stack after line `n` is the path of the open section,
which the reference finds by looking back for the last line above each level
(`AboveNext`, `PlacedWell`, `PathIs`, `StackedKey`, `StackedItem`, `OwnerNext`); the
scalars are those of the last line of each path (`ScalaredNext`); the lists are, in
order, those of the lines each path owns (`HasValuesOfNext`, `ListedNext`,
`OthersSayNothing`); and a line is refused exactly when it does not fit (`ItemFits`).

*The sources.* `Load` assigns in the order default, file, environment, each
assignment skipped when there is nothing to assign; `TakesTheBest` looks for the first
usable text from the other end (`FirstUsable`, `BestOfThree`, `BestOfTwo`). `Sourced`
carries this to the runs: what `main` goes on with is `Load` of one of the sources.

*The diagnosis.* `DiagnosisForetells` is about cases that are `Alike`: the relay treats
both names of the greeting alike, the recipient has no spaces around it, and the
provider, if there is one, is of the type of the channel. Then a mail fails at the
stage the diagnosis fails at, or at the data that the diagnosis does not send
(`Foretold`); the two exceptions left, no login and no sender, are in the formula. The
probe and the mail are two lists of stages, each put together from parts that may be
missing. A session fails at its first failing stage (`FailedIsFirst`), and the first
stage of each list that is there and fails is found part by part (`FirstIsThere`,
`StartSays`, `LoginSays`), which gives it for both sessions (`ProbeFails`, `MailFails`,
`SessionsFail`); the two are compared up to the recipient (`MailFollowsProbe`), and a
diagnosis without a sender fails by itself (`WithoutSender`). What cannot be
diagnosed has no notifier (`CanDiagnose`, `CannotDiagnose`). `MailInv` ties what was
said and what became of the mail to the settings of the server they were made under.

### Assumptions

The named assumptions on the constants, which every run evaluates, and no others:
`CronAssumption` (slots are positive instants), those of `Store`, `Scheduler`, `Api`
and `Server` (numbers are natural, the pool and the channel are not empty, the
special values differ from the others), `ChannelsAssumption` and
`RunnerAssumption` (steps and overrides have their types), `ConfigAssumption`
(numbers and durations are integers), `MigrationsAssumption` (`MaxFaults` is a
number) and `StartupAssumption` (a file is a finite sequence of lines). Nothing is
assumed of environments, channels, providers and relays.

### Model-checked only

`DueJobLeavesDueSet`, `RunningRowIsClosed`, `RunEnds` and `ComesUp`: liveness needs
fairness and ENABLED, which are out of the prover's reach. The runs `progress`,
`runner` and `startup` check them.

## What is left

The three models, their composition and the proofs above were the plan, in this
order: the life of an execution, its inside, the lock as an abstract
specification, the migrations with configuration and mail, the remaining proofs.
What could still be added: the shared rate ticker of the queue with the
cancellation of a worker that waits for it; the router's deadlines with clients
that retry; the diagnosis by provider, of the fallback alone, or with a recipient of
its own.

## Not modelled, and why

Parsing of cron expressions and time zones, template rendering, HTTP routing and
authentication, JSON, logging and the dashboard carry no state the properties tell
apart. Statistics and listings only read. Servers outside (webhooks, Telegram, the
relay, SQLite) are external: what they may answer. Of the queue the rate limit is
left out: it only delays a worker between two steps, and a task it drops when the
context ends is lost with the process all the same. Of the diagnosis the hints
about DNS are left out, and the requests that name a provider, a recipient or nothing. Of the configuration the settings
that repeat the ones modelled, comments and quotes are left out. The Redis queue
is a stub nothing selects. `pending` rows, `InsertExecutionIfAbsent` and
`MarkExecutionRunning` have no caller in the server. The scripts work on the
database file from outside.
