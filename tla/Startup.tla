------------------------------ MODULE Startup -------------------------------
(***************************************************************************)
(* main of cmd/server until it listens: the configuration, then the        *)
(* database, and an exit with status 1 if one of them will not do.  The    *)
(* container starts the process again, over what it left in the database.  *)
(* Of the server that listens there are executions, which the migrations   *)
(* of a later start must not harm, and mail, which goes out with the       *)
(* settings that were loaded.                                              *)
(***************************************************************************)
EXTENDS Config, Migrations, Mail

CONSTANTS
  Sources      \* files and environments to start with

ASSUME StartupAssumption == \A s \in Sources : s.file \in Seq(Line)

VARIABLES
  source,      \* the file and the environment of this installation
  settings     \* what Load has made of them

vars == <<dbVars, source, settings, mail>>

NotLoaded == [ok |-> FALSE]

TypeOK ==
  /\ MigrationsTypeOK
  /\ source \in Sources \union {NotLoaded}
  /\ mail.code \in {0, 200, 400, 404}
  /\ settings # NotLoaded =>
       /\ settings.ok \in BOOLEAN
       /\ settings.workers \in Nat \ {0} /\ settings.size \in Nat \ {0}
       /\ settings.late \in Nat \ {0}

Init ==
  /\ MigrationsInit
  /\ source \in Sources
  /\ settings = NotLoaded
  /\ mail = NoMail

\* The file and the environment stay as they are, so that every start loads what the
\* first one loaded: when that would do, the model goes on with it.
Boot ==
  /\ phase = "down"
  /\ phase' = IF settings.ok THEN "open" ELSE "load"
  /\ UNCHANGED <<dataVars, at, faults, historyVars, source, settings, mail>>

LoadConfig ==
  /\ phase = "load"
  /\ settings' = Load(source.file, source.env)
  /\ phase' = IF settings'.ok THEN "open" ELSE "down"
  /\ UNCHANGED <<dataVars, at, faults, historyVars, source, mail>>

\* From here on the settings stand for the source.
OpenStore == Open /\ source' = NotLoaded /\ UNCHANGED <<settings, mail>>

Migrate == (Execute \/ Refuse) /\ UNCHANGED <<source, settings, mail>>

Work ==
  /\ \/ \E e \in ExecId, trigger \in {"cron", "manual"} : Insert(e, trigger)
     \/ \E r \in rows : Finish(r)
  /\ ForgetMail
  /\ UNCHANGED <<source, settings>>

\* Executions and sessions have nothing to do with each other.  Bound: a session is
\* looked at before the first execution and forgotten with it.
Session ==
  /\ phase = "serve" /\ rows = {}
  /\ (\E c \in MailCases : Diagnose(c, settings.mail)) \/ SendMail(settings.mail)
  /\ UNCHANGED <<dbVars, source, settings>>

Kill == Die /\ ForgetMail /\ UNCHANGED <<source, settings>>

Next == Boot \/ LoadConfig \/ OpenStore \/ Migrate \/ Work \/ Session \/ Kill

Spec == Init /\ [][Next]_vars

\* main goes on as long as it is not killed, and "restart: always" starts it again.
FairSpec == Spec /\ WF_vars(Boot) /\ WF_vars(LoadConfig) /\ WF_vars(OpenStore)
                 /\ WF_vars(Migrate)

------------------------------------------------------------------------------
(* Properties of the configuration *)

\* The parser takes exactly the files whose keys hang together, and gives every path
\* the value and the list a reader of the file would (parseSimpleYAML).
FileMeansWhatItSays ==
  phase = "load" => Means(source.file, Parse(source.file))

\* What main starts with: a token, which is never the empty text, and numbers that
\* are positive, each from the best source that has one: the environment, the file,
\* the default (Load, applyEnv, applyYAMLFile).
BestSourceWins ==
  phase = "open" /\ source # NotLoaded => TakesTheBest(settings, source.file, source.env)

\* What main wires to the diagnosis is what it wires to the notifier.
DiagnosisIsRight == DiagnosisForetells(settings.mail)

------------------------------------------------------------------------------
(* Properties of the database *)

\* A server that listens has the schema its statements are written for: the tables
\* and indexes of version 5, no leftovers of the swap, and no column of the first
\* server unless the look at it has failed.
ServedSchemaIsCurrent ==
  phase = "serve" =>
    /\ recorded = Versions
    /\ tables = (UNION {Names(v, "create") : v \in Versions}) \ {"executions_new"}
    /\ indexes = UNION {Names(v, "index") : v \in Versions}
    /\ fields = "v5"
    /\ copy = {}
    /\ legacy = {} \/ kept

\* No start, wherever it is cut off and however often it is repeated, loses a row of
\* executions: it is in the table or in the copy migration 5 makes of it.
ExecutionsSurvive ==
  [][Ids(rows) \union Ids(copy) \subseteq Ids(rows') \union Ids(copy')]_vars

\* Migration 5 makes every row a "cron" one, and so must never see a row the server
\* wrote: an execution that was triggered by hand stays so.
TriggersSurvive ==
  [][\A r \in rows : r.trigger = "manual" =>
        \E q \in rows' : q.id = r.id /\ q.trigger = "manual"]_vars

\* A start that cannot go on was cut off inside the swap, or finds two running
\* executions of a job, or could not read the version, which passes.
EveryRefusalHasACause ==
  phase = "migrate" /\ ~CanExecute => cut \/ misread \/ ~OneRuns(rows)

\* Every start ends in a server that listens, whatever was cut off before, unless
\* the configuration will not do or the database is one no start gets past.
ComesUp ==
  phase = "down" ~>
    \/ phase = "serve"
    \/ settings # NotLoaded /\ ~settings.ok
    \/ cut
    \/ recorded \subseteq 1..2 /\ ~OneRuns(rows)

\* The steps of an execution stay as recorded: the history the API serves is of
\* every execution "with the details of each step" (README.md).
HistorySurvives == [][records \subseteq records']_vars
=============================================================================
