----------------------------- MODULE MCStartup ------------------------------
(***************************************************************************)
(* Values for the constants of Startup: every file of up to MaxLines of    *)
(* the lines below, in every environment below.  They all                  *)
(* start over an empty disk; every other database, with the plain source:  *)
(* what was loaded meets the database only in a server that listens.       *)
(***************************************************************************)
EXTENDS Startup, TLC

CONSTANTS
  MaxLines     \* bound: lines of a file

Scalar(level, key, value) == [kind |-> "scalar", level |-> level, key |-> key, value |-> value]
Section(level, key) == [kind |-> "section", level |-> level, key |-> key, value |-> ""]

Lines ==
  {Section(0, "queue"), Scalar(1, "workers", "3"), Scalar(1, "workers", "0"),
   Section(1, "workers"), Scalar(2, "workers", "3"), Scalar(0, "queue", "x"),
   Scalar(1, "size", "7"), Section(0, "scheduler"), Scalar(1, "max_lateness", "2m"),
   Section(0, "smtp"), Scalar(1, "from", "them"), Scalar(0, "api_token", "secret"), Scalar(0, "api_token", ""),
   [kind |-> "item", level |-> 2, key |-> "", value |-> "x"],
   [kind |-> "bad", level |-> 0, key |-> "", value |-> ""]}

Env(token, workers, queueWorkers, size, host, user, pass, from) ==
  [API_TOKEN |-> token, WORKERS |-> workers, QUEUE_WORKERS |-> queueWorkers, QUEUE_SIZE |-> size,
   SMTP_HOST |-> host, SMTP_USER |-> user, SMTP_PASS |-> pass, SMTP_FROM |-> from]

NoEnv == Env("", "", "", "", "", "", "", "")

Envs ==
  {NoEnv, Env("token", "", "", "-3", "relay", "", "", ""),
   Env("token", "4", "", "7", "relay", "me", "", "us"), Env("", "4", "0", "", "", "", "", "us"),
   Env("token", "x", "5", "", "relay", "", "", "us"),
   Env("token", "4", "5", "x", "localhost", "", "word", "")}

Plain ==
  [file |-> <<Scalar(0, "api_token", "secret")>>, env |-> NoEnv]

MCSources ==
  [file : UNION {[1..n -> Lines] : n \in 0..MaxLines}, env : Envs]

Stages ==
  {"tcp_connect", "smtp_greeting", "ehlo", "starttls", "auth", "mail_from", "rcpt_to", "reset",
   "data", "quit"}

Peer(refuses, tls, auth) == [refuses |-> refuses, tls |-> tls, auth |-> auth, takes |-> {"you"}]
Kind == Peer({}, TRUE, TRUE)
Peers ==
  {Kind, Peer({}, TRUE, FALSE), Peer({}, FALSE, TRUE), Peer({}, FALSE, FALSE),
   Peer({"auth", "mail_from"}, TRUE, TRUE), Peer({"reset", "data"}, TRUE, TRUE),
   [Kind EXCEPT !.takes = {"you", "padded", "blank"}]}
    \union {Peer({stage}, TRUE, TRUE) : stage \in Stages}

\* Relays that do not mind the name, and some that do.
Relay(probed, sent) == ProbeName :> probed @@ SendName :> sent
Relays ==
  {Relay(peer, peer) : peer \in Peers}
    \union {Relay(Kind, Peer({"ehlo"}, FALSE, FALSE)), Relay(Peer({"mail_from"}, TRUE, TRUE), Kind)}

Channel(type, to, bound) == [type |-> type, to |-> to, bound |-> bound]
Provider(type, config) == [type |-> type, config |-> config]
Configs(hosts, users, passes, froms) ==
  [host : hosts, user : users, pass : passes, from : froms]
Providers ==
  {Nobody, Provider("email", Unreadable), Provider("telegram", Unreadable)}
    \union {Provider("email", cfg) :
              cfg \in Configs({"relay"}, {"", "me"}, {"", "word"}, {"", "us"})
                       \union Configs({"", "localhost"}, {"me"}, {""}, {"us"})}
    \union {Provider("telegram", cfg) : cfg \in Configs({"relay"}, {"me"}, {""}, {"us"})}

MCMailCases ==
  [channel : {Channel("email", "you", TRUE)}, provider : Providers, relay : Relays]
    \union [channel : {Channel("email", to, TRUE) : to \in {"", "blank", "padded"}},
            provider : {Provider("email", cfg) : cfg \in Configs({"relay"}, {"me"}, {""}, {"us"})},
            relay : Relays]
    \union [channel : {Nobody, Channel("telegram", "you", FALSE), Channel("email", "", FALSE),
                       Channel("email", "you", FALSE)},
            provider : {Nobody}, relay : Relays]

MCNumber == "0" :> 0 @@ "3" :> 3 @@ "4" :> 4 @@ "5" :> 5 @@ "7" :> 7 @@ "-3" :> -3
MCDuration == "0" :> 0 @@ "2m" :> 4

MCInit ==
  /\ MigrationsInit
  /\ source \in (IF tables = {} THEN Sources ELSE {Plain})
  /\ settings = NotLoaded
  /\ mail = NoMail

MCSpec == MCInit /\ [][Next]_vars
MCFairSpec ==
  MCSpec /\ WF_vars(Boot) /\ WF_vars(LoadConfig) /\ WF_vars(OpenStore) /\ WF_vars(Migrate)
=============================================================================
