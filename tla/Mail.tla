-------------------------------- MODULE Mail --------------------------------
(***************************************************************************)
(* POST /diagnostics/smtp, which walks through an SMTP session up to the   *)
(* recipient, and the session that delivers a mail through the same        *)
(* channel.  The two greet with different names, and a relay may treat     *)
(* them differently: it is a function from the name to                     *)
(* [refuses, tls, auth, takes], the stages it refuses, or stalls at until  *)
(* the deadline of the connection, the extensions it advertises and the    *)
(* recipients it takes.  Of a text only its being empty matters, except:   *)
(* a `to` is "", "blank" (spaces), "you" or "padded" (you between spaces), *)
(* and net/smtp treats the host "localhost" in a way of its own.           *)
(***************************************************************************)
EXTENDS Naturals, Sequences

CONSTANTS
  MailCases    \* a channel or none, its provider or none, and a relay

Nobody == [type |-> "none"]

\* JSON that is no configuration of a mail relay; any type of provider may have any.
Unreadable == [host |-> "unreadable"]

VARIABLES
  mail         \* a case, what was said of it and what became of a mail

NoMail == [case |-> Nobody, code |-> 0, failed |-> "none", sent |-> "never"]

ProbeName == "kind-reminder.local"
SendName == "localhost"

Maybe(condition, stage) == IF condition THEN <<stage>> ELSE <<>>

HasLogin(cfg) == cfg.user # "" \/ cfg.pass # ""

\* Mutant: the probe stays in the clear.
ProbeStagesInTheClear(cfg, to, peer) ==
  <<"tcp_connect", "smtp_greeting", "ehlo">>
    \o Maybe(HasLogin(cfg) /\ peer.auth, "auth")
    \o Maybe(cfg.from # "", "mail_from")
    \o Maybe(to # "", "rcpt_to")
    \o Maybe(to # "", "reset")
    \o <<"quit">>

\* What the probe walks through: without a sender it does not name one, and without
\* user and password it does not authenticate.
ProbeStages(cfg, to, peer) ==
  <<"tcp_connect", "smtp_greeting", "ehlo">>
    \o Maybe(peer.tls, "starttls")
    \o Maybe(HasLogin(cfg) /\ peer.auth, "auth")
    \o Maybe(cfg.from # "", "mail_from")
    \o Maybe(to # "", "rcpt_to")
    \o Maybe(to # "", "reset")
    \o <<"quit">>

\* What a mail walks through.  Extension greets the relay, as nobody has said Hello.
SendStages(peer) ==
  <<"tcp_connect", "smtp_greeting", "ehlo">>
    \o Maybe(peer.tls, "starttls")
    \o Maybe(peer.auth, "auth")
    \o <<"mail_from", "rcpt_to", "data", "quit">>

\* TLS needs the name of the server; net/smtp gives no password in the clear except to
\* localhost; and a recipient without a sender is out of sequence.  A RSET that is
\* merely refused harms nobody: "reset" is refused by a relay that is gone after it.
Fails(stages, i, cfg, to, peer) ==
  \/ stages[i] \in peer.refuses
  \/ stages[i] = "starttls" /\ cfg.host = ""
  \/ stages[i] = "auth" /\ ~peer.tls /\ cfg.host # "localhost"
  \/ stages[i] = "rcpt_to" /\ to \notin peer.takes
  \/ stages[i] = "rcpt_to" /\ \A k \in DOMAIN stages : stages[k] # "mail_from"

FailedStage(stages, cfg, to, peer) ==
  LET failing == {i \in DOMAIN stages : Fails(stages, i, cfg, to, peer)}
  IN IF failing = {} THEN "none"
     ELSE stages[CHOOSE i \in failing : \A k \in failing : i <= k]

\* Reset has no error of its own, and Extension drops that of the greeting, which
\* net/smtp returns again from Mail.
ProbeSays(stage) == IF stage = "reset" THEN "quit" ELSE stage
SendSays(stage) == IF stage = "ehlo" THEN "mail_from" ELSE stage

Trimmed(to) == IF to = "blank" THEN "" ELSE IF to = "padded" THEN "you" ELSE to

\* The configuration of the channel's provider, or the one main has from its own.
ConfigOf(c, fallback) == IF c.channel.bound THEN c.provider.config ELSE fallback

\* smtpDiagnosticConfig by channel: the tables, the types, the recipient, the host.
DiagnosisCode(c, fallback) ==
  IF c.channel = Nobody THEN 404
  ELSE IF c.channel.type # "email" \/ Trimmed(c.channel.to) = "" THEN 400
  ELSE IF ~c.channel.bound THEN IF fallback.host = "" THEN 400 ELSE 200
  ELSE IF c.provider = Nobody THEN 404
  ELSE IF c.provider.type # "email" \/ c.provider.config = Unreadable THEN 400
  ELSE 200

Probe(c, fallback) ==
  LET cfg == ConfigOf(c, fallback)
      to == Trimmed(c.channel.to)
      peer == c.relay[ProbeName]
  IN ProbeSays(FailedStage(ProbeStages(cfg, to, peer), cfg, to, peer))

\* Bound: the request names a channel, and no recipient but the channel's.
Diagnose(c, fallback) ==
  /\ mail = NoMail
  /\ LET code == DiagnosisCode(c, fallback)
     IN mail' = [case |-> c, code |-> code, sent |-> "never",
                 failed |-> IF code = 200 THEN Probe(c, fallback) ELSE "none"]

\* sendEmail asks nobody for the type of the provider, and main registers a notifier
\* for the fallback only if it has a sender.
HasNotifier(c, fallback) ==
  /\ c.channel # Nobody /\ c.channel.to # ""
  /\ IF c.channel.bound THEN c.provider # Nobody /\ c.provider.config # Unreadable
                        ELSE fallback.host # "" /\ fallback.from # ""

Send(c, fallback) ==
  LET cfg == ConfigOf(c, fallback)
      peer == c.relay[SendName]
  IN SendSays(FailedStage(SendStages(peer), cfg, c.channel.to, peer))

SendMail(fallback) ==
  /\ mail # NoMail /\ mail.sent = "never"
  /\ mail.case.channel # Nobody => mail.case.channel.type = "email"
  /\ mail' = [mail EXCEPT !.sent = IF HasNotifier(mail.case, fallback)
                                   THEN Send(mail.case, fallback) ELSE "no session"]

\* A process that ends takes its sessions with it.
ForgetMail == mail' = NoMail

------------------------------------------------------------------------------

\* The diagnosis and the mail meet the same relay with the same configuration: the
\* relay does not mind the name, the `to` has no spaces around it, and the provider is
\* of the type of the channel.
Alike(c) ==
  /\ c.relay[ProbeName] = c.relay[SendName]
  /\ c.channel # Nobody =>
       /\ c.channel.to = Trimmed(c.channel.to)
       /\ c.channel.bound /\ c.provider # Nobody => c.provider.type = c.channel.type

\* What a diagnosis leaves open: the data, which it does not send; how the mail ends,
\* if the relay has gone away at the RSET; and where a refused greeting shows.
Foretold(failed, peer) ==
  IF failed = "none" THEN {"none", "data"}
  ELSE IF failed = "ehlo" THEN {"mail_from"}
  ELSE IF failed = "quit"
  THEN {"data", "quit"} \union IF "reset" \in peer.refuses THEN {"none"} ELSE {}
  ELSE {failed}

\* Where the two are alike, the diagnosis of a channel names the stage at which a mail
\* through it fails, or that it fails nowhere; except that without user and password
\* the mail may also fail to authenticate, and that without a sender the diagnosis
\* always fails.  And what cannot be diagnosed is not sent (ProbeSMTP against
\* EmailNotifier.Send, smtpDiagnosticConfig against sendEmail and main).
DiagnosisForetells(fallback) ==
  mail.sent # "never" /\ Alike(mail.case) =>
    LET cfg == ConfigOf(mail.case, fallback)
    IN IF mail.code # 200
       THEN mail.sent = "no session"
       ELSE \/ mail.sent \in Foretold(mail.failed, mail.case.relay[ProbeName])
            \/ mail.sent = "auth" /\ ~HasLogin(cfg)
            \/ mail.failed # "none" /\ cfg.from = ""
=============================================================================
