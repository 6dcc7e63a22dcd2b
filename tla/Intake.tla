------------------------------- MODULE Intake -------------------------------
(***************************************************************************)
(* SaveToDatabase (internal/smtpd/main.go): what happens to a message      *)
(* between the end of DATA, or a request to the send API, and the answer.  *)
(*                                                                         *)
(* An attempt brings one message; a client that was answered with an error *)
(* may bring the message again in another attempt.  The steps of attempts  *)
(* interleave: each evaluation of the rules, query, dialogue with another  *)
(* server and statement is one step.                                       *)
(* Abstracted: a message is its Message-ID and whether it can be parsed,   *)
(* its other headers are not modelled; the regular expressions of the      *)
(* settings are sets of recipients; the rules in force are what they       *)
(* answer to each message; a reply is the first digit of its code.         *)
(***************************************************************************)
EXTENDS Naturals, FiniteSets

CONSTANTS
    Attempts,
    Messages,       \* [id, form]
    NoId,           \* a message without a Message-ID
    Recipients,
    Settings        \* configurations: see SettingsAssumption

Forms == {"plain", "odd", "broken"}     \* odd: net/mail parses it, enmime does not
Codes == {"2xx", "3xx", "4xx", "5xx"}

ASSUME AttemptsAssumption == IsFiniteSet(Attempts) /\ IsFiniteSet(Recipients)
ASSUME MessagesAssumption == \A m \in Messages : m.form \in Forms
ASSUME SettingsAssumption ==
    Settings \subseteq
        [ignoreDuplicateIDs : BOOLEAN, allowed : SUBSET Recipients,
         relayAll : BOOLEAN, matching : SUBSET Recipients, blocked : SUBSET Recipients,
         relayErrors : BOOLEAN, forward : BOOLEAN, forwardErrors : BOOLEAN]

VARIABLES
    config,         \* the settings; nothing changes them
    bounce,         \* what the bounce rules in force answer to each message
    step,           \* per attempt: where it is
    msg, to,        \* per attempt: its message and the recipients accepted
    reply,          \* per attempt: its answer
    kept,           \* attempts whose row is in the mailbox
    sent,           \* per attempt: the recipients it was relayed to
    forwarded,      \* attempts whose message was forwarded
    tally,          \* stats: smtpAccepted, smtpRejected, smtpIgnored
    refused,        \* history: pairs of an attempt and a recipient refused
    bounced, ignored, unsure, passed,   \* history: attempts that a rule or the parser
                    \* refused, that were duplicates, whose query for duplicates failed,
                    \* and that were given another server's answer
    stored,         \* history: attempts whose row was committed
    before          \* history: the attempts acknowledged when an attempt began

outcomeVars == <<bounced, ignored, unsure, passed, stored, before, refused>>
intakeVars == <<config, bounce, step, msg, to, reply, kept, sent, forwarded,
                tally, outcomeVars>>

IntakeTypeOK ==
    /\ config \in Settings
    /\ bounce \in [Messages -> {"none", "4xx", "5xx"}]
    /\ step \in [Attempts -> {"idle", "rules", "dup", "relay", "forward", "store", "tags", "done"}]
    /\ msg \in [Attempts -> Messages]
    /\ to \in [Attempts -> SUBSET Recipients]
    /\ reply \in [Attempts -> Codes \union {"none"}]
    /\ kept \in SUBSET stored
    /\ stored \in SUBSET Attempts
    /\ sent \in [Attempts -> SUBSET Recipients]
    /\ forwarded \in SUBSET Attempts
    /\ tally \in [accepted : Nat, rejected : Nat, ignored : Nat]
    /\ refused \in SUBSET (Attempts \X Recipients)
    /\ bounced \in SUBSET Attempts
    /\ ignored \in SUBSET Attempts
    /\ unsure \in SUBSET Attempts
    /\ passed \in SUBSET Attempts
    /\ before \in [Attempts -> SUBSET Attempts]

IntakeInit ==
    /\ config \in Settings
    /\ bounce \in [Messages -> {"none", "4xx", "5xx"}]
    /\ step = [a \in Attempts |-> "idle"]
    /\ msg \in [Attempts -> Messages]
    /\ to = [a \in Attempts |-> {}]
    /\ reply = [a \in Attempts |-> "none"]
    /\ kept = {}
    /\ sent = [a \in Attempts |-> {}]
    /\ forwarded = {}
    /\ tally = [accepted |-> 0, rejected |-> 0, ignored |-> 0]
    /\ refused = {}
    /\ bounced = {} /\ ignored = {} /\ unsure = {} /\ passed = {} /\ stored = {}
    /\ before = [a \in Attempts |-> {}]
----------------------------------------------------------------------------
Go(a, s) == step' = [step EXCEPT ![a] = s]

Answer(a, code) == Go(a, "done") /\ reply' = [reply EXCEPT ![a] = code]

Begin(a, accepted) ==
    /\ step[a] = "idle"
    /\ to' = [to EXCEPT ![a] = accepted]
    /\ before' = [before EXCEPT ![a] = {b \in stored : reply[b] = "2xx"}]
    /\ Go(a, "rules")

\* The envelope of an SMTP client: handlerRcpt refuses and counts each recipient that
\* is not allowed; DATA takes at least one that is.
Envelope(a) ==
    /\ \E asked \in SUBSET Recipients :
          /\ asked \intersect config.allowed # {}
          /\ Begin(a, asked \intersect config.allowed)
          /\ refused' = refused \union ({a} \X (asked \ config.allowed))
          /\ tally' = [tally EXCEPT !.rejected = @ + Cardinality(asked \ config.allowed)]
    /\ UNCHANGED <<config, bounce, msg, reply, kept, sent, forwarded,
                   bounced, ignored, unsure, passed, stored>>

\* The send API builds the message itself and allows every recipient.
Post(a) ==
    /\ msg[a].form = "plain"
    /\ \E asked \in SUBSET Recipients : Begin(a, asked)
    /\ UNCHANGED <<config, bounce, msg, reply, kept, sent, forwarded, tally,
                   refused, bounced, ignored, unsure, passed, stored>>

\* The parsers, then bouncerules.Evaluate, which nothing that enmime cannot parse matches.
Verdict(m) ==
    CASE m.form = "broken" -> "4xx"
      [] m.form = "plain" -> bounce[m]
      [] m.form = "odd" -> "none"

Rules(a) ==
    /\ step[a] = "rules"
    /\ \/ /\ Verdict(msg[a]) = "none"
          /\ Go(a, "dup")
          /\ UNCHANGED <<reply, tally, bounced>>
       \/ /\ Verdict(msg[a]) # "none"
          /\ Answer(a, Verdict(msg[a]))
          /\ tally' = [tally EXCEPT !.rejected = @ + 1]
          /\ bounced' = bounced \union {a}
       \* the Return-Path cannot be set: an error that counts nowhere
       \/ /\ Verdict(msg[a]) = "none"
          /\ Answer(a, "4xx")
          /\ UNCHANGED <<tally, bounced>>
    /\ UNCHANGED <<config, bounce, msg, to, kept, sent, forwarded,
                   refused, ignored, unsure, passed, stored, before>>

\* Mutant: the ID is looked up with its angle brackets.
IdExistsWithBrackets(id) == id = NoId

IdExists(id) == \E b \in kept : msg[b].id = id

\* Mutant: a query that failed counts as a duplicate.
DuplicatesOnError(a) ==
    /\ step[a] = "dup"
    /\ \/ Go(a, "relay") /\ UNCHANGED <<reply, tally, ignored, unsure>>
       \/ /\ config.ignoreDuplicateIDs /\ msg[a].id # NoId
          /\ Answer(a, "2xx")
          /\ tally' = [tally EXCEPT !.ignored = @ + 1]
          /\ unsure' = unsure \union {a}
          /\ UNCHANGED ignored
    /\ UNCHANGED <<config, bounce, msg, to, kept, sent, forwarded,
                   refused, bounced, passed, stored, before>>

\* MessageIDExists drops the error of its query: the message is new then.
Duplicates(a) ==
    /\ step[a] = "dup"
    /\ LET asks == config.ignoreDuplicateIDs /\ msg[a].id # NoId IN
       \/ /\ asks => ~IdExists(msg[a].id)
          /\ Go(a, "relay")
          /\ UNCHANGED <<reply, tally, ignored, unsure>>
       \/ /\ asks
          /\ Go(a, "relay")
          /\ unsure' = unsure \union {a}
          /\ UNCHANGED <<reply, tally, ignored>>
       \/ /\ asks /\ IdExists(msg[a].id)
          /\ Answer(a, "2xx")
          /\ tally' = [tally EXCEPT !.ignored = @ + 1]
          /\ ignored' = ignored \union {a}
          /\ UNCHANGED unsure
    /\ UNCHANGED <<config, bounce, msg, to, kept, sent, forwarded,
                   refused, bounced, passed, stored, before>>
----------------------------------------------------------------------------
(* Relaying and forwarding                                                 *)

\* Mutant: the blocklist is for RelayAll only.
TargetsBlockedForAll(R) ==
    IF config.relayAll THEN R \ config.blocked ELSE R \intersect config.matching

\* autoRelayMessage
Targets(R) ==
    LET open == R \ config.blocked
    IN  IF config.relayAll THEN open ELSE open \intersect config.matching

\* Mutant: the error is answered and the message stored all the same.
PassOnAndStore(a, code, overHTTP) ==
    /\ Go(a, "store")
    /\ reply' = [reply EXCEPT ![a] = IF overHTTP THEN "4xx" ELSE code]
    /\ passed' = passed \union {a}

\* What the client of attempt a is told of another server's error: its answer as it is,
\* of whatever code; the send API answers every error with 400.
PassOn(a, code, overHTTP) ==
    /\ Answer(a, IF overHTTP THEN "4xx" ELSE code)
    /\ passed' = passed \union {a}

\* Relay may fail when the other server has the message already: at the end of DATA
\* or at QUIT.  A refused recipient is an error only when errors are passed on.
Relay(a, overHTTP) ==
    /\ step[a] = "relay"
    /\ \/ /\ Targets(to[a]) = {}
          /\ Go(a, "forward")
          /\ UNCHANGED <<reply, sent, passed>>
       \/ \E S \in SUBSET Targets(to[a]) :
             /\ Targets(to[a]) # {}
             /\ config.relayErrors => S \in {{}, Targets(to[a])}
             /\ sent' = [sent EXCEPT ![a] = S]
             /\ \/ /\ S # {} \/ ~config.relayErrors
                   /\ Go(a, "forward")
                   /\ UNCHANGED <<reply, passed>>
                \/ /\ config.relayErrors
                   /\ \E code \in Codes : PassOn(a, code, overHTTP)
    /\ UNCHANGED <<config, bounce, msg, to, kept, forwarded, tally,
                   refused, bounced, ignored, unsure, stored, before>>

Forward(a, overHTTP) ==
    /\ step[a] = "forward"
    /\ \/ /\ ~config.forward
          /\ Go(a, "store")
          /\ UNCHANGED <<reply, forwarded, passed>>
       \/ /\ config.forward
          /\ \E took \in BOOLEAN :
                /\ forwarded' = IF took THEN forwarded \union {a} ELSE forwarded
                /\ \/ /\ took \/ ~config.forwardErrors
                      /\ Go(a, "store")
                      /\ UNCHANGED <<reply, passed>>
                   \/ /\ config.forwardErrors
                      /\ \E code \in Codes : PassOn(a, code, overHTTP)
    /\ UNCHANGED <<config, bounce, msg, to, kept, sent, tally,
                   refused, bounced, ignored, unsure, stored, before>>
----------------------------------------------------------------------------
(* Storing                                                                 *)

\* The Bcc header, which may fail, and Store's commit.  A message that enmime cannot parse
\* is dropped without an error.
Store(a) ==
    /\ step[a] = "store"
    /\ \/ /\ msg[a].form = "plain"
          /\ stored' = stored \union {a}
          /\ kept' = kept \union {a}
          /\ Go(a, "tags")
          /\ UNCHANGED <<reply, tally>>
       \/ /\ msg[a].form = "odd"
          /\ Answer(a, "2xx")
          /\ tally' = [tally EXCEPT !.accepted = @ + 1]
          /\ UNCHANGED <<kept, stored>>
       \/ /\ msg[a].form = "plain"
          /\ Answer(a, "4xx")
          /\ UNCHANGED <<kept, tally, stored>>
    /\ UNCHANGED <<config, bounce, msg, to, sent, forwarded, refused, bounced, ignored,
                   unsure, passed, before>>

\* Mutant: a message is counted as accepted before Store's error is looked at.
TagsCountedFirst(a) ==
    /\ step[a] = "tags"
    /\ Answer(a, "4xx") \/ Answer(a, "2xx")
    /\ tally' = [tally EXCEPT !.accepted = @ + 1]
    /\ UNCHANGED <<config, bounce, msg, to, kept, sent, forwarded, outcomeVars>>

\* Store's tags: an error is answered with 451 although the message is kept.
Tags(a) ==
    /\ step[a] = "tags"
    /\ \/ Answer(a, "4xx") /\ UNCHANGED tally
       \/ Answer(a, "2xx") /\ tally' = [tally EXCEPT !.accepted = @ + 1]
    /\ UNCHANGED <<config, bounce, msg, to, kept, sent, forwarded, outcomeVars>>

Handle(a, overHTTP) ==
    \/ Rules(a) \/ Duplicates(a) \/ Relay(a, overHTTP) \/ Forward(a, overHTTP)
    \/ Store(a) \/ Tags(a)
----------------------------------------------------------------------------
(* Everybody else                                                          *)

\* The API replaces or clears the rules: what that changes for one message.
RuleRequests == Messages \X {"none", "4xx", "5xx"}

\* Rules that do not compile are refused and change nothing.
ChangeRules(request) ==
    /\ bounce' = [bounce EXCEPT ![request[1]] = request[2]]
    /\ UNCHANGED <<config, step, msg, to, reply, kept, sent, forwarded, tally, outcomeVars>>

\* A deletion, by a user or by the cron job.
Remove(a) ==
    /\ a \in kept
    /\ kept' = kept \ {a}
    /\ UNCHANGED <<config, bounce, step, msg, to, reply, sent, forwarded, tally, outcomeVars>>
============================================================================
