------------------------------ MODULE Delivery ------------------------------
(***************************************************************************)
(* The SMTP server and the send API: AcceptLoop decides which connections  *)
(* are served, Intake what becomes of the messages they bring.             *)
(*                                                                         *)
(* A connection brings at most one message here; SmtpSession takes the     *)
(* commands of a session apart.  Attempts that are no connection are       *)
(* requests to the send API, which no limit of AcceptLoop applies to.      *)
(***************************************************************************)
EXTENDS AcceptLoop, Intake

ASSUME ConnsAreAttempts == Conns \subseteq Attempts

vars == <<loopVars, intakeVars>>

TypeOK == LoopTypeOK /\ IntakeTypeOK

Init == LoopInit /\ IntakeInit

\* A client that is served sends its envelope and message, or none.
SmtpAttempt(c) == link[c] = "served" /\ Envelope(c) /\ UNCHANGED loopVars

ApiAttempt(a) == a \notin Conns /\ Post(a) /\ UNCHANGED loopVars

\* serve returns: QUIT, an idle or lost connection; never while the handler runs.
EndSession(c) ==
    /\ step[c] \in {"idle", "done"}
    /\ HangUp(c)
    /\ UNCHANGED intakeVars

\* Nothing is under way: the server and its sessions wait for their clients.
Rest ==
    /\ loop \in {"accept", "returned"}
    /\ \A c \in Conns : link[c] \in {"away", "served", "gone", "refused"}
    /\ \A a \in Attempts : step[a] \in {"idle", "done"}
    /\ UNCHANGED vars

Next ==
    \/ LoopStep /\ UNCHANGED intakeVars
    \/ \E c \in Conns : SmtpAttempt(c) \/ EndSession(c)
    \/ \E a \in Attempts :
          \/ ApiAttempt(a)
          \/ Handle(a, a \notin Conns) /\ UNCHANGED loopVars
          \/ Remove(a) /\ UNCHANGED loopVars
    \/ \E r \in RuleRequests : ChangeRules(r) /\ UNCHANGED loopVars
    \/ Rest

Spec == Init /\ [][Next]_vars
----------------------------------------------------------------------------
(* Properties                                                              *)

\* A 2xx is a promise kept: the message was committed, or is a duplicate of one that was
\* there, or enmime could not parse it, or, the one case nobody promised, it is another
\* server's own answer that ForwardSMTPErrors passes on.
AcknowledgedIsKept ==
    \A a \in Attempts : reply[a] = "2xx" =>
        a \in stored \union ignored \union passed \/ msg[a].form = "odd"

\* The acknowledgements that are Mailpit's own, for messages it can show.
Promised ==
    {a \in Attempts : reply[a] = "2xx" /\ a \notin ignored \union passed /\ msg[a].form # "odd"}

\* To the clients of SMTP and of the send API the server is what storage is to its callers:
\* a MessageStore, whose 2xx comes after the commit of that very message, whatever
\* rules, duplicates, relays and failures came before.
Promise ==
    INSTANCE MessageStore
    WITH Ids <- Attempts, messages <- kept, removed <- stored \ kept, acked <- Promised

\* The acknowledgements and the mailbox change only the way MessageStore allows.
ImplementsMessageStore == Promise!StoreSpec

\* A message that a rule refused or that is a duplicate goes nowhere, and one whose
\* client was given another server's answer is not stored: an error leaves a message
\* behind only where Store failed after its commit.
RefusedGoesNowhere ==
    /\ stored \intersect (bounced \union ignored \union passed) = {}
    /\ \A a \in bounced \union ignored : a \notin forwarded /\ sent[a] = {}

\* With IgnoreDuplicateIDs, a message that comes again after its first copy was
\* acknowledged is neither stored, relayed nor forwarded while that copy is kept, unless
\* the query for it failed; the checks of concurrent attempts promise nothing.
LaterDuplicatesAreIgnored ==
    config.ignoreDuplicateIDs =>
        \A a \in Attempts : \A b \in before[a] \intersect kept :
            msg[a].id = msg[b].id /\ msg[a].id # NoId /\ a \notin unsure =>
                a \notin stored /\ a \notin forwarded /\ sent[a] = {}

\* The attempts Mailpit has answered with a 2xx of its own, but for duplicates.
Accepted == {a \in Attempts : reply[a] = "2xx" /\ a \notin ignored /\ a \notin passed}

\* The counters of stats.go agree with what clients were told: accepted are the
\* acknowledged messages but for duplicates and answers passed on, rejected the refused
\* recipients and messages, ignored the duplicates; errors count nowhere.
TallyAgrees ==
    /\ tally.accepted = Cardinality(Accepted)
    /\ tally.rejected = Cardinality(bounced) + Cardinality(refused)
    /\ tally.ignored = Cardinality(ignored)

\* The recipients of an attempt that the relay's lists let through: not in the blocklist
\* and, unless everything is relayed, in the list of matching recipients.
LetThrough(a) ==
    {r \in to[a] : r \notin config.blocked /\ (config.relayAll \/ r \in config.matching)}

\* Nobody gets a relayed message but recipients of its envelope that the relay's lists
\* let through, and no envelope has a recipient the server refused.  Where errors of the
\* other server are passed on, an acceptance says more: every one of those recipients has
\* been relayed to, and the copy to be forwarded has been, whatever failed on the way.
RecipientsAreRespected ==
    \A a \in Attempts :
        /\ sent[a] \subseteq LetThrough(a)
        /\ a \in Conns => to[a] \subseteq config.allowed
        /\ a \in Accepted /\ config.relayErrors => sent[a] = LetThrough(a)
        /\ a \in Accepted /\ config.forward /\ config.forwardErrors => a \in forwarded
============================================================================
