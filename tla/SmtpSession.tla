---------------------------- MODULE SmtpSession ----------------------------
(***************************************************************************)
(* One SMTP connection of internal/smtpd: the command loop session.serve   *)
(* and the helpers that change the session (AUTH exchanges, STARTTLS,      *)
(* XCLIENT, reading the message body, calling the message handler).        *)
(*                                                                         *)
(* A command line is one action; DATA is two, because serve blocks in      *)
(* readData between the 354 reply and the handler.  What is abstracted:    *)
(* the text of lines and replies (a reply is its class), the contents of   *)
(* the body, and the regular expressions and chaos triggers, whose         *)
(* outcomes are chosen.                                                    *)
(***************************************************************************)
EXTENDS Naturals, Sequences

CONSTANTS
    Addresses,      \* addresses a client may name in MAIL and RCPT
    NullSender,     \* the empty reverse-path, and the zero value of `from`
    AllowedRcpts,   \* the addresses HandlerRcpt accepts
    Users,          \* usernames the AuthHandler may verify
    NoUser,         \* the nil username
    MaxRecipients,  \* Server.MaxRecipients after its default is applied
    Servers         \* the Server settings to consider

ASSUME AddressAssumption == AllowedRcpts \subseteq Addresses /\ NullSender \notin Addresses
ASSUME UserAssumption == NoUser \notin Users
ASSUME MaxRecipientsAssumption == MaxRecipients \in Nat \ {0}

Mechanisms == {"PLAIN", "LOGIN", "CRAM-MD5"}

\* The Server fields a session reads.  authMechs holds the overrides of
\* Server.AuthMechs: "unset" where the map has no entry.
ServerSettings ==
    [tlsConfigured: BOOLEAN, tlsRequired: BOOLEAN, tlsListener: BOOLEAN,
     authHandler: BOOLEAN, authRequired: BOOLEAN,
     authMechs: [Mechanisms -> {"unset", "on", "off"}],
     ignoreRejected: BOOLEAN, xClientTrust: BOOLEAN]

ASSUME ServersAssumption == Servers \subseteq ServerSettings

VARIABLES
    srv,            \* the settings of this server, fixed for the session
    phase,          \* where serve is: reading a command, reading DATA, or done
    reply,          \* the class of the last reply written
    gotEHLO, from, gotFROM, to, hasRejectedRecipients,   \* locals of serve
    tls, authenticated, username, remote,                \* fields of session
    handed,         \* last call of the message handler, <<>> before the first
    told,           \* history: the envelope as the replies describe it to the client
    opener,         \* history: the username when the open MAIL was accepted
    misled          \* history: an error of the handler said 2xx, so the client takes
                    \* the envelope serve still holds for a message that was queued

transaction == <<from, gotFROM, to, hasRejectedRecipients>>
identity == <<tls, authenticated, username, remote>>
history == <<told, opener, misled>>
vars == <<srv, phase, reply, gotEHLO, transaction, identity, handed, history>>

Senders == Addresses \union {NullSender}
Phases == {"command", "data", "closed"}
\* 220, 250, 354, 235, 221, 421, other 4xx, 5xx
Replies == {"ready", "ok", "proceed", "authenticated", "bye", "timeout", "retry", "reject"}

NothingTold == [open |-> FALSE, from |-> NullSender, rcpts |-> {}]

Init ==
    /\ srv \in Servers
    /\ phase = "command"
    /\ reply = "ready"
    /\ gotEHLO = FALSE
    /\ from = NullSender
    /\ gotFROM = FALSE
    /\ to = <<>>
    /\ hasRejectedRecipients = FALSE
    /\ tls = (srv.tlsConfigured /\ srv.tlsListener)
    /\ authenticated = FALSE
    /\ username = NoUser
    /\ remote = "peer"
    /\ handed = <<>>
    /\ told = NothingTold
    /\ opener = NoUser
    /\ misled = FALSE

----------------------------------------------------------------------------
(* Helpers                                                                 *)

NeedsTLS == srv.tlsConfigured /\ srv.tlsRequired /\ ~tls
NeedsAuth == srv.authHandler /\ srv.authRequired /\ ~authenticated

authMechs(m) ==
    IF srv.authMechs[m] = "unset" THEN m = "CRAM-MD5" \/ tls
    ELSE srv.authMechs[m] = "on"

\* Write a reply and go back to reading commands.
Answer(r) ==
    /\ reply' = r
    /\ phase' = "command"
    /\ UNCHANGED srv

\* A reply that changes nothing else.
Refuse(r) ==
    /\ Answer(r)
    /\ UNCHANGED <<gotEHLO, transaction, identity, handed, history>>

\* Mutant: the recipients survive a reset.
ResetTransactionKeepingRecipients ==
    /\ from' = NullSender
    /\ gotFROM' = FALSE
    /\ to' = to
    /\ hasRejectedRecipients' = FALSE

ResetTransaction ==
    /\ from' = NullSender
    /\ gotFROM' = FALSE
    /\ to' = <<>>
    /\ hasRejectedRecipients' = FALSE

ResetRecipients ==
    /\ to' = <<>>
    /\ hasRejectedRecipients' = FALSE

\* What the client concludes from a reply that ends its transaction.
ForgetTransaction ==
    /\ told' = NothingTold
    /\ opener' = NoUser
    /\ misled' = FALSE

Close(r) ==
    /\ phase' = "closed"
    /\ reply' = r
    /\ UNCHANGED <<srv, gotEHLO, transaction, identity, handed, history>>
----------------------------------------------------------------------------
(* Commands                                                                *)

\* HELO, EHLO
Hello ==
    /\ phase = "command"
    /\ gotEHLO' = TRUE
    /\ ResetTransaction
    /\ ForgetTransaction
    /\ Answer("ok")
    /\ UNCHANGED <<identity, handed>>

\* MAIL FROM:<s>
\* Mutants: no TLS check; no check for an envelope under way.
MailBlockedUnlessTLS == NeedsAuth \/ ~gotEHLO \/ to # <<>>
MailBlockedBeforeHello == NeedsTLS \/ NeedsAuth \/ ~gotEHLO

MailBlocked == NeedsTLS \/ NeedsAuth \/ ~gotEHLO \/ to # <<>>

Mail(s) ==
    /\ phase = "command"
    /\ \/ MailBlocked /\ Refuse("reject")
       \* chaos: refused before any of the transaction is touched
       \/ ~MailBlocked /\ \E r \in {"retry", "reject"} : Refuse(r)
       \* bad address or parameter: the recipients go, the sender stays
       \/ /\ ~MailBlocked
          /\ Answer("reject")
          /\ ResetRecipients
          /\ UNCHANGED <<gotEHLO, from, gotFROM, identity, handed, history>>
       \/ /\ ~MailBlocked
          /\ from' = s
          /\ gotFROM' = TRUE
          /\ ResetRecipients
          /\ told' = [open |-> TRUE, from |-> s, rcpts |-> {}]
          /\ opener' = username
          /\ Answer("ok")
          /\ UNCHANGED <<gotEHLO, identity, handed, misled>>

\* RCPT TO:<r>
RcptBlocked == NeedsTLS \/ NeedsAuth \/ ~gotFROM

\* Mutant: one recipient too many.
TooManyRecipientsOffByOne == Len(to) > MaxRecipients

TooManyRecipients == Len(to) >= MaxRecipients

Rcpt(r) ==
    /\ phase = "command"
    /\ \/ RcptBlocked /\ Refuse("reject")
       \* bad address, or chaos
       \/ ~RcptBlocked /\ \E c \in {"retry", "reject"} : Refuse(c)
       \/ ~RcptBlocked /\ TooManyRecipients /\ Refuse("retry")
       \/ /\ ~RcptBlocked /\ ~TooManyRecipients
          /\ r \notin AllowedRcpts /\ ~srv.ignoreRejected
          /\ Refuse("reject")
       \/ /\ ~RcptBlocked /\ ~TooManyRecipients
          /\ r \in AllowedRcpts \/ srv.ignoreRejected
          /\ to' = IF r \in AllowedRcpts THEN Append(to, r) ELSE to
          /\ hasRejectedRecipients' = (hasRejectedRecipients \/ r \notin AllowedRcpts)
          /\ told' = [told EXCEPT !.rcpts = @ \union {r}]
          /\ Answer("ok")
          /\ UNCHANGED <<gotEHLO, from, gotFROM, identity, handed, opener, misled>>

\* DATA, up to the 354 reply
DataBlocked ==
    \/ NeedsTLS
    \/ NeedsAuth
    \/ ~gotFROM
    \/ to = <<>> /\ ~hasRejectedRecipients

Data ==
    /\ phase = "command"
    /\ \/ DataBlocked /\ Refuse("reject")
       \/ /\ ~DataBlocked
          /\ phase' = "data"
          /\ reply' = "proceed"
          /\ UNCHANGED <<srv, gotEHLO, transaction, identity, handed, history>>

\* readData fails: over MaxSize (552) or another error (451), try again
DataRefused ==
    /\ phase = "data"
    /\ \E r \in {"retry", "reject"} : Refuse(r)

\* readData fails because the client timed out (421) or is gone
DataAborted ==
    /\ phase = "data"
    /\ \E r \in {"timeout", reply} : Close(r)

Call(result) == <<[from |-> from, to |-> to, user |-> username, result |-> result]>>

\* The replies an error of the handler can carry: checkErrFormatRE lets any text that
\* begins with a code from 200 to 599 through as it is; any other text becomes a 451.
\* Mutant: an error without a code is answered as a success.
PassedOn == {"ok", "proceed", "retry", "reject"}
Errors == PassedOn \union {"no code"}

ErrorReplySwallowed(e) == IF e \in PassedOn THEN e ELSE "ok"

ErrorReply(e) == IF e \in PassedOn THEN e ELSE "retry"

\* The body is complete: call the handler unless every recipient was ignored.  After an
\* error the envelope stays open, whatever the reply has made the client believe.
DataComplete ==
    /\ phase = "data"
    /\ \/ /\ to # <<>>
          /\ \E e \in Errors :
                /\ handed' = Call(e)
                /\ Answer(ErrorReply(e))
                /\ IF ErrorReply(e) = "ok"
                   THEN told' = NothingTold /\ misled' = TRUE
                   ELSE UNCHANGED <<told, misled>>
          /\ UNCHANGED <<gotEHLO, transaction, identity, opener>>
       \/ /\ handed' = IF to # <<>> THEN Call("done") ELSE handed
          /\ ResetTransaction
          /\ ForgetTransaction
          /\ Answer("ok")
          /\ UNCHANGED <<gotEHLO, identity>>

Rset ==
    /\ phase = "command"
    /\ \/ NeedsTLS /\ Refuse("reject")
       \/ /\ ~NeedsTLS
          /\ ResetTransaction
          /\ ForgetTransaction
          /\ Answer("ok")
          /\ UNCHANGED <<gotEHLO, identity, handed>>

\* XCLIENT with a usable ADDR renames the peer when it is trusted
XClient ==
    /\ phase = "command"
    /\ remote' \in IF srv.xClientTrust THEN {remote, "xclient"} ELSE {remote}
    /\ Answer("ok")
    /\ UNCHANGED <<gotEHLO, transaction, tls, authenticated, username, handed, history>>

\* NOOP; HELP, VRFY, EXPN, unknown verbs and lines that are too long
OtherCommand ==
    /\ phase = "command"
    /\ \E r \in {"ok", "reject"} : Refuse(r)

StartTLS ==
    /\ phase = "command"
    /\ \/ Refuse("reject")      \* has an argument, not configured, or in use
       \* the handshake fails after the 220 reply (403)
       \/ srv.tlsConfigured /\ ~tls /\ Refuse("retry")
       \/ /\ srv.tlsConfigured
          /\ ~tls
          /\ tls' = TRUE
          /\ ResetTransaction
          /\ ForgetTransaction
          /\ Answer("ready")
          /\ UNCHANGED <<gotEHLO, authenticated, username, remote, handed>>

\* AUTH m for user u, with its continuation lines
\* Mutant: AUTH in the middle of a mail transaction.
AuthBlockedByConfig(m) ==
    NeedsTLS \/ ~srv.authHandler \/ authenticated \/ ~authMechs(m)

AuthBlocked(m) ==
    \/ NeedsTLS
    \/ ~srv.authHandler
    \/ authenticated
    \/ gotFROM \/ to # <<>>
    \/ ~authMechs(m)

\* handleAuthLogin and handleAuthPlain set the username, or clear it when the
\* credentials u are refused; handleAuthCramMD5 leaves it alone.
UsernameAfter(m, u) == IF m = "CRAM-MD5" THEN username ELSE u

Auth(m, u) ==
    /\ phase = "command"
    /\ \/ AuthBlocked(m) /\ Refuse("reject")
       \* chaos, an unknown mechanism, or an exchange that is cancelled or
       \* cannot be decoded
       \/ ~AuthBlocked(m) /\ \E r \in {"retry", "reject"} : Refuse(r)
       \* a continuation line does not arrive in time
       \/ ~AuthBlocked(m) /\ Close("timeout")
       \* the credentials are refused
       \/ /\ ~AuthBlocked(m)
          /\ username' = UsernameAfter(m, NoUser)
          /\ Answer("reject")
          /\ UNCHANGED <<gotEHLO, transaction, tls, authenticated, remote, handed, history>>
       \/ /\ ~AuthBlocked(m)
          /\ authenticated' = TRUE
          /\ username' = UsernameAfter(m, u)
          /\ Answer("authenticated")
          /\ UNCHANGED <<gotEHLO, transaction, tls, remote, handed, history>>

Quit == phase = "command" /\ Close("bye")

\* readLine fails: the client timed out (421) or is gone
ReadFailed ==
    /\ phase = "command"
    /\ \E r \in {"timeout", reply} : Close(r)

Next ==
    \/ Hello
    \/ \E s \in Senders : Mail(s)
    \/ \E r \in Addresses : Rcpt(r)
    \/ Data \/ DataRefused \/ DataAborted \/ DataComplete
    \/ Rset \/ XClient \/ OtherCommand \/ StartTLS
    \/ \E m \in Mechanisms, u \in Users : Auth(m, u)
    \/ Quit \/ ReadFailed

Spec == Init /\ [][Next]_vars

----------------------------------------------------------------------------
(* Properties                                                              *)

HandledCall ==
    [from: Senders, to: Seq(Addresses), user: Users \union {NoUser},
     result: Errors \union {"done"}]

ToldEnvelope == [open: BOOLEAN, from: Senders, rcpts: SUBSET Addresses]

\* The values the session's locals, fields and history range over.
TypeOK ==
    /\ srv \in Servers
    /\ phase \in Phases
    /\ reply \in Replies
    /\ gotEHLO \in BOOLEAN
    /\ from \in Senders
    /\ gotFROM \in BOOLEAN
    /\ to \in Seq(AllowedRcpts) /\ Len(to) <= MaxRecipients
    /\ hasRejectedRecipients \in BOOLEAN
    /\ tls \in BOOLEAN
    /\ authenticated \in BOOLEAN
    /\ username \in Users \union {NoUser}
    /\ remote \in {"peer", "xclient"}
    /\ handed \in Seq(HandledCall) /\ Len(handed) <= 1
    /\ told \in ToldEnvelope
    /\ opener \in Users \union {NoUser}
    /\ misled \in BOOLEAN

RangeOf(seq) == {seq[i] : i \in DOMAIN seq}

\* The envelope serve keeps in its locals is the one its replies have described
\* to the client: the same sender is open, and the recipients that will be
\* handed over are those acknowledged with 250 that HandlerRcpt accepted.  The one way
\* they come apart is an error of the handler that says 2xx (smtpd.go:664): then serve
\* holds an envelope with recipients that the client believes delivered, and nothing the
\* client adds to it is left out.
EnvelopeAgreement ==
    /\ hasRejectedRecipients => srv.ignoreRejected
    /\ IF misled
       THEN /\ gotFROM /\ to # <<>> /\ ~told.open
            /\ told.rcpts \intersect AllowedRcpts \subseteq RangeOf(to)
       ELSE /\ gotFROM = told.open
            /\ from = told.from
            /\ RangeOf(to) = told.rcpts \intersect AllowedRcpts
            /\ told.rcpts # {} => told.open

\* A transaction is open only for a client that was entitled to start it and
\* still is: TLS and authentication, where the server requires them, are in
\* place from the MAIL that opened it to the call of the handler.
OpenTransactionIsEntitled ==
    gotFROM =>
        /\ gotEHLO
        /\ ~NeedsTLS
        /\ ~NeedsAuth

\* One transaction has one identity: nobody authenticates, and STARTTLS does
\* not happen under a sender that survives it, between MAIL and the handler,
\* so the username stored with a message is the one that opened it.
OneIdentityPerTransaction ==
    /\ gotFROM => opener = username
    /\ username # NoUser => authenticated

\* The call handed over the envelope the client was told of, for the user that opened it.
Promised(call) ==
    /\ call.user = opener
    /\ told.rcpts \intersect AllowedRcpts \subseteq RangeOf(call.to)
    /\ ~misled => call.from = told.from /\ RangeOf(call.to) \subseteq told.rcpts

\* What the 2xx that ends DATA says: the handler was given every recipient the client was
\* told is accepted, with the sender the client named and the username it had then, except
\* those the server was configured to drop silently.  Either it succeeded and the envelope
\* is consumed, or it failed and its own error text began with a 2xx code (smtpd.go:664);
\* no other error is ever taken for a success, and the envelope of that one stays open.
AcknowledgedIsHandled ==
    [][phase = "data" /\ phase' = "command" /\ reply' = "ok" =>
        \/ /\ handed' # <<>> /\ handed'[1].result = "done" /\ Promised(handed'[1])
           /\ ~gotFROM'
        \/ /\ handed' # <<>> /\ handed'[1].result = "ok" /\ Promised(handed'[1])
           /\ misled' /\ to' = handed'[1].to
        \/ /\ srv.ignoreRejected
           /\ told.rcpts \intersect AllowedRcpts = {}
           /\ handed' = handed]_vars

\* serve implements the abstract mail transaction.
Transaction == INSTANCE MailTransaction WITH
    open <- gotFROM,
    sender <- from,
    recipients <- to,
    handed <- IF handed = <<>> THEN <<>>
              ELSE <<[from |-> handed[1].from, to |-> handed[1].to]>>

\* The locals of serve, seen as an envelope, only ever change the way
\* MailTransaction allows.
ImplementsMailTransaction == Transaction!TxSpec

\* smtpd.go:781: after the STARTTLS handshake "the server must discard any
\* prior knowledge obtained from the client".
StartTLSDiscardsPriorKnowledge ==
    [][~tls /\ tls' => ~gotEHLO' /\ ~authenticated' /\ username' = NoUser]_vars
============================================================================
