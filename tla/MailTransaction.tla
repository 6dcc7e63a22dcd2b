-------------------------- MODULE MailTransaction --------------------------
(***************************************************************************)
(* What one SMTP connection promises about mail transactions, whatever     *)
(* commands the client sends: an envelope is built by naming a sender and  *)
(* then adding recipients one at a time; the sender of an envelope that    *)
(* has recipients is never replaced; only an envelope with recipients is   *)
(* handed to the message handler, exactly as it was built; a handler that  *)
(* fails leaves the envelope as it was, one that succeeds consumes it.     *)
(*                                                                         *)
(* The module has no counterpart in the source: it is the abstract         *)
(* specification that SmtpSession implements.                              *)
(***************************************************************************)
EXTENDS Sequences

CONSTANTS
    Addresses,   \* every address a client may name
    NullSender   \* the empty reverse-path "<>", also the value of a reset sender

VARIABLES
    open,        \* a sender has been accepted and the envelope not consumed
    sender,      \* the sender of the open envelope
    recipients,  \* the recipients of the open envelope, in order
    handed       \* the last envelope given to the handler, or <<>> for none

txVars == <<open, sender, recipients, handed>>

Envelope == [from: Addresses \union {NullSender}, to: Seq(Addresses)]

TxInit ==
    /\ open = FALSE
    /\ sender = NullSender
    /\ recipients = <<>>
    /\ handed = <<>>

Begin(s) ==
    /\ recipients = <<>>
    /\ open' = TRUE
    /\ sender' = s
    /\ UNCHANGED <<recipients, handed>>

AddRecipient(r) ==
    /\ open
    /\ recipients' = Append(recipients, r)
    /\ UNCHANGED <<open, sender, handed>>

Discard ==
    /\ open' = FALSE
    /\ sender' = NullSender
    /\ recipients' = <<>>
    /\ UNCHANGED handed

HandOver ==
    /\ open
    /\ recipients # <<>>
    /\ handed' = <<[from |-> sender, to |-> recipients]>>

Fail == HandOver /\ UNCHANGED <<open, sender, recipients>>

Succeed ==
    /\ HandOver
    /\ open' = FALSE
    /\ sender' = NullSender
    /\ recipients' = <<>>

TxNext ==
    \/ \E s \in Addresses \union {NullSender} : Begin(s)
    \/ \E r \in Addresses : AddRecipient(r)
    \/ Discard
    \/ Fail
    \/ Succeed

TxSpec == TxInit /\ [][TxNext]_txVars

============================================================================
