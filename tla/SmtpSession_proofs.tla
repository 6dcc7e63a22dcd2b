------------------------ MODULE SmtpSession_proofs ------------------------
(***************************************************************************)
(* Proofs about SmtpSession for every set of addresses, users and server   *)
(* settings and every recipient limit: the invariants the run of           *)
(* MCSmtpSession checks, the promise made by the 250 that ends DATA, and   *)
(* the refinement of MailTransaction.                                      *)
(***************************************************************************)
EXTENDS SmtpSession, TLAPS

\* While serve reads a body there is an envelope to give it to: the guards of
\* DATA still hold, because nothing else happens until readData returns.
DataHasEnvelope ==
    phase = "data" => gotFROM /\ (to # <<>> \/ hasRejectedRecipients)

\* The inductive invariant.
IInv ==
    /\ TypeOK
    /\ EnvelopeAgreement
    /\ OpenTransactionIsEntitled
    /\ OneIdentityPerTransaction
    /\ DataHasEnvelope

\* The recipients after an append are those before and the new one.
LEMMA RangeOfAppend ==
    ASSUME NEW S, NEW seq \in Seq(S), NEW e \in S
    PROVE  RangeOf(Append(seq, e)) = RangeOf(seq) \union {e}
  <1>1. /\ DOMAIN Append(seq, e) = 1 .. (Len(seq) + 1)
        /\ DOMAIN seq = 1 .. Len(seq)
        /\ \A i \in 1 .. Len(seq) : Append(seq, e)[i] = seq[i]
        /\ Append(seq, e)[Len(seq) + 1] = e
        /\ Len(seq) \in Nat
    OBVIOUS
  <1>2. QED
    BY <1>1 DEF RangeOf

\* Values that steps assign to the history and to the handler's last call.
LEMMA ToldValues ==
    /\ NothingTold \in ToldEnvelope
    /\ \A s \in Senders : [open |-> TRUE, from |-> s, rcpts |-> {}] \in ToldEnvelope
    /\ \A t \in ToldEnvelope, r \in Addresses :
           [t EXCEPT !.rcpts = @ \union {r}] \in ToldEnvelope
  BY DEF NothingTold, ToldEnvelope, Senders

\* A call of the handler hands over what the session has.
LEMMA CallType ==
    ASSUME TypeOK, NEW result \in Errors \union {"done"}
    PROVE  Call(result) \in Seq(HandledCall) /\ Len(Call(result)) <= 1
  <1> DEFINE c == [from |-> from, to |-> to, user |-> username, result |-> result]
  <1>1. to \in Seq(Addresses)
    BY AddressAssumption DEF TypeOK
  <1>2. c \in HandledCall
    BY <1>1 DEF TypeOK, HandledCall
  <1>3. <<c>> \in Seq(HandledCall) /\ Len(<<c>>) <= 1
    BY <1>2
  <1>4. QED
    BY <1>3 DEF Call

\* A reset list of recipients is a list of recipients.
LEMMA EmptyRecipients ==
    /\ <<>> \in Seq(AllowedRcpts)
    /\ Len(<<>>) <= MaxRecipients
  BY MaxRecipientsAssumption

\* An accepted recipient under the limit keeps the list within it.
LEMMA AppendRecipient ==
    ASSUME TypeOK, NEW r \in AllowedRcpts, ~TooManyRecipients
    PROVE  Append(to, r) \in Seq(AllowedRcpts) /\ Len(Append(to, r)) <= MaxRecipients
  BY MaxRecipientsAssumption DEF TypeOK, TooManyRecipients

\* The initial states of a session satisfy the inductive invariant.
LEMMA InitIInv == Init => IInv
  <1> SUFFICES ASSUME Init PROVE IInv
    OBVIOUS
  <1>1. TypeOK
    <2>1. srv \in ServerSettings /\ tls \in BOOLEAN
      BY ServersAssumption DEF Init, ServerSettings
    <2>2. /\ to \in Seq(AllowedRcpts) /\ Len(to) <= MaxRecipients
          /\ handed \in Seq(HandledCall) /\ Len(handed) <= 1
      BY MaxRecipientsAssumption DEF Init
    <2>3. QED
      BY <2>1, <2>2, ToldValues DEF Init, TypeOK, Phases, Replies, Senders
  <1>2. EnvelopeAgreement
    <2>1. RangeOf(to) = {}
      BY DEF Init, RangeOf
    <2>2. QED
      BY <2>1 DEF Init, EnvelopeAgreement, NothingTold
  <1>3. OpenTransactionIsEntitled /\ OneIdentityPerTransaction /\ DataHasEnvelope
    BY DEF Init, OpenTransactionIsEntitled, OneIdentityPerTransaction, DataHasEnvelope
  <1>4. QED
    BY <1>1, <1>2, <1>3 DEF IInv

----------------------------------------------------------------------------
(* Each part of the inductive invariant is preserved by every step.        *)

\* Every command and every outcome of readData keeps the types of the state.
LEMMA StepTypeOK == TypeOK /\ [Next]_vars => TypeOK'
  <1> SUFFICES ASSUME TypeOK, [Next]_vars PROVE TypeOK'
    OBVIOUS
  <1> USE ToldValues, EmptyRecipients
      DEF Phases, Replies, Answer, Refuse, Close, identity, transaction, history
  <1>1. CASE Hello
    BY <1>1 DEF TypeOK, Hello, ResetTransaction, ForgetTransaction, Senders
  <1>2. ASSUME NEW s \in Senders, Mail(s) PROVE TypeOK'
    BY <1>2 DEF TypeOK, Mail, ResetRecipients
  <1>3. ASSUME NEW r \in Addresses, Rcpt(r) PROVE TypeOK'
    <2>1. CASE UNCHANGED <<srv, gotEHLO, transaction, identity, handed, history>>
      BY <1>3, <2>1 DEF TypeOK, Rcpt
    <2>2. CASE ~ UNCHANGED <<srv, gotEHLO, transaction, identity, handed, history>>
      <3>1. /\ to' \in Seq(AllowedRcpts) /\ Len(to') <= MaxRecipients
            /\ hasRejectedRecipients' \in BOOLEAN
        BY <1>3, <2>2, AppendRecipient DEF TypeOK, Rcpt
      <3>2. told' \in ToldEnvelope
        BY <1>3, <2>2 DEF TypeOK, Rcpt
      <3>3. QED
        BY <1>3, <2>2, <3>1, <3>2 DEF TypeOK, Rcpt
    <2>3. QED
      BY <2>1, <2>2
  <1>4. CASE Data
    BY <1>4 DEF TypeOK, Data
  <1>5. CASE DataRefused
    BY <1>5 DEF TypeOK, DataRefused
  <1>6. CASE DataAborted
    BY <1>6 DEF TypeOK, DataAborted
  <1>7. CASE DataComplete
    <2>1. ASSUME NEW e \in Errors, handed' = Call(e), Answer(ErrorReply(e)),
                 (told' = NothingTold /\ misled' = TRUE) \/ UNCHANGED <<told, misled>>,
                 UNCHANGED <<gotEHLO, transaction, identity, opener>>
          PROVE  TypeOK'
      <3>1. ErrorReply(e) \in Replies
        BY DEF ErrorReply, PassedOn
      <3>2. handed' \in Seq(HandledCall) /\ Len(handed') <= 1
        BY <2>1, CallType
      <3>3. told' \in ToldEnvelope /\ misled' \in BOOLEAN
        BY <2>1 DEF TypeOK
      <3>4. QED
        BY <2>1, <3>1, <3>2, <3>3 DEF TypeOK
    <2>2. CASE /\ handed' = IF to # <<>> THEN Call("done") ELSE handed
               /\ ResetTransaction /\ ForgetTransaction /\ Answer("ok")
               /\ UNCHANGED <<gotEHLO, identity>>
      BY <2>2, CallType DEF TypeOK, ResetTransaction, ForgetTransaction, Senders
    <2>3. QED
      BY <1>7, <2>1, <2>2 DEF DataComplete
  <1>8. CASE Rset
    BY <1>8 DEF TypeOK, Rset, ResetTransaction, ForgetTransaction, Senders
  <1>9. CASE XClient
    BY <1>9 DEF TypeOK, XClient
  <1>10. CASE OtherCommand
    BY <1>10 DEF TypeOK, OtherCommand
  <1>11. CASE StartTLS
    BY <1>11 DEF TypeOK, StartTLS, ResetTransaction, ForgetTransaction, Senders
  <1>12. ASSUME NEW m \in Mechanisms, NEW u \in Users, Auth(m, u) PROVE TypeOK'
    <2>1. /\ phase' \in Phases /\ reply' \in Replies
          /\ authenticated' \in BOOLEAN /\ username' \in Users \union {NoUser}
      BY <1>12 DEF TypeOK, Auth, UsernameAfter
    <2>2. UNCHANGED <<srv, gotEHLO, transaction, tls, remote, handed, history>>
      BY <1>12 DEF Auth
    <2> QED
      BY <2>1, <2>2 DEF TypeOK
  <1>13. CASE Quit \/ ReadFailed
    BY <1>13 DEF TypeOK, Quit, ReadFailed
  <1>14. CASE UNCHANGED vars
    BY <1>14 DEF TypeOK, vars
  <1>15. QED
    BY <1>1, <1>2, <1>3, <1>4, <1>5, <1>6, <1>7, <1>8, <1>9, <1>10, <1>11, <1>12,
       <1>13, <1>14 DEF Next

\* A step that leaves the envelope and the history alone keeps them in agreement.
LEMMA UnchangedAgreement ==
    ASSUME EnvelopeAgreement, UNCHANGED <<srv, transaction, history>>
    PROVE  EnvelopeAgreement'
  BY DEF EnvelopeAgreement, transaction, history, RangeOf

\* Both sides forget the envelope together.
LEMMA ResetAgreement ==
    ASSUME ResetTransaction, ForgetTransaction PROVE EnvelopeAgreement'
  <1>1. RangeOf(to') = {}
    BY DEF ResetTransaction, RangeOf
  <1>2. QED
    BY <1>1 DEF EnvelopeAgreement, ResetTransaction, ForgetTransaction, NothingTold

\* No command and no outcome of readData makes serve's envelope and the one the
\* client has been told of differ.
LEMMA StepAgreement == IInv /\ [Next]_vars => EnvelopeAgreement'
  <1> SUFFICES ASSUME IInv, [Next]_vars PROVE EnvelopeAgreement'
    OBVIOUS
  <1> USE UnchangedAgreement, ResetAgreement DEF IInv, Answer, Refuse, Close
  <1>1. CASE Hello
    BY <1>1 DEF Hello
  <1>2. ASSUME NEW s \in Senders, Mail(s) PROVE EnvelopeAgreement'
    <2>1. CASE UNCHANGED <<srv, transaction, history>>
      BY <2>1
    <2>2. CASE ~ UNCHANGED <<srv, transaction, history>>
      <3>1. to = <<>> /\ to' = <<>> /\ hasRejectedRecipients' = FALSE /\ UNCHANGED srv
        BY <1>2, <2>2 DEF Mail, MailBlocked, ResetRecipients
      <3>2. RangeOf(to) = {} /\ RangeOf(to') = {}
        BY <3>1 DEF RangeOf
      <3>3. \/ UNCHANGED <<from, gotFROM, history>>
            \/ /\ from' = s /\ gotFROM' = TRUE
               /\ told' = [open |-> TRUE, from |-> s, rcpts |-> {}]
        BY <1>2, <2>2 DEF Mail
      <3>4. CASE UNCHANGED <<from, gotFROM, history>>
        BY <3>1, <3>2, <3>4 DEF EnvelopeAgreement, history
      <3>5. CASE told' = [open |-> TRUE, from |-> s, rcpts |-> {}]
        <4>1. told'.open = TRUE /\ told'.from = s /\ told'.rcpts = {}
          BY <3>5
        <4>2. ~misled /\ ~misled'
          BY <1>2, <2>2, <3>1 DEF EnvelopeAgreement, Mail, history
        <4>3. QED
          BY <3>1, <3>2, <3>3, <3>5, <4>1, <4>2 DEF EnvelopeAgreement, history
      <3>6. QED
        BY <3>3, <3>4, <3>5
    <2>3. QED
      BY <2>1, <2>2
  <1>3. ASSUME NEW r \in Addresses, Rcpt(r) PROVE EnvelopeAgreement'
    <2>1. CASE UNCHANGED <<srv, transaction, history>>
      BY <2>1
    <2>2. CASE ~ UNCHANGED <<srv, transaction, history>>
      <3>1. r \in AllowedRcpts => RangeOf(Append(to, r)) = RangeOf(to) \union {r}
        BY RangeOfAppend DEF TypeOK
      <3>2. told \in ToldEnvelope
        BY DEF TypeOK
      <3>3. /\ gotFROM
            /\ to' = IF r \in AllowedRcpts THEN Append(to, r) ELSE to
            /\ hasRejectedRecipients' = (hasRejectedRecipients \/ r \notin AllowedRcpts)
            /\ told' = [told EXCEPT !.rcpts = @ \union {r}]
            /\ r \in AllowedRcpts \/ srv.ignoreRejected
            /\ UNCHANGED <<srv, from, gotFROM, misled>>
        BY <1>3, <2>2 DEF Rcpt, RcptBlocked
      <3>4. /\ told'.rcpts = told.rcpts \union {r}
            /\ told'.open = told.open /\ told'.from = told.from
        BY <3>2, <3>3 DEF ToldEnvelope
      <3>5. RangeOf(to') = RangeOf(to) \union ({r} \intersect AllowedRcpts)
        BY <3>1, <3>3
      <3>6. CASE misled
        <4>1. to' # <<>>
          BY <3>3, <3>6 DEF EnvelopeAgreement, TypeOK
        <4>2. QED
          BY <3>3, <3>4, <3>5, <3>6, <4>1 DEF EnvelopeAgreement
      <3>7. CASE ~misled
        BY <3>3, <3>4, <3>5, <3>7 DEF EnvelopeAgreement
      <3>8. QED
        BY <3>6, <3>7
    <2>3. QED
      BY <2>1, <2>2
  <1>4. CASE Data
    BY <1>4 DEF Data
  <1>5. CASE DataRefused
    BY <1>5 DEF DataRefused
  <1>6. CASE DataAborted
    BY <1>6 DEF DataAborted
  <1>7. CASE DataComplete
    <2>1. CASE UNCHANGED <<srv, transaction, history>>
      BY <2>1
    <2>2. CASE ResetTransaction /\ ForgetTransaction
      BY <2>2
    <2>3. CASE /\ to # <<>> /\ told' = NothingTold /\ misled' = TRUE
               /\ UNCHANGED <<srv, transaction>>
      <3>1. gotFROM' /\ to' # <<>> /\ ~told'.open /\ told'.rcpts = {}
        BY <1>7, <2>3 DEF DataComplete, DataHasEnvelope, NothingTold, transaction
      <3>2. QED
        BY <2>3, <3>1 DEF EnvelopeAgreement, transaction
    <2>4. QED
      BY <1>7, <2>1, <2>2, <2>3 DEF DataComplete, history, transaction
  <1>8. CASE Rset
    BY <1>8 DEF Rset
  <1>9. CASE XClient
    BY <1>9 DEF XClient
  <1>10. CASE OtherCommand
    BY <1>10 DEF OtherCommand
  <1>11. CASE StartTLS
    BY <1>11 DEF StartTLS
  <1>12. ASSUME NEW m \in Mechanisms, NEW u \in Users, Auth(m, u) PROVE EnvelopeAgreement'
    BY <1>12 DEF Auth, UsernameAfter
  <1>13. CASE Quit \/ ReadFailed
    BY <1>13 DEF Quit, ReadFailed
  <1>14. CASE UNCHANGED vars
    BY <1>14 DEF vars
  <1>15. QED
    BY <1>1, <1>2, <1>3, <1>4, <1>5, <1>6, <1>7, <1>8, <1>9, <1>10, <1>11, <1>12,
       <1>13, <1>14 DEF Next

\* Entitlement, identity and the envelope behind DATA, preserved by every step.
LEMMA StepEntitlement ==
    IInv /\ [Next]_vars =>
        OpenTransactionIsEntitled' /\ OneIdentityPerTransaction' /\ DataHasEnvelope'
  <1> DEFINE Goal == OpenTransactionIsEntitled /\ OneIdentityPerTransaction /\ DataHasEnvelope
  <1> SUFFICES ASSUME IInv, [Next]_vars PROVE Goal'
    OBVIOUS
  <1> USE DEF IInv, TypeOK, OpenTransactionIsEntitled, OneIdentityPerTransaction,
        DataHasEnvelope, NeedsTLS, NeedsAuth, Answer, Refuse, Close, identity, transaction,
        history
  <1>1. CASE Hello
    BY <1>1 DEF Hello, ResetTransaction, ForgetTransaction
  <1>2. ASSUME NEW s \in Senders, Mail(s) PROVE Goal'
    BY <1>2 DEF Mail, MailBlocked, ResetRecipients
  <1>3. ASSUME NEW r \in Addresses, Rcpt(r) PROVE Goal'
    BY <1>3 DEF Rcpt, RcptBlocked
  <1>4. CASE Data
    BY <1>4 DEF Data, DataBlocked
  <1>5. CASE DataRefused
    BY <1>5 DEF DataRefused
  <1>6. CASE DataAborted
    BY <1>6 DEF DataAborted
  <1>7. CASE DataComplete
    BY <1>7 DEF DataComplete, ResetTransaction, ForgetTransaction
  <1>8. CASE Rset
    BY <1>8 DEF Rset, ResetTransaction, ForgetTransaction
  <1>9. CASE XClient
    BY <1>9 DEF XClient
  <1>10. CASE OtherCommand
    BY <1>10 DEF OtherCommand
  <1>11. CASE StartTLS
    BY <1>11 DEF StartTLS, ResetTransaction, ForgetTransaction
  <1>12. ASSUME NEW m \in Mechanisms, NEW u \in Users, Auth(m, u) PROVE Goal'
    BY <1>12 DEF Auth, AuthBlocked, UsernameAfter
  <1>13. CASE Quit \/ ReadFailed
    BY <1>13 DEF Quit, ReadFailed
  <1>14. CASE UNCHANGED vars
    BY <1>14 DEF vars
  <1>15. QED
    BY <1>1, <1>2, <1>3, <1>4, <1>5, <1>6, <1>7, <1>8, <1>9, <1>10, <1>11, <1>12,
       <1>13, <1>14 DEF Next

----------------------------------------------------------------------------
(* Theorems                                                                *)

\* The inductive invariant holds in every reachable state of a session.
THEOREM Inductive == Spec => []IInv
  <1>1. IInv /\ [Next]_vars => IInv'
    <2> SUFFICES ASSUME IInv, [Next]_vars PROVE IInv'
      OBVIOUS
    <2>1. TypeOK'
      BY StepTypeOK DEF IInv
    <2>2. EnvelopeAgreement'
      BY StepAgreement
    <2>3. OpenTransactionIsEntitled' /\ OneIdentityPerTransaction' /\ DataHasEnvelope'
      BY StepEntitlement
    <2>4. QED
      BY <2>1, <2>2, <2>3 DEF IInv
  <1>2. QED
    BY InitIInv, <1>1, PTL DEF Spec

\* The session's variables keep their types, and serve never holds more
\* recipients than Server.MaxRecipients allows.
THEOREM TypeCorrect == Spec => []TypeOK
  BY Inductive, PTL DEF IInv

\* The envelope in serve's locals is the one the replies describe.
THEOREM EnvelopesAgree == Spec => []EnvelopeAgreement
  BY Inductive, PTL DEF IInv

\* No transaction is open for a client that TLSRequired or AuthRequired excludes.
THEOREM TransactionsAreEntitled == Spec => []OpenTransactionIsEntitled
  BY Inductive, PTL DEF IInv

\* Nobody's username changes between MAIL and the handler.
THEOREM IdentitiesAreStable == Spec => []OneIdentityPerTransaction
  BY Inductive, PTL DEF IInv

\* A 2xx after DATA means the handler was given what the client was promised, and took it
\* unless its own error said 2xx, in which case serve still holds the envelope.
THEOREM AcknowledgementsAreKept == Spec => AcknowledgedIsHandled
  <1> DEFINE Ended == phase = "data" /\ phase' = "command" /\ reply' = "ok"
  <1> DEFINE Handled(result) ==
        /\ handed' # <<>> /\ handed'[1].result = result /\ Promised(handed'[1])
  <1> DEFINE Dropped ==
        /\ srv.ignoreRejected
        /\ told.rcpts \intersect AllowedRcpts = {}
        /\ handed' = handed
  <1> DEFINE Kept ==
        \/ Handled("done") /\ ~gotFROM'
        \/ Handled("ok") /\ misled' /\ to' = handed'[1].to
        \/ Dropped
  <1>1. ASSUME IInv, [Next]_vars, Ended PROVE Kept
    <2>1. DataComplete
      BY <1>1 DEF Next, vars, Hello, Mail, Rcpt, Data, DataRefused, DataAborted,
         Rset, XClient, OtherCommand, StartTLS, Auth, Quit, ReadFailed, Refuse, Close, Answer
    <2>2. ASSUME NEW result, handed' = Call(result), to # <<>> PROVE Handled(result)
      <3>1. handed' = <<[from |-> from, to |-> to, user |-> username, result |-> result]>>
        BY <2>2 DEF Call
      <3>2. /\ handed' # <<>>
            /\ handed'[1].from = from /\ handed'[1].to = to
            /\ handed'[1].user = username /\ handed'[1].result = result
        BY <3>1
      <3>3. opener = username
        BY <1>1 DEF IInv, DataHasEnvelope, OneIdentityPerTransaction
      <3>4. Promised(handed'[1])
        BY <1>1, <3>2, <3>3 DEF IInv, EnvelopeAgreement, Promised
      <3>5. QED
        BY <3>2, <3>4
    <2>3. CASE to = <<>>
      <3>1. RangeOf(to) = {}
        BY <2>3 DEF RangeOf
      <3>2. hasRejectedRecipients /\ ~misled
        BY <1>1, <2>3 DEF IInv, DataHasEnvelope, EnvelopeAgreement
      <3>3. UNCHANGED handed
        BY <2>1, <2>3 DEF DataComplete
      <3>4. Dropped
        BY <1>1, <3>1, <3>2, <3>3 DEF IInv, EnvelopeAgreement
      <3>5. QED
        BY <3>4
    <2>4. CASE to # <<>> /\ handed' = Call("done") /\ ResetTransaction
      BY <2>2, <2>4 DEF ResetTransaction
    <2>5. ASSUME to # <<>>, NEW e \in Errors, handed' = Call(e), Answer(ErrorReply(e)),
                 ErrorReply(e) = "ok" => misled' = TRUE, UNCHANGED transaction
          PROVE  Kept
      <3>1. e = "ok"
        BY <1>1, <2>5 DEF Answer, ErrorReply, PassedOn, Errors
      <3>2. Handled("ok")
        BY <2>2, <2>5, <3>1
      <3>3. to' = handed'[1].to /\ misled'
        BY <2>5, <3>1 DEF Call, transaction, ErrorReply, PassedOn
      <3>4. QED
        BY <3>2, <3>3
    <2>6. QED
      BY <2>1, <2>3, <2>4, <2>5 DEF DataComplete
  <1>2. QED
    BY Inductive, <1>1, PTL DEF Spec, AcknowledgedIsHandled

\* serve implements MailTransaction: each command is a step of the abstract
\* transaction, or leaves it alone.
THEOREM Refinement == Spec => ImplementsMailTransaction
  <1> DEFINE abs == Transaction!txVars
  <1> DEFINE Step == [Transaction!TxNext]_abs
  <1> USE DEF Transaction!txVars
  <1>1. Init => Transaction!TxInit
    BY DEF Init, Transaction!TxInit
  <1>2. ASSUME IInv, [Next]_vars PROVE Step
    <2> USE <1>2 DEF Answer, Refuse, Close, identity, transaction, history
    <2>1. ASSUME UNCHANGED <<transaction, handed>> PROVE Step
      BY <2>1
    <2>2. ASSUME ResetTransaction, UNCHANGED handed PROVE Step
      BY <2>2 DEF ResetTransaction, Transaction!TxNext, Transaction!Discard
    <2>3. CASE Hello
      BY <2>2, <2>3 DEF Hello
    <2>4. ASSUME NEW s \in Senders, Mail(s) PROVE Step
      <3>1. CASE UNCHANGED <<transaction, handed>>
        BY <3>1, <2>1
      <3>2. CASE ~ UNCHANGED <<transaction, handed>>
        <4>1. to = <<>> /\ to' = <<>> /\ UNCHANGED handed
          BY <2>4, <3>2 DEF Mail, MailBlocked, ResetRecipients
        <4>2. \/ UNCHANGED <<from, gotFROM>>
              \/ from' = s /\ gotFROM' = TRUE
          BY <2>4, <3>2 DEF Mail
        <4>3. CASE from' = s /\ gotFROM' = TRUE
          BY <4>1, <4>3 DEF Transaction!TxNext, Transaction!Begin, Senders
        <4>4. QED
          BY <4>1, <4>2, <4>3
      <3>3. QED
        BY <3>1, <3>2
    <2>5. ASSUME NEW r \in Addresses, Rcpt(r) PROVE Step
      <3>1. \/ UNCHANGED <<from, gotFROM, to, handed>>
            \/ gotFROM /\ to' = Append(to, r) /\ UNCHANGED <<from, gotFROM, handed>>
        BY <2>5 DEF Rcpt, RcptBlocked
      <3>2. CASE gotFROM /\ to' = Append(to, r) /\ UNCHANGED <<from, gotFROM, handed>>
        BY <3>2 DEF Transaction!TxNext, Transaction!AddRecipient
      <3>3. QED
        BY <3>1, <3>2
    <2>6. CASE Data
      BY <2>1, <2>6 DEF Data
    <2>7. CASE DataRefused \/ DataAborted
      BY <2>1, <2>7 DEF DataRefused, DataAborted
    <2>8. CASE DataComplete
      <3>1. ASSUME NEW result, handed' = Call(result), to # <<>>
            PROVE  Transaction!HandOver
        BY <2>8, <3>1 DEF Call, Transaction!HandOver, IInv, DataHasEnvelope, DataComplete
      <3>2. ASSUME to # <<>>, NEW e, handed' = Call(e), UNCHANGED transaction
            PROVE  Step
        BY <3>1, <3>2 DEF Transaction!TxNext, Transaction!Fail
      <3>3. CASE to # <<>> /\ handed' = Call("done") /\ ResetTransaction
        BY <3>1, <3>3 DEF Transaction!TxNext, Transaction!Succeed, ResetTransaction
      <3>4. CASE to = <<>> /\ UNCHANGED handed /\ ResetTransaction
        BY <2>2, <3>4
      <3>5. QED
        BY <2>8, <3>2, <3>3, <3>4 DEF DataComplete
    <2>9. CASE Rset
      BY <2>1, <2>2, <2>9 DEF Rset
    <2>10. CASE XClient \/ OtherCommand
      BY <2>1, <2>10 DEF XClient, OtherCommand
    <2>11. CASE StartTLS
      BY <2>1, <2>2, <2>11 DEF StartTLS
    <2>12. ASSUME NEW m \in Mechanisms, NEW u \in Users, Auth(m, u) PROVE Step
      BY <2>1, <2>12 DEF Auth, UsernameAfter
    <2>13. CASE Quit \/ ReadFailed
      BY <2>1, <2>13 DEF Quit, ReadFailed
    <2>14. CASE UNCHANGED vars
      BY <2>1, <2>14 DEF vars
    <2>15. QED
      BY <2>3, <2>4, <2>5, <2>6, <2>7, <2>8, <2>9, <2>10, <2>11, <2>12, <2>13, <2>14 DEF Next
  <1>3. QED
    BY Inductive, <1>1, <1>2, PTL DEF Spec, ImplementsMailTransaction, Transaction!TxSpec
===========================================================================
