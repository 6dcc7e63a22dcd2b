\* One connection; two senders' addresses are enough to tell an envelope from
\* the next, one allowed and one refused recipient, a limit the run reaches.
SPECIFICATION Spec
CONSTANTS
    a1 = a1
    a2 = a2
    u1 = u1
    NullSender = NullSender
    NoUser = NoUser
    Addresses = {a1, a2}
    AllowedRcpts = {a1}
    Users = {u1}
    MaxRecipients = 2
    Servers <- MCServers
INVARIANTS
    TypeOK
    EnvelopeAgreement
    OpenTransactionIsEntitled
    OneIdentityPerTransaction
PROPERTIES
    AcknowledgedIsHandled
    ImplementsMailTransaction
CHECK_DEADLOCK FALSE
