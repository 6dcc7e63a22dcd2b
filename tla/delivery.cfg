\* Three connections for two slots and one request to the send API.
SPECIFICATION MCSpec
CONSTANTS
    Conns <- MCConns
    Attempts <- MCAttempts
    NoConn = 0
    NoId = "none"
    MaxConnections = 2
    FirstDelay = 5
    MaxDelay = 8
    Messages <- MCMessages
    Recipients = {"to", "cc"}
    Settings <- MCSettings
INVARIANTS
    SlotsAreAccounted
    CloseLetsOneIn
    AcknowledgedIsKept
    RefusedGoesNowhere
    LaterDuplicatesAreIgnored
    TallyAgrees
    RecipientsAreRespected
PROPERTY
    ImplementsMessageStore
