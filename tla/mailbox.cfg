\* Two request goroutines and the cron job, two messages or, for the cron job, three, and
\* one fault; MCMailbox says which of them come together.
SPECIFICATION MCSpec
CONSTANTS
    Ids = {m1, m2, m3}
    m1 = m1
    m2 = m2
    m3 = m3
    Workers = {w1, w2}
    First = w1
    Second = w2
    Cron = cron
    Nobody = nobody
    Operations <- AllOperations
    MaxMessages = 1
    PruneLimit = 1
    ChunkSize = 3
    PruneThreshold = 1
    MaxFaults = 1
INVARIANTS
    TypeOK
    TablesAgree
    RemovalsAreOnTheirWay
PROPERTIES
    ImplementsMessageStore
    RemovalTakesTagRows
    RemovalsAreAnnounced
    OperationsReturn
    MailboxIsTrimmed
