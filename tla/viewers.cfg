\* Three requests for one message and one browser whose buffer holds one event;
\* MCViewers says which of them come together.
SPECIFICATION MCSpec
CONSTANTS
    Ids = {m1}
    Requests <- MCRequests
    None = 0
    Browsers = {b1}
    SendBuffer = 1
    Events <- AllEvents
    Kinds <- AllKinds
INVARIANTS
    AnswersAreWhole
    NobodyWaitsForNobody
    EntriesHaveTimers
    DeletedStaysOutOfTheCache
    EveryChangeIsCounted
    StreamsHaveNoGaps
    ChannelsCloseOnce
PROPERTIES
    ParsesAreNeeded
