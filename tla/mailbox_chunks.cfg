\* One request that deletes more messages than fit in one chunk.
SPECIFICATION Spec
CONSTANTS
    Ids = {m1, m2, m3}
    Workers = {w1}
    Cron = cron
    Nobody = nobody
    Operations = {"Store", "DeleteSearch"}
    MaxMessages = 3
    PruneLimit = 3
    ChunkSize = 2
    PruneThreshold = 1
    MaxFaults = 0
PROPERTIES
    RemovalsAreAnnounced
