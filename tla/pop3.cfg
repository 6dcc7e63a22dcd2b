SPECIFICATION MCSpec
CONSTANTS
    Sessions <- MCSessions
    Ids = {m1, m2, m3}
    PageSize = 2
    MaxFailures = 2
    DottedBodies = {m1}
INVARIANTS
    QuitDeletesWhatWasMarked
    AnswersAreReadWhole
PROPERTY
    EveryCommandIsAnswered
