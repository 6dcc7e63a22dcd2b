\* Two goroutines, two messages, two names; one failed statement.
SPECIFICATION Spec
CONSTANTS
    Messages = {m1, m2}
    Names = {n1, n2}
    Workers = {w1, w2}
    None = None
    MaxTagId = 2
    MaxFaults = 1
SYMMETRY Symmetry
INVARIANTS
    TypeOK
    ShownTagsWereGiven
PROPERTIES
    UndisturbedOperationsAreExact
