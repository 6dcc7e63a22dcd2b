\* One session, three messages of which one has a body that begins with a dot.
SPECIFICATION MCSpec
CONSTANTS
    Sessions <- MCSessions
    Ids = {m1, m2, m3}
    PageSize = 2
    MaxFailures = 2
    DottedBodies = {m1}
INVARIANTS
    DataIsByteStuffed
