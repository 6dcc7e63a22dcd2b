\* One request sets a tag while another prunes.
SPECIFICATION Spec
CONSTANTS
    Messages = {m1, m2}
    Names = {n1, n2}
    Workers = {w1, w2}
    None = None
    MaxTagId = 2
    MaxFaults = 0
PROPERTIES
    PruneTakesUnusedTags
