\* Two programs, two sets each, two statements that fail and one given up.
CONSTANTS
    p1 = p1  p2 = p2  root = root  s1 = s1  k1 = k1  k2 = k2  v1 = v1  v2 = v2
    Client = {p1, p2}
    Query <- Queries
    Value = {v1, v2}
    Empty = Empty
    Digest <- Unique
    NoRow = NoRow
    Kinds = {"database", "settings", "platform"}
    Protected = {s1}
    Calls <- Batches
    MaxCalls = 2
    MaxErrors = 2
    MaxTimeouts = 1
SPECIFICATION Spec
SYMMETRY Symmetric
CHECK_DEADLOCK FALSE
PROPERTIES
    UpsertsAreWhole
    ImplementsConfigStore
