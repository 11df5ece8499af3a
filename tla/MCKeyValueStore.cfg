\* Both programs write the same sets; every kind of failure.
CONSTANTS
    p1 = p1  p2 = p2  root = root  s1 = s1  s2 = s2  k1 = k1  k2 = k2  v1 = v1  v2 = v2
    Empty = Empty
    Json = Json
    Root = root
    Client = {p1, p2}
    Key = {k1, k2}
    SetPath = {s1}
    Value = {v1, v2}
    Reparsed = {}
    Calls <- Shared
    MaxCalls = 1
    MaxReadErrors = 1
    MaxWriteErrors = 1
    MaxTimeouts = 1
SPECIFICATION Spec
SYMMETRY Symmetric
CHECK_DEADLOCK FALSE
INVARIANTS
    TypeOK
    ValuesStayHome
PROPERTIES
    AckedIsStored
    SiblingsSafe
    ImplementsConfigStore
