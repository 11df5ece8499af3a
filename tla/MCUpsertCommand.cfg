\* Two programs, one command each, one backend error.
CONSTANTS
    p1 = p1  p2 = p2  s1 = s1  s2 = s2  k1 = k1  k2 = k2  v1 = v1  v2 = v2
    Empty = Empty
    Key = {k1, k2}
    Value = {v1, v2}
    Falsy = {}
    Segment = {}
    Client = {p1, p2}
    Set = {s1, s2}
    Input <- Upserts
    MaxCommands = 1
    MaxFaults = 1
SPECIFICATION Spec
SYMMETRY Symmetric
CHECK_DEADLOCK FALSE
INVARIANTS
    TypeOK
    ReportMatchesStore
    ConfigsBeatPipe
PROPERTIES
    OnlyAskedWrites
