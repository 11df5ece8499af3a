\* One or two programs on a file of each format, crashes.
CONSTANTS
    p1 = p1  p2 = p2  root = root  s1 = s1  k1 = k1  v1 = v1  v2 = v2
    Empty = Empty
    Missing = Missing
    Blank = Blank
    Garbled = Garbled
    Query <- MCQuery
    Root = root
    Value = {v1, v2}
    Batches <- Upserts
    Program = {p1, p2}
    Setups <- MCSetups
    MaxSets = 3
    MaxCrashes = 2
SPECIFICATION Spec
CHECK_DEADLOCK FALSE
INVARIANTS
    ValuesStayHome
    CrashIsNoticed
PROPERTIES
    AckedIsStored
    ImplementsConfigStore
