\* Two programs, each with one session or two plain commands, one backend error.
CONSTANTS
    p1 = p1  p2 = p2  s1 = s1  k1 = k1  k2 = k2  v1 = v1  null = null
    Empty = Empty
    Key = {k1, k2}
    Value = {v1, null}
    Falsy = {}
    Segment = {}
    Client = {p1, p2}
    Set = {s1}
    Input <- Inputs
    Flags <- CommandLines
    Retyped <- MCRetyped
    Edited <- MCEdited
    MaxCommands = 2
    MaxFaults = 1
SPECIFICATION EditSpec
SYMMETRY Symmetric
CHECK_DEADLOCK FALSE
INVARIANTS
    FileIsApplied
PROPERTIES
    QuietSessionOnlyRetypes
