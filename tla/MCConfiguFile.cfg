\* Two processes, three commands each, one crash, one failed registration.
CONSTANTS
    p1 = p1  p2 = p2  mine = mine  v1 = v1  c1 = c1  c2 = c2
    Process = {p1, p2}
    Platform = Platform
    Register = Register
    Store = {mine, Platform}
    Placeholder = Placeholder
    Value = {v1, c1, c2, Placeholder}
    Default = {v1}
    Undefined = Undefined
    ByType = ByType
    Credentials = {c1, c2}
    Original <- MCOriginal
    Env <- MCEnv
    Input <- MCInput
    Missing = Missing
    Blank = Blank
    Garbled = Garbled
    MaxRuns = 3
    MaxFaults = 1
    MaxCrashes = 1
SPECIFICATION Spec
CHECK_DEADLOCK FALSE
INVARIANTS
    EntriesSurvive
    NamesResolve
PROPERTIES
    LoginIsStored
    LoginIsKept
