\* A pipeline of two evals and an export and one of one eval, one failed request, one kill,
\* one write of another program.
CONSTANTS
    a = a  b = b  s1 = s1  k1 = k1  k2 = k2  v1 = v1  v2 = v2  n1 = n1  n2 = n2
    Shell = {a, b}
    Evals <- MCEvals
    Options <- MCOptions
    Environment <- MCEnvironment
    Name = {n1, n2}
    NoName = NoName
    NoOption = NoOption
    Old = Old
    Report = Report
    Set = {s1}
    Key = {k1, k2}
    Value = {v1, v2}
    Empty = Empty
    Silence = Silence
    Nul = Nul
    Torn = Torn
    MaxWrites = 1
    MaxFaults = 1
    MaxKills = 1
SPECIFICATION FairSpec
CHECK_DEADLOCK FALSE
INVARIANTS
    FailureStopsPipeline
    OutputIsBackedUp
    BackupWasStored
    HiddenStaysHidden
    OutFileIsWhole
PROPERTY PipelinesEnd
