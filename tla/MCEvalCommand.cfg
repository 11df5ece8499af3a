\* Two evals piped into an export, with one external write and one failed read.
CONSTANTS
    k1 = k1  k2 = k2  v1 = v1  v2 = v2  a = a
    Empty = Empty
    Key <- MCKey
    Value = {v1, v2}
    Falsy = {v2}
    Segment <- MCSegment
    Position <- MCPosition
    Command <- Pipelines
    MaxEvals = 2
    MaxWrites = 1
    MaxFaults = 1
SPECIFICATION Spec
CHECK_DEADLOCK FALSE
INVARIANTS
    TypeOK
    LazyOnlyFromOverride
    ConstAgrees
PROPERTIES
    DeepestSetWins
    StoreValuesWereRead
    PipeNeverDowngraded
    OwnSchemaRules
