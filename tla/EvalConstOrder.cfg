\* A const that reads one declared after it.
CONSTANTS
    k1 = k1  k2 = k2  v1 = v1  v2 = v2  a = a
    Empty = Empty
    Key <- MCKey
    Value = {v1, v2}
    Falsy = {}
    Segment <- MCSegment
    Position <- MCPosition
    Command <- ForwardConst
    MaxEvals = 1
    MaxWrites = 0
    MaxFaults = 0
SPECIFICATION Spec
CHECK_DEADLOCK FALSE
INVARIANT ConstSeesFinalValues
