\* Two requests at a time, of two entries and of one, one failure.
CONSTANTS
    r = r  q = q  k = k  j = j  v1 = v1  v2 = v2  v3 = v3
    Request = {r, q}
    Length <- MCLength
    User <- MCUser
    Key = {k, j}
    Value = {v1, v2, v3}
    Empty = Empty
    NoFlag = NoFlag
    Nobody = Nobody
    Flags <- MCFlags
    Closing <- MCClosing
    Building <- MCBuilding
    MaxFaults = 1
SPECIFICATION FairSpec
CHECK_DEADLOCK FALSE
INVARIANT RepliesAreOwn
PROPERTY RequestsEnd
