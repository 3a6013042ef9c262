CONSTANTS
    b = b  x = x  y = y  u = u
    Change = {b, x, y, u}
    ByHand = {x, y}
    InitialBranch <- Topic
    Upstream <- Target
    Absent = Absent
    Conflicted = Conflicted
    MaxLen = 5
    MaxStart = 1
    MaxCrash = 0
SPECIFICATION RebaseSpec
PROPERTIES OnTopOfUpstream
CHECK_DEADLOCK FALSE
