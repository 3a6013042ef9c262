CONSTANTS
    a1 = a1  a2 = a2  a3 = a3
    p1 = p1  p2 = p2  p3 = p3
    Actor = {a1, a2, a3}
    Pid = {p1, p2}
    PidOf <- ServerAndCommand
    NoPid = NoPid
    NoFile = NoFile
    MaxTick = 6
    Faults <- AllFaults
SPECIFICATION FairSpec
PROPERTIES MutexSpec ReclaimJustified OrphanReclaimed AcquireReturns
CHECK_DEADLOCK FALSE
