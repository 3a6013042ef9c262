CONSTANTS
    a1 = a1  a2 = a2  a3 = a3
    p1 = p1  p2 = p2  p3 = p3
    Actor = {a1, a2, a3}
    Pid = {p1, p2, p3}
    PidOf <- ThreeCommands
    NoPid = NoPid
    NoFile = NoFile
    MaxTick = 8
    Faults = {{"crash"}}
SPECIFICATION Spec
INVARIANTS OneHolder
CHECK_DEADLOCK FALSE
