SPECIFICATION Spec
CONSTANTS
    a = a  b = b
    Clone = {a, b}
    Number <- OneNumber
    Setups <- AllKinds
    MaxEvents = 3
    MaxTs = 1
    MaxCommands = 3
    MaxSyncs = 4
    None = None
SYMMETRY Clones
INVARIANTS
    StateFollowsLog
    MergedIsFinal
    ServerOrdered
PROPERTIES
    LogSpec
    OneCommandPushes
CHECK_DEADLOCK FALSE
