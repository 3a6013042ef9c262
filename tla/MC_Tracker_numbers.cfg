SPECIFICATION Spec
CONSTANTS
    a = a  b = b
    Clone = {a, b}
    Number <- OneNumber
    Setups <- AllKinds
    MaxEvents = 3
    MaxTs = 1
    MaxCommands = 3
    MaxSyncs = 4
    None = None
PROPERTY NumbersUnique
CHECK_DEADLOCK FALSE
