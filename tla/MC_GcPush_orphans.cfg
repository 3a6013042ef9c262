CONSTANTS
    c1 = c1  c2 = c2  t = t
    Object = {c1, c2, t}
    Deps <- SameTreeDeps
    Parents <- SameTreeParents
    Branch = {main}
    Tip = {c1, c2}
    Pusher = {p1, p2}
    None = None
    Interrupts = FALSE
    StoreFails = FALSE
    Grace = 2
    MaxClock = 3
    MaxPush = 1
SPECIFICATION Spec
PROPERTIES PromptPushComplete
SYMMETRY Pushers
CHECK_DEADLOCK FALSE
