CONSTANTS
    main = main  mark = mark
    c1 = c1  c2 = c2  t = t
    Object = {c1, c2}
    Deps <- ChainDeps
    Parents <- ChainDeps
    Branch = {main}
    Tip = {c1, c2}
    Pusher = {p1, p2}
    None = None
    Interrupts = TRUE
    StoreFails = TRUE
    Grace = 2
    MaxClock = 3
    MaxPush = 1
    PackId <- ThreeIds
    BodyLen <- SameLength
    PackTargets = {0, 2}
    Reader = {r1}
    PackGrace = 1
    MaxTime = 1
    MaxPackRuns = 2
    MaxReads = 1
    m1 = m1  m2 = m2  m3 = m3  m4 = m4  t1 = t1  t2 = t2  blob = blob  g1 = g1  g2 = g2
    Obj = {m1, m2, m3, m4, t1, t2, blob, g1, g2}
    WireRef = {main, mark}
    Branches = {main}
    Main = main
    KindOf <- Kinds
    Links <- Edges
    Setting <- Settings
    Nothing = Nothing
    MaxFetches = 2
    MaxCuts = 2
    b = b  x = x  y = y  u = u
    Change = {b, x, y, u}
    ByHand = {x, y}
    InitialBranch <- Topic
    Upstream <- Targets
    Absent = Absent
    Conflicted = Conflicted
    MaxLen = 5
    MaxStart = 2
    MaxCrash = 1
SPECIFICATION MCSpec
INVARIANTS TipsPresent ReadFinds RefsFollowable ShallowExact OriginRecoverable
PROPERTIES KeepReachable GraceCoversPush NothingSwallowed
SYMMETRY Pushers
CHECK_DEADLOCK FALSE
