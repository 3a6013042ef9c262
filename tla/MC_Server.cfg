CONSTANTS
    k1 = k1  k2 = k2  k3 = k3  k4 = k4  k5 = k5
    Key = {k1, k2, k3, k4, k5}
    Prefix <- TwoRepositories
    Size = {1, 2}
    Limits <- TwoCaches
    None = None
    s1 = s1  s2 = s2  rw = rw  ro = ro  one = one  r1 = r1
    NoToken = NoToken
    Server = {s1, s2}
    Connection = {c1, c2}
    Cap <- OnePermit
    Config <- TwoConfigs
    Request <- ThreeRequests
    MaxRequests = 1
SPECIFICATION MCSpec
INVARIANTS CapHeld OneServerHandles
PROPERTIES InsertReturns ShutdownEnds
CHECK_DEADLOCK FALSE
