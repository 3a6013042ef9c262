CONSTANTS
    a = a  b = b  c = c  d = d  main = main  issue = issue
    Ref = {main, issue}
    MetaRef = {issue}
    Commit = {a, b, c, d}
    Parents <- Graph
    Client = {u1, u2}
    Signed = {c, d}
    Setups <- FastForward
    None = None
    Torn = Torn
    MaxPush = 3
    MaxLocal = 0
SPECIFICATION Spec
PROPERTIES NoLostHistory
CHECK_DEADLOCK FALSE
