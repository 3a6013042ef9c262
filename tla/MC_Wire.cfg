CONSTANTS
    a = a  b = b  c = c  d = d  main = main  issue = issue
    Ref = {main, issue}
    MetaRef = {issue}
    Commit = {a, b, c, d}
    Parents <- Graph
    Client = {u1, u2}
    Signed = {c, d}
    Setups <- AllSetups
    None = None
    Torn = Torn
    MaxPush = 3
    MaxLocal = 1
    ip1 = ip1  tok = tok
    IpKey = {ip1}
    ActorKey = {tok}
    Anonymous = Anonymous
    Capacity <- OneRequest
    Refill <- Refills
    MAX_RATE_LIMIT_ENTRIES = 1
    MaxIdle = 3
    Skew = 1
    Worker = {w1, w2}
    LastTick = 3
    Caller = {t1, t2}
    NoLink = NoLink
    Answers <- SomeAnswers
    MAX_RESPONSE_BODY_BYTES = 1
    MaxRequests = 3
    AUDIT_LOG_MAX_BYTES = 2
    AUDIT_LOG_KEEP = 3
    NoAudit = NoAudit
    MaxLines = 11
SPECIFICATION MCSpec
INVARIANTS TipsRecoverable MetadataKept RateBound OwnAnswerOnce AuditSuffix
PROPERTIES OldHonoured OnlySignedCommits
SYMMETRY Clients
CHECK_DEADLOCK FALSE
