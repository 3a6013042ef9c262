CONSTANTS
    f1 = f1  f2 = f2  v0 = v0  v1 = v1  v2 = v2  main = main  topic = topic  odd = odd  mark = mark
    Path = {f1, f2}
    Ignored = {f2}
    Content = {v0, v1, v2}
    Typed = {v2}
    Merged = Merged
    Markers = Markers
    NoFile = NoFile
    Branch = {main, topic, odd}
    Legal = {main, topic}
    Tag = {mark}
    Histories <- TwoBranches
    Areas = {"index", "history", "merge", "stash"}
    MaxCommits = 5
    MaxCalls <- Calls
    MaxFaults = 1
    PurgeFile <- MCFile
    Canonical <- MCCanonical
    Covers <- MCCovers
    RefName <- MCRefName
    Repository <- MCRepository
    MaxPurges = 2
    Letter = {"a", "b"}
    IgnoreFiles <- Ignores
    PathsAsked <- Lookups
    Line = {1, 2}
    Diffs <- Pairs
    Blames <- Versions
    Gone = Gone  Unread = Unread
    Merges <- Triples
    Context = 1
    MAX_DIFF_LINES = 9
    MaxOut = 8
    p1 = p1  p2 = p2  p3 = p3  n1 = n1  n2 = n2  b1 = b1  b2 = b2
    Shell = {s1, s2}
    WtPath = {p1, p2, p3}
    InsideGyt = {p3}
    Basename <- BaseNames
    WtBranch = {b1, b2}
    WtTree <- Trees
    FirstTips <- Tips
    FirstHead = b1
    WtFile = {f1, f2, i}
    WtIgnored = {i}
    Edited = Edited
    NoWt = NoWt
    MaxWtCommands = 3
    MaxWtEvents = 2
    Queries <- Logs
    NoLane = NoLane
SPECIFICATION MCSpec
INVARIANTS
    HeadResolves MarkersAnnounced
    RestKept
    IgnoreExact
    DiffExact MergeExact BlameExact
    LogExact
PROPERTIES
    HistoryKept
    WorkKept
    BranchTakenOnce RemoveKeepsWork
CHECK_DEADLOCK FALSE
