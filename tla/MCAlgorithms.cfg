SPECIFICATION Spec
CONSTANTS
    h1 = h1
    h2 = h2
    tag = tag
    Blank = Blank
    Tags = {tag}
    MaxMatches = 1
    GapX = 16
    Span = 24
    MaxLanes = 1
    MaxLog = 4
    MaxProcesses = 3
    MaxCards = 4
    MaxLinks = 4
    MaxCase = 4
    MaxLines = 5
    Durations <- MCDurations
    Slots = {"logon", "pid"}
    MaxSequence = 4
    MaxWindow = 3
    MaxDepth = 2
INVARIANTS
    MatchesAreMaximal
    LineageIsReplay
    NothingOnTop
    ColumnsFollowEdges
    ClustersAreWhole
    QueriesAgree
    AcceptedRulesRunAsWritten
CHECK_DEADLOCK FALSE
