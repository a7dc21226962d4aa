\* Two channels, idempotent and plain runs, with scheduling fairness.
SPECIFICATION FairSpec
CONSTANTS
    Channels = {c1, c2}
    Hashes = {h1}
    Dated = {}
    Unreadable = Unreadable
    IdemChoices = {TRUE, FALSE}
    BatchSize = 2
    QueueDepth = 1
    MaxRecords = 2
    MaxFaults = 1
    MaxResets = 0
INVARIANTS
    NeverSkips
PROPERTIES
    CaptureContractHolds
    PauseTakesEffect
    CancelUnwinds
CHECK_DEADLOCK FALSE
