\* One channel, three records, a crash or failed write and a reset.
SPECIFICATION Spec
CONSTANTS
    Channels = {c1}
    Hashes = {h1, h2}
    Dated = {h1}
    Unreadable = Unreadable
    IdemChoices = {TRUE}
    BatchSize = 2
    QueueDepth = 1
    MaxRecords = 3
    MaxFaults = 1
    MaxResets = 1
INVARIANTS
    OneFindableNodePerIdentity
    NoOccurrenceLost
    PauseIsConsistent
CHECK_DEADLOCK FALSE
