SPECIFICATION SnapshotSpec
CONSTANTS
    h1 = h1
    h2 = h2
    tag = tag
    Blank = Blank
    Tags = {tag}
    Hashes = {h1, h2}
    Notes <- MCNotes
    Marks <- MCMarks
    FirstEvents <- MCFirstEvents
    FirstRels <- MCFirstRels
    MaxLayers = 1
    MaxItems = 2
    MaxGraphs = 2
    MaxEvents = 3
    MaxRels = 3
    MaxCalls = 4
    MaxFaults = 1
    MaxClock = 1
    MaxSnaps = 2
INVARIANTS
    AcknowledgedIsKept
    RestorePlacesByContent
    RestoreCompletes
CHECK_DEADLOCK FALSE
