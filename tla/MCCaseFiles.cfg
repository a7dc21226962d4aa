SPECIFICATION CheckSpec
CONSTANTS
    h1 = h1
    h2 = h2
    tag = tag
    Blank = Blank
    Tags = {tag}
    Hashes = {h1, h2}
    Notes = {}
    Marks <- MCFlags
    FirstEvents <- MCFirstEvents
    FirstRels <- MCFirstRels
    Rules <- MCRules
    MaxLayers = 0
    MaxItems = 0
    MaxGraphs = 2
    MaxEvents = 3
    MaxRels = 2
    MaxCalls = 3
    MaxFaults = 1
    MaxClock = 0
INVARIANTS
    LastingIsReported
    OnlyRacesMislead
CHECK_DEADLOCK FALSE
