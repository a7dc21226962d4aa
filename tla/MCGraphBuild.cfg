\* Two rules of the same name.
SPECIFICATION Spec
CONSTANTS
    r1 = r1
    r2 = r2
    own = own
    shared = shared
    Rules = {r1, r2}
    Keys = {k1, k2}
    Names <- MCNames
    NameOf <- MCNameOf
    NoRule = NoRule
    BatchSize = 1
    MaxGraphs = 2
    MaxEdges = 4
    MaxFaults = 1
    MaxEdits = 1
INVARIANTS
    NoMatchTwice
    NothingStaleInTarget
    RegistryIsConsistent
    CancelIsHonoured
CHECK_DEADLOCK FALSE
