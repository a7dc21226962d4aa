SPECIFICATION Spec
CONSTANTS
    Callers = {c1, c2}
    MaxId = 2
    Builtin = {1}
    Strays = {}
    MaxNew = 1
    MaxRev = 1
    MaxCalls = 3
    MaxFaults = 1
    MaxCrashes = 1
SYMMETRY CallerSymmetry
INVARIANTS
    MemoryIsDisk
    RenameKeepsRule
    DisabledStaysOff
PROPERTIES
    NothingReplaced
CHECK_DEADLOCK FALSE
