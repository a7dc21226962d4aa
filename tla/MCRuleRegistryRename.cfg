SPECIFICATION Spec
CONSTANTS
    Callers = {c1}
    MaxId = 2
    Builtin = {}
    Strays = {}
    MaxNew = 1
    MaxRev = 1
    MaxCalls = 2
    MaxFaults = 0
    MaxCrashes = 0
INVARIANT
    RenameAlwaysKeeps
CHECK_DEADLOCK FALSE
