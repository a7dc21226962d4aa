SPECIFICATION Spec
SYMMETRY CallSymmetry
CONSTANTS
    Calls = {k1, k2}
    JobSizes = {0, 1}
    MaxRuns = 2
INVARIANTS
    WorkingRunIsHeld
    StoreClosedAfterDrain
CHECK_DEADLOCK FALSE
