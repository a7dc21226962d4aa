SPECIFICATION BackfillSpec
CONSTANTS
    Events = {e1, e2, e3}
    BatchSize = 2
    MaxCount = 3
    MaxFaults = 2
    MaxDeletes = 1
SYMMETRY EventSymmetry
INVARIANTS
    CountsExact
    PassLeavesNothing
