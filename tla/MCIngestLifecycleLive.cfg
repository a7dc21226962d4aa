SPECIFICATION FairSpec
CONSTANTS
    Calls = {k1, k2}
    JobSizes = {0, 2}
    MaxRuns = 1
PROPERTIES
    CancelEndsTheRun
    ShutdownEnds
CHECK_DEADLOCK FALSE
