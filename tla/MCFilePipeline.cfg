SPECIFICATION FairPipelineSpec
CONSTANTS
    Files = 2
    MaxChunks = 2
    Workers = {w1, w2}
    Depth = 1
    MaxFaults = 1
INVARIANTS
    EveryChunkOnce
    NoSendOnClosed
PROPERTIES
    CancelStopsAll
    IngestEnds
CHECK_DEADLOCK FALSE
