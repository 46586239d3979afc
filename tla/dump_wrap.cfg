SPECIFICATION FairSpec
CONSTANTS
    Total = 6
    Chunk = 2
    WriteChunk = 2
    Word = 4
    Retries = 3
    HasCache = TRUE
    Jobs = {"dump"}
    MaxJobs = 1
    MaxFaults = 0
    FaultKinds = {}
PROPERTIES JobsEnd
CHECK_DEADLOCK FALSE
