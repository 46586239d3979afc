SPECIFICATION Spec
CONSTANTS
    Total = 5
    Chunk = 2
    WriteChunk = 2
    Word = 7
    Retries = 3
    HasCache = TRUE
    Jobs = {"dump"}
    MaxJobs = 1
    MaxFaults = 1
    FaultKinds = {"answer_corrupt"}
INVARIANTS DumpIsCopy
CHECK_DEADLOCK FALSE
