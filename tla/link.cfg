SPECIFICATION FairSpec
CONSTANTS
    Total = 5
    Chunk = 2
    WriteChunk = 2
    Word = 7
    Retries = 3
    HasCache = TRUE
    Jobs = {"dump", "restore", "write", "rpmb"}
    MaxJobs = 2
    MaxFaults = 3
    FaultKinds = {"command_lost", "command_corrupt", "answer_corrupt", "late", "card_error"}
INVARIANTS InStep SteadyDumpIsCopy RestoreTrue VerifiedTrue RpmbLeft
PROPERTIES JobsEnd
CHECK_DEADLOCK FALSE
