SPECIFICATION FairSpec
CONSTANTS
    FifoBanks = 4
    SectorBytes = 1
    LbaSpace = 8
    MaxFaults = 2
    UartMayStall = FALSE
    CmdFaults = {"lost", "crc", "device", "busy"}
    DatFaults = TRUE
    InitFaults = FALSE
    Requests <- ControlRequests
    MaxJobs = 3
INVARIANTS
    WidthAgrees
    PartitionAgrees
    NoFalseError
PROPERTIES
    CommandAnswered
