SPECIFICATION Spec
CONSTANTS
    FifoBanks = 4
    SectorBytes = 1
    LbaSpace = 8
    MaxFaults = 1
    UartMayStall = TRUE
    CmdFaults = {"lost", "crc", "busy"}
    DatFaults = TRUE
    InitFaults = FALSE
    Requests <- RpmbRequests
    MaxJobs = 4
INVARIANTS
    WriteStores
    TransferClosed
