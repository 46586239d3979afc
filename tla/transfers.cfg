SPECIFICATION Spec
CONSTANTS
    FifoBanks = 4
    SectorBytes = 1
    LbaSpace = 8
    MaxFaults = 3
    UartMayStall = FALSE
    CmdFaults = {"lost", "crc", "device", "busy"}
    DatFaults = TRUE
    InitFaults = TRUE
    Requests <- TransferRequests
    MaxJobs = 3
INVARIANTS
    TypeOK
    EngineOwned
    PausedBetweenBlocks
    AnsweredOnce
    WriteStores
    TransferClosed
    BootSurvives
PROPERTIES
    ImplementsService
