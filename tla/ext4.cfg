CONSTANTS
    Names <- AllNames
    Requests <- AllRequests
    Tags <- AllTags
    Misread <- Readings
    Images <- SoundFilesystems
    NoRequest = NoRequest
    Zero = "zero"
    NumGroups = 2
    InodesPerGroup = 13
    BlocksPerGroup = 8
    BlockSize = 1024
    LastBlock = 16
    MaxFaults = 2
SPECIFICATION Spec
INVARIANTS
    TypeOK
    EntriesWhole
    NothingShared
    CountsTrue
PROPERTIES
    ImplementsStore
