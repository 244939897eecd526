SPECIFICATION MCSpec
CONSTANTS
    Configs <- MCConfigs
    Bytes = {0, 1, 2, 3, 4, 5, 6, 7}
    LineBytes = 2
    ReadDepth = 2
    WriteDepth = 2
    PriorityDepth = 1
    PhyDepth = 1
    ResponseDepth = 2
    MaxRequests = 3
    Banks = {1, 2, 3}
    Ranks = {0, 1}
    RankOf <- TwoRanks
    Threshold = 3
    Decrement = 1
    AllBank = FALSE
    Reopens = FALSE
    MaxQueue = 2
    MaxReopened = 5
    Layouts <- MCLayouts
INVARIANTS
    ReadsSeeWrites
    NothingLost
    ActiveKeepsRow
    FlagsExact
    ActsBounded
    MaintenanceKept
    SystemLedger
    SystemReadsSeeWrites
    CommandsValid
PROPERTIES
    AllServed
    EverythingComes
CHECK_DEADLOCK FALSE
