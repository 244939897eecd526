SPECIFICATION MCSpec
CONSTANTS
    Ids = {0, 1}
    MaxAccesses = 3
    Configs <- Gpus
    MaxCommands = 3
    MaxCpAccesses = 2
    Tokens = {"t1", "t2"}
    NoValue = NoValue
    Systems <- Traffics
    Latency = 2
    RetryDelay = 1
    LastSend = 4
    AxiDataBytes = 4
    PageBytes = 8
    MaxBeats = 2
    IdCount = 2
    BufferSize = 3
    Untraced <- OutsideWindows
    MaxRefusals = 2
INVARIANTS
    TraceIsTraffic
    AnswersRight
    NpuInOrder
    WakesRight
    BusExact
PROPERTIES
    AllComeBack
CHECK_DEADLOCK FALSE
