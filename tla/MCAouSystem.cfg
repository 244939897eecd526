SPECIFICATION MCSpec
CONSTANTS
    LinkDepth = 1
    PackMsgs = 2
    CreditReturnTimeout = 2
    UnpackMsgs = 2
    CreditFifoDepth = 1
    Ids = {1}
    Strobes = {FALSE}
    RouteDepth = 1
    MaxTransactions = 2
    MaxOutstanding = 2
    MemDepth = 1
INVARIANTS
    BurstsArrive
    NoCreditLost
    CountersExact
    OrderKept
    ResponsesAlwaysFit
