SPECIFICATION MCSpec
CONSTANTS
    Capacity = 6
    CounterMax = 6
    Items = 2
    Depth = 1
INVARIANTS
    LoopInv
    SessionEndsHonestly
PROPERTIES
    CreditsFlow
    RequestsAnsweredCreditsHome
    LinkDelivers
