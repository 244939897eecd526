SPECIFICATION MCSpec
CONSTANTS
    Addresses <- MCAddresses
    Lengths <- MCLengths
    Kinds <- BurstKinds
    Size = 4
    Granule = 2
    Slots = 2
    Hold = 1
    InDepth = 1
    OutDepth = 1
    MaxBursts = 3
INVARIANTS
    ContractKept
    EndToEnd
    MasterSound
    LedgersAgree
PROPERTIES
    ImplementsBurstMemory
    AllAnswered
