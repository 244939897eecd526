SPECIFICATION MCSpec
CONSTANTS
    Configs <- StoreConfigs
    LineCount = 3
    Payloads = {a}
    Zero = Zero
    Absent = Absent
    CounterWidth = 16
    ImageConfigs <- MCImages
    Rows <- TwoRows
    None = None
    Values = {0, 1}
    Default = 0
    CorrectSingleBit = TRUE
INVARIANTS
    FilesAndCounters
    ImageExact
PROPERTIES
    KeepsPromise
    VersionsGrow
