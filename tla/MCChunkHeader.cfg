SPECIFICATION MCSpec
CONSTANTS
    Configs <- OnlyChunked
    LineCount = 3
    Payloads = {a}
    Zero = Zero
    Absent = Absent
    CounterWidth = 16
    ImageConfigs <- MCImages
    Rows <- TwoRows
    None = None
    Values = {0, 1}
    Default = 0
    CorrectSingleBit = TRUE
INVARIANT HeaderAccepted
