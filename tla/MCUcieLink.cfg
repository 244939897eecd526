SPECIFICATION Spec
CONSTANTS
    Garbled = Garbled
    a = a
    b = b
    Flits = {a, b}
    SeqMod = 6
    RetrySize = 2
    NakRepeat = 2
    InDepth = 1
    OutDepth = 1
    MaxFlits = 7
    MaxWire = 3
    MaxFb = 2
SYMMETRY FlitSymmetry
INVARIANTS
    SeqClassifiedRight
    LinkInv
PROPERTIES
    ImplementsChannel
