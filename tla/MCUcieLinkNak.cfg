SPECIFICATION Spec
CONSTANTS
    Garbled = Garbled
    a = a
    b = b
    Flits = {a}
    SeqMod = 6
    RetrySize = 2
    NakRepeat = 1
    InDepth = 1
    OutDepth = 1
    MaxFlits = 2
    MaxWire = 3
    MaxFb = 2
PROPERTIES
    NakRestartsReplay
