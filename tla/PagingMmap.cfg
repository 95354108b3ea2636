CONSTANTS
    NF = 16
    EP = 2
    WordBits = 8
    FlagBits = 3
    RES = 2
    CounterBits = 5
    ReservedWords = {0, 255}
    Addrs = {0, 2}
    Lengths = {1, 2}
    Prots = {3}
SPECIFICATION Spec
PROPERTIES MmapMapsFreshFrames
