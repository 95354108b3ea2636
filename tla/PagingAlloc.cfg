CONSTANTS
    NF = 8
    EP = 1
    WordBits = 8
    FlagBits = 3
    RES = 4
    CounterBits = 5
    ReservedWords = {0}
    Addrs = {0, 1}
    Lengths = {1, 2}
    Prots = {3}
SPECIFICATION AllocSpec
INVARIANTS TypeOK UsedFramesCount
 
