CONSTANTS
    ARENA = 96
    WordBits = 8
    NULL = NULL
    Requests <- MCRequests
SPECIFICATION Spec
INVARIANTS
    TypeOK
    CoversArena
    NoAdjacentFree
    AllocFits
PROPERTIES
    RoundTrip
    AbstractHeap
