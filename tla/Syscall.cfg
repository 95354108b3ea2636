CONSTANTS
    s1 = s1
    s2 = s2
    s3 = s3
    Slots <- MCSlots
    IdleSlot = s1
    InitSlot = s2
    MAX_PRIORITY = 6
    TIME_SLICE = 2
    MaxPid = 5
    KernelPD = KernelPD
    NULL = NULL
    TickBits = 2
    HZ = 1
    Seconds = {1, 3}
    AddrBits = 4
    UserHeapBase = 2
    KernelBase = 12
    Incs = {3, 11}
SPECIFICATION SSpec
INVARIANTS
    SysTypeOK
    CurrentNeverNull
    ReadyListsWellFormed
