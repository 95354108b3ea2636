CONSTANTS
    s1 = s1
    s2 = s2
    s3 = s3
    s4 = s4
    Slots <- MCSlots
    IdleSlot = s1
    InitSlot = s2
    MAX_PRIORITY = 16
    TIME_SLICE = 10
    MaxPid = 5
    KernelPD = KernelPD
    NULL = NULL
SPECIFICATION Spec
PROPERTIES
    ZombieIsTerminal
