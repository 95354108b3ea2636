CONSTANTS
    k0 = k0  q1 = q1  q2 = q2
    Slots <- MCSlots
    KSlot = k0
    Prios = {1, 5}
    MaxPid = 4
    NULL = NULL
SPECIFICATION Spec
INVARIANTS CurrentLive
