CONSTANTS
    i1 = i1  i2 = i2  i3 = i3
    e1 = e1  e2 = e2  e3 = e3  e4 = e4  e5 = e5  e6 = e6
    Ino <- MCIno
    Ent <- MCEnt6
    NULL = NULL
    Names = {"a", "."}
    Offsets = {2, 14}
    Counts = {3}
    SizeBits = 4
    PageBytes = 4
SYMMETRY Symmetry6
SPECIFICATION Spec
INVARIANT NoDanglingEntry
