CONSTANTS
    n1 = n1  n2 = n2
    Inodes <- MCInodes
    AbsPath = AbsPath  RelPath = RelPath
    NULL = NULL
    Fds = {0, 1}
    Offs <- MCOffs
    OffBits = 4
SYMMETRY Symmetry
SPECIFICATION Spec
INVARIANTS OpenInodesLive
