SPECIFICATION Spec
CONSTANTS
    Procs = {p, q}
    PemLen <- MCPemLen
    Inodes = {i, j, k}
    Failures = {"open", "pem", "disk"}
SYMMETRY MCSymmetry
INVARIANTS
    TempTypeOK
    AloneReadsOwn
    NothingLeft
