SPECIFICATION Spec
CONSTANTS
    Procs = {p, q}
    PemLen <- MCPemLen
    Inodes = {i, j, k}
    Failures = {}
SYMMETRY MCSymmetry
INVARIANTS
    OwnKey
