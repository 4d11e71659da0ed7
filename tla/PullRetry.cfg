\* A pull that is cut short, and another one.
SPECIFICATION Spec
CONSTANTS
    Nodes = {n1, n2}
    Chunks = {k1}
    HaveBatch = 1
    MaxConns = 1
    MaxSnaps = 2
    MaxPulls = 2
    MaxPurges = 0
    MaxFails = 1
SYMMETRY Symmetry
INVARIANTS
    PullCompletes
CHECK_DEADLOCK FALSE
