\* `init` appends while a command appends; nobody dies.
SPECIFICATION Spec
CONSTANTS
    Procs = {p1, p2}
    NoProc = NoProc
    Bodies = {x}
    MaxLines = 3
    MaxAnchors = 0
    MaxInits = 1
    MaxCrashes = 0
SYMMETRY Symmetry
INVARIANT
    NeverForked
CHECK_DEADLOCK FALSE
