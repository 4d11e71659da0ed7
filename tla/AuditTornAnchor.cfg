\* A process dies between the text and the line feed of its entry.
SPECIFICATION Spec
CONSTANTS
    Procs = {p1, p2}
    NoProc = NoProc
    Bodies = {x}
    MaxLines = 3
    MaxAnchors = 1
    MaxInits = 0
    MaxCrashes = 1
SYMMETRY Symmetry
INVARIANT
    AnchorsAlwaysHold
CHECK_DEADLOCK FALSE
