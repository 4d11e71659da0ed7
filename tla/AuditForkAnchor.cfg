\* An anchor is minted after `init` forked the log.
SPECIFICATION FairSpec
CONSTANTS
    Procs = {p1, p2}
    NoProc = NoProc
    Bodies = {x}
    MaxLines = 3
    MaxAnchors = 1
    MaxInits = 1
    MaxCrashes = 0
PROPERTY
    TipRejectsCorrupt
CHECK_DEADLOCK FALSE
