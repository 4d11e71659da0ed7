\* Locked commands, one `init` and up to two crashes, in every order.
SPECIFICATION FairSpec
CONSTANTS
    Procs = {p1, p2}
    NoProc = NoProc
    Bodies = {x, y}
    MaxLines = 3
    MaxAnchors = 2
    MaxInits = 1
    MaxCrashes = 2
INVARIANTS
    LockExcludes
    LogIntact
    DamageBounded
    AnchorsHold
    LinksPaid
PROPERTIES
    LockReleased
CHECK_DEADLOCK FALSE
