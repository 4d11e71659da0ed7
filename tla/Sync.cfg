\* Three peers that pull from one another while all of them snapshot, revert and purge.
SPECIFICATION FairSpec
CONSTANTS
    Nodes = {n1, n2, n3}
    Chunks = {k1}
    HaveBatch = 1
    MaxConns = 1
    MaxSnaps = 2
    MaxPulls = 2
    MaxPurges = 1
    MaxFails = 1
INVARIANTS
    RefsMinted
    GapsAccounted
    ChunksAccounted
    ConnsCounted
PROPERTIES
    PullEnds
    ServerRecovers
CHECK_DEADLOCK FALSE
