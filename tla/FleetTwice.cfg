\* An order presented twice, with local work in between.
SPECIFICATION FleetSpec
CONSTANTS
    n1 = n1
    n2 = n2
    Nodes <- MCNodes
    Chunks = {k1}
    HaveBatch = 1
    MaxConns = 1
    MaxSnaps = 2
    MaxPulls = 0
    MaxPurges = 0
    MaxFails = 0
    Signers <- MCSigners
    Fabrics = {1}
    NoKey = NoKey
    NoOrder = NoOrder
    MaxEdits = 0
    MaxTime = 1
    MaxOrders = 1
    MaxDeaths = 0
PROPERTIES
    ReplayIsNoOp
CHECK_DEADLOCK FALSE
