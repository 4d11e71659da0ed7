\* A death before fleet_seen is written, and an older order.
SPECIFICATION FleetSpec
CONSTANTS
    n1 = n1
    n2 = n2
    Nodes <- MCNodes
    Chunks = {k1}
    HaveBatch = 1
    MaxConns = 1
    MaxSnaps = 2
    MaxPulls = 0
    MaxPurges = 0
    MaxFails = 0
    Signers <- MCSigners
    Fabrics = {1}
    NoKey = NoKey
    NoOrder = NoOrder
    MaxEdits = 0
    MaxTime = 2
    MaxOrders = 2
    MaxDeaths = 1
PROPERTIES
    ReplayRefused
CHECK_DEADLOCK FALSE
