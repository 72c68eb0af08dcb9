SPECIFICATION Spec
CONSTANTS
    Places = {p1, p2}
    None = none
    MinBlocks = 2
    MinTime = 2
    MaxRequests = 3
    MaxFaults = 1
    MaxReboots = 2
INVARIANTS
    PositionConsistent
    StoredIsWhole
PROPERTIES
    EndsUpTransmitting
CHECK_DEADLOCK FALSE
