SPECIFICATION Spec
CONSTANTS
    pinger = pinger
    controller = controller
    None = None
    Tasks = {pinger, controller}
    Ids = 3
    Rate = 1
    MaxStall = 1
    MaxStep = 1
    MaxBehind = 1
    MaxAhead = 0
    MaxTime = 3
    MaxSession = 2
SYMMETRY Symmetry
INVARIANTS
    NonceUnique
    VerdictIgnoresOrder
CHECK_DEADLOCK FALSE
