\* A connection and its successor, over and over, each way, and one fault.
SPECIFICATION FairTunnelSpec
CONSTANTS
    Conns = {c1, c2}
    Packets = {p, q}
    None = None
    MaxInFlight = 2
    MaxFaults = 1
INVARIANTS
    SlotNeverEmpties
    RotationCostsOne
PROPERTIES
    ImplementsPipes
    StaysAgreed
    AgreesAgain
