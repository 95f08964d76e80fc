\* A connection and the one it replaces, over and over.
SPECIFICATION FairClientSpec
CONSTANTS
    Conns = {c1, c2}
    None = None
    HasTtl = TRUE
INVARIANTS
    StreamsIntact
    TornIsReported
    SlotAgreesWithTasks
PROPERTIES
    Reconnects
    BrokenConnectionLeaves
