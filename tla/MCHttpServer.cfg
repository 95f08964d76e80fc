\* Two permits for three connections that all have one name.
SPECIFICATION FairServerSpec
CONSTANTS
    Conns = {c1, c2, c3}
    Names = {n}
    Ingress = {n}
    MaxProxiedConnections = 2
    None = None
INVARIANTS
    PermitsConserved
    RegisteredIsHandled
    LatestRegistered
PROPERTIES
    AcceptsAgain
    BrokenUnregistered
