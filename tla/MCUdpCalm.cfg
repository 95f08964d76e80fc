\* Datagrams overtake each other and are lost, the clocks differ, sends may fail.
SPECIFICATION FairCalmSpec
CONSTANTS
    A = A
    B = B
    NoMessage = NoMessage
    KeepAliveInterval = 1
    KeepAliveTimeout = 3
    Secure = TRUE
    MaxBehind = 1
    MaxAhead = 1
    BAhead = 1
    MaxInFlight = 2
    MaxSendDelay = 0
    MaxDelay = 0
    MaxLosses = 1
    DataErrors = TRUE
INVARIANTS
    SettledConnected
PROPERTIES
    Recovers
