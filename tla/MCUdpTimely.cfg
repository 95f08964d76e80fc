\* After any past, a calm in which every second datagram may be lost.
SPECIFICATION TimelySpec
CONSTANTS
    A = A
    B = B
    NoMessage = NoMessage
    KeepAliveInterval = 1
    KeepAliveTimeout = 3
    Secure = TRUE
    MaxBehind = 1
    MaxAhead = 0
    BAhead = 0
    MaxInFlight = 1
    MaxSendDelay = 0
    MaxDelay = 0
    MaxLosses = 1
    DataErrors = FALSE
INVARIANTS
    SettledConnected
SYMMETRY Symmetry
