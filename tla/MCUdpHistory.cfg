\* What a peer believes, and owes, against what the other one has heard.
SPECIFICATION HistorySpec
CONSTANTS
    A = A
    B = B
    NoMessage = NoMessage
    KeepAliveInterval = 1
    KeepAliveTimeout = 2
    Secure = TRUE
    MaxBehind = 1
    MaxAhead = 0
    BAhead = 0
    MaxInFlight = 1
    MaxSendDelay = 1
INVARIANTS
    AcknowledgeNotForgotten
    ConnectedIsFresh
    NoPingStorm
SYMMETRY Symmetry
