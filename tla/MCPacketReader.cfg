\* Streams of up to three messages, cut anywhere, in pieces of any size.  The
\* reader of a connection on which nothing comes waits for ever.
SPECIFICATION Spec
CONSTANTS
    HeaderSize = 2
    MinSize = 3
    Mtu = 4
    MaxMessages = 3
    Messages <- MCMessages
    Streams <- MCStreams
INVARIANTS
    ReturnsWhatWasSent
    EndsAsSent
    NothingHeldBack
CHECK_DEADLOCK FALSE
