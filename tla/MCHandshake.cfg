\* Short streams, and those that are long enough for a handshake with a name,
\* a payload and something behind it, in pieces of any size.
SPECIFICATION Spec
CONSTANTS
    Bytes = {0, 1, 2}
    Streams <- MCStreams
    routing_rules <- MCRules
    HeaderSuffix <- MCSuffix
    ValidFlags = {0, 1}
    Letters = {1, 2}
INVARIANTS
    RoutedByContent
    PassedIsHandshake
    NoNeedlessWait
PROPERTY
    RefusedIsNone
CHECK_DEADLOCK FALSE
