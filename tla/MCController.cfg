SPECIFICATION Spec
CONSTANTS
    f = f
    g = g
    Invalid = Invalid
    None = None
    Configs <- MCConfigs
    Names <- MCNames
    Flows <- MCFlows
    Hashes <- MCHashes
INVARIANTS
    RefusedForAName
    ConnectionNamesDistinct
    SteadyNotPassedOver
PROPERTIES
    FlowSticks
CHECK_DEADLOCK FALSE
