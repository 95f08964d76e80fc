\* Some data in either direction, cut at any byte.
SPECIFICATION FairSpec
CONSTANT
    MaxData = 3
INVARIANTS
    EndMeansAll
    CutOnlyLate
PROPERTY
    ProxyEnds
CHECK_DEADLOCK FALSE
