CONSTANTS
    k1 = k1
    k2 = k2
    Keys <- MCKeys
    ReadFails = FALSE
    MaxStarts = 3
SPECIFICATION Spec
INVARIANTS TypeOK OneIdentity UsesLive Released
PROPERTIES StopEnds
CHECK_DEADLOCK FALSE
