CONSTANTS
    u1 = u1
    k1 = k1
    k2 = k2
    Users <- MCUsers
    Sessions <- MCSessions
    IDSpace = 4
    totalTryCount = 3
    MaxStarts = 1
    MaxStops = 1
SPECIFICATION Spec
PROPERTY StopDisconnectsAll
CHECK_DEADLOCK FALSE
