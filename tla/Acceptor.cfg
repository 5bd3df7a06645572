CONSTANTS
    u1 = u1
    k1 = k1
    k2 = k2
    Users <- MCUsers
    Sessions <- MCSessions
    IDSpace = 2
    totalTryCount = 2
    MaxStarts = 2
    MaxStops = 2
SPECIFICATION Spec
INVARIANTS ManagedWhileAlive RestartFindsAddressFree
PROPERTIES StopEndsAccept StopClosesManaged
CHECK_DEADLOCK FALSE
