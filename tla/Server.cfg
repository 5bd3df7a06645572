CONSTANTS
    NoCallback = NoCallback
    l1 = l1
    u1 = u1
    s1 = s1
    QueueLen = 2
    Loops <- MCLoops
    Starters <- MCStarters
    MaxStarts = 2
    Sessions <- MCSessions
    IDSpace = 4
    totalTryCount = 2
    MaxFrames = 2
SPECIFICATION Spec
INVARIANTS NoSpareTicks EventsInOrder
PROPERTIES TickComes ClosedIsTold
CHECK_DEADLOCK FALSE
