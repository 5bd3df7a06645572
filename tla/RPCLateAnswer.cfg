CONSTANTS
    c1 = c1
    c2 = c2
    c3 = c3
    Calls <- MCCalls
    Sync <- MCSync
    MaxChains = 3
    Ack <- MCOwnType
    QueueLen = 1
    TimesOut = TRUE
    Lossy = FALSE
SPECIFICATION Spec
PROPERTY PostedIsRun
CHECK_DEADLOCK FALSE
