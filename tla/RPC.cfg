CONSTANTS
    c1 = c1
    c2 = c2
    c3 = c3
    Calls <- MCCalls
    Sync <- MCSync
    MaxChains = 3
    Ack <- MCTwoTypes
    QueueLen = 1
    TimesOut = TRUE
    Lossy = TRUE
SPECIFICATION Spec
INVARIANTS CacheIsCurrent ToldWhatCame
PROPERTIES CallSyncReturns AsyncChainRemoved LoopRunsUnlessLate
CHECK_DEADLOCK FALSE
