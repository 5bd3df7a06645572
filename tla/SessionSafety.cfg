CONSTANTS
    Events = {m, bad}
    Nil = nil
    Unencodable = {bad}
    Oversize = {}
    SerModulus = 2
    ClientCalls = 0
    ServerCalls = 4
    MaxCalls <- MCMaxCalls
    MaxBad = 1
    WireCap = 1
    ReadDeadline = TRUE
    WriteDeadline = TRUE
    MayBreak = TRUE
SPECIFICATION Safe
INVARIANTS TypeOK DeliveredInOrder FlushBeforeClose TeardownComplete
CHECK_DEADLOCK FALSE
