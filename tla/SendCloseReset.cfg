CONSTANTS
    Events = {m}
    Nil = nil
    Unencodable = {}
    Oversize = {}
    SerModulus = 4
    ClientCalls = 1
    ServerCalls = 2
    MaxCalls <- MCMaxCalls
    MaxBad = 0
    WireCap = 2
    ReadDeadline = FALSE
    WriteDeadline = FALSE
    MayBreak = FALSE
SPECIFICATION Safe
INVARIANT SendCloseDelivers
CHECK_DEADLOCK FALSE
