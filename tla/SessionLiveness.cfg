CONSTANTS
    Events = {m, big}
    Nil = nil
    Unencodable = {}
    Oversize = {big}
    SerModulus = 4
    ClientCalls = 2
    ServerCalls = 2
    MaxCalls <- MCMaxCalls
    MaxBad = 0
    WireCap = 1
    ReadDeadline = FALSE
    WriteDeadline = FALSE
    MayBreak = FALSE
SPECIFICATION Spec
PROPERTY CloseEndsBoth
CHECK_DEADLOCK FALSE
