CONSTANTS
    u1 = u1
    Users <- MCUsers
    MaxStarts = 2
    MaxStops = 2
    MaxDials = 2
SPECIFICATION Spec
INVARIANTS SignalHasReceiver DefaultIsCurrent
PROPERTIES HookedIsHandled StopEndsConnect
CHECK_DEADLOCK FALSE
