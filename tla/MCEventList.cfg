CONSTANTS
    e1 = e1
    e2 = e2
    p1 = p1
    p2 = p2
    Events <- MCEvents
    Producers <- MCProducers
    Nil = nil
    Consumer = sendThread
    NoOne = noone
    MaxAdds = 4
SPECIFICATION Spec
INVARIANTS TypeOK NoLostWakeup NeverEmptyPick
PROPERTIES RefinesSendQueue Drained
CHECK_DEADLOCK FALSE
