CONSTANTS
    MaxSockets = 1
    MaxPackets = 2
    MaxSends = 2
    TagModulus = 2
SPECIFICATION Spec
INVARIANTS PacketsInOrder EndIsAnnounced ProcessedInOrder
PROPERTIES ThreadEnds PostedIsProcessed
CHECK_DEADLOCK FALSE
