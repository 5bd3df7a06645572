CONSTANTS
    Error = Error
    MaxRun = 3
    MaxSegments = 4
    Base = 4
    MaxFields = 4
    MaxObjects = 2
    MaxWeight = 3
    MaxCached = 3
    Panic = Panic
    ErrOutOfData = ErrOutOfData
    MaxObjFields = 3
    Messages <- MCMessages
    IDOf <- MCIDOf
    CodecOf <- MCCodecOf
    MaxSends = 2
SPECIFICATION Spec
INVARIANTS PackRoundTrip PackersAgree MessageArrives OldTypeReads SentIsTold BinaryRoundTrip SchemaAsDeclared TypesAsDeclared
CHECK_DEADLOCK FALSE
