SPECIFICATION FairSpec
CONSTANTS
    A1 = A1
    A2 = A2
    A3 = A3
    C1 = C1
    C2 = C2
    NoCall = NoCall
    NoCode = NoCode
    Call <- MCCall
    Code <- MCCode
    LockTimeout = 2
    SectionTime = 1
    MaxAttempts = 2
    MaxRooms = 2
    MaxChanges = 2
    MaxCrashes = 1
INVARIANTS
    TypeOK
PROPERTIES
    ImplementsRoomDocument
    LockFreed
