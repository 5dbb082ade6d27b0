SPECIFICATION Spec
CONSTANTS
    P1 = P1
    P2 = P2
    H = H
    T1 = T1
    T2 = T2
    Player <- MCPlayer
    Host = H
    Seats <- MCSeats
    Task <- MCTask
    Weeks = 2
    MaxCalls = 3
    MaxJoins = 2
CHECK_DEADLOCK FALSE
INVARIANTS
    TypeOK
    InStep
    AskedIsCurrent
PROPERTIES
    NeverBackwards
