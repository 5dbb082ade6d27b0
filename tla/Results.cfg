SPECIFICATION Spec
CONSTANTS
    Spring = Spring
    Autumn = Autumn
    Retailer = Retailer
    Ann = Ann
    Bob = Bob
    Visitor = Visitor
    S1 = S1
    S2 = S2
    Game <- MCGame
    Seat <- MCSeat
    Account <- MCAccount
    Guest <- MCGuest
    Session <- MCSession
    Loop <- MCSession
    Worker <- MCSession
    NoIdentity = NoIdentity
    Seated <- MCSeated
    MaxPersists = 2
    StatsMayFail = TRUE
SYMMETRY Interchangeable
INVARIANTS
    TypeOK
    RowsIdentified
    OneRowPerPlace
    OwnWorkCounted
PROPERTIES
    ClaimedOnce
