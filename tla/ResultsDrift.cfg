SPECIFICATION Spec
CONSTANTS
    Spring = Spring
    Autumn = Autumn
    Retailer = Retailer
    Ann = Ann
    Bob = Bob
    Visitor = Visitor
    S1 = S1
    S2 = S2
    Game <- MCGame
    Seat <- MCSeat
    Account <- MCAccount
    Guest <- MCGuest
    Session <- MCSession
    Loop <- MCLoop
    Worker <- MCWorker
    NoIdentity = NoIdentity
    Seated <- MCSeated
    MaxPersists = 1
    StatsMayFail = FALSE
INVARIANTS
    StatsDoNotDrift
