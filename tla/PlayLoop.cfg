SPECIFICATION Spec
CONSTANTS
    Player = Player
    Bot = Bot
    T1 = T1
    T2 = T2
    Role <- MCRole
    Owned <- MCOwned
    Task <- MCTask
    DurationWeeks = 3
    MaxSubmissions = 2
    MaxForces = 1
    MaxCrashes = 1
    PauseOnDisconnect = TRUE
SYMMETRY Interchangeable
INVARIANTS
    TypeOK
    FlagsAgree
    Attribution
    OneWeekPerForce
    BotMemory
    FinishedOnce
PROPERTIES
    FrozenUnlessRunning
    ImplementsWeekMachine
