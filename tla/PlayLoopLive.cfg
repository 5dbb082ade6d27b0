SPECIFICATION FairSpec
CONSTANTS
    Player = Player
    Bot = Bot
    T1 = T1
    T2 = T2
    Role <- MCRole
    Owned <- MCOwned
    Task <- MCTask
    DurationWeeks = 2
    MaxSubmissions = 1
    MaxForces = 1
    MaxCrashes = 0
    PauseOnDisconnect = FALSE
PROPERTIES
    CompleteWeekCloses
    DueBotPlays
    FinishedGamePersists
