SPECIFICATION Spec
CONSTANTS
    Role <- MCRole
    Factory <- MCFactory
    Limits <- MCLimits
    Default <- MCDefault
    Presets <- MCPresets
    Patches <- MCPatches
    Draws <- MCDraws
    Drawn <- MCDrawn
    Sine <- MCSine
    None = None
    Unusable = Unusable
    NonFinite = NonFinite
INVARIANTS
    EngineIsFed
    SavedAgainIsTheSame
    OnlyWhatWasNamed
\* The module ends with the start of the game.
CHECK_DEADLOCK FALSE
