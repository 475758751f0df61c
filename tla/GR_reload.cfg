SPECIFICATION SpecReload
CONSTANTS
    Nil = Nil
    Players <- TwoPlayers
    Names = {n1}
    MinPlayers = 1
    NumLocations = 1
    Countdown = 2
    MaxGames = 2
    MaxEntries = 2
    MaxReloads = 1
    StartMaps = {"lobby"}
INVARIANTS
    CagesKnown
    PhaseSinceReload
PROPERTIES
    NoLateEntry
    LifeBetweenReloads
