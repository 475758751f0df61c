SPECIFICATION FairSpec
CONSTANTS
    Nil = Nil
    Players <- TwoPlayers
    Names = {n1}
    MinPlayers = 2
    NumLocations = 1
    Countdown = 2
    MaxGames = 2
    MaxEntries = 2
    StartMaps = {"elsewhere", "lobby"}
INVARIANTS
    PhaseOfOwnGame
PROPERTIES
    LifecycleSpec
    ServesEachPlayer
    HostlessQueueDissolves
    CountdownCompletes
