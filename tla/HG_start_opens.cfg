SPECIFICATION LoadingSpec
CONSTANTS
    Nil = Nil
    Players <- TwoPlayers
    Names = {n1}
    MinPlayers = 2
    NumLocations = 1
    Countdown = 2
    MaxGames = 1
    MaxEntries = 2
    StartMaps = {"lobby"}
PROPERTIES
    StartedGameOpens
