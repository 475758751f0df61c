SPECIFICATION Spec
CONSTANTS
    Nil = Nil
    Players <- TwoPlayers
    Names = {n1}
    MinPlayers = 2
    NumLocations = 2
    Countdown = 2
    MaxGames = 1
    MaxEntries = 2
    StartMaps = {"elsewhere"}
PROPERTIES
    DissolvedWhenHostOffline
