SPECIFICATION Spec
CONSTANTS
    Nil = Nil
    Players <- ThreePlayers
    Names = {n1}
    MinPlayers = 3
    NumLocations = 3
    Countdown = 2
    MaxGames = 1
    MaxEntries = 3
    StartMaps = {"elsewhere"}
INVARIANTS
    HostFirst
PROPERTIES
    SeenKeepPlace
