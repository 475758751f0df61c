SPECIFICATION FairLobby
CONSTANTS
    Nil = Nil
    Names = {n1, n2}
    Person = Person
    MaxFlight = 2
INVARIANTS WaitingInGame HiddenInGame
PROPERTIES WaitingEnds
