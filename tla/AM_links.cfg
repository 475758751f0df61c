SPECIFICATION Spec
CONSTANTS
    Nil = Nil
    Packets = {1, 3}
    Messages <- ShortAndLong
    SplitLength = 2
    MaxLinks = 3
    MaxMessages = 3
    MaxReloads = 2
INVARIANTS
    InStep
PROPERTIES
    ShownAsSent
CHECK_DEADLOCK FALSE
