SPECIFICATION FairSpec
CONSTANTS
    Nil = Nil
    Global = Global
    Objects = {o1}
    Events = {e1, e2}
    Refs = {r1, r2}
    Delays = {2}
    Repeats = {0, 2}
    Diffs = {1, 2}
    MaxReloads = 2
INVARIANTS
    NoDangling
    OneOwner
    Cancellable
    OwnFunction
    CallsCounted
    OnlyOrphansSurvive
PROPERTIES
    UpdateEnds
