SPECIFICATION FairSpec
CONSTANTS
    Nil = Nil
    World = World
    m1 = m1
    i1 = i1
    Workers = {w1, w2}
    BaseMaps = {m1}
    Instances = {i1}
    Parent <- Instanced
    Sessions = {s1}
    Kinds = {"move", "chat", "login", "ack", "enum"}
    MaxProcessed = 3
    MaxPackets = 3
INVARIANTS WorldAlone NoNullRequest AllUpdated SessionExclusive
PROPERTIES InOrder PacketServed LoopGoesOn ShutdownEnds
CHECK_DEADLOCK FALSE
