SPECIFICATION Spec
CONSTANTS
    p1 = p1
    p2 = p2
    Nil = Nil
    Free = Free
    Lost = Lost
    Players = {p1, p2}
    Items = {i, j, k, l}
    TradedCount = 2
    Coins = {0, 1}
    MaxMoney = 2
    Capacity <- Bags
    Limits = {{i, j, k}}
    MaxCount <- TwoOnly
SYMMETRY Symmetric
CONSTRAINT FewUsedUp
INVARIANTS Mutual AcceptedAsSeen LimitsKept
PROPERTIES BarterSpec
