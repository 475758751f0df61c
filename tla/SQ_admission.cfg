SPECIFICATION Spec
CONSTANTS
    Nil = Nil
    Accounts = {a, b, g}
    Pointers = {p1, p2, p3}
    Skip = {g}
    Tolerant = TRUE
    Limits = {1, 2}
    Expire = 1
    MaxAdds = 1
INVARIANTS QueueIsLive WaitingDoNotPlay NoIdlePlace
PROPERTIES LimitKept FirstComeFirstServed
SYMMETRY PointerSymmetry
