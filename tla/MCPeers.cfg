CONSTANTS
    a = a
    b = b
    c = c
    Addresses = {a, b, c}
    MaxConnections = 2
    Plans <- FewPlans
SYMMETRY Symmetry
SPECIFICATION Spec
INVARIANTS ActiveIndexes NoPeerForgotten HeardIsAlive DhtSearches
CHECK_DEADLOCK FALSE
