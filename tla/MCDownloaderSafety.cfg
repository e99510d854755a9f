CONSTANTS
    p1 = p1
    p2 = p2
    Pieces <- TwoPieces
    Blocks <- ShortLast
    Peers = {p1, p2}
    Honest = {p1}
    Steady = {}
    PeerPieces <- SomePieces
    NoGroup = 0
    MinPending = 2
    MaxPending = 2
    MaxSuspicion = 1
    Selections <- LeftOut
    Budgets <- Disturbed
SPECIFICATION Spec
INVARIANTS RequestsConsistent NoPieceTwice
PROPERTY FinishedVerified
CHECK_DEADLOCK FALSE
