CONSTANTS
    p1 = p1
    p2 = p2
    Pieces <- TwoPieces
    Blocks <- ShortLast
    Peers = {p1, p2}
    Honest = {p1, p2}
    Steady = {p1}
    PeerPieces <- SomePieces
    NoGroup = 0
    MinPending = 1
    MaxPending = 2
    MaxSuspicion = 1
    Selections <- LeftOut
    Budgets <- Stopped
SPECIFICATION FairSpec
PROPERTY DownloadFinishes
CHECK_DEADLOCK FALSE
