CONSTANTS
    PieceSize = 4
    BlockMaxSize = 2
    Word = 1024
    SelectionChanges = 2
    Starts = 2
    PiecesBound = 6
    MetadataPieces = 2
    MetadataPeers = {p1, p2}
    Steady = p1
    MaxAsked = 1
    MaxIgnored = 1
    SizeLists <- AllLists
    MagnetLists <- FewLists
SPECIFICATION Spec
INVARIANTS ReadBack StoreNeverFails SelectionExact MetadataKept
PROPERTIES MetadataArrives
CHECK_DEADLOCK FALSE
