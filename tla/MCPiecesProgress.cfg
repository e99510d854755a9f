CONSTANTS
    PieceCount = 4
    PieceSize = 4
    LastPieceSize = 3
SPECIFICATION TablesSpec
INVARIANTS TableTypeOK CountersExact SelectionFinishedExact TablesTold
