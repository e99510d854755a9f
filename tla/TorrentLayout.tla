---------------------------- MODULE TorrentLayout ----------------------------
(***************************************************************************)
(* The layout of a torrent: where each file starts and ends in the sequence *)
(* of pieces (parseTorrentInfo of TorrentFileParser.cpp), how a piece is    *)
(* cut into blocks (mtt::TorrentInfo) and which bytes of a file a block     *)
(* covers (mtt::Storage::getFileBlockPosition).                             *)
(*                                                                          *)
(* Sizes are in small units.  The fields of the code are uint32_t: `Word'   *)
(* stands for 2^32, and every subtraction that can wrap around wraps here.  *)
(***************************************************************************)
EXTENDS Integers, Sequences

CONSTANTS
    PieceSize,      \* info.pieceSize
    BlockMaxSize,   \* size of a block request
    Word            \* the modulus of the unsigned arithmetic

ASSUME LayoutAssumption ==
    /\ BlockMaxSize \in Nat \ {0}
    /\ PieceSize \in Nat \ {0}
    /\ PieceSize % BlockMaxSize = 0
    /\ Word \in Nat /\ Word > 4 * PieceSize

LOCAL Minimum(a, b) == IF a < b THEN a ELSE b

\* Bytes before the n-th file of a list of sizes.
Offset(sizes) ==
    LET sum[n \in 1 .. Len(sizes) + 1] ==
            IF n = 1 THEN 0 ELSE sum[n - 1] + sizes[n - 1]
    IN sum

Total(sizes) == Offset(sizes)[Len(sizes) + 1]

PiecesOf(sizes) == (Total(sizes) + PieceSize - 1) \div PieceSize

-------------------------------------------------------------------------------
(* parseTorrentInfo *)

GetPieceIndex(pos, end) ==
    (pos \div PieceSize) - (IF end /\ pos % PieceSize = 0 THEN 1 ELSE 0)

\* The "files" list of a torrent with several files.
MultiFiles(sizes) ==
    [f \in 1 .. Len(sizes) |->
        LET begin == Offset(sizes)[f]
            end == begin + sizes[f]
            startId == GetPieceIndex(begin, FALSE)
        IN [size |-> sizes[f],
            startPieceIndex |-> startId,
            startPiecePos |-> begin % PieceSize,
            endPieceIndex |-> IF sizes[f] = 0 THEN startId
                              ELSE GetPieceIndex(end, TRUE),
            endPiecePos |-> end % PieceSize]]

\* The "length" of a torrent with one file.
SingleFile(size) ==
    <<[size |-> size,
       startPieceIndex |-> 0,
       startPiecePos |-> 0,
       endPieceIndex |-> PiecesOf(<<size>>) - 1,
       endPiecePos |-> IF size % PieceSize = 0 THEN PieceSize
                       ELSE size % PieceSize]>>

FilesOf(sizes) == IF Len(sizes) = 1 THEN SingleFile(sizes[1]) ELSE MultiFiles(sizes)

LastPieceIndex(files) == files[Len(files)].endPieceIndex

PieceIdsOf(files) == IF files = <<>> THEN {} ELSE 0 .. LastPieceIndex(files)

LastPieceBytes(files) == files[Len(files)].endPiecePos

LastPieceLastBlockIndex(files) ==
    ((LastPieceBytes(files) - 1) % Word) \div BlockMaxSize

LastPieceLastBlockSize(files) ==
    (LastPieceBytes(files) - LastPieceLastBlockIndex(files) * BlockMaxSize) % Word

-------------------------------------------------------------------------------
(* mtt::TorrentInfo *)

PieceLength(files, idx) ==
    IF idx = LastPieceIndex(files) THEN LastPieceBytes(files) ELSE PieceSize

BlocksCount(files, idx) ==
    IF idx = LastPieceIndex(files)
    THEN LastPieceLastBlockIndex(files) + 1
    ELSE (PieceSize + BlockMaxSize - 1) \div BlockMaxSize

BlockInfo(files, idx, block) ==
    LET begin == (block * BlockMaxSize) % Word IN
    [index |-> idx,
     begin |-> begin,
     length |-> IF idx = LastPieceIndex(files)
                      /\ block = LastPieceLastBlockIndex(files)
                THEN LastPieceLastBlockSize(files)
                ELSE Minimum(BlockMaxSize, (PieceSize - begin) % Word)]

-------------------------------------------------------------------------------
(* mtt::Storage::getFileBlockPosition: the part of the block that lies in   *)
(* the file, `dataPos' within the block, `fileDataPos' within the file.     *)

NoPosition == [dataPos |-> 0, dataSize |-> 0, fileDataPos |-> 0]

FileBlockPosition(file, idx, offset, size) ==
    LET blockEnd == offset + size
        start == file.startPieceIndex = idx
        skip == IF start /\ file.startPiecePos > offset
                THEN file.startPiecePos - offset ELSE 0
        cut == IF file.endPieceIndex = idx /\ file.endPiecePos < blockEnd
               THEN blockEnd - file.endPiecePos ELSE 0
    IN IF \/ start /\ file.startPiecePos > blockEnd
          \/ file.endPieceIndex = idx /\ file.endPiecePos < offset
       THEN NoPosition
       ELSE [dataPos |-> skip,
             dataSize |-> (size - skip - cut) % Word,
             fileDataPos |->
                 IF start
                 THEN IF skip > 0 THEN 0 ELSE offset - file.startPiecePos
                 ELSE (idx - file.startPieceIndex) * PieceSize
                        - file.startPiecePos + offset]

===============================================================================
