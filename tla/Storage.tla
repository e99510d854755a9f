------------------------------- MODULE Storage -------------------------------
(***************************************************************************)
(* mtt::Storage: the files of a torrent on disk.  Selected files are        *)
(* allocated at their full size; a file that is not selected but shares its *)
(* first or last piece with a selected one gets a short temporary file that *)
(* holds only the shared parts.  The downloader stores blocks of the        *)
(* selected pieces, the user changes the selection, and every piece stored  *)
(* must be readable back, for the hash check and for the upload.            *)
(*                                                                          *)
(* The content of a file is the sequence of its units; the unit at offset n *)
(* of the torrent has the value n + 1, a unit that was never written is     *)
(* Zero.  The disk has room and the paths are valid: preallocation fails    *)
(* only in ways that stop the torrent.                                      *)
(***************************************************************************)
EXTENDS TorrentLayout, FiniteSets

VARIABLES
    files,      \* infoFile.info.files; empty until they are known
    disk,       \* the content of each file, or Missing
    stored,     \* blocks handed to storePieceBlocks with status Success
    moved       \* history: files whose temporary file was moved by preallocate

Zero == 0
Garbage == -1
Missing == <<-2>>   \* unlike any content: there is no file

FileIds == DOMAIN files
PieceIds == PieceIdsOf(files)
BlockIds(idx) == 0 .. BlocksCount(files, idx) - 1

LOCAL Minimum(a, b) == IF a < b THEN a ELSE b
LOCAL Maximum(a, b) == IF a > b THEN a ELSE b

ContainsPiece(f, idx) ==
    files[f].startPieceIndex <= idx /\ files[f].endPieceIndex >= idx

-------------------------------------------------------------------------------
(* Content of a file. *)

ContentSize(content) == IF content = Missing THEN 0 ELSE Len(content)

\* seekp(pos), write(data): the file grows with zeros up to pos.
Write(content, pos, data) ==
    [n \in 1 .. Maximum(Len(content), pos + Len(data)) |->
        IF n > pos /\ n <= pos + Len(data) THEN data[n - pos]
        ELSE IF n <= Len(content) THEN content[n]
        ELSE Zero]

ReadAt(content, pos) == IF pos < Len(content) THEN content[pos + 1] ELSE Garbage

\* The units of a block as they come from a peer that sends correct data.
BlockData(idx, begin, length) ==
    [n \in 1 .. length |-> idx * PieceSize + begin + n]

-------------------------------------------------------------------------------
(* storePieceBlocks, one block.  Files that share the piece are written in  *)
(* order; opening a missing one fails and ends the call.                    *)

StoreIn(f, content, block) ==
    LET file == files[f]
        pos == FileBlockPosition(file, block.index, block.begin, block.length)
        data == BlockData(block.index, block.begin, block.length)
    IN IF Len(content) = file.size \/ block.index = file.startPieceIndex
       THEN Write(content, pos.fileDataPos,
                  SubSeq(data, pos.dataPos + 1, pos.dataPos + pos.dataSize))
       ELSE IF block.index = file.endPieceIndex
       THEN Write(content, PieceSize - file.startPiecePos + block.begin,
                  SubSeq(data, 1, pos.dataSize))
       ELSE content

\* The files that hold a part of the block, in the order they are written.
Touched(block) ==
    {f \in FileIds :
        /\ ContainsPiece(f, block.index)
        /\ FileBlockPosition(files[f], block.index, block.begin,
                             block.length).dataSize > 0}

StoreFails(block) == \E f \in Touched(block) : disk[f] = Missing

StoredDisk(block) ==
    [f \in FileIds |->
        IF f \in Touched(block) /\ \A g \in Touched(block) : g <= f => disk[g] # Missing
        THEN StoreIn(f, disk[f], block)
        ELSE disk[f]]

-------------------------------------------------------------------------------
(* loadPieceBlocks of a whole piece: the unit at `offset' of the piece read  *)
(* back by the last file that holds it.                                     *)

LoadFails(idx) ==
    \E f \in FileIds : ContainsPiece(f, idx) /\ disk[f] = Missing

LoadPosition(f, idx, pos, offset) ==
    IF idx = files[f].endPieceIndex /\ ContentSize(disk[f]) < files[f].size
    THEN PieceSize - files[f].startPiecePos + offset
    ELSE pos.fileDataPos

LoadedUnit(idx, size, offset) ==
    LET pos(f) == FileBlockPosition(files[f], idx, 0, size)
        from == {f \in FileIds : /\ ContainsPiece(f, idx)
                                 /\ offset \in pos(f).dataPos ..
                                        pos(f).dataPos + pos(f).dataSize - 1}
    IN IF from = {} THEN Garbage
       ELSE LET f == CHOOSE g \in from : \A h \in from : h <= g
            IN ReadAt(disk[f], LoadPosition(f, idx, pos(f), 0)
                                 + offset - pos(f).dataPos)

-------------------------------------------------------------------------------
(* SelectedFiles: the size to allocate for each file, 0 for none (a file of  *)
(* size 0 is allocated only when it is selected itself).                    *)

StartPart(f) == Minimum(PieceSize - files[f].startPiecePos, files[f].size)

SharedSize(f, startShared, endShared) ==
    LET first == IF startShared THEN StartPart(f) ELSE 0
    IN IF endShared THEN Minimum(first + files[f].endPiecePos, files[f].size)
       ELSE first

\* Selection of all files (start of the torrent, selectFiles).
AllocatedSize(sel, f) ==
    LET wanted == {idx \in PieceIds :
                      \E g \in FileIds : sel[g] /\ ContainsPiece(g, idx)}
    IN IF sel[f] THEN files[f].size
       ELSE SharedSize(f, files[f].startPieceIndex \in wanted,
                       files[f].endPieceIndex \in wanted)

\* Mutated form of AllocatedSizeFor: files before the target are not looked at.
AllocatedSizeForNext(target, f) ==
    IF f = target THEN files[f].size
    ELSE IF f < target THEN 0
    ELSE SharedSize(f, files[f].startPieceIndex = files[target].endPieceIndex,
                    FALSE)

\* Selection of the single file `target' (selectFile).
AllocatedSizeFor(target, f) ==
    LET neighbours ==
            {g \in FileIds :
                /\ \A h \in g .. target - 1 :
                      files[h].endPieceIndex = files[target].startPieceIndex
                /\ \A h \in target .. g :
                      files[h].startPieceIndex <= files[target].endPieceIndex}
    IN IF f = target THEN files[f].size
       ELSE IF f \notin neighbours THEN 0
       ELSE SharedSize(f, files[f].startPieceIndex = files[target].endPieceIndex,
                       files[f].endPieceIndex = files[target].startPieceIndex)

\* Mutated form of Preallocate: an existing file is always cut to the size.
PreallocateCut(f, content, size) ==
    IF content # Missing /\ Len(content) >= size
    THEN SubSeq(content, 1, size)
    ELSE IF size > 0
         THEN Write(IF content = Missing THEN <<>> ELSE content, size - 1, <<Zero>>)
         ELSE <<>>

\* The part of the file in its first piece, when the file goes on.
StartSize(f) == PieceSize - files[f].startPiecePos

\* The file there is a temporary one that holds both shared parts.
Moves(f, content, size) ==
    /\ content # Missing /\ Len(content) < size
    /\ Len(content) = StartSize(f) + files[f].endPiecePos
    /\ files[f].endPiecePos > 0

\* preallocate.  The temporary file that holds both shared parts is moved:
\* its end part is written again at the last unit of the full file.
Preallocate(f, content, size) ==
    LET file == files[f]
        old == IF content = Missing THEN <<>> ELSE content
    IN IF content # Missing /\ Len(content) >= size
       THEN IF size = file.size THEN SubSeq(content, 1, size) ELSE content
       ELSE IF Moves(f, content, size)
       THEN Write(content, file.size - 1,
                  SubSeq(content, StartSize(f) + 1, StartSize(f) + file.endPiecePos))
       ELSE IF size > 0 THEN Write(old, size - 1, <<Zero>>)
       ELSE old

\* The files of `set' are allocated, each at its size.
Allocate(set, sizes) ==
    /\ disk' = [f \in FileIds |->
          IF f \in set THEN Preallocate(f, disk[f], sizes[f]) ELSE disk[f]]
    /\ moved' = moved \cup {f \in set : Moves(f, disk[f], sizes[f])}

\* preallocateSelection(DownloadSelection)
AllocateSelection(sel) ==
    LET sizes == [f \in FileIds |-> AllocatedSize(sel, f)]
    IN Allocate({f \in FileIds : sel[f] \/ sizes[f] > 0}, sizes)

\* preallocateFile
AllocateFile(target) ==
    LET sizes == [f \in FileIds |-> AllocatedSizeFor(target, f)]
    IN Allocate({f \in FileIds : f = target \/ sizes[f] > 0}, sizes)

StoredPieces ==
    {idx \in PieceIds : \A b \in BlockIds(idx) : <<idx, b>> \in stored}

\* storePieceBlocks with one block: what is written, and whether it is stored.
Store(block, b) ==
    /\ disk' = StoredDisk(block)
    /\ stored' = IF StoreFails(block) THEN stored
                 ELSE stored \cup {<<block.index, b>>}

-------------------------------------------------------------------------------
(* Properties. *)

\* Pieces that the code loses: the last piece of a file that ends on the
\* boundary of a piece is not written (getFileBlockPosition cuts it to nothing),
\* and once a temporary file was moved, its end part lies at the wrong place and
\* the file is too long for its other pieces to be written.
Lost ==
    UNION {{files[f].endPieceIndex} : f \in {g \in FileIds :
                files[g].size > 0 /\ files[g].endPiecePos = 0}}
    \cup UNION {files[f].startPieceIndex + 1 .. files[f].endPieceIndex : f \in moved}

\* A piece whose blocks were all stored with status Success reads back as it
\* was received, through every later change of the selection and every
\* allocation, but for the pieces of Lost: the hash check of a piece that left
\* the write cache, the upload and the file check all depend on it.
ReadBack ==
    \A idx \in StoredPieces \ Lost :
        /\ ~ LoadFails(idx)
        /\ \A offset \in 0 .. PieceLength(files, idx) - 1 :
              LoadedUnit(idx, PieceLength(files, idx), offset)
                  = idx * PieceSize + offset + 1
===============================================================================
