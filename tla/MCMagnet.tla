------------------------------- MODULE MCMagnet -------------------------------
(* Instances of Magnet for TLC: pieces of four units in two blocks.          *)
EXTENDS Magnet

\* Neither a file nor the torrent ends on a piece boundary.
NoFileEndsOnBoundary(list) ==
    \A f \in 1 .. Len(list) : Offset(list)[f + 1] % PieceSize # 0

\* Files inside one piece and over two pieces, three and four in one piece; no
\* torrent has more than three pieces.
UnalignedLists ==
    {list \in [1 .. 3 -> {1, 5}] \cup [1 .. 4 -> {1, 3}] :
        /\ NoFileEndsOnBoundary(list)
        /\ PiecesOf(list) <= 3}

\* Single files of every length up to two pieces and a unit, whole pieces
\* included.
SingleLists == {<<n>> : n \in 1 .. 9}

\* A file over three pieces between two others, whose temporary file is moved;
\* files that end on a boundary: over two pieces, and as a whole piece.
LostLists == {<<1, 9, 1>>, <<3, 5, 1>>, <<4, 3>>}

FewLists == {<<2>>}

AllLists == UnalignedLists \cup SingleLists \cup LostLists
===============================================================================
