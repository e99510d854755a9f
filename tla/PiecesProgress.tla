---------------------------- MODULE PiecesProgress ----------------------------
(***************************************************************************)
(* mtt::PiecesProgress, the piece table of a torrent (Files::progress) and  *)
(* of every remote peer (PeerInfo::pieces, see PeerProgress).               *)
(*                                                                          *)
(* The byte per piece of the code carries two flags, HasFlag and            *)
(* UnselectedFlag: here the table is the pair of sets `has' and             *)
(* `unselected' over the indexes 0 .. size - 1.  Beside the table the code  *)
(* keeps three counters that every operation updates incrementally, and     *)
(* that decide when a download is finished.  The operators below are the    *)
(* methods of the struct; TorrentSpec is the way the torrent calls them.    *)
(* Assumed: one call at a time.  Files::select of the user's thread takes   *)
(* none of the locks under which the downloader changes the table.          *)
(***************************************************************************)
EXTENDS Integers, FiniteSets

CONSTANTS
    PieceCount,     \* number of pieces of the torrent (info.pieces.size())
    PieceSize,      \* info.pieceSize
    LastPieceSize   \* size of the last piece

ASSUME PieceCountAssumption == PieceCount \in Nat \ {0}
ASSUME SizeAssumption ==
    PieceSize \in Nat \ {0} /\ LastPieceSize \in 1 .. PieceSize

VARIABLE progress

tableVars == <<progress>>

AllPieces == 0 .. PieceCount - 1

FullSize == (PieceCount - 1) * PieceSize + LastPieceSize

ByteOfBits == 8     \* bits of one byte of a bitfield message

-------------------------------------------------------------------------------
(* Queries. *)

Indexes(p) == 0 .. p.size - 1

Finished(p) == p.size > 0 /\ p.received = p.size

SelectedFinished(p) == p.size > 0 /\ p.selectedReceived = p.selectedPieces

HasPiece(p, i) == Finished(p) \/ i \in p.has

SelectedPiece(p, i) == i \notin p.unselected

WantedPiece(p, i) == i \notin p.has /\ i \notin p.unselected

\* getReceivedBytes: the last piece counts for fullSize % pieceSize bytes.
ReceivedBytes(p) ==
    LET last == p.size - 1 \in p.has IN
    (IF last THEN FullSize % PieceSize ELSE 0)
      + (p.received - (IF last THEN 1 ELSE 0)) * PieceSize

\* getReceivedSelectedBytes: pieces.back() == HasFlag, received and selected.
ReceivedSelectedBytes(p) ==
    LET last == p.size - 1 \in p.has \ p.unselected IN
    (IF last THEN FullSize % PieceSize ELSE 0)
      + (p.selectedReceived - (IF last THEN 1 ELSE 0)) * PieceSize

-------------------------------------------------------------------------------
(* Updates. *)

Empty == [size |-> 0, has |-> {}, unselected |-> {},
          received |-> 0, selectedReceived |-> 0, selectedPieces |-> 0]

CalculatePieces(p) ==
    [p EXCEPT !.received = Cardinality(p.has),
              !.selectedReceived = Cardinality(p.has \ p.unselected),
              !.selectedPieces = Cardinality(Indexes(p) \ p.unselected)]

\* init resets the counters, keeps the flags of a table that is long enough.
InitTable(p, n) ==
    [p EXCEPT !.size = IF p.size < n THEN n ELSE p.size,
              !.received = 0,
              !.selectedReceived = 0,
              !.selectedPieces = n]

Resize(p, n) ==
    IF p.size = n
    THEN p
    ELSE CalculatePieces([p EXCEPT !.size = n,
                                   !.has = p.has \cap (0 .. n - 1),
                                   !.unselected = p.unselected \cap (0 .. n - 1)])

\* Mutated form of AddPiece: counts an unselected piece as a selected one.
AddPieceAlwaysSelected(p, i) ==
    LET q == IF i >= p.size THEN Resize(p, i + 1) ELSE p IN
    IF HasPiece(q, i)
    THEN q
    ELSE [q EXCEPT !.has = @ \cup {i},
                   !.received = @ + 1,
                   !.selectedReceived = @ + 1]

\* Mutated form of AddPiece: no check that the piece is already there.
AddPieceAgain(p, i) ==
    LET q == IF i >= p.size THEN Resize(p, i + 1) ELSE p IN
    [q EXCEPT !.has = @ \cup {i},
              !.received = @ + 1,
              !.selectedReceived = @ + (IF SelectedPiece(q, i) THEN 1 ELSE 0)]

AddPiece(p, i) ==
    LET q == IF i >= p.size THEN Resize(p, i + 1) ELSE p IN
    IF HasPiece(q, i)
    THEN q
    ELSE [q EXCEPT !.has = @ \cup {i},
                   !.received = @ + 1,
                   !.selectedReceived = @ + (IF WantedPiece(q, i) THEN 1 ELSE 0)]

\* Mutated form of RemovePiece: no check that the piece is there.
RemovePieceAgain(p, i) ==
    [p EXCEPT !.has = @ \ {i},
              !.received = @ - 1,
              !.selectedReceived = @ - (IF SelectedPiece(p, i) THEN 1 ELSE 0)]

RemovePiece(p, i) ==
    IF ~ HasPiece(p, i)
    THEN p
    ELSE [p EXCEPT !.has = @ \ {i},
                   !.received = @ - 1,
                   !.selectedReceived = @ - (IF SelectedPiece(p, i) THEN 1 ELSE 0)]

\* removePiece of every index of `where'.
RemoveReceived(p, where) ==
    LET gone == p.has \cap where IN
    [p EXCEPT !.has = @ \ gone,
              !.received = @ - Cardinality(gone),
              !.selectedReceived = @ - Cardinality(gone \ p.unselected)]

\* Mutated form of SelectRange: pieces already received stay out of the
\* counter of received selected pieces.
SelectRangeUncounted(p, first, last, selected) ==
    LET changed == {i \in first .. last : SelectedPiece(p, i) # selected}
        sign == IF selected THEN 1 ELSE -1
    IN [p EXCEPT !.unselected = IF selected THEN @ \ changed ELSE @ \cup changed,
                 !.selectedPieces = @ + sign * Cardinality(changed)]

SelectRange(p, first, last, selected) ==
    LET changed == {i \in first .. last : SelectedPiece(p, i) # selected}
        sign == IF selected THEN 1 ELSE -1
    IN [p EXCEPT !.unselected = IF selected THEN @ \ changed ELSE @ \cup changed,
                 !.selectedReceived = @ + sign * Cardinality(changed \cap p.has),
                 !.selectedPieces = @ + sign * Cardinality(changed)]

\* The length of a bitfield message.
Bytes == (PieceCount + ByteOfBits - 1) \div ByteOfBits

\* fromBitfieldData; `bits' are the indexes whose bit is set in the message.
FromBitfield(p, bytes, bits) ==
    LET n == IF p.size = 0 THEN bytes * ByteOfBits ELSE p.size
        q == InitTable(p, n)
        new == bits \cap (0 .. n - 1)
    IN [q EXCEPT !.has = new, !.unselected = {}, !.received = Cardinality(new)]

-------------------------------------------------------------------------------
(* The table of a torrent: created for the metadata or restored from the    *)
(* state file, then changed by the file selection, the downloader, the file *)
(* checker and the missing files found at start.                            *)

TorrentInit ==
    \/ progress = InitTable(Empty, PieceCount)
    \/ \E saved, unselected \in SUBSET AllPieces :
          progress = CalculatePieces([Empty EXCEPT !.size = PieceCount,
                                                   !.has = saved,
                                                   !.unselected = unselected])

FileSelected == \E first, last \in AllPieces, selected \in BOOLEAN :
    progress' = SelectRange(progress, first, last, selected)

PieceReceived == \E i \in AllPieces : progress' = AddPiece(progress, i)

PieceRefused == \E i \in AllPieces : progress' = RemovePiece(progress, i)

CheckPrepared == \E where \in SUBSET AllPieces :
    progress' = RemoveReceived(progress, where)

TorrentNext == FileSelected \/ PieceReceived \/ PieceRefused \/ CheckPrepared

TorrentSpec == TorrentInit /\ [][TorrentNext]_tableVars

-------------------------------------------------------------------------------
(* Properties. *)

\* The shape of the table: flags only below its size, counters never negative
\* (a size_t of the code would wrap around).
TableTypeOK ==
    /\ progress.size \in Nat
    /\ progress.has \subseteq Indexes(progress)
    /\ progress.unselected \subseteq Indexes(progress)
    /\ progress.received \in Nat
    /\ progress.selectedReceived \in Nat
    /\ progress.selectedPieces \in Nat

\* The three counters, each updated in its own branch of select, addPiece,
\* removePiece and removeReceived, always equal what a recount
\* (calculatePieces) of the flags would give.
CountersExact ==
    /\ progress.received = Cardinality(progress.has)
    /\ progress.selectedReceived =
          Cardinality(progress.has \ progress.unselected)
    /\ progress.selectedPieces =
          Cardinality(Indexes(progress) \ progress.unselected)

\* Torrent::selectionFinished, which closes the seeds and stops the storage,
\* is true exactly when the downloader has no piece left to want.
SelectionFinishedExact ==
    SelectedFinished(progress) <=>
        \A i \in Indexes(progress) : ~ WantedPiece(progress, i)

\* Bytes of a set of pieces.
SizeOf(pieces) ==
    IF PieceCount - 1 \in pieces
    THEN (Cardinality(pieces) - 1) * PieceSize + LastPieceSize
    ELSE Cardinality(pieces) * PieceSize

\* What the remainder of getReceivedBytes takes from the size of a set of
\* pieces: a last piece that is as long as the others counts for nothing.
FullLastPiece(pieces) ==
    IF LastPieceSize = PieceSize /\ PieceCount - 1 \in pieces THEN PieceSize ELSE 0

\* Torrent::finishedBytes and finishedSelectedBytes are the sizes of the
\* received pieces, and of those that are selected, the last one with its own
\* size; without the last one where it is a full piece.
DownloadedSizeExact ==
    /\ ReceivedBytes(progress) + FullLastPiece(progress.has) = SizeOf(progress.has)
    /\ LET selected == progress.has \ progress.unselected IN
          ReceivedSelectedBytes(progress) + FullLastPiece(selected) = SizeOf(selected)
===============================================================================
