-------------------------------- MODULE Files --------------------------------
(***************************************************************************)
(* mtt::Files: the selection of the user, the piece table that follows from *)
(* it (FilesSelection) and the files on disk (Storage), as the downloader    *)
(* sees them.  The table decides which blocks are wanted and when the        *)
(* download is finished; the selection decides what is allocated.            *)
(*                                                                          *)
(* The files change only through the torrent, so start finds no file newer  *)
(* than lastFileTime and begins no check (TorrentCheck models the checks).   *)
(***************************************************************************)
EXTENDS Storage, SequencesExt

CONSTANT
    PiecesBound       \* no torrent has more pieces

VARIABLES
    selection,  \* Files::selection
    progress,   \* Files::progress
    started,    \* Torrent::started
    transfer,   \* FileTransfer is running
    changes,    \* changes of the selection the user has left
    starts      \* starts the user has left

torrentVars == <<started, transfer, changes, starts>>
contentVars == <<files, disk, stored, moved, selection, progress>>
filesVars == <<contentVars, torrentVars>>

Choice == INSTANCE FilesSelection
P == INSTANCE PiecesProgress
        WITH PieceCount <- PiecesBound, LastPieceSize <- PieceSize

-------------------------------------------------------------------------------
\* Files::initialize, with the files of a torrent: all selected, none on disk.
InitFiles ==
    /\ selection = [f \in FileIds |-> TRUE]
    /\ progress = P!InitTable(P!Empty, Cardinality(PieceIds))
    /\ disk = [f \in FileIds |-> Missing]
    /\ stored = {} /\ moved = {}
    /\ started = FALSE /\ transfer = FALSE

Initialize ==
    /\ selection' = [f \in FileIds' |-> TRUE]
    /\ progress' = P!InitTable(P!Empty, Cardinality(PieceIds'))
    /\ disk' = [f \in FileIds' |-> Missing]
    /\ stored' = {} /\ moved' = {}

\* Files::start: the table loses the pieces of the files that are not there,
\* and nothing is allocated when the selection is finished.
StartFiles ==
    LET missing == {f \in FileIds : disk[f] = Missing}
        table == P!RemoveReceived(progress,
                    UNION {Choice!PiecesOfFile(f) : f \in missing})
    IN /\ progress' = table
       /\ IF P!SelectedFinished(table) THEN UNCHANGED <<disk, moved>>
          ELSE AllocateSelection(selection)
       /\ UNCHANGED <<files, stored, selection>>

Become(state) ==
    /\ changes > 0
    /\ changes' = changes - 1
    /\ selection' = state.sel
    /\ progress' = state.progress
    /\ UNCHANGED <<files, stored, started, transfer, starts>>

\* Files::selectFiles: the files of the list one after the other, then the
\* allocation of all.
SelectFiles(wanted) ==
    LET state == FoldLeft(LAMBDA s, f : Choice!Select(s, f, wanted[f]),
                          [sel |-> selection, progress |-> progress],
                          [f \in FileIds |-> f])
    IN /\ Become(state)
       /\ IF started THEN AllocateSelection(state.sel)
          ELSE UNCHANGED <<disk, moved>>

\* Files::selectFile
SelectFile(f, selected) ==
    /\ Become(Choice!Select([sel |-> selection, progress |-> progress], f, selected))
    /\ IF started /\ selected THEN AllocateFile(f)
       ELSE UNCHANGED <<disk, moved>>

\* A block of a piece the downloader asks for is written.
StoreBlock(i, b) ==
    /\ transfer
    /\ P!WantedPiece(progress, i)
    /\ <<i, b>> \notin stored
    /\ Store(BlockInfo(files, i, b), b)
    /\ UNCHANGED <<files, moved, selection, progress, torrentVars>>

\* All blocks of a piece are there and the piece passes its check: the
\* downloader adds it, selected or not by now.
PieceReceived(i) ==
    /\ transfer
    /\ i \in StoredPieces /\ i \notin progress.has
    /\ progress' = P!AddPiece(progress, i)
    /\ UNCHANGED <<files, disk, stored, moved, selection, torrentVars>>

FilesNext ==
    \/ \E wanted \in [FileIds -> BOOLEAN] : SelectFiles(wanted)
    \/ \E f \in FileIds, selected \in BOOLEAN : SelectFile(f, selected)
    \/ \E i \in PieceIds : \E b \in BlockIds(i) : StoreBlock(i, b)
    \/ \E i \in PieceIds : PieceReceived(i)

-------------------------------------------------------------------------------
(* Properties. *)

NeededPieces == UNION {Choice!PiecesOfFile(f) : f \in {g \in FileIds : selection[g]}}

FilesIn(i) == {f \in FileIds : i \in Choice!PiecesOfFile(f)}
AtMostTwoFilesInAPiece == \A i \in PieceIds : Cardinality(FilesIn(i)) <= 2

\* No piece stays selected once no selected file needs it (Files::select
\* releases the pieces of a deselected file), and when at most two files meet
\* in a piece every piece a selected file needs is selected, so that the
\* downloader stops (selectedFinished) exactly when the selected files have all
\* their pieces, after any sequence of selections, stores and restarts.
SelectionExact ==
    /\ PieceIds \ progress.unselected \subseteq NeededPieces
    /\ AtMostTwoFilesInAPiece /\ FileIds # {} =>
          /\ NeededPieces \subseteq PieceIds \ progress.unselected
          /\ P!SelectedFinished(progress) <=> NeededPieces \subseteq progress.has
===============================================================================
