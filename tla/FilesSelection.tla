---------------------------- MODULE FilesSelection ----------------------------
(***************************************************************************)
(* mtt::Files: the files the user selects and the pieces that follow from   *)
(* them.  Files share their first and last piece with their neighbours, so  *)
(* a deselected file must leave the pieces that a selected neighbour still  *)
(* needs.  The downloader decides from the piece table alone, through the   *)
(* counters of PiecesProgress, when the selection is finished.              *)
(***************************************************************************)
EXTENDS TorrentLayout, FiniteSets

CONSTANT
    PiecesBound \* bound: no torrent has more pieces

VARIABLES
    files,      \* infoFile.info.files
    selection,  \* Files::selection
    progress    \* Files::progress

P == INSTANCE PiecesProgress
        WITH PieceCount <- PiecesBound, LastPieceSize <- PieceSize

PiecesOfFile(f) == files[f].startPieceIndex .. files[f].endPieceIndex

-------------------------------------------------------------------------------
(* Files::select *)

\* A selected file before f that ends in the first piece of f.
KeepStart(sel, f) ==
    \E g \in 1 .. f - 1 :
        /\ sel[g]
        /\ \A h \in g .. f - 1 : files[h].endPieceIndex = files[f].startPieceIndex

\* A selected file that starts in the last piece of f.  The search begins at
\* the next file and goes backwards from there.
KeepEnd(sel, f) ==
    /\ f < Len(files)
    /\ \E g \in 1 .. f + 1 :
          /\ sel[g]
          /\ \A h \in g .. f + 1 : files[h].startPieceIndex = files[f].endPieceIndex

\* Mutated form of Released: pieces shared with the neighbours are released.
ReleasedAll(sel, f) == PiecesOfFile(f)

\* The pieces to deselect with f; `sel' is the selection without f.
Released(sel, f) ==
    LET keepEnd == KeepEnd(sel, f)
        first == files[f].startPieceIndex + (IF KeepStart(sel, f) THEN 1 ELSE 0)
    IN IF keepEnd /\ files[f].endPieceIndex = 0
       THEN first + 1 .. files[f].endPieceIndex
       ELSE first .. files[f].endPieceIndex - (IF keepEnd THEN 1 ELSE 0)

\* select of one file, on a pair [sel, progress].
Select(state, f, selected) ==
    LET sel == [state.sel EXCEPT ![f] = selected]
        range == IF selected THEN PiecesOfFile(f) ELSE Released(sel, f)
    IN IF state.sel[f] = selected THEN state
       ELSE [sel |-> sel,
             progress |->
                IF range = {} THEN state.progress
                ELSE P!SelectRange(state.progress,
                        CHOOSE i \in range : \A j \in range : i <= j,
                        CHOOSE i \in range : \A j \in range : i >= j,
                        selected)]
===============================================================================
