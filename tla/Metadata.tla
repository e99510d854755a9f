------------------------------- MODULE Metadata -------------------------------
(***************************************************************************)
(* mtt::MetadataReconstruction: the pieces of the metadata of a magnet link, *)
(* asked for in turn.  A value of the struct is a record; `buffer' says      *)
(* whether it was sized, and whether the torrent has taken it.               *)
(***************************************************************************)
EXTENDS Integers, FiniteSets, FiniteSetsExt

CONSTANT
    MetadataPieces  \* pieces of 16 KiB of the metadata

ASSUME MetadataAssumption == MetadataPieces \in Nat \ {0}

NoMetadata == [pieces |-> 0, remaining |-> {}, next |-> 0, buffer |-> "none"]

\* init, with the size an extended handshake announces
InitMetadata ==
    [pieces |-> MetadataPieces, remaining |-> 0 .. MetadataPieces - 1,
     next |-> 0, buffer |-> "sized"]

\* Mutated form of Sized: every extended handshake begins again.
SizedAgain(m) == InitMetadata

\* extendedHandshakeFinished: the first size announced stays.
Sized(m) == IF m.pieces = 0 THEN InitMetadata ELSE m

\* addPiece; a piece that is there already changes nothing.
AddMetadata(m, piece) == [m EXCEPT !.remaining = @ \ {piece}]

Complete(m) == m.remaining = {} /\ m.pieces # 0

NoPiece == -1

\* Mutated form of MissingPiece: the search does not begin again at the first piece.
MissingPieceOnce(m) ==
    LET after == {i \in m.remaining : i >= m.next}
    IN [index |-> IF after = {} THEN NoPiece ELSE Min(after),
        next |-> IF after = {} THEN m.next ELSE m.next + 1]

\* getMissingPieceIndex: the next missing piece from nextRequestedIndex on, or
\* the first one again, and nextRequestedIndex afterwards.
MissingPiece(m) ==
    LET from == IF \A i \in m.remaining : m.next > i THEN 0 ELSE m.next
        after == {i \in m.remaining : i >= from}
    IN IF m.remaining = {} THEN [index |-> NoPiece, next |-> m.next]
       ELSE [index |-> IF after = {} THEN NoPiece ELSE Min(after), next |-> from + 1]
===============================================================================
