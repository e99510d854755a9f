----------------------------- MODULE PeerProgress -----------------------------
(***************************************************************************)
(* The table of pieces of a peer (PeerInfo::pieces): initialised by its    *)
(* handshake with the number of pieces known at that time (0 while the     *)
(* metadata is being downloaded), filled by its bitfield and its have      *)
(* messages, resized when the metadata arrives.  The peer is one of this   *)
(* torrent: it announces pieces of the torrent.                            *)
(***************************************************************************)
EXTENDS PiecesProgress

VARIABLES
    announced,  \* history: the pieces the peer has announced
    cut         \* history: its last bitfield met a table shorter than the torrent

peerVars == <<progress, announced, cut>>

PeerInit ==
    /\ \E n \in {0, PieceCount} : progress = InitTable(Empty, n)
    /\ announced = {}
    /\ cut = FALSE

\* A bitfield replaces what was announced; a table that a have message made
\* shorter than the torrent keeps only the bits below its size.
Bitfield == \E bits \in SUBSET AllPieces :
    /\ progress' = FromBitfield(progress, Bytes, bits)
    /\ announced' = bits
    /\ cut' = (0 < progress.size /\ progress.size < PieceCount)

Have == \E i \in AllPieces :
    /\ progress' = AddPiece(progress, i)
    /\ announced' = announced \cup {i}
    /\ UNCHANGED cut

\* Peers::reloadTorrentInfo, when the metadata has arrived.
ReloadTorrentInfo ==
    /\ progress' = Resize(progress, PieceCount)
    /\ UNCHANGED <<announced, cut>>

PeerTableNext == Bitfield \/ Have \/ ReloadTorrentInfo

\* A table of the torrent's size shows what the peer has announced, and the peer
\* is taken for a seed exactly when it has announced every piece, in whatever
\* order the metadata, bitfields and have messages came; but for a bitfield cut
\* off at the size that a have message before the metadata gave the table.
SeedExact ==
    progress.size = PieceCount /\ ~ cut =>
        /\ progress.has = announced
        /\ Finished(progress) <=> announced = AllPieces
===============================================================================
