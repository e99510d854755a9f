--------------------------- MODULE MCPiecesProgress ---------------------------
(* The two uses of the table for TLC: the torrent's own table, and the table  *)
(* of one peer.  The torrent's sizes are those of a short last piece, and of  *)
(* a full one in FullLast.                                                    *)
EXTENDS PiecesProgress

VARIABLES peer, announced, cut

PeerTable == INSTANCE PeerProgress WITH progress <- peer

FullLast == INSTANCE PiecesProgress WITH LastPieceSize <- PieceSize

TablesInit == TorrentInit /\ PeerTable!PeerInit

TablesNext ==
    \/ TorrentNext /\ UNCHANGED <<peer, announced, cut>>
    \/ PeerTable!PeerTableNext /\ UNCHANGED progress

TablesSpec == TablesInit /\ [][TablesNext]_<<progress, peer, announced, cut>>

\* What the two tables tell, computed from counters.  The table of a peer, once
\* it has the size of the torrent, holds what the peer has announced and is
\* finished when that is every piece (but for a bitfield cut off by an earlier
\* have message: SeedExact).  The size shown as downloaded is the size of the
\* pieces that are there, less a last piece as long as the others, which
\* getReceivedBytes counts for nothing; for a last piece of either kind.
TablesTold ==
    /\ PeerTable!SeedExact
    /\ DownloadedSizeExact
    /\ FullLast!DownloadedSizeExact
===============================================================================
