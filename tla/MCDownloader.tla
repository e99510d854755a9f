----------------------------- MODULE MCDownloader -----------------------------
(* Instances of Downloader for TLC: two pieces, the second with one block,   *)
(* an honest peer p1 with both and a peer p2 with the second one.            *)
EXTENDS Downloader, TLC

CONSTANTS p1, p2

TwoPieces == {0, 1}
ShortLast == (0 :> {0, 1}) @@ (1 :> {0})
SomePieces == (p1 :> {0, 1}) @@ (p2 :> {1})

\* The user leaves out the piece that both peers have, or nothing.
LeftOut == {{}, {1}}

\* What may disturb a behaviour: nothing, or a stop and restart; two changes of
\* the selection, two bad blocks, an error of the storage, a bad block with a
\* stop and restart, or a change of the selection with a stop.
Left(selections, badBlocks, storageErrors, stops, starts) ==
    [selections |-> selections, badBlocks |-> badBlocks,
     storageErrors |-> storageErrors, stops |-> stops, starts |-> starts]
Stopped == {Left(0, 0, 0, 0, 1), Left(0, 0, 0, 1, 2)}
Disturbed == {Left(2, 0, 0, 0, 1), Left(0, 2, 0, 0, 1), Left(0, 0, 1, 0, 1),
              Left(0, 1, 0, 1, 2), Left(1, 0, 0, 1, 1)}
===============================================================================
