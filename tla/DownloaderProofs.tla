--------------------------- MODULE DownloaderProofs ---------------------------
(***************************************************************************)
(* For any pieces, blocks and connections: the requests of the downloader  *)
(* and what it holds of each peer agree, and no piece is requested while it *)
(* is there or checked twice at a time.                                    *)
(*                                                                         *)
(* Then the table of pieces the downloader reads, for any number of pieces: *)
(* its incremental counters are exact, and so selectionFinished means what  *)
(* the downloader takes it to mean; and a peer is a seed when its table     *)
(* says so.                                                                 *)
(***************************************************************************)
EXTENDS Downloader, MCPiecesProgress, FiniteSetTheorems, TLAPS

\* What one handler leaves of the two tables: keys and current pieces of the
\* peers, requests and their active peers.
Tables(inf, rq, act, cur, pend) ==
    /\ rq \subseteq Pieces
    /\ act \in [Pieces -> SUBSET Peers]
    /\ cur \in [Peers -> SUBSET Pieces]
    /\ pend \in [Peers -> SUBSET BlockSet]
    /\ \A p \in Peers :
          /\ cur[p] \subseteq rq
          /\ \A i \in Pieces : p \in act[i] <=> i \in cur[p]
          /\ pend[p] \subseteq OfPieces(cur[p])
          /\ cur[p] # {} => p \in inf

\* One check at most of each received piece, counted.
ChecksOf(hs, set, count) ==
    /\ IsFiniteSet(set) /\ count = Cardinality(set)
    /\ \A c \in set : c.piece \in hs
    /\ \A c, d \in set : c.piece = d.piece => c = d

\* While refreshSelection goes through the peers, it has the mutex: none leaves.
Known ==
    /\ has \subseteq Pieces /\ sortedSelectedPieces \subseteq Pieces
    /\ info \subseteq Peers /\ toEvaluate \subseteq info

DownloadInv ==
    /\ Known
    /\ Tables(info, requests, activePeers, currentRequests, pending)
    /\ requests \cap has = {}
    /\ ChecksOf(has, checks, checkingPieces)

-------------------------------------------------------------------------------
(* Blocks of a set of pieces. *)

\* Membership.
LEMMA BlockOf ==
    ASSUME NEW S, NEW x
    PROVE  x \in OfPieces(S) <=> \E i \in S : x \in BlocksOf(i)
BY DEF OfPieces

\* A block is of one piece.
LEMMA OnePieceOfBlock ==
    ASSUME NEW i, NEW j, NEW x, x \in BlocksOf(i), x \in BlocksOf(j)
    PROVE  i = j
BY DEF BlocksOf

\* More pieces, more blocks.
LEMMA BlocksGrow ==
    ASSUME NEW S, NEW T, S \subseteq T
    PROVE  OfPieces(S) \subseteq OfPieces(T)
BY BlockOf

\* Fewer pieces, only the blocks of the others.
LEMMA BlocksShrink ==
    ASSUME NEW S, NEW T
    PROVE  OfPieces(S) \ OfPieces(T) \subseteq OfPieces(S \ T)
BY BlockOf

\* A single piece.
LEMMA BlocksOfOne == \A i : OfPieces({i}) = BlocksOf(i)
BY BlockOf

-------------------------------------------------------------------------------
\* evaluateNextRequests keeps the tables it is given, and asks for no piece
\* that is there.
LEMMA EvaluateKeeps ==
    ASSUME NEW p \in Peers, NEW hs, NEW rq, NEW gt, NEW act, NEW sg, NEW cur,
           NEW pend, NEW inf, p \in inf, sortedSelectedPieces \subseteq Pieces,
           Tables(inf, rq, act, cur, pend), rq \cap hs = {},
           Evaluate(p, hs, rq, gt, act, sg, cur, pend)
    PROVE  /\ Tables(inf, requests', activePeers', currentRequests', pending')
           /\ requests' \cap hs = {}
<1>1. CASE p \in peerChoking
  BY <1>1 DEF Evaluate
<1>2. CASE p \notin peerChoking
  <2>1. PICK max \in MinPending .. MaxPending, add \in SUBSET Candidates(p, hs) :
           \E send \in SUBSET (OfPieces(cur[p] \cup add) \ (gt \cup pend[p])) :
              /\ BestRequests(p, max, add, send, hs, rq, gt, act, sg, cur, pend)
              /\ requests' = rq \cup (add \ rq)
              /\ got' = gt \cup (saved \cap OfPieces(add \ rq))
              /\ saved' = saved \ OfPieces(add \ rq)
              /\ activePeers' = [i \in Pieces |->
                    IF i \in add THEN act[i] \cup {p} ELSE act[i]]
              /\ currentRequests' = [cur EXCEPT ![p] = @ \cup add]
              /\ pending' = [pend EXCEPT ![p] = @ \cup send]
              /\ requestedPieces' = [requestedPieces EXCEPT ![p] = @ \cup add]
    BY <1>2, Zenon DEF Evaluate
  <2>2. PICK send \in SUBSET OfPieces(cur[p] \cup add) :
           /\ requests' = rq \cup add
           /\ activePeers' = [i \in Pieces |->
                 IF i \in add THEN act[i] \cup {p} ELSE act[i]]
           /\ currentRequests' = [cur EXCEPT ![p] = @ \cup add]
           /\ pending' = [pend EXCEPT ![p] = @ \cup send]
    BY <2>1
  <2>3. add \subseteq Pieces /\ add \cap hs = {}
    BY DEF Candidates, Missing
  <2>4. /\ OfPieces(cur[p]) \subseteq OfPieces(cur[p] \cup add)
        /\ OfPieces(cur[p] \cup add) \subseteq BlockSet
    BY <2>3, BlocksGrow DEF Tables, BlockSet
  <2>5. /\ requests' \subseteq Pieces /\ activePeers' \in [Pieces -> SUBSET Peers]
        /\ currentRequests' \in [Peers -> SUBSET Pieces]
    BY <2>2, <2>3 DEF Tables
  <2>6. pending' \in [Peers -> SUBSET BlockSet]
    BY <2>2, <2>4 DEF Tables
  <2>7. ASSUME NEW q \in Peers
        PROVE  /\ currentRequests'[q] \subseteq requests'
               /\ \A i \in Pieces :
                     q \in activePeers'[i] <=> i \in currentRequests'[q]
               /\ pending'[q] \subseteq OfPieces(currentRequests'[q])
               /\ currentRequests'[q] # {} => q \in inf
    <3>1. CASE q = p
      BY <2>2, <2>3, <2>4, <3>1 DEF Tables
    <3>2. CASE q # p
      BY <2>2, <2>3, <3>2 DEF Tables
    <3> QED  BY <3>1, <3>2
  <2>8. requests' \cap hs = {}
    BY <2>2, <2>3
  <2> QED  BY <2>5, <2>6, <2>7, <2>8 DEF Tables
<1> QED  BY <1>1, <1>2
-------------------------------------------------------------------------------
\* The invariant holds at first.
LEMMA DownloadInvInit == Init => DownloadInv
<1> SUFFICES ASSUME Init PROVE DownloadInv
  OBVIOUS
<1>1. Known  BY DEF Init, Known
<1>2. Tables(info, requests, activePeers, currentRequests, pending)
  BY DEF Init, Tables
<1>3. ChecksOf(has, checks, checkingPieces)
  BY FS_EmptySet DEF Init, ChecksOf
<1>4. requests \cap has = {}  BY DEF Init
<1> QED  BY <1>1, <1>2, <1>3, <1>4 DEF DownloadInv

\* What the invariant speaks of.
Held == <<has, sortedSelectedPieces, info, toEvaluate, requests, activePeers,
          currentRequests, pending, checks, checkingPieces>>

\* A step that leaves it alone keeps the invariant.
LEMMA HeldPreserves == DownloadInv /\ UNCHANGED Held => DownloadInv'
BY DEF Held, DownloadInv, Known, Tables, ChecksOf

\* Connections, messages that wait for the mutex, and the control.
LEMMA OthersPreserve ==
    ASSUME DownloadInv,
           \/ PopFreshPieces \/ Finish \/ PoolStopped \/ Start
           \/ \E set \in Selections : SelectFiles(set)
           \/ \E p \in Peers :
                \/ Connect(p) \/ ConnectionClosedUnheard(p)
                \/ ReceivePiece(p) \/ ReceiveUnchoke(p)
                \/ ReceiveBitfield(p) \/ ReceiveChoke(p)
                \/ \E i \in Pieces : ReceiveHave(p, i)
    PROVE  DownloadInv'
<1>1. UNCHANGED Held
  BY DEF PopFreshPieces, Finish, PoolStopped, Start, SelectFiles,
         Connect, ConnectionClosedUnheard, ReceivePiece, ReceiveUnchoke,
         ReceiveBitfield, ReceiveChoke, ReceiveHave, Receive, progressVars, requestVars, infoVars, checkVars,
         poolVars, controlVars, Held
<1> QED  BY <1>1, HeldPreserves

\* A closed connection leaves no trace of its peer.
LEMMA ConnectionClosedPreserves ==
    ASSUME DownloadInv, NEW p \in Peers, ConnectionClosed(p)
    PROVE  DownloadInv'
<1> USE DEF ConnectionClosed, DownloadInv
<1>1. Known'
  BY DEF Known, Unlocked, progressVars, controlVars
<1>2. Tables(info, requests, activePeers, currentRequests, pending)'
  <2>1. ASSUME NEW q \in Peers, NEW i \in Pieces
        PROVE  q \in activePeers'[i] <=> i \in currentRequests'[q]
    BY DEF Tables
  <2> QED  BY <2>1 DEF Tables
<1>3. ChecksOf(has, checks, checkingPieces)'
  BY DEF ChecksOf, progressVars, checkVars
<1>4. (requests \cap has = {})'
  BY DEF progressVars
<1> QED  BY <1>1, <1>2, <1>3, <1>4

\* The blocks a peer owed are forgotten (unchoke) or have come.
LEMMA FewerPending ==
    ASSUME NEW inf, NEW rq, NEW act, NEW cur, NEW pend, NEW p \in Peers, NEW set,
           Tables(inf, rq, act, cur, pend), set \subseteq pend[p]
    PROVE  Tables(inf, rq, act, cur, [pend EXCEPT ![p] = set])
BY DEF Tables

\* Unchoke, Have and Bitfield.
LEMMA HandlersPreserve ==
    ASSUME DownloadInv, NEW p \in Peers,
           HandleUnchoke(p) \/ HandlePieces(p) \/ EvaluatePeer(p)
    PROVE  DownloadInv'
<1> USE DEF DownloadInv
<1>1. UNCHANGED <<has, sortedSelectedPieces, checks, checkingPieces>>
  BY DEF HandleUnchoke, HandlePieces, EvaluatePeer, progressVars, checkVars,
         controlVars
<1>2. /\ ChecksOf(has, checks, checkingPieces)'
      /\ sortedSelectedPieces \subseteq Pieces
  BY <1>1 DEF ChecksOf, Known
<1>3. Known'
  BY <1>1 DEF HandleUnchoke, HandlePieces, EvaluatePeer, Known, controlVars
<1>4. /\ Tables(info, requests, activePeers, currentRequests, pending)'
      /\ requests' \cap has = {}
  <2>1. CASE HandleUnchoke(p)
    <3>1. CASE p \in info
      <4>1. Tables(info, requests, activePeers, currentRequests,
                   [pending EXCEPT ![p] = {}])
        BY FewerPending
      <4> QED  BY <2>1, <3>1, <4>1, <1>2, EvaluateKeeps DEF HandleUnchoke
    <3>2. CASE p \notin info
      BY <2>1, <3>2 DEF HandleUnchoke, Tables
    <3> QED  BY <3>1, <3>2
  <2>2. CASE HandlePieces(p)
    <3>1. CASE UNCHANGED <<info, requests, activePeers, currentRequests, pending>>
      BY <3>1 DEF Tables
    <3>2. CASE /\ info' = info \cup {p}
               /\ Evaluate(p, has, requests, got, activePeers, sourceGroups,
                           currentRequests, pending)
      <4>1. Tables(info', requests, activePeers, currentRequests, pending)
        BY <3>2 DEF Tables
      <4> QED  BY <3>2, <4>1, <1>2, EvaluateKeeps
    <3> QED  BY <2>2, <3>1, <3>2 DEF HandlePieces
  <2>3. CASE EvaluatePeer(p)
    <3>1. p \in info /\ info' = info
      BY <2>3 DEF EvaluatePeer, Known
    <3>2. CASE UNCHANGED <<requests, activePeers, currentRequests, pending>>
      BY <3>1, <3>2 DEF Tables
    <3> QED  BY <2>3, <3>1, <3>2, <1>2, EvaluateKeeps DEF EvaluatePeer
  <2> QED  BY <2>1, <2>2, <2>3
<1> QED  BY <1>1, <1>2, <1>3, <1>4
\* A block that does not complete its piece.
LEMMA BlockPreserves ==
    ASSUME DownloadInv, NEW p \in Peers, NEW i \in Pieces, NEW b, NEW good,
           DropBlock(p, i, b) \/ AddBlock(p, i, b, good),
           UNCHANGED <<info, controlVars>>
    PROVE  DownloadInv'
<1> USE DEF DownloadInv
<1>1. UNCHANGED <<has, checks, checkingPieces, info, sortedSelectedPieces,
                  toEvaluate>>
  BY DEF DropBlock, AddBlock, controlVars
<1>2. ChecksOf(has, checks, checkingPieces)' /\ Known'
  BY <1>1 DEF ChecksOf, Known
<1>3. Tables(info, requests, activePeers, currentRequests, Answered(p, i, b))
  BY FewerPending DEF Answered
<1>4. /\ Tables(info, requests', activePeers', currentRequests', pending')
      /\ requests' \cap has = {}
  <2>1. CASE DropBlock(p, i, b) /\ ~ Expected(p, i)
    BY <2>1 DEF DropBlock, Tables
  <2>2. CASE DropBlock(p, i, b) /\ Expected(p, i)
    <3>1. p \in info  BY <2>2 DEF Expected
    <3>2. Evaluate(p, has, requests, got, activePeers, sourceGroups,
                   currentRequests, Answered(p, i, b))
      BY <2>2 DEF DropBlock
    <3> QED  BY <3>1, <3>2, <1>3, EvaluateKeeps DEF Known
  <2>3. CASE AddBlock(p, i, b, good)
    <3>1. p \in info  BY <2>3 DEF AddBlock, Expected
    <3>2. Evaluate(p, has, requests, got \cup {<<i, b>>}, activePeers,
                   sourceGroups', currentRequests, Answered(p, i, b))
      BY <2>3 DEF AddBlock
    <3> QED  BY <3>1, <3>2, <1>3, EvaluateKeeps DEF Known
  <2> QED  BY <2>1, <2>2, <2>3
<1> QED  BY <1>1, <1>2, <1>4

\* A new check of a piece that was not there.
LEMMA NewCheck ==
    ASSUME NEW hs, NEW set, NEW count, NEW check, check.piece \notin hs,
           ChecksOf(hs, set, count)
    PROVE  ChecksOf(hs \cup {check.piece}, set \cup {check}, count + 1)
<1>1. check \notin set
  BY DEF ChecksOf
<1>2. /\ IsFiniteSet(set \cup {check})
      /\ Cardinality(set \cup {check}) = Cardinality(set) + 1
  BY <1>1, FS_AddElement DEF ChecksOf
<1> QED  BY <1>2 DEF ChecksOf

\* The last block of a piece: the request turns into a check, and a piece that
\* was requested was not there.
LEMMA CompletePiecePreserves ==
    ASSUME DownloadInv, NEW p \in Peers, NEW i \in Pieces, NEW b, NEW good,
           CompletePiece(p, i, b, good), UNCHANGED <<info, controlVars>>
    PROVE  DownloadInv'
<1> USE DEF DownloadInv
<1>1. /\ p \in info /\ i \in requests /\ i \notin has /\ has' = has \cup {i}
      /\ UNCHANGED <<info, sortedSelectedPieces, toEvaluate>>
  BY DEF CompletePiece, Expected, NewBlock, controlVars
<1>2. Known'
  BY <1>1 DEF Known
<1>3. ChecksOf(has, checks, checkingPieces)'
  <2>1. CASE Missing(i, has)
    <3> DEFINE check == [piece |-> i, sources |-> sources[i] \cup {p},
                         bad |-> ~ good \/ bad \cap BlocksOf(i) # {}]
    <3>1. checks' = checks \cup {check} /\ checkingPieces' = checkingPieces + 1
      BY <2>1 DEF CompletePiece
    <3>2. check.piece = i  OBVIOUS
    <3> HIDE DEF check
    <3> QED  BY <1>1, <3>1, <3>2, NewCheck
  <2>2. CASE ~ Missing(i, has)
    BY <1>1, <2>2 DEF CompletePiece, ChecksOf
  <2> QED  BY <2>1, <2>2
<1> DEFINE actEnd == [activePeers EXCEPT ![i] = {}]
           curEnd == [q \in Peers |-> currentRequests[q] \ {i}]
           pendEnd == [q \in Peers |-> pending[q] \ BlocksOf(i)]
<1>4. Evaluate(p, has', requests \ {i}, got \ BlocksOf(i), actEnd, sourceGroups',
               curEnd, pendEnd)
  BY DEF CompletePiece
\* A request that ends is taken from everybody who holds the piece.
<1>5. /\ actEnd = [activePeers EXCEPT ![i] = {}]
      /\ curEnd = [q \in Peers |-> currentRequests[q] \ {i}]
      /\ pendEnd = [q \in Peers |-> pending[q] \ BlocksOf(i)]
  OBVIOUS
<1> HIDE DEF actEnd, curEnd, pendEnd
<1>6. Tables(info, requests \ {i}, actEnd, curEnd, pendEnd)
  <2>1. ASSUME NEW q \in Peers
        PROVE  pendEnd[q] \subseteq OfPieces(curEnd[q])
    <3>1. OfPieces(currentRequests[q]) \ OfPieces({i})
             \subseteq OfPieces(currentRequests[q] \ {i})
      BY BlocksShrink
    <3>2. /\ curEnd[q] = currentRequests[q] \ {i}
          /\ pendEnd[q] = pending[q] \ BlocksOf(i)
      BY <1>5
    <3>3. pending[q] \subseteq OfPieces(currentRequests[q])
      BY DEF Tables
    <3>4. OfPieces({i}) = BlocksOf(i)
      BY BlocksOfOne
    <3> HIDE DEF DownloadInv
    <3> QED  BY <3>1, <3>2, <3>3, <3>4
  <2> QED  BY <1>5, <2>1 DEF Tables
<1>7. /\ Tables(info, requests', activePeers', currentRequests', pending')
      /\ requests' \cap has' = {}
  <2>1. (requests \ {i}) \cap has' = {}
    BY <1>1
  <2> QED  BY <1>1, <1>4, <1>6, <2>1, EvaluateKeeps DEF Known
<1> QED  BY <1>1, <1>2, <1>3, <1>7

\* A check ends: a piece that failed is gone, and no other check is of it.
LEMMA PieceCheckedPreserves ==
    ASSUME DownloadInv, NEW check \in checks, NEW status,
           PieceChecked(check, status)
    PROVE  DownloadInv'
<1> USE DEF DownloadInv
<1>1. /\ checks' = checks \ {check} /\ checkingPieces' = checkingPieces - 1
      /\ has' = has \/ has' = has \ {check.piece}
      /\ UNCHANGED <<info, requests, activePeers, currentRequests, pending,
                     sortedSelectedPieces, toEvaluate>>
  BY DEF PieceChecked, requestVars, infoVars, controlVars
<1>2. Known' /\ (requests \cap has = {})'
  BY <1>1 DEF Known
<1>3. Tables(info, requests, activePeers, currentRequests, pending)'
  BY <1>1 DEF Tables
<1>4. ChecksOf(has, checks, checkingPieces)'
  <2>1. IsFiniteSet(checks') /\ Cardinality(checks') = checkingPieces'
    BY <1>1, FS_RemoveElement DEF ChecksOf
  <2> QED  BY <1>1, <2>1 DEF ChecksOf
<1> QED  BY <1>2, <1>3, <1>4

\* A stop empties both tables.
LEMMA StopPreserves ==
    ASSUME DownloadInv, Stop
    PROVE  DownloadInv'
<1>1. Known'
  BY DEF DownloadInv, Known, Stop, Unlocked, progressVars
<1>2. Tables(info, requests, activePeers, currentRequests, pending)'
  BY DEF Stop, Tables
<1>3. ChecksOf(has, checks, checkingPieces)' /\ (requests \cap has = {})'
  BY DEF DownloadInv, ChecksOf, Stop, progressVars, checkVars
<1> QED  BY <1>1, <1>2, <1>3 DEF DownloadInv

\* refreshSelection drops requests from both tables alike; then it holds the
\* mutex for the peers it knows.
LEMMA RefreshPreserves ==
    ASSUME DownloadInv, RefreshLists \/ RefreshRequests
    PROVE  DownloadInv'
<1> USE DEF DownloadInv
<1>1. CASE RefreshRequests
  <2>1. Known'
    BY <1>1 DEF RefreshRequests, Known, progressVars, infoVars
  <2>2. UNCHANGED <<info, requests, activePeers, currentRequests, pending, has,
                    checks, checkingPieces>>
    BY <1>1 DEF RefreshRequests, progressVars, requestVars, infoVars, checkVars
  <2> QED  BY <2>1, <2>2 DEF Tables, ChecksOf
<1>2. CASE RefreshLists
  <2> DEFINE kept == {i \in requests : Missing(i, has)}
  <2>1. /\ requests' = kept
        /\ activePeers' = [i \in Pieces |->
              IF i \in kept THEN activePeers[i] ELSE {}]
        /\ currentRequests' = [p \in Peers |->
              currentRequests[p] \ (requests \ kept)]
        /\ pending' = [p \in Peers |-> pending[p] \ OfPieces(requests \ kept)]
        /\ sortedSelectedPieces' = Selected
        /\ UNCHANGED <<has, info, checks, checkingPieces, toEvaluate>>
    BY <1>2 DEF RefreshLists, progressVars, checkVars
  <2>2. kept \subseteq requests
    OBVIOUS
  <2> HIDE DEF kept
  <2>3. /\ Known' /\ (requests \cap has = {})'
        /\ ChecksOf(has, checks, checkingPieces)'
    BY <2>1, <2>2 DEF Known, ChecksOf, Selected
  <2>4. ASSUME NEW p \in Peers
        PROVE  pending'[p] \subseteq OfPieces(currentRequests'[p])
    <3>1. OfPieces(currentRequests[p]) \ OfPieces(requests \ kept)
             \subseteq OfPieces(currentRequests[p] \ (requests \ kept))
      BY BlocksShrink
    <3> QED  BY <2>1, <3>1 DEF Tables
  <2>5. Tables(info, requests, activePeers, currentRequests, pending)'
    BY <2>1, <2>2, <2>4 DEF Tables
  <2> QED  BY <2>3, <2>5
<1> QED  BY <1>1, <1>2

-------------------------------------------------------------------------------
\* Every step keeps the invariant: one case per action.
LEMMA DownloadInvNext == DownloadInv /\ [Next]_vars => DownloadInv'
<1> SUFFICES ASSUME DownloadInv, [Next]_vars PROVE DownloadInv'
  OBVIOUS
<1>1. CASE UNCHANGED vars
  BY <1>1, HeldPreserves DEF vars, progressVars, requestVars, infoVars, checkVars,
                             controlVars, Held
<1>2. ASSUME NEW p \in Peers, PeerNext(p) PROVE DownloadInv'
  <2>1. ASSUME NEW i \in Pieces, NEW b, NEW good, HandlePiece(p, i, b, good)
        PROVE  DownloadInv'
    BY <2>1, BlockPreserves, CompletePiecePreserves DEF HandlePiece
  <2> QED  BY <1>2, <2>1, OthersPreserve, ConnectionClosedPreserves,
              HandlersPreserve DEF PeerNext
<1>3. ASSUME NEW check \in checks,
             NEW status \in {"Success", "Mismatch", "Error"},
             PieceChecked(check, status)
      PROVE  DownloadInv'
  BY <1>3, PieceCheckedPreserves
<1>4. CASE PopFreshPieces \/ Finish \/ PoolStopped \/ Start
           \/ \E set \in Selections : SelectFiles(set)
  BY <1>4, OthersPreserve
<1>5. CASE Stop \/ RefreshLists \/ RefreshRequests
  BY <1>5, StopPreserves, RefreshPreserves
<1> QED  BY <1>1, <1>2, <1>3, <1>4, <1>5 DEF Next

\* The invariant holds throughout.
LEMMA DownloadInvariant == Spec => []DownloadInv
BY DownloadInvInit, DownloadInvNext, PTL DEF Spec

\* A request lists a peer as active exactly while that peer holds the piece as
\* current, and a peer holds only pieces that are requested, for any number of
\* pieces and connections (Downloader::messageReceived, connectionClosed,
\* refreshSelection, stop).
THEOREM TablesAgree == Spec => []RequestsConsistent
<1>1. DownloadInv => RequestsConsistent
  BY DEF DownloadInv, Tables, RequestsConsistent
<1> QED  BY <1>1, DownloadInvariant, PTL

\* A piece is requested, or received and in one check at most, and
\* checkingPieces counts the checks that finish waits for
\* (Downloader::pieceBlockReceived, pieceChecked).
THEOREM PieceInOnePlace == Spec => []NoPieceTwice
<1>1. DownloadInv => NoPieceTwice
  BY DEF DownloadInv, ChecksOf, NoPieceTwice
<1> QED  BY <1>1, DownloadInvariant, PTL
-------------------------------------------------------------------------------
(* Types. *)

\* What may still disturb a behaviour.
BudgetSet == [selections : Nat, badBlocks : Nat, storageErrors : Nat, stops : Nat,
         starts : Nat]

RequestTypes ==
    /\ got \subseteq BlockSet /\ saved \subseteq BlockSet /\ bad \subseteq BlockSet
    /\ sources \in [Pieces -> SUBSET Peers]
    /\ sourceGroups \in [Pieces -> SUBSET (1 .. GroupIdx)]
    /\ requestedPieces \in [Peers -> SUBSET Pieces] /\ amInterested \subseteq Peers

SuspicionTypes ==
    /\ suspicion \in [Peers -> Nat] /\ suspiciousGroup \in [Peers -> 0 .. GroupIdx]
    /\ GroupIdx \in Nat

ConnectionTypes ==
    /\ connection \in [Peers -> {"none", "open", "closing"}]
    /\ unwanted \subseteq Peers /\ peerChoking \subseteq Peers
    /\ peerHas \in [Peers -> SUBSET Pieces]
    /\ handling \in [Peers -> {"none", "Piece", "Unchoke", "Bitfield", "Have"}]

CheckTypes ==
    /\ unselected \subseteq Pieces /\ verified \subseteq Pieces
    /\ readded \subseteq Pieces
    /\ checks \subseteq CheckSet /\ freshPieces \subseteq Pieces

ControlTypes ==
    /\ pool \in {"stopped", "running", "draining"} /\ finishPosted \in BOOLEAN
    /\ started \in BOOLEAN /\ starting \in BOOLEAN
    /\ refresh \in {"idle", "lists", "evaluate"}
    /\ budget \in BudgetSet

Types == /\ DownloadInv /\ RequestTypes /\ SuspicionTypes
         /\ ConnectionTypes /\ CheckTypes /\ ControlTypes

\* The parts, with what DownloadInv says, are all types.
LEMMA TypesAreAll == Types => TypeOK
<1> SUFFICES ASSUME Types PROVE TypeOK
  OBVIOUS
<1>1. checkingPieces \in Int
  BY FS_CardinalityType DEF Types, DownloadInv, ChecksOf
<1> QED
  BY <1>1 DEF Types, TypeOK, DownloadInv, Known, Tables, RequestTypes,
       SuspicionTypes, ConnectionTypes, CheckTypes, ControlTypes, BudgetSet

\* Types of the first state.
LEMMA TypesInit == Init => Types
<1> SUFFICES ASSUME Init PROVE Types
  OBVIOUS
<1>1. RequestTypes /\ SuspicionTypes /\ ConnectionTypes /\ CheckTypes
  BY BoundsAssumption DEF Init, RequestTypes, SuspicionTypes, ConnectionTypes,
                          CheckTypes
<1>2. ControlTypes
  BY BoundsAssumption DEF Init, ControlTypes, BudgetSet
<1> QED  BY <1>1, <1>2, DownloadInvInit DEF Types

\* A disturbance less.
LEMMA SpendType ==
    ASSUME budget \in BudgetSet,
           NEW kind \in {"selections", "badBlocks", "storageErrors", "stops", "starts"},
           Spend(kind)
    PROVE  budget' \in BudgetSet
BY DEF Spend, BudgetSet

\* evaluateNextRequests.
LEMMA EvaluateTypes ==
    ASSUME NEW p \in Peers, NEW hs, NEW rq, NEW gt, NEW act, NEW sg, NEW cur,
           NEW pend, RequestTypes, sortedSelectedPieces \subseteq Pieces,
           gt \subseteq BlockSet,
           Evaluate(p, hs, rq, gt, act, sg, cur, pend)
    PROVE  /\ got' \subseteq BlockSet /\ saved' \subseteq saved
           /\ requestedPieces' \in [Peers -> SUBSET Pieces]
           /\ amInterested' \subseteq Peers
<1>1. CASE p \in peerChoking
  BY <1>1 DEF Evaluate, RequestTypes
<1>2. CASE p \notin peerChoking
  <2>1. PICK add \in SUBSET Candidates(p, hs) :
           /\ got' = gt \cup (saved \cap OfPieces(add \ rq))
           /\ saved' = saved \ OfPieces(add \ rq)
           /\ requestedPieces' = [requestedPieces EXCEPT ![p] = @ \cup add]
           /\ UNCHANGED amInterested
    BY <1>2, Zenon DEF Evaluate
  <2>2. add \subseteq Pieces
    BY DEF Candidates
  <2> QED  BY <2>1, <2>2 DEF RequestTypes
<1> QED  BY <1>1, <1>2

\* Connections and messages that wait for the mutex.
LEMMA ConnectTypes ==
    ASSUME Types, NEW p \in Peers,
           \/ Connect(p) \/ ConnectionClosedUnheard(p)
           \/ ReceivePiece(p) \/ ReceiveUnchoke(p)
           \/ ReceiveBitfield(p) \/ ReceiveChoke(p)
           \/ \E i \in Pieces : ReceiveHave(p, i)
    PROVE  (/\ RequestTypes /\ SuspicionTypes /\ ConnectionTypes
            /\ CheckTypes /\ ControlTypes)'
<1> USE DEF Types
<1>1. UNCHANGED <<progressVars, requestVars, infoVars, suspicionVars, unwanted,
                  checkVars, poolVars, controlVars, budget>>
  BY DEF Connect, ConnectionClosedUnheard, ConnectionEnds, ReceivePiece,
         ReceiveUnchoke, ReceiveBitfield, ReceiveChoke,
         ReceiveHave, Receive
<1>2. amInterested' \subseteq amInterested
  BY DEF Connect, ConnectionClosedUnheard, ConnectionEnds, ReceivePiece,
         ReceiveUnchoke, ReceiveBitfield, ReceiveChoke,
         ReceiveHave, Receive
<1>3. /\ RequestTypes' /\ SuspicionTypes' /\ CheckTypes' /\ ControlTypes'
  BY <1>1, <1>2 DEF progressVars, requestVars, infoVars, suspicionVars, checkVars,
       poolVars, controlVars, RequestTypes, SuspicionTypes, CheckTypes, ControlTypes
<1>4. peerHas' \in [Peers -> SUBSET Pieces]
  BY SetsAssumption DEF Connect, ConnectionClosedUnheard, ConnectionEnds, ReceivePiece,
         ReceiveUnchoke, ReceiveBitfield,
       ReceiveChoke, ReceiveHave, ConnectionTypes
<1>5. peerChoking' \subseteq Peers
  BY DEF Connect, ConnectionClosedUnheard, ConnectionEnds, ReceivePiece,
         ReceiveUnchoke, ReceiveBitfield,
       ReceiveChoke, ReceiveHave, ConnectionTypes
<1>6. /\ connection' \in [Peers -> {"none", "open", "closing"}]
      /\ handling' \in [Peers -> {"none", "Piece", "Unchoke", "Bitfield", "Have"}]
  BY DEF Connect, ConnectionClosedUnheard, ConnectionEnds, ReceivePiece,
         ReceiveUnchoke, ReceiveBitfield, ReceiveChoke,
         ReceiveHave, Receive, Closed, ConnectionTypes
<1> QED  BY <1>1, <1>3, <1>4, <1>5, <1>6 DEF ConnectionTypes

\* connectionClosed.
LEMMA ConnectionClosedTypes ==
    ASSUME Types, NEW p \in Peers, ConnectionClosed(p)
    PROVE  (/\ RequestTypes /\ SuspicionTypes /\ ConnectionTypes
            /\ CheckTypes /\ ControlTypes)'
<1> USE BoundsAssumption
    DEF Types, ConnectionClosed, ConnectionEnds, progressVars, checkVars, poolVars, controlVars
<1>1. RequestTypes'
  BY DEF RequestTypes
<1>2. SuspicionTypes'
  BY DEF SuspicionTypes
<1>3. ConnectionTypes' /\ CheckTypes'
  BY DEF ConnectionTypes, CheckTypes
<1>4. ControlTypes'
  BY DEF ControlTypes
<1> QED  BY <1>1, <1>2, <1>3, <1>4

\* Unchoke, Have and Bitfield.
LEMMA HandlersTypes ==
    ASSUME Types, NEW p \in Peers,
           HandleUnchoke(p) \/ HandlePieces(p) \/ EvaluatePeer(p)
    PROVE  (/\ RequestTypes /\ SuspicionTypes /\ ConnectionTypes
            /\ CheckTypes /\ ControlTypes)'
<1> USE DEF Types
<1>1. UNCHANGED <<progressVars, sources, sourceGroups, bad, suspicionVars,
                  connection, unwanted, peerChoking, peerHas, checkVars, poolVars,
                  started, starting, refresh, budget>>
  BY DEF HandleUnchoke, HandlePieces, EvaluatePeer, controlVars
<1>2. handling' = handling \/ handling' = [handling EXCEPT ![p] = "none"]
  BY DEF HandleUnchoke, HandlePieces, EvaluatePeer, Handle
<1>3. /\ got' \subseteq BlockSet /\ saved' \subseteq saved
      /\ requestedPieces' \in [Peers -> SUBSET Pieces]
      /\ amInterested' \subseteq Peers
  <2>1. CASE UNCHANGED <<got, saved, requestedPieces, amInterested>>
    BY <2>1 DEF RequestTypes
  <2>2. CASE \E cur, pend : Evaluate(p, has, requests, got, activePeers,
                                     sourceGroups, cur, pend)
    BY <2>2, EvaluateTypes DEF RequestTypes, DownloadInv, Known
  <2> QED  BY <2>1, <2>2 DEF HandleUnchoke, HandlePieces, EvaluatePeer
<1>4. RequestTypes' /\ SuspicionTypes'
  BY <1>1, <1>3 DEF RequestTypes, SuspicionTypes, suspicionVars
<1>5. ConnectionTypes' /\ CheckTypes' /\ ControlTypes'
  BY <1>1, <1>2 DEF ConnectionTypes, CheckTypes, ControlTypes, progressVars,
                    checkVars, poolVars
<1> QED  BY <1>4, <1>5

\* A block.
LEMMA HandlePieceTypes ==
    ASSUME Types, NEW p \in Peers, NEW i \in Pieces, NEW b \in Blocks[i],
           NEW good \in BOOLEAN, HandlePiece(p, i, b, good)
    PROVE  (/\ RequestTypes /\ SuspicionTypes /\ ConnectionTypes
            /\ CheckTypes /\ ControlTypes)'
<1> USE DEF Types
<1>1. UNCHANGED <<unselected, verified, readded, suspicionVars, connection, unwanted,
                  peerChoking, peerHas, freshPieces, poolVars, controlVars>>
  BY DEF HandlePiece
<1>2. handling' = [handling EXCEPT ![p] = "none"]
  BY DEF HandlePiece, Handle
<1>3. SuspicionTypes' /\ ConnectionTypes'
  BY <1>1, <1>2 DEF SuspicionTypes, ConnectionTypes, suspicionVars
<1>4. ControlTypes'
  <2>1. CASE UNCHANGED budget
    BY <1>1, <2>1 DEF ControlTypes, poolVars, controlVars
  <2>2. CASE Spend("badBlocks")
    <3>1. budget' \in BudgetSet
      BY <2>2, SpendType DEF ControlTypes
    <3> QED  BY <1>1, <3>1 DEF ControlTypes, poolVars, controlVars
  <2> QED  BY <2>1, <2>2 DEF HandlePiece, DropBlock, AddBlock, CompletePiece, Sent
<1>5. <<i, b>> \in BlockSet
  BY BlockOf DEF BlockSet, BlocksOf
<1>6. /\ got' \subseteq BlockSet /\ saved' \subseteq saved
      /\ requestedPieces' \in [Peers -> SUBSET Pieces]
      /\ amInterested' \subseteq Peers
  <2>1. CASE UNCHANGED <<got, saved, requestedPieces, amInterested>>
    BY <2>1 DEF RequestTypes
  <2>2. CASE \E hs, rq, gt, act, sg, cur, pend :
                /\ gt \subseteq got \cup {<<i, b>>}
                /\ Evaluate(p, hs, rq, gt, act, sg, cur, pend)
    <3>1. PICK hs, rq, gt, act, sg, cur, pend :
             /\ gt \subseteq got \cup {<<i, b>>}
             /\ Evaluate(p, hs, rq, gt, act, sg, cur, pend)
      BY <2>2
    <3>2. gt \subseteq BlockSet
      BY <1>5, <3>1 DEF RequestTypes
    <3> QED  BY <3>1, <3>2, EvaluateTypes DEF DownloadInv, Known
  <2>3. CASE DropBlock(p, i, b)
    BY <2>1, <2>2, <2>3 DEF DropBlock
  <2>4. CASE AddBlock(p, i, b, good)
    BY <2>2, <2>4 DEF AddBlock
  <2>5. CASE CompletePiece(p, i, b, good)
    <3>1. got \ BlocksOf(i) \subseteq got \cup {<<i, b>>}
      OBVIOUS
    <3> QED  BY <2>2, <2>5, <3>1 DEF CompletePiece
  <2> QED  BY <2>3, <2>4, <2>5 DEF HandlePiece
<1>7. /\ bad' \subseteq BlockSet /\ sources' \in [Pieces -> SUBSET Peers]
      /\ sourceGroups' \in [Pieces -> SUBSET (1 .. GroupIdx)]
  <2>1. SourceGroups(p, i) \in SUBSET (1 .. GroupIdx)
    BY BoundsAssumption DEF SourceGroups, RequestTypes, SuspicionTypes
  <2> QED  BY <1>5, <2>1 DEF HandlePiece, DropBlock, AddBlock, CompletePiece, RequestTypes
<1>8. RequestTypes'
  BY <1>1, <1>6, <1>7 DEF RequestTypes, suspicionVars
<1>9. checks' \subseteq CheckSet
  <2>1. [piece |-> i, sources |-> sources[i] \cup {p},
         bad |-> ~ good \/ bad \cap BlocksOf(i) # {}] \in CheckSet
    BY DEF CheckSet, RequestTypes
  <2> QED  BY <2>1 DEF HandlePiece, DropBlock, AddBlock, CompletePiece, CheckTypes
<1>10. CheckTypes'
  BY <1>1, <1>9 DEF CheckTypes
<1> QED  BY <1>3, <1>4, <1>8, <1>10

\* The end of a check.
LEMMA PieceCheckedTypes ==
    ASSUME Types, NEW check \in checks, NEW status \in {"Success", "Mismatch", "Error"},
           PieceChecked(check, status)
    PROVE  (/\ RequestTypes /\ SuspicionTypes /\ ConnectionTypes
            /\ CheckTypes /\ ControlTypes)'
<1> USE DEF Types
<1>1. UNCHANGED <<unselected, readded, requestVars, infoVars, peerChoking, amInterested,
                  peerHas, handling, pool, controlVars>>
  BY DEF PieceChecked
<1>2. CheckTypes'
  BY <1>1 DEF PieceChecked, CheckTypes, CheckSet
<1>3. ControlTypes'
  <2>1. budget' \in BudgetSet
    BY SpendType DEF PieceChecked, ControlTypes
  <2>2. finishPosted' \in BOOLEAN
    BY DEF PieceChecked, ControlTypes
  <2> QED  BY <1>1, <2>1, <2>2 DEF ControlTypes, controlVars
<1>4. RefreshPieceSources(status, check.sources)
  BY DEF PieceChecked
<1>5. /\ SuspicionTypes' /\ GroupIdx' \in {GroupIdx, GroupIdx + 1}
  <2>1. CASE status = "Success"
    BY <1>4, <2>1, BoundsAssumption DEF RefreshPieceSources, SuspicionTypes
  <2>2. CASE status = "Mismatch"
    <3> DEFINE known == check.sources \cap info
               culprits == Culprits(check.sources)
               cleared == {suspiciousGroup[p] : p \in culprits}
    <3>1. /\ GroupIdx' = GroupIdx + 1
          /\ suspicion' = [p \in Peers |->
                IF p \in known THEN suspicion[p] + 1 ELSE suspicion[p]]
          /\ suspiciousGroup' = [p \in Peers |->
                IF p \in known \ culprits THEN GroupIdx'
                ELSE IF suspiciousGroup[p] \in cleared THEN NoGroup
                ELSE suspiciousGroup[p]]
      BY <1>4, <2>2 DEF RefreshPieceSources
    <3> HIDE DEF known, culprits, cleared
    <3>2. suspicion' \in [Peers -> Nat]
      BY <3>1 DEF SuspicionTypes
    <3>3. /\ GroupIdx' \in Nat /\ GroupIdx' \in 0 .. GroupIdx' /\ 0 \in 0 .. GroupIdx'
          /\ 0 .. GroupIdx \subseteq 0 .. GroupIdx'
      BY <3>1 DEF SuspicionTypes
    <3>4. suspiciousGroup' \in [Peers -> 0 .. GroupIdx']
      BY <3>1, <3>3, BoundsAssumption DEF SuspicionTypes
    <3> QED  BY <3>1, <3>2, <3>3, <3>4 DEF SuspicionTypes
  <2>3. CASE status = "Error"
    BY <1>4, <2>3 DEF RefreshPieceSources, SuspicionTypes, suspicionVars
  <2> QED  BY <2>1, <2>2, <2>3
<1>6. /\ connection' \in [Peers -> {"none", "open", "closing"}]
      /\ unwanted' \subseteq Peers
  BY <1>4 DEF RefreshPieceSources, Closed, Culprits, ConnectionTypes, DownloadInv, Known
<1>7. ConnectionTypes'
  BY <1>1, <1>6 DEF ConnectionTypes
<1>8. 1 .. GroupIdx \subseteq 1 .. GroupIdx'
  BY <1>5 DEF SuspicionTypes
<1>9. RequestTypes'
  BY <1>1, <1>8 DEF RequestTypes, requestVars, infoVars
<1> QED  BY <1>2, <1>3, <1>5, <1>7, <1>9

\* The end of a download, stop, start and the refresh of the selection.
LEMMA ControlStepTypes ==
    ASSUME Types,
           \/ PopFreshPieces \/ Finish \/ PoolStopped \/ Start \/ Stop
           \/ \E set \in Selections : SelectFiles(set)
           \/ RefreshLists \/ RefreshRequests
    PROVE  (/\ RequestTypes /\ SuspicionTypes /\ ConnectionTypes
            /\ CheckTypes /\ ControlTypes)'
<1> USE DEF Types, progressVars, checkVars, poolVars, controlVars, connectionVars,
            suspicionVars
<1>1. CASE \/ PopFreshPieces \/ Finish \/ PoolStopped \/ Start
           \/ \E set \in Selections : SelectFiles(set)
           \/ RefreshRequests
  <2>1. UNCHANGED <<requestVars, infoVars, suspicionVars, unwanted, peerChoking,
                    amInterested, peerHas, handling, verified, checks>>
    BY <1>1 DEF PopFreshPieces, Finish, PoolStopped, Start, SelectFiles, RefreshRequests
  <2>2. RequestTypes' /\ SuspicionTypes'
    BY <2>1 DEF requestVars, infoVars, RequestTypes, SuspicionTypes
  <2>3. connection' \in [Peers -> {"none", "open", "closing"}]
    BY <1>1 DEF PopFreshPieces, Finish, PoolStopped, Start, SelectFiles,
                RefreshRequests, Closed, ConnectionTypes
  <2>4. /\ unselected' \subseteq Pieces /\ freshPieces' \subseteq Pieces
        /\ readded' \subseteq Pieces
    BY <1>1, BoundsAssumption
       DEF PopFreshPieces, Finish, PoolStopped, Start, SelectFiles,
           RefreshRequests, CheckTypes
  <2>5. budget' \in BudgetSet
    BY <1>1, SpendType DEF PopFreshPieces, Finish, PoolStopped, Start, SelectFiles,
                           RefreshRequests, ControlTypes
  <2>6. /\ pool' \in {"stopped", "running", "draining"} /\ finishPosted' \in BOOLEAN
        /\ started' \in BOOLEAN /\ starting' \in BOOLEAN
        /\ refresh' \in {"idle", "lists", "evaluate"}
    BY <1>1 DEF PopFreshPieces, Finish, PoolStopped, Start, SelectFiles,
                RefreshRequests, ControlTypes
  <2> QED  BY <2>1, <2>2, <2>3, <2>4, <2>5, <2>6
           DEF ConnectionTypes, CheckTypes, ControlTypes
<1>2. CASE Stop
  <2>1. RequestTypes'
    BY <1>2 DEF Stop, RequestTypes
  <2>2. SuspicionTypes'
    BY <1>2, BoundsAssumption DEF Stop, SuspicionTypes
  <2>3. ConnectionTypes' /\ CheckTypes'
    BY <1>2 DEF Stop, Closed, ConnectionTypes, CheckTypes
  <2>4. budget' \in BudgetSet
    BY <1>2, SpendType DEF Stop, ControlTypes
  <2>5. ControlTypes'
    BY <1>2, <2>4 DEF Stop, ControlTypes
  <2> QED  BY <2>1, <2>2, <2>3, <2>5
<1>3. CASE RefreshLists
  <2>1. /\ got' \subseteq got /\ bad' \subseteq bad
        /\ \E kept : /\ sources' = [i \in Pieces |-> IF i \in kept THEN sources[i] ELSE {}]
                     /\ sourceGroups' = [i \in Pieces |->
                                            IF i \in kept THEN sourceGroups[i] ELSE {}]
        /\ UNCHANGED <<saved, requestedPieces, amInterested, suspicionVars, connectionVars,
                       handling, progressVars, checkVars, poolVars, started,
                       starting, budget>>
        /\ refresh' = "evaluate"
    BY <1>3 DEF RefreshLists
  <2>2. RequestTypes' /\ SuspicionTypes'
    BY <2>1 DEF RequestTypes, SuspicionTypes
  <2>3. ConnectionTypes' /\ CheckTypes' /\ ControlTypes'
    BY <2>1 DEF ConnectionTypes, CheckTypes, ControlTypes
  <2> QED  BY <2>2, <2>3
<1> QED  BY <1>1, <1>2, <1>3

\* Every step keeps the types: one case per action.
LEMMA TypesNext == Types /\ [Next]_vars => Types'
<1> SUFFICES ASSUME Types, [Next]_vars PROVE Types'
  OBVIOUS
<1> DEFINE Kept == (/\ RequestTypes /\ SuspicionTypes /\ ConnectionTypes
                    /\ CheckTypes /\ ControlTypes)'
<1>1. CASE UNCHANGED vars
  <2>1. RequestTypes' /\ SuspicionTypes' /\ ConnectionTypes'
    BY <1>1 DEF Types, vars, requestVars, infoVars, suspicionVars, connectionVars,
                RequestTypes, SuspicionTypes, ConnectionTypes
  <2>2. CheckTypes' /\ ControlTypes'
    BY <1>1 DEF Types, vars, progressVars, checkVars, poolVars, controlVars,
                CheckTypes, ControlTypes
  <2> QED  BY <2>1, <2>2, DownloadInvNext DEF Types
<1>2. CASE Next
  <2>1. Kept
    BY <1>2, ConnectTypes, ConnectionClosedTypes, HandlersTypes, HandlePieceTypes,
       PieceCheckedTypes, ControlStepTypes, Zenon DEF Next, PeerNext
  <2> QED  BY <2>1, DownloadInvNext DEF Types
<1> QED  BY <1>1, <1>2

-------------------------------------------------------------------------------
(* What follows a download through its stops.  A piece deselected before its  *)
(* last block is received without a check, and selecting it again finds it     *)
(* received; a finish posted before something is added back stops the storage. *)

\* Nothing is left to download or to check.
Done == SelectionFinished /\ checks = {}

\* The storage threads rest only when nothing is left: not under a download
\* that goes on, nor under one that is about to.
ThreadsRest ==
    /\ finishPosted => Done
    /\ started /\ pool # "running" => Done
    /\ starting /\ pool = "draining" => Done
    /\ pool = "stopped" => checks = {}
    /\ starting => ~ started

\* A block of before the stop is of a peer that is not known any more.
StopForgets == ~ started => \A p \in info : handling[p] # "Piece"

\* Pieces that have been selected all the time.
Throughout == Selected \ readded

\* Pieces that passed their check, or wait for it; all that were selected when
\* finish was posted have passed it.
Passed ==
    /\ Throughout \cap has \subseteq verified \cup {c.piece : c \in checks}
    /\ freshPieces \subseteq verified \cap has
    /\ \A c \in checks : c.piece \notin freshPieces
    /\ finishPosted => Throughout \subseteq verified

EndParts == StopForgets /\ (readded = {} => ThreadsRest) /\ Passed

EndInv == Types /\ EndParts

\* The invariant holds at first.
LEMMA EndInvInit == Init => EndInv
<1> SUFFICES ASSUME Init PROVE EndInv
  OBVIOUS
<1>1. EndParts
  BY DEF Init, StopForgets, ThreadsRest, Passed, EndParts
<1> QED  BY <1>1, TypesInit DEF EndInv

\* What the invariant speaks of, but for the messages that wait.
Ending == <<has, verified, unselected, readded, checks, freshPieces, pool,
            finishPosted, started, starting>>

\* A step that leaves it alone keeps the invariant when it does not let a block
\* of before a stop in.
LEMMA EndingPreserves ==
    ASSUME EndParts, UNCHANGED Ending,
           ~ started => \A p \in info' : handling'[p] # "Piece"
    PROVE  EndParts'
BY DEF Ending, EndParts, StopForgets, ThreadsRest, Passed, Throughout, Done,
       SelectionFinished, Selected

\* What is finished stays so while nothing is selected, checked or lost.
LEMMA DoneStays ==
    ASSUME Done, unselected \subseteq unselected', has \subseteq has', checks' \subseteq checks
    PROVE  Done'
BY DEF Done, SelectionFinished, Selected

\* Connections and the messages without a block.
LEMMA MessagesKeepEnd ==
    ASSUME EndInv, NEW p \in Peers,
           \/ Connect(p) \/ ConnectionClosed(p) \/ ConnectionClosedUnheard(p)
           \/ ReceivePiece(p) \/ ReceiveUnchoke(p) \/ ReceiveBitfield(p) \/ ReceiveChoke(p)
           \/ \E i \in Pieces : ReceiveHave(p, i)
           \/ HandleUnchoke(p) \/ HandlePieces(p) \/ EvaluatePeer(p)
    PROVE  EndParts'
<1> USE DEF EndInv
<1>1. UNCHANGED Ending
  BY DEF Connect, ConnectionClosed, ConnectionClosedUnheard, ReceivePiece,
         ReceiveUnchoke, ReceiveBitfield, ReceiveChoke, ReceiveHave, Receive,
         HandleUnchoke, HandlePieces, EvaluatePeer, progressVars, checkVars,
         poolVars, controlVars, Ending
<1>2. ASSUME ~ started PROVE \A q \in info' : handling'[q] # "Piece"
  <2>1. CASE /\ info' \subseteq info \cup {p}
             /\ handling' = [handling EXCEPT ![p] = "none"]
    BY <1>2, <2>1 DEF EndParts, StopForgets, Types, ConnectionTypes
  <2>2. CASE info' \subseteq info /\ handling' = handling
    BY <1>2, <2>2 DEF EndParts, StopForgets
  <2>3. CASE HandleUnchoke(p) \/ HandlePieces(p)
    BY <2>1, <2>3 DEF HandleUnchoke, HandlePieces, Handle
  <2>4. CASE \/ Connect(p) \/ ConnectionClosed(p) \/ ConnectionClosedUnheard(p)
             \/ ReceiveChoke(p) \/ EvaluatePeer(p)
    BY <2>2, <2>4 DEF Connect, ConnectionClosed, ConnectionClosedUnheard,
                      ReceiveChoke, EvaluatePeer, infoVars
  <2> QED  BY <1>2, <2>3, <2>4 DEF ReceivePiece, ReceiveUnchoke, ReceiveBitfield,
                                   ReceiveHave, Receive
<1> QED  BY <1>1, <1>2, EndingPreserves

\* A block: the last one of a piece that is wanted starts a check, and the
\* threads are there for it.
LEMMA PieceKeepsEnd ==
    ASSUME EndInv, NEW p \in Peers, NEW i \in Pieces, NEW b \in Blocks[i],
           NEW good \in BOOLEAN, HandlePiece(p, i, b, good)
    PROVE  EndParts'
<1> USE DEF EndInv, EndParts
<1>1. /\ UNCHANGED <<unselected, verified, readded, info, freshPieces, pool,
                     finishPosted, started, starting>>
      /\ handling[p] = "Piece" /\ handling' = [handling EXCEPT ![p] = "none"]
  BY DEF HandlePiece, Handle, poolVars, controlVars
<1>2. StopForgets'
  BY <1>1 DEF StopForgets, Types, ConnectionTypes
<1>3. CASE UNCHANGED <<has, checks>>
  BY <1>1, <1>2, <1>3, EndingPreserves DEF Ending, StopForgets
<1>4. CASE CompletePiece(p, i, b, good)
  <2>1. /\ p \in info /\ i \in requests /\ has' = has \cup {i}
        /\ IF Missing(i, has)
           THEN \E check : check.piece = i /\ checks' = checks \cup {check}
           ELSE checks' = checks
    <3> DEFINE new == [piece |-> i, sources |-> sources[i] \cup {p},
                       bad |-> ~ good \/ bad \cap BlocksOf(i) # {}]
    <3>1. new.piece = i
      OBVIOUS
    <3>2. Missing(i, has) => checks' = checks \cup {new}
      BY <1>4 DEF CompletePiece
    <3> HIDE DEF new
    <3> QED  BY <1>4, <3>1, <3>2 DEF CompletePiece, Expected, NewBlock
  <2>2. started /\ i \notin has
    BY <1>1, <2>1 DEF StopForgets, Types, DownloadInv
  <2>3. CASE Missing(i, has)
    <3>1. ~ Done
      BY <2>3 DEF Missing, Done, SelectionFinished, Selected
    <3>2. readded' = {} => ThreadsRest'
      BY <1>1, <2>2, <3>1 DEF ThreadsRest, Types, ControlTypes
    <3>3. PICK check : check.piece = i /\ checks' = checks \cup {check}
      BY <2>1, <2>3
    <3>4. Passed'
      BY <1>1, <2>1, <2>2, <3>3 DEF Passed, Throughout, Selected
    <3> QED  BY <1>2, <3>2, <3>4
  <2>4. CASE ~ Missing(i, has)
    <3>1. i \in unselected /\ checks' = checks
      BY <2>1, <2>2, <2>4 DEF Missing
    <3>2. Done => Done'
      BY <1>1, <2>1, <3>1, DoneStays
    <3>3. readded' = {} => ThreadsRest'
      BY <1>1, <3>1, <3>2 DEF ThreadsRest
    <3>4. Passed'
      BY <1>1, <2>1, <3>1 DEF Passed, Throughout, Selected
    <3> QED  BY <1>2, <3>3, <3>4
  <2> QED  BY <2>3, <2>4
<1> QED  BY <1>3, <1>4 DEF HandlePiece, DropBlock, AddBlock

\* The end of a check: it passes, or the piece is gone.
LEMMA CheckKeepsEnd ==
    ASSUME EndInv, NEW check \in checks, NEW status, PieceChecked(check, status)
    PROVE  EndParts'
<1> USE DEF EndInv, EndParts
<1>1. /\ pool # "stopped" /\ checks' = checks \ {check}
      /\ checkingPieces' = checkingPieces - 1
      /\ UNCHANGED <<unselected, readded, pool, started, starting, info, handling>>
  BY DEF PieceChecked, infoVars, controlVars
<1>2. ~ Done
  BY DEF Done
<1>3. readded = {} =>
         ~ finishPosted /\ (started => pool = "running") /\ (starting => pool # "draining")
  BY <1>2 DEF ThreadsRest
<1>4. StopForgets'
  BY <1>1 DEF StopForgets
<1>5. CASE status = "Success"
  <2>1. /\ UNCHANGED has /\ verified' = verified \cup {check.piece}
        /\ freshPieces' = freshPieces \cup {check.piece}
        /\ finishPosted' = (finishPosted \/ (SelectionFinished /\ checkingPieces' = 0))
    BY <1>5 DEF PieceChecked
  <2>2. finishPosted' => finishPosted \/ Done'
    <3>1. checkingPieces' = Cardinality(checks') /\ IsFiniteSet(checks')
      BY PieceCheckedPreserves DEF Types, DownloadInv, ChecksOf
    <3>2. checkingPieces' = 0 => checks' = {}
      BY <3>1, FS_EmptySet
    <3> QED  BY <1>1, <2>1, <3>2 DEF Done, SelectionFinished, Selected
  <2>3. readded' = {} => ThreadsRest'
    BY <1>1, <1>2, <1>3, <2>2 DEF ThreadsRest
  <2>4. check.piece \in has /\ \A d \in checks' : d.piece # check.piece
    BY <1>1 DEF Types, DownloadInv, ChecksOf
  <2>5. /\ (Throughout \cap has)' \subseteq verified' \cup {c.piece : c \in checks'}
        /\ freshPieces' \subseteq verified' \cap has'
        /\ \A c \in checks' : c.piece \notin freshPieces'
    BY <1>1, <2>1, <2>4 DEF Passed, Throughout, Selected
  <2>6. finishPosted' => Throughout' \subseteq verified'
    <3>1. CASE finishPosted
      BY <1>1, <2>1, <3>1 DEF Passed, Throughout, Selected
    <3>2. CASE Done'
      BY <2>5, <3>2 DEF Done, SelectionFinished, Throughout
    <3> QED  BY <2>2, <3>1, <3>2
  <2> QED  BY <1>4, <2>3, <2>5, <2>6 DEF Passed
<1>6. CASE status # "Success"
  <2>1. has' = has \ {check.piece} /\ UNCHANGED <<freshPieces, verified, finishPosted>>
    BY <1>6 DEF PieceChecked
  <2>2. readded' = {} => ThreadsRest'
    BY <1>1, <1>2, <1>3, <2>1 DEF ThreadsRest
  <2>3. Passed'
    BY <1>1, <2>1 DEF Passed, Throughout, Selected
  <2> QED  BY <1>4, <2>2, <2>3
<1> QED  BY <1>5, <1>6

\* The end of a download, stop, start and the selection.
LEMMA ControlKeepsEnd ==
    ASSUME EndInv,
           \/ PopFreshPieces \/ Finish \/ PoolStopped \/ Start \/ Stop
           \/ \E set \in Selections : SelectFiles(set)
           \/ RefreshLists \/ RefreshRequests
    PROVE  EndParts'
<1> USE DEF EndInv, EndParts, progressVars, infoVars, checkVars, poolVars, controlVars
<1>1. /\ UNCHANGED <<has, verified, checks>> /\ freshPieces' \subseteq freshPieces
      /\ info' \subseteq info /\ handling' = handling
      /\ finishPosted' => finishPosted
  BY DEF PopFreshPieces, Finish, PoolStopped, Start, Stop, SelectFiles, RefreshLists,
         RefreshRequests
<1>2. readded' = readded \cup (unselected \ unselected')
  BY DEF PopFreshPieces, Finish, PoolStopped, Start, Stop, SelectFiles, RefreshLists,
         RefreshRequests
<1>3. unselected' \subseteq Pieces
  BY BoundsAssumption
     DEF PopFreshPieces, Finish, PoolStopped, Start, Stop, SelectFiles, RefreshLists,
         RefreshRequests, Types, CheckTypes
<1>4. Throughout' \subseteq Throughout
  BY <1>2, <1>3 DEF Throughout, Selected
<1>5. Passed'
  BY <1>1, <1>4 DEF Passed
<1>6. StopForgets'
  <2>1. \/ ~ started' /\ info' = {}
        \/ started => started'
    BY DEF PopFreshPieces, Finish, PoolStopped, Start, Stop, SelectFiles, RefreshLists,
           RefreshRequests
  <2> QED  BY <1>1, <2>1 DEF StopForgets
<1>7. ASSUME readded' = {}
      PROVE  ThreadsRest'
  <2>1. readded = {} /\ unselected \subseteq unselected'
    BY <1>2, <1>7
  <2>2. Done => Done'
    BY <1>1, <2>1, DoneStays
  <2>3. pool' = "stopped" => checks' = {}
    <3>1. pool' = "stopped" => pool = "stopped" \/ checks = {}
      BY DEF PopFreshPieces, Finish, PoolStopped, Start, Stop, SelectFiles,
             RefreshLists, RefreshRequests
    <3> QED  BY <1>1, <2>1, <3>1 DEF ThreadsRest
  <2>4. CASE PopFreshPieces \/ RefreshLists \/ \E set \in Selections : SelectFiles(set)
    <3>1. UNCHANGED <<pool, finishPosted, started, starting>>
      BY <2>4 DEF PopFreshPieces, RefreshLists, SelectFiles
    <3> QED  BY <2>1, <2>2, <2>3, <3>1 DEF ThreadsRest
  <2>5. CASE Finish
    <3>1. finishPosted /\ UNCHANGED <<started, starting>>
      BY <2>5 DEF Finish
    <3> QED  BY <2>1, <2>2, <2>3, <3>1 DEF ThreadsRest
  <2>6. CASE PoolStopped
    <3>1. /\ pool = "draining" /\ pool' = "stopped"
          /\ UNCHANGED <<finishPosted, started, starting>>
      BY <2>6 DEF PoolStopped
    <3> QED  BY <2>1, <2>2, <2>3, <3>1 DEF ThreadsRest
  <2>7. CASE Start
    <3>1. pool # "draining" /\ ~ started /\ UNCHANGED <<pool, finishPosted, started>>
      BY <2>7 DEF Start
    <3> QED  BY <2>1, <2>2, <2>3, <3>1 DEF ThreadsRest
  <2>8. CASE Stop
    <3>1. started /\ ~ started' /\ UNCHANGED <<finishPosted, starting>>
      BY <2>8 DEF Stop
    <3>2. pool' = IF pool = "running" THEN "draining" ELSE pool
      BY <2>8 DEF Stop
    <3> QED  BY <2>1, <2>2, <2>3, <3>1, <3>2 DEF ThreadsRest
  <2>9. CASE RefreshRequests
    <3>1. /\ ~ starting' /\ UNCHANGED finishPosted
          /\ started' = (started \/ starting)
          /\ ~ SelectionFinished => pool' = "running"
          /\ SelectionFinished => pool' = pool
      BY <2>9 DEF RefreshRequests
    <3>2. started' /\ pool' # "running" => Done
      BY <2>1, <3>1 DEF ThreadsRest, Done, Types, ControlTypes
    <3> QED  BY <2>1, <2>2, <2>3, <3>1, <3>2 DEF ThreadsRest
  <2> QED  BY <2>4, <2>5, <2>6, <2>7, <2>8, <2>9
<1> QED  BY <1>5, <1>6, <1>7

\* Every step keeps the invariant: one case per action.
LEMMA EndInvNext == EndInv /\ [Next]_vars => EndInv'
<1> SUFFICES ASSUME EndInv, [Next]_vars
             PROVE  EndInv'
  OBVIOUS
<1>1. Types'
  BY TypesNext DEF EndInv
<1>2. CASE UNCHANGED vars
  <2>1. UNCHANGED Ending /\ UNCHANGED <<info, handling>>
    BY <1>2 DEF vars, progressVars, infoVars, checkVars, poolVars, controlVars, Ending
  <2> QED  BY <1>1, <2>1, EndingPreserves DEF EndInv, EndParts, StopForgets
<1>3. CASE Next
  BY <1>1, <1>3, MessagesKeepEnd, PieceKeepsEnd, CheckKeepsEnd, ControlKeepsEnd
     DEF EndInv, Next, PeerNext
<1> QED  BY <1>2, <1>3

\* When the downloader stops its storage at the end of a download, every piece
\* that has been selected all the time has passed its hash check, for any pieces
\* and connections, over stops, starts and changes of the selection; and as long
\* as nothing is added back to the selection, the storage threads run while
\* there is something to download (Downloader::pieceChecked, finish,
\* refreshSelection, DownloadStorage::start and stop).
THEOREM EndOfDownload == Spec => FinishedVerified
<1>1. EndInv => TypeOK
  BY TypesAreAll DEF EndInv
<1>2. EndInv => ReceivedVerified
  BY DEF EndInv, EndParts, Passed, Throughout, ReceivedVerified
<1>3. EndInv => StorageRuns
  BY DEF EndInv, EndParts, ThreadsRest, Done, StorageRuns
<1>4. EndInv => [Finish => Selected \ readded \subseteq verified]_vars
  BY DEF EndInv, EndParts, Passed, Throughout, Finish
<1> QED
  BY <1>1, <1>2, <1>3, <1>4, EndInvInit, EndInvNext, PTL DEF Spec, FinishedVerified

-------------------------------------------------------------------------------
(* The table of pieces: mtt::PiecesProgress, of the torrent and of a peer.     *)

\* Facts about the cardinalities of the sets a table is made of.
LEMMA FiniteParts ==
    ASSUME NEW n \in Nat, NEW S, S \subseteq 0 .. n - 1
    PROVE  IsFiniteSet(S) /\ Cardinality(S) \in Nat
<1>1. IsFiniteSet(0 .. n - 1)  BY FS_Interval
<1> QED  BY <1>1, FS_Subset, FS_CardinalityType

\* Splitting a finite set by another one splits its cardinality.
LEMMA CardinalitySplit ==
    ASSUME NEW S, NEW T, IsFiniteSet(S)
    PROVE  /\ IsFiniteSet(S \ T) /\ IsFiniteSet(S \cap T)
           /\ Cardinality(S \ T) \in Nat
           /\ Cardinality(S \cap T) \in Nat
           /\ Cardinality(S) = Cardinality(S \ T) + Cardinality(S \cap T)
<1>1. IsFiniteSet(S \ T) /\ IsFiniteSet(S \cap T)
  BY FS_Difference, FS_Intersection
<1>2. Cardinality(S) \in Nat /\ Cardinality(S \ T) \in Nat
        /\ Cardinality(S \cap T) \in Nat
  BY <1>1, FS_CardinalityType
<1>3. Cardinality(S \ T) = Cardinality(S) - Cardinality(S \cap T)
  BY FS_Difference
<1> QED  BY <1>1, <1>2, <1>3

\* The inductive invariant of a torrent's table: its size never changes and
\* its counters are exact.
TorrentInv ==
    /\ progress \in [size : {PieceCount},
                     has : SUBSET AllPieces, unselected : SUBSET AllPieces,
                     received : Nat, selectedReceived : Nat,
                     selectedPieces : Nat]
    /\ CountersExact

LEMMA TorrentInvInit == TorrentInit => TorrentInv
<1> SUFFICES ASSUME TorrentInit PROVE TorrentInv
  OBVIOUS
<1> USE PieceCountAssumption
<1>1. CASE progress = InitTable(Empty, PieceCount)
  <2>1. progress = [size |-> PieceCount, has |-> {}, unselected |-> {},
                    received |-> 0, selectedReceived |-> 0,
                    selectedPieces |-> PieceCount]
    <3>1. Empty.size < PieceCount  BY DEF Empty
    <3>2. progress = [Empty EXCEPT !.size = PieceCount, !.received = 0,
                                   !.selectedReceived = 0,
                                   !.selectedPieces = PieceCount]
      BY <1>1, <3>1, Zenon DEF InitTable
    <3> QED  BY <3>2 DEF Empty
  <2>2. Cardinality({}) = 0 /\ Cardinality(0 .. PieceCount - 1) = PieceCount
    BY FS_EmptySet, FS_Interval
  <2>3. {} \ {} = {} /\ (0 .. PieceCount - 1) \ {} = 0 .. PieceCount - 1
    OBVIOUS
  <2> QED  BY <2>1, <2>2, <2>3 DEF TorrentInv, CountersExact, Indexes, AllPieces
<1>2. ASSUME NEW restored \in SUBSET AllPieces, NEW left \in SUBSET AllPieces,
             progress = CalculatePieces([Empty EXCEPT !.size = PieceCount,
                                                      !.has = restored,
                                                      !.unselected = left])
      PROVE  TorrentInv
  <2>1. progress = [size |-> PieceCount, has |-> restored,
                    unselected |-> left,
                    received |-> Cardinality(restored),
                    selectedReceived |-> Cardinality(restored \ left),
                    selectedPieces |->
                        Cardinality((0 .. PieceCount - 1) \ left)]
    BY <1>2 DEF CalculatePieces, Empty, Indexes
  <2>2. /\ Cardinality(restored) \in Nat
        /\ Cardinality(restored \ left) \in Nat
        /\ Cardinality((0 .. PieceCount - 1) \ left) \in Nat
    BY FiniteParts DEF AllPieces
  <2> QED  BY <2>1, <2>2 DEF TorrentInv, CountersExact, Indexes, AllPieces
<1> QED  BY <1>1, <1>2 DEF TorrentInit

LEMMA TorrentInvNext == TorrentInv /\ [TorrentNext]_tableVars => TorrentInv'
<1> SUFFICES ASSUME TorrentInv, [TorrentNext]_tableVars PROVE TorrentInv'
  OBVIOUS
<1> USE PieceCountAssumption
<1> DEFINE there == progress.has
           uns == progress.unselected
<1>1. /\ progress.size = PieceCount
      /\ there \in SUBSET AllPieces /\ uns \in SUBSET AllPieces
      /\ progress.received = Cardinality(there)
      /\ progress.selectedReceived = Cardinality(there \ uns)
      /\ progress.selectedPieces = Cardinality(AllPieces \ uns)
  BY DEF TorrentInv, CountersExact, Indexes, AllPieces
<1>2. \A S : S \subseteq AllPieces => IsFiniteSet(S) /\ Cardinality(S) \in Nat
  BY FiniteParts DEF AllPieces
<1>3. \A i \in AllPieces : HasPiece(progress, i) <=> i \in there
  <2>1. Cardinality(AllPieces) = PieceCount /\ IsFiniteSet(AllPieces)
    BY FS_Interval DEF AllPieces
  <2>2. Finished(progress) => there = AllPieces
    BY <1>1, <2>1, FS_Subset DEF Finished
  <2> QED  BY <2>2 DEF HasPiece
<1>4. CASE FileSelected
  <2> PICK first \in AllPieces, last \in AllPieces, selected \in BOOLEAN :
          progress' = SelectRange(progress, first, last, selected)
    BY <1>4 DEF FileSelected
  <2> DEFINE C == {i \in first .. last : SelectedPiece(progress, i) # selected}
  <2>1. C \in SUBSET AllPieces  BY DEF AllPieces
  <2>2. /\ IsFiniteSet(C) /\ IsFiniteSet(there) /\ IsFiniteSet(uns)
        /\ IsFiniteSet(there \ uns) /\ IsFiniteSet(AllPieces \ uns)
        /\ Cardinality(C) \in Nat /\ Cardinality(C \cap there) \in Nat
    BY <1>1, <1>2, <2>1
  <2>3. CASE selected = TRUE
    <3>1. C \subseteq uns  BY <2>3 DEF SelectedPiece
    <3>2. progress' = [progress EXCEPT
              !.unselected = @ \ C,
              !.selectedReceived = @ + 1 * Cardinality(C \cap there),
              !.selectedPieces = @ + 1 * Cardinality(C)]
      BY <2>3 DEF SelectRange
    <3>3. /\ IsFiniteSet(there \ (uns \ C)) /\ IsFiniteSet(AllPieces \ (uns \ C))
          /\ Cardinality(C \cap there) \in Nat /\ Cardinality(C) \in Nat
          /\ Cardinality(there \ (uns \ C)) \in Nat
          /\ Cardinality(AllPieces \ (uns \ C)) \in Nat
          /\ Cardinality(there) \in Nat
      <4>1. /\ there \ (uns \ C) \subseteq AllPieces
            /\ AllPieces \ (uns \ C) \subseteq AllPieces
        BY <1>1
      <4> HIDE DEF C
      <4> QED  BY <1>1, <1>2, <2>2, <4>1
    <3>4. Cardinality(there \ (uns \ C)) =
              Cardinality(there \ uns) + Cardinality(C \cap there)
      <4>1. (there \ (uns \ C)) \ C = there \ uns  BY <3>1
      <4>2. (there \ (uns \ C)) \cap C = C \cap there  BY <3>1
      <4> HIDE DEF C, there, uns
      <4>3. Cardinality(there \ (uns \ C)) =
                Cardinality((there \ (uns \ C)) \ C)
                  + Cardinality((there \ (uns \ C)) \cap C)
        BY <3>3, CardinalitySplit
      <4> QED  BY <4>1, <4>2, <4>3
    <3>5. Cardinality(AllPieces \ (uns \ C)) =
              Cardinality(AllPieces \ uns) + Cardinality(C)
      <4>1. (AllPieces \ (uns \ C)) \ C = AllPieces \ uns  BY <3>1
      <4>2. (AllPieces \ (uns \ C)) \cap C = C  BY <3>1, <2>1
      <4> HIDE DEF C, there, uns
      <4>3. Cardinality(AllPieces \ (uns \ C)) =
                Cardinality((AllPieces \ (uns \ C)) \ C)
                  + Cardinality((AllPieces \ (uns \ C)) \cap C)
        BY <3>3, CardinalitySplit
      <4> QED  BY <4>1, <4>2, <4>3
    <3>6. progress' = [progress EXCEPT
              !.unselected = @ \ C,
              !.selectedReceived = Cardinality(there \ (uns \ C)),
              !.selectedPieces = Cardinality(AllPieces \ (uns \ C))]
      <4>1. /\ Cardinality(there \ uns) + 1 * Cardinality(C \cap there)
                 = Cardinality(there \ (uns \ C))
            /\ Cardinality(AllPieces \ uns) + 1 * Cardinality(C)
                 = Cardinality(AllPieces \ (uns \ C))
        <5> HIDE DEF C, there, uns
        <5> QED  BY <3>3, <3>4, <3>5
      <4> HIDE DEF C
      <4> QED  BY <1>1, <3>2, <4>1, Zenon
    <3> HIDE DEF C
    <3> QED  BY <1>1, <2>1, <3>3, <3>6 DEF TorrentInv, CountersExact, Indexes, AllPieces
  <2>4. CASE selected = FALSE
    <3>1. C \cap uns = {}  BY <2>4 DEF SelectedPiece
    <3>2. progress' = [progress EXCEPT
              !.unselected = @ \cup C,
              !.selectedReceived = @ + (-1) * Cardinality(C \cap there),
              !.selectedPieces = @ + (-1) * Cardinality(C)]
      BY <2>4 DEF SelectRange
    <3>3. Cardinality(there \ uns) =
              Cardinality(there \ (uns \cup C)) + Cardinality(C \cap there)
      <4>1. (there \ uns) \ C = there \ (uns \cup C)  OBVIOUS
      <4>2. (there \ uns) \cap C = C \cap there  BY <3>1
      <4> HIDE DEF C, there, uns
      <4>3. Cardinality(there \ uns) = Cardinality((there \ uns) \ C)
                                       + Cardinality((there \ uns) \cap C)
        BY <2>2, CardinalitySplit
      <4> QED  BY <4>1, <4>2, <4>3
    <3>4. Cardinality(AllPieces \ uns) =
              Cardinality(AllPieces \ (uns \cup C)) + Cardinality(C)
      <4>1. (AllPieces \ uns) \ C = AllPieces \ (uns \cup C)  OBVIOUS
      <4>2. (AllPieces \ uns) \cap C = C  BY <3>1, <2>1
      <4> HIDE DEF C, there, uns
      <4>3. Cardinality(AllPieces \ uns) = Cardinality((AllPieces \ uns) \ C)
                                          + Cardinality((AllPieces \ uns) \cap C)
        BY <2>2, CardinalitySplit
      <4> QED  BY <4>1, <4>2, <4>3
    <3>5. /\ Cardinality(C \cap there) \in Nat /\ Cardinality(C) \in Nat
          /\ Cardinality(there \ (uns \cup C)) \in Nat
          /\ Cardinality(AllPieces \ (uns \cup C)) \in Nat
          /\ Cardinality(there) \in Nat
      <4>1. /\ there \ (uns \cup C) \subseteq AllPieces
            /\ AllPieces \ (uns \cup C) \subseteq AllPieces
        BY <1>1
      <4> HIDE DEF C
      <4> QED  BY <1>1, <1>2, <2>2, <4>1
    <3>6. progress' = [progress EXCEPT
              !.unselected = @ \cup C,
              !.selectedReceived = Cardinality(there \ (uns \cup C)),
              !.selectedPieces = Cardinality(AllPieces \ (uns \cup C))]
      <4>1. /\ Cardinality(there \ uns) + (-1) * Cardinality(C \cap there)
                 = Cardinality(there \ (uns \cup C))
            /\ Cardinality(AllPieces \ uns) + (-1) * Cardinality(C)
                 = Cardinality(AllPieces \ (uns \cup C))
        <5> HIDE DEF C, there, uns
        <5> QED  BY <3>3, <3>4, <3>5
      <4> HIDE DEF C
      <4> QED  BY <1>1, <3>2, <4>1, Zenon
    <3> HIDE DEF C
    <3> QED  BY <1>1, <2>1, <3>5, <3>6 DEF TorrentInv, CountersExact, Indexes, AllPieces
  <2> QED  BY <2>3, <2>4
<1>5. CASE PieceReceived
  <2> PICK i \in AllPieces : progress' = AddPiece(progress, i)
    BY <1>5 DEF PieceReceived
  <2>1. i \in Nat /\ ~ (i >= progress.size)  BY <1>1 DEF AllPieces
  <2>2. CASE i \in there
    <3> progress' = progress  BY <1>3, <2>1, <2>2 DEF AddPiece
    <3> QED  BY DEF TorrentInv, CountersExact, Indexes
  <2>3. CASE i \notin there
    <3>1. progress' = [progress EXCEPT
              !.has = @ \cup {i}, !.received = @ + 1,
              !.selectedReceived = @ + (IF i \notin uns THEN 1 ELSE 0)]
      BY <1>3, <2>1, <2>3 DEF AddPiece, WantedPiece
    <3>2. Cardinality(there \cup {i}) = Cardinality(there) + 1
      BY <1>1, <1>2, <2>3, FS_AddElement
    <3>3. Cardinality((there \cup {i}) \ uns) =
              Cardinality(there \ uns) + (IF i \notin uns THEN 1 ELSE 0)
      <4>1. IsFiniteSet(there \ uns) /\ i \notin there \ uns  BY <1>1, <1>2, <2>3
      <4>2. Cardinality((there \ uns) \cup {i}) = Cardinality(there \ uns) + 1
        BY <4>1, FS_AddElement
      <4>3. CASE i \in uns
        <5>1. (there \cup {i}) \ uns = there \ uns  BY <4>3
        <5>2. Cardinality(there \ uns) \in Nat  BY <1>1, <1>2
        <5> HIDE DEF there, uns
        <5> QED  BY <4>3, <5>1, <5>2
      <4>4. CASE i \notin uns
        <5> (there \cup {i}) \ uns = (there \ uns) \cup {i}  BY <4>4
        <5> QED  BY <4>2, <4>4
      <4> QED  BY <4>3, <4>4
    <3>4. /\ Cardinality(there \cup {i}) \in Nat
          /\ Cardinality((there \cup {i}) \ uns) \in Nat
      BY <1>1, <1>2
    <3>5. progress' = [progress EXCEPT
              !.has = there \cup {i},
              !.received = Cardinality(there \cup {i}),
              !.selectedReceived = Cardinality((there \cup {i}) \ uns)]
      BY <1>1, <3>1, <3>2, <3>3, Zenon
    <3> DEFINE more == there \cup {i}
    <3>6. more \in SUBSET AllPieces  BY <1>1
    <3> HIDE DEF more
    <3>7. /\ Cardinality(more) \in Nat /\ Cardinality(more \ uns) \in Nat
          /\ progress' = [progress EXCEPT
                 !.has = more,
                 !.received = Cardinality(more),
                 !.selectedReceived = Cardinality(more \ uns)]
      BY <3>4, <3>5 DEF more
    <3> QED
      BY <1>1, <3>6, <3>7 DEF TorrentInv, CountersExact, Indexes, AllPieces
  <2> QED  BY <2>2, <2>3
<1>6. CASE PieceRefused
  <2> PICK i \in AllPieces : progress' = RemovePiece(progress, i)
    BY <1>6 DEF PieceRefused
  <2>1. CASE i \notin there
    <3> progress' = progress  BY <1>3, <2>1 DEF RemovePiece
    <3> QED  BY DEF TorrentInv, CountersExact, Indexes
  <2>2. CASE i \in there
    <3>1. progress' = [progress EXCEPT
              !.has = @ \ {i}, !.received = @ - 1,
              !.selectedReceived = @ - (IF i \notin uns THEN 1 ELSE 0)]
      BY <1>3, <2>2 DEF RemovePiece, SelectedPiece
    <3>2. Cardinality(there \ {i}) = Cardinality(there) - 1
      BY <1>1, <1>2, <2>2, FS_RemoveElement
    <3>3. Cardinality((there \ {i}) \ uns) =
              Cardinality(there \ uns) - (IF i \notin uns THEN 1 ELSE 0)
      <4>1. IsFiniteSet(there \ uns)  BY <1>1, <1>2
      <4>2. CASE i \in uns
        <5>1. (there \ {i}) \ uns = there \ uns  BY <4>2
        <5>2. Cardinality(there \ uns) \in Nat  BY <1>1, <1>2
        <5> HIDE DEF there, uns
        <5> QED  BY <4>2, <5>1, <5>2
      <4>3. CASE i \notin uns
        <5>1. (there \ {i}) \ uns = (there \ uns) \ {i} /\ i \in there \ uns
          BY <2>2, <4>3
        <5>2. Cardinality((there \ uns) \ {i}) = Cardinality(there \ uns) - 1
          <6> HIDE DEF there, uns
          <6> QED  BY <4>1, <5>1, FS_RemoveElement
        <5> HIDE DEF there, uns
        <5> QED  BY <4>3, <5>1, <5>2
      <4> QED  BY <4>2, <4>3
    <3>4. /\ Cardinality(there \ {i}) \in Nat
          /\ Cardinality((there \ {i}) \ uns) \in Nat
      BY <1>1, <1>2
    <3> QED
      BY <1>1, <3>1, <3>2, <3>3, <3>4 DEF TorrentInv, CountersExact, Indexes, AllPieces
  <2> QED  BY <2>1, <2>2
<1>7. CASE CheckPrepared
  <2> PICK where \in SUBSET AllPieces : progress' = RemoveReceived(progress, where)
    BY <1>7 DEF CheckPrepared
  <2> DEFINE gone == there \cap where
  <2>1. progress' = [progress EXCEPT
            !.has = @ \ gone,
            !.received = @ - Cardinality(gone),
            !.selectedReceived = @ - Cardinality(gone \ uns)]
    BY DEF RemoveReceived
  <2>2. /\ IsFiniteSet(there) /\ IsFiniteSet(there \ uns)
        /\ Cardinality(there) \in Nat /\ Cardinality(there \ uns) \in Nat
        /\ Cardinality(there \ gone) \in Nat
        /\ Cardinality((there \ gone) \ uns) \in Nat
        /\ Cardinality(gone) \in Nat /\ Cardinality(gone \ uns) \in Nat
    <3> there \ gone \subseteq AllPieces /\ (there \ gone) \ uns \subseteq AllPieces
          /\ gone \subseteq AllPieces /\ gone \ uns \subseteq AllPieces
          /\ there \ uns \subseteq AllPieces
      BY <1>1
    <3> HIDE DEF gone
    <3> QED  BY <1>1, <1>2
  <2>3. Cardinality(there \ gone) = Cardinality(there) - Cardinality(gone)
    <3>1. there \cap gone = gone  OBVIOUS
    <3> HIDE DEF gone, there
    <3> QED  BY <2>2, <3>1, FS_Difference
  <2>4. Cardinality((there \ gone) \ uns) =
            Cardinality(there \ uns) - Cardinality(gone \ uns)
    <3>1. (there \ uns) \ gone = (there \ gone) \ uns  OBVIOUS
    <3>2. (there \ uns) \cap gone = gone \ uns  OBVIOUS
    <3>3. /\ Cardinality((there \ uns) \ gone) \in Nat
          /\ Cardinality((there \ uns) \cap gone) \in Nat
          /\ Cardinality(there \ uns) = Cardinality((there \ uns) \ gone)
                                        + Cardinality((there \ uns) \cap gone)
      <4> HIDE DEF gone, there, uns
      <4> QED  BY <2>2, CardinalitySplit
    <3>4. /\ Cardinality((there \ uns) \ gone) = Cardinality((there \ gone) \ uns)
          /\ Cardinality((there \ uns) \cap gone) = Cardinality(gone \ uns)
      BY <3>1, <3>2
    <3> HIDE DEF gone, there, uns
    <3> QED  BY <2>2, <3>3, <3>4
  <2>5. progress' = [progress EXCEPT
            !.has = @ \ gone,
            !.received = Cardinality(there \ gone),
            !.selectedReceived = Cardinality((there \ gone) \ uns)]
    <3> HIDE DEF gone
    <3> QED  BY <1>1, <2>1, <2>3, <2>4 DEF TorrentInv
  <2> HIDE DEF gone
  <2> QED  BY <1>1, <2>2, <2>5 DEF TorrentInv, CountersExact, Indexes, AllPieces
<1>8. CASE UNCHANGED tableVars
  BY <1>8 DEF tableVars, TorrentInv, CountersExact, Indexes
<1> QED  BY <1>4, <1>5, <1>6, <1>7, <1>8 DEF TorrentNext

\* The counters that select, addPiece, removePiece and removeReceived update
\* one by one equal a recount of the flags, for any number of pieces and any
\* sequence of calls.
THEOREM TorrentCountersExact == TorrentSpec => []CountersExact
<1>1. TorrentInv => CountersExact  BY DEF TorrentInv
<1> QED  BY TorrentInvInit, TorrentInvNext, <1>1, PTL DEF TorrentSpec

\* The table of a torrent keeps its type: no counter goes below zero.
THEOREM TorrentTypeCorrect == TorrentSpec => []TableTypeOK
<1>1. TorrentInv => TableTypeOK
  BY PieceCountAssumption DEF TorrentInv, TableTypeOK, Indexes, AllPieces
<1> QED  BY TorrentInvInit, TorrentInvNext, <1>1, PTL DEF TorrentSpec

\* selectionFinished, read off two counters, is true exactly when no selected
\* piece is missing.
THEOREM TorrentSelectionFinishedExact == TorrentSpec => []SelectionFinishedExact
<1>1. TorrentInv => SelectionFinishedExact
  <2> SUFFICES ASSUME TorrentInv PROVE SelectionFinishedExact
    OBVIOUS
  <2> DEFINE there == progress.has
             uns == progress.unselected
  <2>1. /\ progress.size = PieceCount
        /\ there \in SUBSET AllPieces /\ uns \in SUBSET AllPieces
        /\ progress.selectedReceived = Cardinality(there \ uns)
        /\ progress.selectedPieces = Cardinality(AllPieces \ uns)
    BY DEF TorrentInv, CountersExact, Indexes, AllPieces
  <2>2. IsFiniteSet(AllPieces \ uns) /\ there \ uns \in SUBSET (AllPieces \ uns)
    BY <2>1, FiniteParts, PieceCountAssumption DEF AllPieces
  <2>3. Cardinality(there \ uns) = Cardinality(AllPieces \ uns)
            <=> there \ uns = AllPieces \ uns
    <3> HIDE DEF there, uns
    <3> QED  BY <2>2, FS_Subset
  <2>4. SelectedFinished(progress) <=> there \ uns = AllPieces \ uns
    BY <2>1, <2>3, PieceCountAssumption DEF SelectedFinished
  <2>5. (\A i \in Indexes(progress) : ~ WantedPiece(progress, i))
            <=> there \ uns = AllPieces \ uns
    BY <2>1 DEF WantedPiece, Indexes, AllPieces
  <2> QED  BY <2>4, <2>5 DEF SelectionFinishedExact
<1> QED  BY TorrentInvInit, TorrentInvNext, <1>1, PTL DEF TorrentSpec

-------------------------------------------------------------------------------
(* The table of a peer: its size comes with the handshake, a bitfield, a     *)
(* have message or the metadata.                                             *)

\* The flags lie below the size and are counted.
Counted(t) ==
    /\ t \in [size : Nat, has : SUBSET AllPieces, unselected : SUBSET AllPieces,
              received : Nat, selectedReceived : Nat, selectedPieces : Nat]
    /\ t.has \subseteq Indexes(t)
    /\ t.received = Cardinality(t.has)

\* Sets of pieces and of indexes are finite.
LEMMA PartsCounted ==
    /\ \A S \in SUBSET AllPieces : IsFiniteSet(S) /\ Cardinality(S) \in Nat
    /\ \A n \in Nat : \A S \in SUBSET (0 .. n - 1) : Cardinality(S) \in Nat
BY FiniteParts, PieceCountAssumption DEF AllPieces

\* resize drops the flags above the new size and counts again.
LEMMA ResizeCounted ==
    ASSUME NEW t, Counted(t), NEW n \in Nat
    PROVE  Counted(Resize(t, n)) /\ Resize(t, n).size = n
<1>1. CASE t.size = n
  BY <1>1 DEF Resize
<1>2. CASE t.size # n
  <2> DEFINE there == t.has \cap (0 .. n - 1)
             uns == t.unselected \cap (0 .. n - 1)
  <2>1. Resize(t, n) = [size |-> n, has |-> there, unselected |-> uns,
                        received |-> Cardinality(there),
                        selectedReceived |-> Cardinality(there \ uns),
                        selectedPieces |-> Cardinality((0 .. n - 1) \ uns)]
    BY <1>2 DEF Resize, CalculatePieces, Indexes, Counted
  <2>2. /\ there \in SUBSET AllPieces /\ uns \in SUBSET AllPieces /\ there \ uns \in SUBSET AllPieces
        /\ there \subseteq 0 .. n - 1 /\ (0 .. n - 1) \ uns \in SUBSET (0 .. n - 1)
    BY DEF Counted
  <2> HIDE DEF there, uns
  <2>3. /\ Cardinality(there) \in Nat /\ Cardinality(there \ uns) \in Nat
        /\ Cardinality((0 .. n - 1) \ uns) \in Nat
    BY <2>2, PartsCounted
  <2> QED  BY <2>1, <2>2, <2>3 DEF Counted, Indexes
<1> QED  BY <1>1, <1>2

\* addPiece, of a piece above the size too.
LEMMA AddPieceCounted ==
    ASSUME NEW t, Counted(t), NEW i \in AllPieces
    PROVE  Counted(AddPiece(t, i))
<1>1. i \in Nat /\ i + 1 \in Nat
  BY PieceCountAssumption DEF AllPieces
<1>2. PICK q : q = IF i >= t.size THEN Resize(t, i + 1) ELSE t
  OBVIOUS
<1>3. Counted(q) /\ i < q.size
  <2>1. CASE i >= t.size
    <3>1. Counted(Resize(t, i + 1)) /\ Resize(t, i + 1).size = i + 1
      BY <1>1, ResizeCounted
    <3> QED  BY <1>1, <1>2, <2>1, <3>1
  <2>2. CASE ~ (i >= t.size)
    <3>1. t.size \in Nat
      BY DEF Counted
    <3> QED  BY <1>1, <1>2, <2>2, <3>1
  <2> QED  BY <2>1, <2>2
<1>4. AddPiece(t, i) = IF HasPiece(q, i)
                       THEN q
                       ELSE [q EXCEPT !.has = @ \cup {i},
                                      !.received = @ + 1,
                                      !.selectedReceived =
                                          @ + (IF WantedPiece(q, i) THEN 1 ELSE 0)]
  BY <1>2 DEF AddPiece
<1>5. CASE HasPiece(q, i)
  BY <1>3, <1>4, <1>5
<1>6. CASE ~ HasPiece(q, i)
  <2>1. i \notin q.has
    BY <1>6 DEF HasPiece
  <2>2. /\ q.has \cup {i} \in SUBSET AllPieces
        /\ Cardinality(q.has \cup {i}) = Cardinality(q.has) + 1
    BY <1>3, <2>1, PartsCounted, FS_AddElement DEF Counted
  <2>3. PICK more \in Nat : more = q.selectedReceived + (IF WantedPiece(q, i) THEN 1 ELSE 0)
    BY <1>3 DEF Counted
  <2>4. AddPiece(t, i) = [size |-> q.size, has |-> q.has \cup {i},
                          unselected |-> q.unselected, received |-> q.received + 1,
                          selectedReceived |-> more, selectedPieces |-> q.selectedPieces]
    BY <1>3, <1>4, <1>6, <2>3 DEF Counted
  <2>5. q.has \cup {i} \subseteq 0 .. q.size - 1
    BY <1>1, <1>3 DEF Counted, Indexes
  <2> QED  BY <1>3, <2>2, <2>4, <2>5 DEF Counted, Indexes
<1> QED  BY <1>5, <1>6

\* fromBitfieldData, into an empty table or one of any size.
LEMMA BitfieldCounted ==
    ASSUME NEW t, Counted(t), NEW bits \in SUBSET AllPieces
    PROVE  Counted(FromBitfield(t, Bytes, bits))
<1>1. PICK n \in Nat : n = IF t.size = 0 THEN Bytes * ByteOfBits ELSE t.size
  <2>1. Bytes * ByteOfBits \in Nat
    BY PieceCountAssumption DEF Bytes, ByteOfBits
  <2> QED  BY <2>1 DEF Counted
<1> DEFINE new == bits \cap (0 .. n - 1)
<1>2. ~ (t.size < n) => t.size = n
  BY <1>1 DEF Counted
<1>3. FromBitfield(t, Bytes, bits) =
         [size |-> n, has |-> new, unselected |-> {}, received |-> Cardinality(new),
          selectedReceived |-> 0, selectedPieces |-> n]
  <2>1. PICK q : /\ q = InitTable(t, n)
                 /\ FromBitfield(t, Bytes, bits) =
                       [q EXCEPT !.has = new, !.unselected = {},
                                 !.received = Cardinality(new)]
    BY <1>1 DEF FromBitfield
  <2>2. PICK m : /\ m = IF t.size < n THEN n ELSE t.size
                 /\ q = [t EXCEPT !.size = m, !.received = 0,
                                  !.selectedReceived = 0, !.selectedPieces = n]
    BY <2>1 DEF InitTable
  <2>3. m = n
    BY <1>2, <2>2
  <2> HIDE DEF new
  <2> QED  BY <2>1, <2>2, <2>3 DEF Counted
<1>4. new \in SUBSET AllPieces /\ Cardinality(new) \in Nat
  BY PartsCounted
<1> HIDE DEF new
<1>5. new \subseteq 0 .. n - 1
  BY DEF new
<1> QED  BY <1>3, <1>4, <1>5 DEF Counted, Indexes

\* The first table, before the metadata or with it.
LEMMA EmptyCounted ==
    ASSUME NEW n \in {0, PieceCount}
    PROVE  Counted(InitTable(Empty, n))
<1>1. InitTable(Empty, n) = [size |-> n, has |-> {}, unselected |-> {}, received |-> 0,
                             selectedReceived |-> 0, selectedPieces |-> n]
  <2>1. PICK m : /\ m = IF Empty.size < n THEN n ELSE Empty.size
                 /\ InitTable(Empty, n) = [Empty EXCEPT !.size = m, !.received = 0,
                                  !.selectedReceived = 0, !.selectedPieces = n]
    BY DEF InitTable
  <2>2. Empty.size = 0
    BY DEF Empty
  <2>3. m = n
    BY <2>1, <2>2, PieceCountAssumption
  <2> QED  BY <2>1, <2>3 DEF Empty
<1> QED  BY <1>1, FS_EmptySet, PieceCountAssumption DEF Counted

\* A counted table is full exactly when it has every piece.
LEMMA FullIsAll ==
    ASSUME NEW t, Counted(t), t.size = PieceCount
    PROVE  Finished(t) <=> t.has = AllPieces
<1>1. IsFiniteSet(AllPieces) /\ Cardinality(AllPieces) = PieceCount
  BY FS_Interval, PieceCountAssumption DEF AllPieces
<1>2. t.has \subseteq AllPieces
  BY DEF Counted
<1>3. Cardinality(t.has) = Cardinality(AllPieces) <=> t.has = AllPieces
  BY <1>1, <1>2, FS_Subset
<1> QED  BY <1>1, <1>3, PieceCountAssumption DEF Counted, Finished

\* The operations of the table of a peer are the same methods.
LEMMA SameMethods ==
    /\ \A t, i : PeerTable!AddPiece(t, i) = AddPiece(t, i)
    /\ \A t, n : PeerTable!Resize(t, n) = Resize(t, n)
    /\ \A t, bits : PeerTable!FromBitfield(t, PeerTable!Bytes, bits)
                      = FromBitfield(t, Bytes, bits)
    /\ \A n : PeerTable!InitTable(PeerTable!Empty, n) = InitTable(Empty, n)
    /\ \A t : PeerTable!Finished(t) <=> Finished(t)
    /\ PeerTable!AllPieces = AllPieces
<1>0. \A S : PeerTable!Cardinality(S) = Cardinality(S)
  BY DEF PeerTable!Cardinality, Cardinality
<1>1. /\ \A t : PeerTable!Finished(t) <=> Finished(t)
      /\ PeerTable!AllPieces = AllPieces /\ PeerTable!Bytes = Bytes
      /\ PeerTable!ByteOfBits = ByteOfBits /\ PeerTable!Empty = Empty
  BY DEF PeerTable!Finished, Finished, PeerTable!AllPieces, AllPieces, PeerTable!Bytes, Bytes,
         PeerTable!ByteOfBits, ByteOfBits, PeerTable!Empty, Empty
<1>2. \A t, n : PeerTable!Resize(t, n) = Resize(t, n)
  <2> TAKE t, n
  <2>1. ASSUME NEW x
        PROVE  PeerTable!CalculatePieces(x) = CalculatePieces(x)
    <3> PICK a, b, c : /\ a = Cardinality(x.has)
                       /\ b = Cardinality(x.has \ x.unselected)
                       /\ c = Cardinality(Indexes(x) \ x.unselected)
      OBVIOUS
    <3>1. c = Cardinality(PeerTable!Indexes(x) \ x.unselected)
      BY DEF Indexes, PeerTable!Indexes
    <3>2. PeerTable!CalculatePieces(x) =
             [x EXCEPT !.received = a, !.selectedReceived = b, !.selectedPieces = c]
      BY <1>0, <3>1 DEF PeerTable!CalculatePieces
    <3>3. CalculatePieces(x) =
             [x EXCEPT !.received = a, !.selectedReceived = b, !.selectedPieces = c]
      BY DEF CalculatePieces
    <3> QED  BY <3>2, <3>3
  <2> QED  BY <2>1, Zenon DEF PeerTable!Resize, Resize
<1>3. \A t, n : PeerTable!InitTable(t, n) = InitTable(t, n)
  BY DEF PeerTable!InitTable, InitTable
<1>4. \A t, bits : PeerTable!FromBitfield(t, PeerTable!Bytes, bits)
                      = FromBitfield(t, Bytes, bits)
  <2> TAKE t, bits
  <2> PICK n : n = IF t.size = 0 THEN Bytes * ByteOfBits ELSE t.size
    OBVIOUS
  <2> PICK q, new, count : /\ q = InitTable(t, n) /\ new = bits \cap (0 .. n - 1)
                           /\ count = Cardinality(new)
    OBVIOUS
  <2>1. n = IF t.size = 0 THEN PeerTable!Bytes * PeerTable!ByteOfBits ELSE t.size
    BY <1>1
  <2>2. q = PeerTable!InitTable(t, n)
    BY <1>3
  <2>3. PeerTable!FromBitfield(t, PeerTable!Bytes, bits) =
           [q EXCEPT !.has = new, !.unselected = {}, !.received = count]
    BY <1>0, <2>1, <2>2 DEF PeerTable!FromBitfield
  <2>4. FromBitfield(t, Bytes, bits) =
           [q EXCEPT !.has = new, !.unselected = {}, !.received = count]
    BY DEF FromBitfield
  <2> QED  BY <2>3, <2>4
<1>5. \A t, i : PeerTable!HasPiece(t, i) <=> HasPiece(t, i)
  BY <1>1 DEF PeerTable!HasPiece, HasPiece
<1>6. \A t, i : PeerTable!WantedPiece(t, i) <=> WantedPiece(t, i)
  BY DEF PeerTable!WantedPiece, WantedPiece
<1>7. \A t, i : PeerTable!AddPiece(t, i) = AddPiece(t, i)
  <2> TAKE t, i
  <2> PICK q : q = IF i >= t.size THEN Resize(t, i + 1) ELSE t
    OBVIOUS
  <2>1. q = IF i >= t.size THEN PeerTable!Resize(t, i + 1) ELSE t
    BY <1>2
  <2> PICK new, count, more : /\ new = q.has \cup {i} /\ count = q.received + 1
                            /\ more = q.selectedReceived
                                        + (IF WantedPiece(q, i) THEN 1 ELSE 0)
    OBVIOUS
  <2>2. more = q.selectedReceived + (IF PeerTable!WantedPiece(q, i) THEN 1 ELSE 0)
    BY <1>6
  <2>3. PeerTable!AddPiece(t, i) =
           IF PeerTable!HasPiece(q, i)
           THEN q
           ELSE [q EXCEPT !.has = new, !.received = count, !.selectedReceived = more]
    BY <2>1, <2>2 DEF PeerTable!AddPiece
  <2>4. AddPiece(t, i) =
           IF HasPiece(q, i)
           THEN q
           ELSE [q EXCEPT !.has = new, !.received = count, !.selectedReceived = more]
    BY DEF AddPiece
  <2> QED  BY <1>5, <2>3, <2>4
<1> QED  BY <1>1, <1>2, <1>3, <1>4, <1>7

\* A table of n pieces has n indexes.
LEMMA IndexesCounted ==
    ASSUME NEW n \in Nat
    PROVE  IsFiniteSet(0 .. n - 1) /\ Cardinality(0 .. n - 1) = n
<1>1. 0 \in Int /\ n - 1 \in Int
  OBVIOUS
<1>2. /\ IsFiniteSet(0 .. n - 1)
      /\ Cardinality(0 .. n - 1) = IF 0 > n - 1 THEN 0 ELSE (n - 1) - 0 + 1
  BY <1>1, FS_Interval
<1>3. (IF 0 > n - 1 THEN 0 ELSE (n - 1) - 0 + 1) = n
  OBVIOUS
<1> QED  BY <1>2, <1>3

\* addPiece adds the flag of its piece and no other: finished() says that the
\* flag is there only when it is.
LEMMA AddPieceAdds ==
    ASSUME NEW t, Counted(t), NEW i \in AllPieces
    PROVE  AddPiece(t, i).has = t.has \cup {i}
<1>1. i \in Nat /\ i + 1 \in Nat
  BY PieceCountAssumption DEF AllPieces
<1>2. PICK q : q = IF i >= t.size THEN Resize(t, i + 1) ELSE t
  OBVIOUS
<1>3. Counted(q) /\ q.has = t.has /\ i < q.size
  <2>1. CASE i >= t.size
    <3>1. Counted(q) /\ q.size = i + 1
      BY <1>1, <1>2, <2>1, ResizeCounted
    <3>2. PICK n : n = i + 1
      OBVIOUS
    <3>3. q.has = t.has \cap (0 .. n - 1)
      BY <1>1, <1>2, <2>1, <3>2 DEF Resize, CalculatePieces, Counted
    <3>4. t.has \subseteq 0 .. n - 1
      BY <1>1, <2>1, <3>2 DEF Counted, Indexes
    <3> QED  BY <1>1, <3>1, <3>3, <3>4
  <2>2. CASE ~ (i >= t.size)
    BY <1>1, <1>2, <2>2 DEF Counted
  <2> QED  BY <2>1, <2>2
<1>4. AddPiece(t, i) = IF HasPiece(q, i)
                       THEN q
                       ELSE [q EXCEPT !.has = @ \cup {i},
                                      !.received = @ + 1,
                                      !.selectedReceived =
                                          @ + (IF WantedPiece(q, i) THEN 1 ELSE 0)]
  BY <1>2 DEF AddPiece
<1>5. Finished(q) => i \in q.has
  <2> SUFFICES ASSUME Finished(q) PROVE i \in q.has
    OBVIOUS
  <2>0. q.size \in Nat
    BY <1>3 DEF Counted
  <2>1. IsFiniteSet(0 .. q.size - 1) /\ Cardinality(0 .. q.size - 1) = q.size
    BY <2>0, IndexesCounted
  <2>2. q.has \subseteq 0 .. q.size - 1 /\ Cardinality(q.has) = q.size
    BY <1>3 DEF Counted, Indexes, Finished
  <2>3. q.has = 0 .. q.size - 1
    BY <2>1, <2>2, FS_Subset
  <2> QED  BY <1>1, <1>3, <2>3 DEF Counted
<1>6. CASE HasPiece(q, i)
  BY <1>3, <1>4, <1>5, <1>6 DEF HasPiece
<1>7. CASE ~ HasPiece(q, i)
  BY <1>3, <1>4, <1>7 DEF Counted
<1> QED  BY <1>6, <1>7

\* A bitfield message has a bit for each piece of the torrent.
LEMMA BitsForAll == Bytes * ByteOfBits \in Nat /\ Bytes * ByteOfBits >= PieceCount
BY PieceCountAssumption DEF Bytes, ByteOfBits

\* The table of a peer stays counted and, but for a cut bitfield, holds what
\* the peer announced.
PeerInv ==
    /\ Counted(peer)
    /\ announced \in SUBSET AllPieces
    /\ ~ cut => peer.has = announced

LEMMA PeerInvHolds ==
    /\ PeerTable!PeerInit => PeerInv
    /\ PeerInv /\ [PeerTable!PeerTableNext]_<<peer, announced, cut>> => PeerInv'
<1>1. ASSUME PeerTable!PeerInit PROVE PeerInv
  <2>1. PICK n \in {0, PieceCount} : peer = InitTable(Empty, n)
    BY <1>1, SameMethods DEF PeerTable!PeerInit
  <2>2. InitTable(Empty, n).has = {}
    BY DEF InitTable, Empty
  <2> QED  BY <1>1, <2>1, <2>2, EmptyCounted DEF PeerTable!PeerInit, PeerInv
<1>2. ASSUME PeerInv, PeerTable!PeerTableNext PROVE PeerInv'
  <2>1. CASE PeerTable!Bitfield
    <3>1. PICK bits \in SUBSET AllPieces :
             /\ peer' = FromBitfield(peer, Bytes, bits)
             /\ announced' = bits
             /\ cut' = (0 < peer.size /\ peer.size < PieceCount)
      BY <2>1, SameMethods DEF PeerTable!Bitfield
    <3>2. Counted(peer')
      BY <1>2, <3>1, BitfieldCounted DEF PeerInv
    <3>3. PICK n : n = IF peer.size = 0 THEN Bytes * ByteOfBits ELSE peer.size
      OBVIOUS
    <3>4. peer'.has = bits \cap (0 .. n - 1)
      <4>1. PICK new : new = bits \cap (0 .. n - 1)
        OBVIOUS
      <4>2. FromBitfield(peer, Bytes, bits) =
               [InitTable(peer, n) EXCEPT !.has = new, !.unselected = {},
                                          !.received = Cardinality(new)]
        BY <3>3, <4>1 DEF FromBitfield
      <4> QED  BY <1>2, <3>1, <4>1, <4>2 DEF InitTable, PeerInv, Counted
    <3>5. ASSUME ~ cut' PROVE bits \subseteq 0 .. n - 1
      <4>1. peer.size = 0 \/ peer.size >= PieceCount
        <5>1. peer.size \in Nat
          BY <1>2 DEF PeerInv, Counted
        <5>2. ~ (0 < peer.size /\ peer.size < PieceCount)
          BY <3>1, <3>5, Zenon
        <5> QED  BY <5>1, <5>2, PieceCountAssumption
      <4>2. n \in Nat /\ n >= PieceCount
        <5>1. CASE peer.size = 0
          BY <3>3, <5>1, BitsForAll
        <5>2. CASE peer.size # 0
          BY <1>2, <3>3, <4>1, <5>2 DEF PeerInv, Counted
        <5> QED  BY <5>1, <5>2
      <4> QED  BY <4>2, PieceCountAssumption DEF AllPieces
    <3> QED  BY <3>1, <3>2, <3>4, <3>5 DEF PeerInv
  <2>2. CASE PeerTable!Have
    <3>1. PICK i \in AllPieces : /\ peer' = AddPiece(peer, i)
                                 /\ announced' = announced \cup {i}
                                 /\ cut' = cut
      BY <2>2, SameMethods DEF PeerTable!Have
    <3>2. Counted(peer') /\ peer'.has = peer.has \cup {i}
      BY <1>2, <3>1, AddPieceCounted, AddPieceAdds DEF PeerInv
    <3> QED  BY <1>2, <3>1, <3>2 DEF PeerInv
  <2>3. CASE PeerTable!ReloadTorrentInfo
    <3>1. peer' = Resize(peer, PieceCount) /\ announced' = announced /\ cut' = cut
      BY <2>3, SameMethods DEF PeerTable!ReloadTorrentInfo
    <3>2. Counted(peer')
      BY <1>2, <3>1, ResizeCounted, PieceCountAssumption DEF PeerInv
    <3>3. peer'.has = peer.has \cap AllPieces \/ peer'.has = peer.has
      BY <1>2, <3>1 DEF Resize, CalculatePieces, PeerInv, Counted, AllPieces
    <3> QED  BY <1>2, <3>1, <3>2, <3>3 DEF PeerInv, Counted
  <2> QED  BY <1>2, <2>1, <2>2, <2>3 DEF PeerTable!PeerTableNext
<1>3. ASSUME PeerInv, UNCHANGED <<peer, announced, cut>> PROVE PeerInv'
  BY <1>3 DEF PeerInv, Counted, Indexes
<1> QED  BY <1>1, <1>2, <1>3

-------------------------------------------------------------------------------
(* Bytes. *)

\* The remainder of a division.
LEMMA Remainder ==
    ASSUME NEW n \in Nat, NEW s \in Nat \ {0}, NEW r \in 0 .. s - 1
    PROVE  (n * s + r) % s = r
OBVIOUS

\* The size of the last piece, unless it is a full one.
LEMMA LastSize ==
    ASSUME NEW last \in 1 .. PieceSize
    PROVE  ((PieceCount - 1) * PieceSize + last) % PieceSize
              = IF last = PieceSize THEN 0 ELSE last
<1>1. PieceCount - 1 \in Nat /\ PieceCount \in Nat /\ PieceSize \in Nat \ {0}
  BY PieceCountAssumption, SizeAssumption
<1>2. CASE last # PieceSize
  <2>1. last \in 0 .. PieceSize - 1
    BY <1>1, <1>2
  <2> QED  BY <1>1, <1>2, <2>1, Remainder
<1>3. CASE last = PieceSize
  <2>1. 0 \in 0 .. PieceSize - 1
    BY <1>1
  <2>2. (PieceCount * PieceSize + 0) % PieceSize = 0
    BY <1>1, <2>1, Remainder
  <2>3. (PieceCount - 1) * PieceSize + PieceSize = PieceCount * PieceSize + 0
    BY <1>1
  <2> QED  BY <1>3, <2>2, <2>3
<1> QED  BY <1>2, <1>3

\* The bytes told are the bytes of the pieces, less a full last one.
LEMMA BytesExact ==
    ASSUME TorrentInv
    PROVE  DownloadedSizeExact /\ FullLast!DownloadedSizeExact
<1>1. /\ progress.size = PieceCount
      /\ progress.received = Cardinality(progress.has)
      /\ progress.selectedReceived = Cardinality(progress.has \ progress.unselected)
      /\ Cardinality(progress.has) \in Nat
      /\ Cardinality(progress.has \ progress.unselected) \in Nat
  BY PartsCounted DEF TorrentInv, CountersExact
<1>2. /\ PieceSize \in Nat \ {0} /\ LastPieceSize \in 1 .. PieceSize
      /\ PieceSize \in 1 .. PieceSize
  BY SizeAssumption
<1>3. FullSize % PieceSize = IF LastPieceSize = PieceSize THEN 0 ELSE LastPieceSize
  BY <1>2, LastSize DEF FullSize
<1>4. FullLast!FullSize % PieceSize = 0
  BY <1>2, LastSize DEF FullLast!FullSize
<1>5. ReceivedBytes(progress) + FullLastPiece(progress.has) = SizeOf(progress.has)
  BY <1>1, <1>2, <1>3 DEF ReceivedBytes, SizeOf, FullLastPiece
<1>6. ReceivedSelectedBytes(progress) + FullLastPiece(progress.has \ progress.unselected)
         = SizeOf(progress.has \ progress.unselected)
  BY <1>1, <1>2, <1>3 DEF ReceivedSelectedBytes, SizeOf, FullLastPiece
<1>7. \A S : FullLast!Cardinality(S) = Cardinality(S)
  BY DEF FullLast!Cardinality, Cardinality
<1>8. FullLast!ReceivedBytes(progress) + FullLast!FullLastPiece(progress.has)
         = FullLast!SizeOf(progress.has)
  BY <1>1, <1>2, <1>4, <1>7
     DEF FullLast!ReceivedBytes, FullLast!SizeOf, FullLast!FullLastPiece
<1>9. FullLast!ReceivedSelectedBytes(progress)
            + FullLast!FullLastPiece(progress.has \ progress.unselected)
         = FullLast!SizeOf(progress.has \ progress.unselected)
  BY <1>1, <1>2, <1>4, <1>7
     DEF FullLast!ReceivedSelectedBytes, FullLast!SizeOf, FullLast!FullLastPiece
<1> QED  BY <1>5, <1>6, <1>8, <1>9 DEF DownloadedSizeExact, FullLast!DownloadedSizeExact

\* What the two tables tell, for any number and size of pieces: the table of a
\* peer shows what the peer has announced and is finished when that is every
\* piece, but for a bitfield that was cut off at the size of an earlier have
\* message (PeerInfo::pieces); the downloaded size is that of the pieces that
\* are there, less a full last piece (getReceivedBytes).
THEOREM TablesTellTheTruth == TablesSpec => []TablesTold
<1> DEFINE Inv == TorrentInv /\ PeerInv
<1>1. TablesInit => Inv
  BY TorrentInvInit, PeerInvHolds DEF TablesInit
<1>2. Inv /\ [TablesNext]_<<progress, peer, announced, cut>> => Inv'
  BY TorrentInvNext, PeerInvHolds
     DEF TablesNext, tableVars, TorrentInv, CountersExact, Indexes, PeerInv, Counted
<1>3. Inv => TablesTold
  BY BytesExact, FullIsAll, SameMethods DEF TablesTold, PeerTable!SeedExact, PeerInv
<1> QED  BY <1>1, <1>2, <1>3, PTL DEF TablesSpec
===============================================================================
