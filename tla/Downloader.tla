------------------------------ MODULE Downloader ------------------------------
(***************************************************************************)
(* mtt::Downloader with the parts it drives: the queue of piece checks of   *)
(* mtt::DownloadStorage, the partial pieces of UnfinishedPiecesState, the   *)
(* file selection of mtt::Files and the connections of mtt::Peers.          *)
(*                                                                          *)
(* Every connection, the two checking threads, the service threads and the  *)
(* user run concurrently.  What the code does under requestsMutex is one    *)
(* action; what it reads before it takes the mutex is a step of its own.    *)
(*                                                                          *)
(* Abstractions.  All selected files have one priority.  A block is correct *)
(* or bad, and a check tells the two apart (WriteCache models where the     *)
(* data are in between).  The counters of the piece table are exact         *)
(* (PiecesProgress), so the selection is finished when every selected piece *)
(* is there.  The number of requests a peer may have pending follows its    *)
(* speed in the code and is any number of MinPending .. MaxPending here.    *)
(***************************************************************************)
EXTENDS Integers, FiniteSets

CONSTANTS
    Pieces, Blocks,         \* the pieces, and the blocks of each piece
    Peers, Honest,          \* connections, and those that send correct data
    Steady,                 \* honest peers that never close the connection
    NoGroup,                \* suspiciousGroup = 0
    PeerPieces,             \* what each peer has in the end
    MinPending, MaxPending, \* pending requests of one peer
    MaxSuspicion,           \* suspicion above which a peer is disconnected
    Selections,             \* what the user leaves out: sets of pieces
    Budgets                 \* bounds: what may disturb one behaviour

ASSUME SetsAssumption ==
    /\ IsFiniteSet(Pieces)
    /\ \A i \in Pieces : IsFiniteSet(Blocks[i]) /\ Blocks[i] # {}
    /\ Honest \subseteq Peers /\ Steady \subseteq Honest
    /\ PeerPieces \in [Peers -> SUBSET Pieces]
ASSUME BoundsAssumption ==
    /\ MinPending \in Nat \ {0} /\ MaxPending \in Nat /\ MinPending <= MaxPending
    /\ MaxSuspicion \in Nat /\ NoGroup = 0
    /\ Selections \subseteq SUBSET Pieces
    /\ \A left \in Budgets : left \in [selections : Nat, badBlocks : Nat,
                                       storageErrors : Nat, stops : Nat,
                                       starts : Nat]

VARIABLES
    \* Files::progress
    has, unselected,
    verified,           \* pieces whose last hash check succeeded
    readded,            \* history: pieces added back to the selection
    \* requests, by piece
    requests,           \* keys of the map
    got,                \* blocks received, as pairs <<piece, block>>
    activePeers, sources, sourceGroups,
    saved,              \* blocks of UnfinishedPiecesState
    bad,                \* blocks of got and saved with wrong data
    \* peersRequestsInfo, by peer
    info,               \* keys of the map
    currentRequests,    \* pieces
    pending,            \* blocks requested and not answered, of those pieces
    requestedPieces,
    suspicion, suspiciousGroup, GroupIdx,
    \* connections
    connection,         \* "none", "open" or "closing"
    unwanted,           \* banned peers
    peerChoking, amInterested, peerHas,
    handling,           \* message that waits for requestsMutex
    \* piece checks
    checks, checkingPieces, freshPieces,
    pool,               \* "stopped", "running" or "draining"
    finishPosted,
    \* control
    started, starting, refresh, toEvaluate, sortedSelectedPieces,
    budget              \* changes of the selection, bad blocks, errors of the
                        \* storage, stops and starts that may still happen

progressVars == <<has, unselected, verified, readded>>
requestVars == <<requests, got, activePeers, sources, sourceGroups, saved, bad>>
infoVars == <<info, currentRequests, pending, requestedPieces>>
suspicionVars == <<suspicion, suspiciousGroup, GroupIdx>>
connectionVars == <<connection, unwanted, peerChoking, amInterested, peerHas>>
checkVars == <<checks, checkingPieces, freshPieces>>
poolVars == <<pool, finishPosted>>
controlVars == <<started, starting, refresh, toEvaluate, sortedSelectedPieces>>
vars == <<progressVars, requestVars, infoVars, suspicionVars, connectionVars,
          handling, checkVars, poolVars, controlVars, budget>>

BlocksOf(i) == {i} \X Blocks[i]
OfPieces(set) == UNION {BlocksOf(i) : i \in set}
BlockSet == OfPieces(Pieces)

\* One disturbance of the kind is used up.
Spend(kind) ==
    /\ budget[kind] > 0
    /\ budget' = [budget EXCEPT ![kind] = @ - 1]

Selected == Pieces \ unselected
SelectionFinished == Selected \subseteq has

\* isMissingPiece, on a table of received pieces
Missing(i, received) == i \notin received /\ i \notin unselected

\* requestsMutex is free
Unlocked == toEvaluate = {}

-------------------------------------------------------------------------------
(* evaluateNextRequests, on the tables its caller has brought up to date:    *)
(* `hs' the pieces received, `rq' the requests, `gt' their blocks, `act'     *)
(* their active peers, `sg' their source groups, `cur' and `pend' the        *)
(* pieces and blocks each peer was asked for.                                *)

\* Pieces the peer can be asked for.
Candidates(p, hs) ==
    {i \in sortedSelectedPieces : Missing(i, hs) /\ i \in peerHas[p]}

Free(i, rq, act) == i \notin rq \/ act[i] = {}

\* Mutated form of Shareable: a peer under no suspicion shares no piece.
ShareableSuspectsOnly(p, hs, rq, act, sg, cur) ==
    {i \in Candidates(p, hs) :
        /\ ~ Free(i, rq, act)
        /\ i \notin cur[p]
        /\ suspiciousGroup[p] # NoGroup /\ suspiciousGroup[p] \notin sg[i]}

\* Pieces other peers are already asked for.
Shareable(p, hs, rq, act, sg, cur) ==
    {i \in Candidates(p, hs) :
        /\ ~ Free(i, rq, act)
        /\ i \notin cur[p]
        /\ suspiciousGroup[p] = NoGroup \/ suspiciousGroup[p] \notin sg[i]}

\* The pieces `add' become current and the blocks `send' are requested: blocks
\* of the current pieces first, then of free pieces, then of shared ones with
\* the fewest active peers, until `max' blocks are pending or none is left.
BestRequests(p, max, add, send, hs, rq, gt, act, sg, cur, pend) ==
    LET load == Cardinality(pend[p] \cup send)
        free == {i \in Candidates(p, hs) : Free(i, rq, act)}
        shared == Shareable(p, hs, rq, act, sg, cur)
        loaded == gt \cup (saved \cap OfPieces(add \ rq))
        open(set) == OfPieces(set) \ (loaded \cup pend[p])
    IN /\ add \subseteq free \cup shared
       /\ send \subseteq open(cur[p] \cup add)
       /\ load <= max \/ send = {}
       /\ \A i \in add : send \cap BlocksOf(i) # {}
       /\ add # {} => open(cur[p]) \subseteq send
       /\ add \cap shared # {} => free \subseteq add
       /\ \A i \in add \cap shared, j \in shared \ add :
             Cardinality(act[i]) <= Cardinality(act[j])
       /\ \A i, j \in add :
             i = j \/ open({i}) \subseteq send \/ open({j}) \subseteq send
       /\ load < max => /\ add = free \cup shared
                        /\ open(cur[p] \cup add) \subseteq send

\* hasWantedPieces
HasWantedPieces(p, hs) == Candidates(p, hs) # {}

Evaluate(p, hs, rq, gt, act, sg, cur, pend) ==
    \/ /\ p \in peerChoking
       /\ amInterested' = IF HasWantedPieces(p, hs) /\ connection[p] = "open"
                          THEN amInterested \cup {p} ELSE amInterested
       /\ requests' = rq
       /\ got' = gt
       /\ activePeers' = act
       /\ currentRequests' = cur
       /\ pending' = pend
       /\ UNCHANGED <<saved, requestedPieces>>
    \/ /\ p \notin peerChoking
       /\ UNCHANGED amInterested
       /\ \E max \in MinPending .. MaxPending, add \in SUBSET Candidates(p, hs) :
          \E send \in SUBSET (OfPieces(cur[p] \cup add) \ (gt \cup pend[p])) :
             LET new == add \ rq IN
             /\ BestRequests(p, max, add, send, hs, rq, gt, act, sg, cur, pend)
             /\ requests' = rq \cup new
             /\ got' = gt \cup (saved \cap OfPieces(new))
             /\ saved' = saved \ OfPieces(new)
             /\ activePeers' = [i \in Pieces |->
                   IF i \in add THEN act[i] \cup {p} ELSE act[i]]
             /\ currentRequests' = [cur EXCEPT ![p] = @ \cup add]
             /\ pending' = [pend EXCEPT ![p] = @ \cup send]
             /\ requestedPieces' = [requestedPieces EXCEPT ![p] = @ \cup add]

-------------------------------------------------------------------------------
(* Connections. *)

Connect(p) ==
    /\ started
    /\ connection[p] = "none" /\ p \notin unwanted
    /\ connection' = [connection EXCEPT ![p] = "open"]
    /\ peerChoking' = peerChoking \cup {p}
    /\ amInterested' = amInterested \ {p}
    /\ peerHas' = [peerHas EXCEPT ![p] = {}]
    /\ UNCHANGED <<progressVars, requestVars, infoVars, suspicionVars, unwanted,
                   handling, checkVars, poolVars, controlVars, budget>>

\* The end of a connection that the peer or this side closed.
ConnectionEnds(p) ==
    /\ connection[p] # "none" /\ handling[p] = "none"
    /\ p \in Steady => connection[p] = "closing"
    /\ connection' = [connection EXCEPT ![p] = "none"]

\* connectionClosed
ConnectionClosed(p) ==
    /\ Unlocked
    /\ ConnectionEnds(p)
    /\ activePeers' = [i \in Pieces |->
          IF i \in currentRequests[p] THEN activePeers[i] \ {p} ELSE activePeers[i]]
    /\ info' = info \ {p}
    /\ currentRequests' = [currentRequests EXCEPT ![p] = {}]
    /\ pending' = [pending EXCEPT ![p] = {}]
    /\ requestedPieces' = [requestedPieces EXCEPT ![p] = {}]
    /\ suspicion' = [suspicion EXCEPT ![p] = 0]
    /\ suspiciousGroup' = [suspiciousGroup EXCEPT ![p] = NoGroup]
    /\ UNCHANGED <<progressVars, requests, got, sources, sourceGroups, saved, bad,
                   GroupIdx, unwanted, peerChoking, amInterested, peerHas,
                   handling, checkVars, poolVars, controlVars, budget>>

\* Peers::stop has taken the listener away: an entry that a message made after
\* the stop stays and refers to a connection that is gone.  The next connection
\* may get the same address.
ConnectionClosedUnheard(p) ==
    /\ ~ started
    /\ ConnectionEnds(p)
    /\ UNCHANGED <<progressVars, requestVars, infoVars, suspicionVars, unwanted,
                   peerChoking, amInterested, peerHas, handling, checkVars,
                   poolVars, controlVars, budget>>

\* Connections closed from this side: the callback comes later.
Closed(set) ==
    [p \in Peers |-> IF p \in set /\ connection[p] = "open" THEN "closing"
                     ELSE connection[p]]

Seeds == {p \in Peers : peerHas[p] = Pieces}

-------------------------------------------------------------------------------
(* A message arrives: PeerCommunication::handleMessage updates the state of  *)
(* the peer and messageReceived decides, without the mutex, to go on.        *)

Receive(p, kind) ==
    /\ connection[p] = "open" /\ handling[p] = "none" /\ started
    /\ handling' = [handling EXCEPT ![p] =
                        IF SelectionFinished THEN "none" ELSE kind]
    /\ connection' = IF SelectionFinished /\ p \in Seeds' THEN Closed({p})
                     ELSE connection
    /\ UNCHANGED <<progressVars, requestVars, infoVars, suspicionVars, unwanted,
                   amInterested, checkVars, poolVars, controlVars, budget>>

ReceivePiece(p) ==
    /\ requestedPieces[p] # {}
    /\ UNCHANGED <<peerChoking, peerHas>>
    /\ Receive(p, "Piece")

ReceiveUnchoke(p) ==
    /\ p \in peerChoking \cap amInterested
    /\ peerChoking' = peerChoking \ {p}
    /\ UNCHANGED peerHas
    /\ Receive(p, "Unchoke")

\* The first message of a connection.
ReceiveBitfield(p) ==
    /\ peerHas[p] = {}
    /\ \E set \in SUBSET PeerPieces[p] \ {{}} :
          peerHas' = [peerHas EXCEPT ![p] = set]
    /\ UNCHANGED peerChoking
    /\ Receive(p, "Bitfield")

ReceiveHave(p, i) ==
    /\ i \in PeerPieces[p] \ peerHas[p]
    /\ peerHas' = [peerHas EXCEPT ![p] = @ \cup {i}]
    /\ UNCHANGED peerChoking
    /\ Receive(p, IF Missing(i, has) THEN "Have" ELSE "none")

\* Choke is not passed on to the downloader.
ReceiveChoke(p) ==
    /\ connection[p] = "open" /\ handling[p] = "none" /\ p \notin peerChoking
    /\ peerChoking' = peerChoking \cup {p}
    /\ UNCHANGED <<progressVars, requestVars, infoVars, suspicionVars, connection,
                   unwanted, amInterested, peerHas, handling, checkVars, poolVars,
                   controlVars, budget>>

-------------------------------------------------------------------------------
(* messageReceived, under the mutex. *)

Handle(p, kind) ==
    /\ Unlocked
    /\ handling[p] = kind
    /\ handling' = [handling EXCEPT ![p] = "none"]

HandleUnchoke(p) ==
    /\ Handle(p, "Unchoke")
    /\ IF p \in info
       THEN Evaluate(p, has, requests, got, activePeers, sourceGroups,
                     currentRequests, [pending EXCEPT ![p] = {}])
       ELSE UNCHANGED <<requests, got, activePeers, saved, currentRequests,
                        pending, requestedPieces, amInterested>>
    /\ UNCHANGED <<progressVars, sources, sourceGroups, bad, info, suspicionVars,
                   connection, unwanted, peerChoking, peerHas, checkVars,
                   poolVars, controlVars, budget>>

\* Have and Bitfield; a bitfield without a wanted piece is left alone.
HandlePieces(p) ==
    /\ \/ /\ \/ Handle(p, "Have")
             \/ Handle(p, "Bitfield") /\ HasWantedPieces(p, has)
          /\ info' = info \cup {p}
          /\ Evaluate(p, has, requests, got, activePeers, sourceGroups,
                      currentRequests, pending)
       \/ /\ Handle(p, "Bitfield") /\ ~ HasWantedPieces(p, has)
          /\ UNCHANGED <<info, requests, got, activePeers, saved, currentRequests,
                         pending, requestedPieces, amInterested>>
    /\ UNCHANGED <<progressVars, sources, sourceGroups, bad, suspicionVars,
                   connection, unwanted, peerChoking, peerHas, checkVars,
                   poolVars, controlVars, budget>>

-------------------------------------------------------------------------------
(* pieceBlockReceived *)

\* addPeerBlockResponse: the block is of a piece the peer was asked for.
Expected(p, i) == p \in info /\ i \in currentRequests[p] \cup requestedPieces[p]

\* PieceState::addBlock succeeds.
NewBlock(i, b) == i \in requests /\ <<i, b>> \notin got

LastBlock(i, b) == BlocksOf(i) \subseteq got \cup {<<i, b>>}

Answered(p, i, b) == [pending EXCEPT ![p] = @ \ {<<i, b>>}]

SourceGroups(p, i) ==
    IF suspiciousGroup[p] = NoGroup THEN sourceGroups[i]
    ELSE sourceGroups[i] \cup {suspiciousGroup[p]}

\* An unexpected block is dropped; one that is already there only frees its
\* place among the pending ones.
DropBlock(p, i, b) ==
    /\ ~ Expected(p, i) \/ ~ NewBlock(i, b)
    /\ IF Expected(p, i)
       THEN Evaluate(p, has, requests, got, activePeers, sourceGroups,
                     currentRequests, Answered(p, i, b))
       ELSE UNCHANGED <<requests, got, activePeers, saved, currentRequests,
                        pending, requestedPieces, amInterested>>
    /\ UNCHANGED <<has, sources, sourceGroups, bad, checks, checkingPieces, budget>>

Sent(good) ==
    IF good THEN UNCHANGED budget ELSE Spend("badBlocks")

AddBlock(p, i, b, good) ==
    /\ Expected(p, i) /\ NewBlock(i, b) /\ ~ LastBlock(i, b)
    /\ sources' = [sources EXCEPT ![i] = @ \cup {p}]
    /\ sourceGroups' = [sourceGroups EXCEPT ![i] = SourceGroups(p, i)]
    /\ bad' = IF good THEN bad ELSE bad \cup {<<i, b>>}
    /\ Sent(good)
    /\ Evaluate(p, has, requests, got \cup {<<i, b>>}, activePeers, sourceGroups',
                currentRequests, Answered(p, i, b))
    /\ UNCHANGED <<has, checks, checkingPieces>>

\* Mutated form of CompletePiece: other peers keep the piece as current.
CompletePieceKeepsCurrent(p, i, b, good) ==
    /\ Expected(p, i) /\ NewBlock(i, b) /\ LastBlock(i, b)
    /\ Sent(good)
    /\ checks' = checks \cup {[piece |-> i, sources |-> sources[i] \cup {p},
                               bad |-> ~ good \/ bad \cap BlocksOf(i) # {}]}
    /\ checkingPieces' = checkingPieces + 1
    /\ has' = has \cup {i}
    /\ sources' = [sources EXCEPT ![i] = {}]
    /\ sourceGroups' = [sourceGroups EXCEPT ![i] = {}]
    /\ bad' = bad \ BlocksOf(i)
    /\ Evaluate(p, has', requests \ {i}, got \ BlocksOf(i),
                [activePeers EXCEPT ![i] = {}], sourceGroups',
                [currentRequests EXCEPT ![p] = @ \ {i}],
                [pending EXCEPT ![p] = @ \ BlocksOf(i)])

\* Mutated form of CompletePiece: the piece is added after its check only.
CompletePieceAddedLater(p, i, b, good) ==
    /\ Expected(p, i) /\ NewBlock(i, b) /\ LastBlock(i, b)
    /\ Sent(good)
    /\ checks' = checks \cup {[piece |-> i, sources |-> sources[i] \cup {p},
                               bad |-> ~ good \/ bad \cap BlocksOf(i) # {}]}
    /\ checkingPieces' = checkingPieces + 1
    /\ sources' = [sources EXCEPT ![i] = {}]
    /\ sourceGroups' = [sourceGroups EXCEPT ![i] = {}]
    /\ bad' = bad \ BlocksOf(i)
    /\ UNCHANGED has
    /\ Evaluate(p, has, requests \ {i}, got \ BlocksOf(i),
                [activePeers EXCEPT ![i] = {}], sourceGroups',
                [q \in Peers |-> currentRequests[q] \ {i}],
                [q \in Peers |-> pending[q] \ BlocksOf(i)])

\* The last block: the request ends, a wanted piece is checked, and the piece
\* counts as received before its check.
CompletePiece(p, i, b, good) ==
    /\ Expected(p, i) /\ NewBlock(i, b) /\ LastBlock(i, b)
    /\ Sent(good)
    /\ IF Missing(i, has)
       THEN /\ checks' = checks \cup
                  {[piece |-> i, sources |-> sources[i] \cup {p},
                    bad |-> ~ good \/ bad \cap BlocksOf(i) # {}]}
            /\ checkingPieces' = checkingPieces + 1
       ELSE UNCHANGED <<checks, checkingPieces>>
    /\ has' = has \cup {i}
    /\ sources' = [sources EXCEPT ![i] = {}]
    /\ sourceGroups' = [sourceGroups EXCEPT ![i] = {}]
    /\ bad' = bad \ BlocksOf(i)
    /\ Evaluate(p, has', requests \ {i}, got \ BlocksOf(i),
                [activePeers EXCEPT ![i] = {}], sourceGroups',
                [q \in Peers |-> currentRequests[q] \ {i}],
                [q \in Peers |-> pending[q] \ BlocksOf(i)])

\* A peer answers a request, an earlier one too, or one that a stop has dropped
\* meanwhile; only some peers send anything else.
HandlePiece(p, i, b, good) ==
    /\ Handle(p, "Piece")
    /\ p \in Honest =>
          good /\ (i \in requestedPieces[p] \/ requestedPieces[p] = {})
    /\ \/ DropBlock(p, i, b) /\ good
       \/ AddBlock(p, i, b, good)
       \/ CompletePiece(p, i, b, good)
    /\ UNCHANGED <<unselected, verified, readded, info, suspicionVars, connection, unwanted,
                   peerChoking, peerHas, freshPieces, poolVars, controlVars>>

-------------------------------------------------------------------------------
(* DownloadStorage::checkPieceFunc and pieceChecked *)

\* refreshPieceSources: who gets disconnected for a bad piece.
Culprits(from) ==
    {p \in from \cap info :
        Cardinality(from) = 1 \/ suspicion[p] + 1 > MaxSuspicion}

RefreshPieceSources(status, from) ==
    LET known == from \cap info
        culprits == Culprits(from)
        cleared == {suspiciousGroup[p] : p \in culprits}
    IN CASE status = "Success" ->
              /\ suspicion' = [p \in Peers |-> IF p \in known THEN 0 ELSE suspicion[p]]
              /\ suspiciousGroup' = [p \in Peers |->
                    IF p \in known THEN NoGroup ELSE suspiciousGroup[p]]
              /\ UNCHANGED <<GroupIdx, connection, unwanted>>
         [] status = "Mismatch" ->
              /\ GroupIdx' = GroupIdx + 1
              /\ suspicion' = [p \in Peers |->
                    IF p \in known THEN suspicion[p] + 1 ELSE suspicion[p]]
              /\ suspiciousGroup' = [p \in Peers |->
                    IF p \in known \ culprits THEN GroupIdx'
                    ELSE IF suspiciousGroup[p] \in cleared THEN NoGroup
                    ELSE suspiciousGroup[p]]
              /\ connection' = Closed(culprits)
              /\ unwanted' = unwanted \cup culprits
         [] status = "Error" ->
              UNCHANGED <<suspicionVars, connection, unwanted>>

\* Mutated form of PieceChecked: finish is posted while pieces are checked.
PieceCheckedFinishEarly(check, status) ==
    /\ Unlocked /\ pool # "stopped"
    /\ check \in checks
    /\ status = IF check.bad THEN "Mismatch" ELSE "Success"
    /\ checks' = checks \ {check}
    /\ checkingPieces' = checkingPieces - 1
    /\ IF status = "Success"
       THEN /\ freshPieces' = freshPieces \cup {check.piece}
            /\ verified' = verified \cup {check.piece}
            /\ finishPosted' = (finishPosted \/ SelectionFinished)
            /\ UNCHANGED has
       ELSE /\ has' = has \ {check.piece}
            /\ UNCHANGED <<freshPieces, verified, finishPosted>>
    /\ RefreshPieceSources(status, check.sources)
    /\ UNCHANGED <<unselected, readded, requestVars, infoVars, peerChoking,
                   amInterested, peerHas, handling, pool, controlVars, budget>>

\* A check ends with I_Mismatch for wrong data, with another error when the
\* piece cannot be read back.
PieceChecked(check, status) ==
    /\ Unlocked /\ pool # "stopped"
    /\ check \in checks
    /\ \/ /\ status = IF check.bad THEN "Mismatch" ELSE "Success"
          /\ UNCHANGED budget
       \/ status = "Error" /\ Spend("storageErrors")
    /\ checks' = checks \ {check}
    /\ checkingPieces' = checkingPieces - 1
    /\ IF status = "Success"
       THEN /\ freshPieces' = freshPieces \cup {check.piece}
            /\ verified' = verified \cup {check.piece}
            /\ finishPosted' = (finishPosted
                                  \/ (SelectionFinished /\ checkingPieces' = 0))
            /\ UNCHANGED has
       ELSE /\ has' = has \ {check.piece}
            /\ UNCHANGED <<freshPieces, verified, finishPosted>>
    /\ RefreshPieceSources(status, check.sources)
    /\ UNCHANGED <<unselected, readded, requestVars, infoVars, peerChoking,
                   amInterested, peerHas, handling, pool, controlVars>>

\* popFreshPieces; FileTransfer::updateMeasures sends a Have for each.
PopFreshPieces ==
    /\ Unlocked /\ freshPieces # {}
    /\ freshPieces' = {}
    /\ UNCHANGED <<progressVars, requestVars, infoVars, suspicionVars,
                   connectionVars, handling, checks, checkingPieces, poolVars,
                   controlVars, budget>>

-------------------------------------------------------------------------------
(* End of a download, stop and start.  DownloadStorage::stop waits for the   *)
(* checks in the queue: the pool is draining meanwhile.                      *)

\* finish, as posted by pieceChecked
Finish ==
    /\ Unlocked
    /\ finishPosted
    /\ finishPosted' = FALSE
    /\ connection' = Closed(info \cap Seeds)
    /\ pool' = IF pool = "running" THEN "draining" ELSE pool
    /\ UNCHANGED <<progressVars, requestVars, infoVars, suspicionVars, unwanted,
                   peerChoking, amInterested, peerHas, handling, checkVars,
                   controlVars, budget>>

PoolStopped ==
    /\ pool = "draining" /\ checks = {}
    /\ pool' = "stopped"
    /\ UNCHANGED <<progressVars, requestVars, infoVars, suspicionVars,
                   connectionVars, handling, checkVars, finishPosted, controlVars,
                   budget>>

\* FileTransfer::stop, which may fall into the change of a selection: the
\* unfinished pieces are kept for the next start.
Stop ==
    /\ Unlocked
    /\ started
    /\ Spend("stops")
    /\ started' = FALSE
    /\ connection' = Closed(Peers)
    /\ saved' = saved \cup got
    /\ requests' = {} /\ got' = {}
    /\ activePeers' = [i \in Pieces |-> {}]
    /\ sources' = [i \in Pieces |-> {}]
    /\ sourceGroups' = [i \in Pieces |-> {}]
    /\ info' = {}
    /\ currentRequests' = [p \in Peers |-> {}]
    /\ pending' = [p \in Peers |-> {}]
    /\ requestedPieces' = [p \in Peers |-> {}]
    /\ suspicion' = [p \in Peers |-> 0]
    /\ suspiciousGroup' = [p \in Peers |-> NoGroup]
    /\ pool' = IF pool = "running" THEN "draining" ELSE pool
    /\ UNCHANGED <<progressVars, bad, GroupIdx, unwanted, peerChoking,
                   amInterested, peerHas, handling, checkVars, finishPosted,
                   starting, refresh, toEvaluate, sortedSelectedPieces>>

\* FileTransfer::start: the selection is refreshed before any connection, and
\* the torrent counts as started when refreshTimer exists.
Start ==
    /\ ~ started /\ refresh = "idle" /\ pool # "draining"
    /\ Spend("starts")
    /\ starting' = TRUE
    /\ refresh' = "lists"
    /\ UNCHANGED <<started, progressVars, requestVars, infoVars, suspicionVars,
                   connectionVars, handling, checkVars, poolVars, toEvaluate,
                   sortedSelectedPieces>>

-------------------------------------------------------------------------------
(* Change of the selection: Files::select sets the flags of the pieces, then *)
(* refreshSelection brings the requests up to date in two steps.             *)

SelectFiles(set) ==
    /\ refresh = "idle"
    /\ Spend("selections")
    /\ unselected' = set
    /\ readded' = readded \cup (unselected \ set)
    /\ refresh' = IF started THEN "lists" ELSE "idle"
    /\ UNCHANGED <<has, verified, requestVars, infoVars, suspicionVars,
                   connectionVars, handling, checkVars, poolVars, started,
                   starting, toEvaluate, sortedSelectedPieces>>

RefreshLists ==
    LET kept == {i \in requests : Missing(i, has)} IN
    /\ Unlocked
    /\ refresh = "lists"
    /\ refresh' = "evaluate"
    /\ sortedSelectedPieces' = Selected
    /\ requests' = kept
    /\ got' = got \cap OfPieces(kept)
    /\ bad' = bad \cap (got' \cup saved)
    /\ activePeers' = [i \in Pieces |-> IF i \in kept THEN activePeers[i] ELSE {}]
    /\ sources' = [i \in Pieces |-> IF i \in kept THEN sources[i] ELSE {}]
    /\ sourceGroups' = [i \in Pieces |-> IF i \in kept THEN sourceGroups[i] ELSE {}]
    /\ currentRequests' = [p \in Peers |-> currentRequests[p] \ (requests \ kept)]
    /\ pending' = [p \in Peers |-> pending[p] \ OfPieces(requests \ kept)]
    /\ UNCHANGED <<progressVars, saved, info, requestedPieces, suspicionVars,
                   connectionVars, handling, checkVars, poolVars, started,
                   starting, toEvaluate, budget>>

\* DownloadStorage::start, then every peer is evaluated under the mutex.
RefreshRequests ==
    /\ Unlocked
    /\ refresh = "evaluate"
    /\ refresh' = "idle"
    /\ started' = (started \/ starting) /\ starting' = FALSE
    /\ IF SelectionFinished
       THEN UNCHANGED <<pool, toEvaluate>>
       ELSE /\ pool # "draining"
            /\ pool' = "running"
            /\ toEvaluate' = info
    /\ UNCHANGED <<progressVars, requestVars, infoVars, suspicionVars,
                   connectionVars, handling, checkVars, finishPosted,
                   sortedSelectedPieces, budget>>

\* The memory of a connection that is gone reads as it was, or as choking.
EvaluatePeer(p) ==
    /\ p \in toEvaluate
    /\ toEvaluate' = toEvaluate \ {p}
    /\ \/ Evaluate(p, has, requests, got, activePeers, sourceGroups,
                   currentRequests, pending)
       \/ /\ connection[p] = "none"
          /\ UNCHANGED <<requests, got, activePeers, saved, currentRequests,
                         pending, requestedPieces, amInterested>>
    /\ UNCHANGED <<progressVars, sources, sourceGroups, bad, info, suspicionVars,
                   connection, unwanted, peerChoking, peerHas, handling, checkVars,
                   poolVars, started, starting, refresh, sortedSelectedPieces, budget>>

-------------------------------------------------------------------------------
Init ==
    /\ has = {} /\ unselected = {} /\ verified = {} /\ readded = {}
    /\ requests = {} /\ got = {} /\ saved = {} /\ bad = {}
    /\ activePeers = [i \in Pieces |-> {}]
    /\ sources = [i \in Pieces |-> {}]
    /\ sourceGroups = [i \in Pieces |-> {}]
    /\ info = {}
    /\ currentRequests = [p \in Peers |-> {}]
    /\ pending = [p \in Peers |-> {}]
    /\ requestedPieces = [p \in Peers |-> {}]
    /\ suspicion = [p \in Peers |-> 0]
    /\ suspiciousGroup = [p \in Peers |-> NoGroup]
    /\ GroupIdx = 0
    /\ connection = [p \in Peers |-> "none"]
    /\ unwanted = {} /\ peerChoking = Peers /\ amInterested = {}
    /\ peerHas = [p \in Peers |-> {}]
    /\ handling = [p \in Peers |-> "none"]
    /\ checks = {} /\ checkingPieces = 0 /\ freshPieces = {}
    /\ pool = "stopped" /\ finishPosted = FALSE
    /\ started = FALSE /\ starting = FALSE /\ refresh = "idle" /\ toEvaluate = {}
    /\ sortedSelectedPieces = {}
    /\ budget \in Budgets

PeerNext(p) ==
    \/ Connect(p) \/ ConnectionClosed(p) \/ ConnectionClosedUnheard(p)
    \/ ReceivePiece(p) \/ ReceiveUnchoke(p) \/ ReceiveBitfield(p) \/ ReceiveChoke(p)
    \/ \E i \in Pieces : ReceiveHave(p, i)
    \/ HandleUnchoke(p) \/ HandlePieces(p)
    \/ \E i \in Pieces, good \in BOOLEAN :
          \E b \in Blocks[i] : HandlePiece(p, i, b, good)
    \/ EvaluatePeer(p)

Next ==
    \/ \E p \in Peers : PeerNext(p)
    \/ \E check \in checks, status \in {"Success", "Mismatch", "Error"} :
          PieceChecked(check, status)
    \/ PopFreshPieces
    \/ Finish \/ PoolStopped
    \/ Start \/ Stop
    \/ \E set \in Selections : SelectFiles(set)
    \/ RefreshLists \/ RefreshRequests

Spec == Init /\ [][Next]_vars

\* The threads of the program go on; a steady peer connects, says what it has,
\* unchokes when asked to and answers its requests in the end.
Answer(p) ==
    \E i \in Pieces : \E b \in Blocks[i] :
        <<i, b>> \in pending[p] /\ HandlePiece(p, i, b, TRUE)

Fairness ==
    /\ WF_vars(Start) /\ WF_vars(RefreshLists) /\ WF_vars(RefreshRequests)
    /\ WF_vars(Finish) /\ WF_vars(PoolStopped)
    /\ WF_vars(\E check \in checks, status \in {"Success", "Mismatch"} :
                  PieceChecked(check, status))
    /\ \A p \in Peers :
          /\ WF_vars(EvaluatePeer(p))
          /\ WF_vars(HandleUnchoke(p)) /\ WF_vars(HandlePieces(p))
          /\ WF_vars(\E i \in Pieces : \E b \in Blocks[i] :
                        HandlePiece(p, i, b, TRUE))
          /\ WF_vars(/\ connection[p] = "closing"
                     /\ ConnectionClosed(p) \/ ConnectionClosedUnheard(p))
    /\ \A p \in Steady :
          /\ WF_vars(Connect(p))
          /\ SF_vars(ReceiveBitfield(p) \/ \E i \in Pieces : ReceiveHave(p, i))
          /\ SF_vars(ReceiveUnchoke(p))
          /\ SF_vars(ReceivePiece(p)) /\ SF_vars(Answer(p))

FairSpec == Spec /\ Fairness

-------------------------------------------------------------------------------
(* Properties. *)

CheckSet == [piece : Pieces, sources : SUBSET Peers, bad : BOOLEAN]

\* Types of the variables.
TypeOK ==
    /\ has \subseteq Pieces /\ unselected \subseteq Pieces /\ verified \subseteq Pieces
    /\ readded \subseteq Pieces
    /\ requests \subseteq Pieces /\ got \subseteq BlockSet
    /\ saved \subseteq BlockSet /\ bad \subseteq BlockSet
    /\ activePeers \in [Pieces -> SUBSET Peers]
    /\ sources \in [Pieces -> SUBSET Peers]
    /\ sourceGroups \in [Pieces -> SUBSET (1 .. GroupIdx)]
    /\ info \subseteq Peers
    /\ currentRequests \in [Peers -> SUBSET Pieces]
    /\ pending \in [Peers -> SUBSET BlockSet]
    /\ requestedPieces \in [Peers -> SUBSET Pieces]
    /\ suspicion \in [Peers -> Nat] /\ suspiciousGroup \in [Peers -> 0 .. GroupIdx]
    /\ GroupIdx \in Nat
    /\ connection \in [Peers -> {"none", "open", "closing"}]
    /\ unwanted \subseteq Peers
    /\ peerChoking \subseteq Peers /\ amInterested \subseteq Peers
    /\ peerHas \in [Peers -> SUBSET Pieces]
    /\ handling \in [Peers -> {"none", "Piece", "Unchoke", "Bitfield", "Have"}]
    /\ checks \subseteq CheckSet /\ checkingPieces \in Int
    /\ freshPieces \subseteq Pieces
    /\ pool \in {"stopped", "running", "draining"} /\ finishPosted \in BOOLEAN
    /\ started \in BOOLEAN /\ starting \in BOOLEAN
    /\ refresh \in {"idle", "lists", "evaluate"}
    /\ toEvaluate \subseteq Peers /\ sortedSelectedPieces \subseteq Pieces
    /\ budget \in [selections : Nat, badBlocks : Nat, storageErrors : Nat, stops : Nat,
                   starts : Nat]

\* The two tables of the downloader agree through every interleaving of
\* answers, closed connections, changed selections and stops: a request lists a
\* peer as active exactly while that peer holds the piece as current, and a
\* peer holds only pieces that are being requested.  Otherwise a piece stays
\* taken by a peer that is gone, or evaluateNextRequests revives a request of a
\* piece that is already there.
RequestsConsistent ==
    \A p \in Peers :
        /\ currentRequests[p] \subseteq requests
        /\ \A i \in Pieces : p \in activePeers[i] <=> i \in currentRequests[p]
        /\ pending[p] \subseteq OfPieces(currentRequests[p])
        /\ currentRequests[p] # {} => p \in info

\* A piece is in one place only: requested, or received and in at most one
\* check, and checkingPieces counts the checks under way (finish waits for 0).
NoPieceTwice ==
    /\ requests \cap has = {}
    /\ \A c \in checks : c.piece \in has
    /\ \A c, d \in checks : c.piece = d.piece => c = d
    /\ checkingPieces = Cardinality(checks)

\* A selected piece counts as received only once it has passed its hash check,
\* or while it waits for it, and what is announced to the peers has passed.  A
\* piece deselected before its last block is received without a check
\* (pieceBlockReceived): one that is added back to the selection is exempt.
ReceivedVerified ==
    /\ (Selected \ readded) \cap has \subseteq verified \cup {c.piece : c \in checks}
    /\ freshPieces \subseteq verified \cap has

\* A torrent that is started and has pieces to download has its storage threads
\* running, as long as nothing is added back to the selection: a finish posted
\* before that stops them, since it does not look at the selection again.
StorageRuns ==
    /\ started /\ refresh = "idle" /\ ~ SelectionFinished
    /\ readded = {}
    => pool = "running"

\* When the downloader stops its storage at the end of a download, every piece
\* of the selection has passed its hash check, but for pieces that were added
\* back to the selection: a piece is not taken for received before
\* (ReceivedVerified), nor the storage stopped under a download that goes on
\* (StorageRuns).
FinishedVerified ==
    /\ [](TypeOK /\ ReceivedVerified /\ StorageRuns)
    /\ [][Finish => Selected \ readded \subseteq verified]_vars

\* With one steady peer that has every piece, the download ends, whatever the
\* other connections do.
DownloadFinishes == <>[](Selected \subseteq verified)
===============================================================================
