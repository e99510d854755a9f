---------------------------------- MODULE Dht ----------------------------------
(***************************************************************************)
(* Queries of mtt::dht (GetPeers, FindNode, PingNodes), Communication, and  *)
(* UdpAsyncComm, which keeps their requests until an answer or a timeout.   *)
(*                                                                          *)
(* Callbacks run one at a time (respondingMutex).  A packet is known by its *)
(* sender and transaction.  Requests of other nodes go to the Responder.    *)
(***************************************************************************)
EXTENDS Integers, FiniteSets, FiniteSetsExt, DhtTable, DhtResponder

CONSTANTS
    Searches,               \* GetPeers queries
    Finds,                  \* FindNode queries
    Pings,                  \* PingNodes, one for each refreshTable
    Hash,                   \* what a GetPeers query looks for
    Distance,               \* of each node to the target of each query
    BucketOrder,            \* getClosestNodes: buckets from that of the target on
    Knows,                  \* nodes in the answer of each node
    PeersAt,                \* nodes whose answer has a peer that is not known yet
    MaxSimultaneousRequests, MaxCachedNodes, MaxReturnedValues, MaxClosestNodes,
    MaxBlacklist,           \* 32: until then distance does not matter
    KnownAtFirst,           \* nodes in the saved table
    Plans                   \* what is started, and may happen, in a behaviour: how
                            \* many answers are lost or sends fail, how many timeouts
                            \* are early, whether nodes are pinged because none answered
                            \* for long, who answers with another identity, for how
                            \* long, and how many requests of each other node come

Queries == Searches \cup Finds
Owners == Queries \cup Pings

ASSUME DhtAssumption ==
    /\ IsFiniteSet(Nodes)
    /\ Searches \cap Finds = {} /\ Queries \cap Pings = {}
    /\ BucketOrder \in [Queries -> Seq(Range(BucketOf))] /\ KnownAtFirst \in Seq(Nodes)
    /\ MaxReturnedValues \in Nat /\ MaxClosestNodes \in Nat
    /\ Distance \in [Queries -> [Nodes -> Nat]]
    /\ Hashes \subseteq {Hash[q] : q \in Searches}
    /\ Knows \in [Nodes -> Seq(Nat)] /\ PeersAt \subseteq Nodes
    /\ MaxSimultaneousRequests \in Nat \ {0} /\ MaxCachedNodes \in Nat \ {0}
    /\ Plans \subseteq [start : SUBSET Owners, abandon : SUBSET Searches,
                        restart : BOOLEAN, restarted : {FALSE}, stray : BOOLEAN,
                        losses : Nat, early : Nat, aged : BOOLEAN, renamed : SUBSET Nodes,
                        ticks : Nat, requests : [Nodes -> Nat]]

VARIABLES
    table,          \* Table::buckets
    query,          \* state of each query
    peersQueries,   \* queries of Communication, in order
    pending,        \* UdpAsyncComm::pendingResponses
    timing,         \* requests that a running checkTimeout has found
    deaf,           \* pending requests that no timer watches any more
    packets,        \* answers on their way: <<node, transaction>>
    sent,           \* number of requests sent, the last transaction
    reported,       \* dhtFindingPeersFinished received for each query
    responder,
    refreshTimer,   \* calls of refreshTable to come: of start, and of the timer
    clock,
    remote,         \* history: the tokens of others, their announcements, when, and
                    \* when the responder was refreshed
    plan

answering == <<responder, refreshTimer, clock, remote>>

vars == <<table, query, peersQueries, pending, timing, deaf, packets, sent,
          reported, answering, plan>>

\* The part a callback works on.
Work == [table |-> table, query |-> query, peersQueries |-> peersQueries,
         pending |-> pending, packets |-> packets, sent |-> sent,
         reported |-> reported]

Apply(work) ==
    \E w \in {work} :
        /\ table' = w.table /\ query' = w.query /\ peersQueries' = w.peersQueries
        /\ pending' = w.pending /\ packets' = w.packets /\ sent' = w.sent
        /\ reported' = w.reported

-------------------------------------------------------------------------------
(* NodeId and mergeClosestNodes *)

Length(distance) == Cardinality({k \in 1 .. 8 : 2 ^ k <= distance})

CloserToNodeThan(q, n, m) ==
    Length(Distance[q][n]) # 0 /\ Distance[q][n] < Distance[q][m]

\* Takes the place of the first of the farthest nodes that are not closer.
ReplaceFarther(q, to, n) ==
    LET farther == {i \in DOMAIN to : /\ ~ CloserToNodeThan(q, to[i], n)
                                      /\ Length(Distance[q][to[i]]) > 0}
        Worst(i) == \A k \in farther :
                       LET a == Length(Distance[q][to[i]]) b == Length(Distance[q][to[k]])
                       IN a > b \/ (a = b /\ i <= k)
    IN [i \in DOMAIN to |-> IF i \in farther /\ Worst(i) THEN n ELSE to[i]]

MergeNode(q, to, used, minDistance, n) ==
    IF \/ n \in Range(to) \/ n \in used \/ n \notin Nodes   \* isValidNode
       \/ Length(Distance[q][n]) > minDistance /\ Cardinality(used) >= MaxBlacklist
    THEN to
    ELSE IF Len(to) < MaxCachedNodes THEN Append(to, n)
    ELSE ReplaceFarther(q, to, n)

MergeClosestNodes(q, s, nodes, minDistance) ==
    [s EXCEPT !.received =
        FoldLeft(LAMBDA to, n : MergeNode(q, to, s.used, minDistance, n), @, nodes)]

-------------------------------------------------------------------------------
(* Requests *)

Request(owner, n, id, minDistance) ==
    [owner |-> owner, node |-> n, id |-> id, minDistance |-> minDistance, retries |-> 0]

\* Mutated form of SendRequests: the requests are only counted.
SendRequestsUnwatched(w, owner, nodes, minDistance) ==
    [w EXCEPT !.query[owner].requests =
                  @ \o [i \in DOMAIN nodes |-> [node |-> nodes[i], id |-> w.sent + i]],
              !.sent = @ + Len(nodes)]

\* sendRequest for each of nodes: UdpAsyncComm::sendMessage and addPendingResponse
SendRequests(w, owner, nodes, minDistance) ==
    [w EXCEPT !.query[owner].requests =
                  @ \o [i \in DOMAIN nodes |-> [node |-> nodes[i], id |-> w.sent + i]],
              !.pending =
                  @ \o [i \in DOMAIN nodes |->
                           Request(owner, nodes[i], w.sent + i, minDistance[nodes[i]])],
              !.packets = @ \cup {<<nodes[i], w.sent + i>> : i \in DOMAIN nodes},
              !.sent = @ + Len(nodes)]

\* findingPeersFinished: the first query for the same hash is told and forgotten.
FindingPeersFinished(w, q) ==
    LET i == SelectInSeq(w.peersQueries, LAMBDA p : Hash[p] = Hash[q])
    IN IF i = 0 THEN w
       ELSE [w EXCEPT !.peersQueries = RemoveAt(@, i),
                      !.reported[w.peersQueries[i]] = @ + 1]

\* The next nodes, as many as may be asked at once.
SendNext(w, q) ==
    LET s == w.query[q]
        room == s.limit - Len(s.requests)
        n == IF room < 0 \/ (q \in Searches /\ s.found >= MaxReturnedValues) THEN 0
             ELSE Min({room, Len(s.received)})
        nodes == SubSeq(s.received, 1, n)
        taken == [w EXCEPT !.query[q] = [s EXCEPT !.used = @ \cup Range(nodes),
                                                  !.received = SubSeq(@, n + 1, Len(@))]]
    IN SendRequests(taken, q, nodes, [x \in Nodes |-> Length(Distance[q][x])])

\* Mutated form of ForgetRequest: a request that was not answered stays.
ForgetRequestAnswered(s, q, r) ==
    [s EXCEPT !.requests = SelectSeq(@, LAMBDA x : x.id # r.id \/ r.retries > 0)]

\* GetPeers forgets a request to the same endpoint, the others this one.
ForgetRequest(s, q, r) ==
    LET i == SelectInSeq(s.requests, LAMBDA x : IF q \in Searches THEN x.node = r.node
                                                ELSE x.id = r.id)
    IN IF i = 0 THEN s ELSE [s EXCEPT !.requests = RemoveAt(@, i)]

\* What the answer of node n says.
ParseGetPeersResponse(n) ==
    [values |-> IF n \in PeersAt THEN 1 ELSE 0, nodes |-> Knows[n]]
ParseFindNodeResponse(n) == [values |-> 0, nodes |-> Knows[n]]

\* An answer to request r of query q, which counts when it names the node asked.
Answered(w, q, r) ==
    LET response == IF q \in Searches THEN ParseGetPeersResponse(r.node)
                    ELSE ParseFindNodeResponse(r.node)
        s == [w.query[q] EXCEPT !.found = @ + response.values]
    IN IF r.node \in plan.renamed THEN w
       ELSE [w EXCEPT !.query[q] = MergeClosestNodes(q, s, response.nodes, r.minDistance),
                      !.table = NodeResponded(@, r.node)]

\* GetPeers::onResponse and FindNode::onResponse; id is 0 when nothing came.
\* A packet that answers another request of the node counts as an end, too.
OnQueryResponse(w, q, r, id, old) ==
    LET heard == IF id = r.id THEN Answered(w, q, r)
                 ELSE IF id = 0 THEN [w EXCEPT !.table = NodeNotResponded(@, r.node, old)]
                 ELSE w
        next == SendNext([heard EXCEPT !.query[q] = ForgetRequest(@, q, r)], q)
    IN IF q \in Searches /\ next.query[q].requests = <<>>
       THEN FindingPeersFinished(next, q) ELSE next

\* PingNodes::onResponse takes every packet of the node for its own.
OnPingResponse(w, p, r, id, old) ==
    LET heard == IF id = r.id /\ r.node \notin plan.renamed
                 THEN [w EXCEPT !.table = NodeResponded(@, r.node)]
                 ELSE IF id = 0 THEN [w EXCEPT !.table = NodeNotResponded(@, r.node, old)]
                 ELSE w
        left == w.query[p].received
        next == [heard EXCEPT !.query[p] = ForgetRequest(@, p, r)]
    IN IF left = <<>> THEN next
       ELSE SendRequests([next EXCEPT !.query[p].received = Front(@)], p, <<Last(left)>>,
                           [n \in Nodes |-> 0])

OnResponse(w, r, id, old) ==
    IF r.owner \in Pings THEN OnPingResponse(w, r.owner, r, id, old)
    ELSE OnQueryResponse(w, r.owner, r, id, old)

Handled(r, id) == r.owner \in Pings \/ r.id = id

\* The listener (onUdpReceive) tries every request to the sender, the socket of a
\* request (onDirectUdpReceive) only its own.
ToTry(requests, packet, direct) ==
    {r \in Range(requests) : IF direct THEN r.id = packet[2] ELSE r.node = packet[1]}

\* Requests are taken out and tried in order until one takes the packet; those that
\* did not take it are put back.
OnUdpReceive(w, tried, id) ==
    LET found == Those(w.pending, tried)
        Try(acc, r) ==
            IF acc.handled THEN [acc EXCEPT !.w.pending = Append(@, r)]
            ELSE LET v == OnResponse(acc.w, r, id, FALSE)
                 IN IF Handled(r, id) THEN [w |-> v, handled |-> TRUE]
                    ELSE [w |-> [v EXCEPT !.pending = Append(@, r)], handled |-> FALSE]
    IN FoldLeft(Try, [w |-> [w EXCEPT !.pending = Those(@, Range(@) \ tried)],
                      handled |-> FALSE], found).w

-------------------------------------------------------------------------------
(* Actions *)

OnItsWay(id) == \E packet \in packets : packet[2] = id

\* DhtQuery::start
StartNodes(w, q, nodes) == SendRequests(w, q, nodes, [n \in Nodes |-> 160])

\* findPeers, unless the hash is already looked for
FindPeers(q) ==
    LET nodes == GetClosestNodes(table, BucketOrder[q], MaxClosestNodes)
        asked == [Work EXCEPT !.query[q].started = TRUE,
                              !.peersQueries = Append(@, q)]
    IN /\ q \in plan.start \cap Searches /\ ~ query[q].started
       /\ \A p \in Range(peersQueries) : Hash[p] # Hash[q]
       /\ Apply(IF nodes = <<>> THEN FindingPeersFinished(asked, q)
                ELSE StartNodes(asked, q, nodes))
       /\ UNCHANGED <<timing, deaf, answering, plan>>

FindNode(q) ==
    /\ q \in plan.start \cap Finds /\ ~ query[q].started
    /\ Apply(StartNodes([Work EXCEPT !.query[q].started = TRUE], q,
                        GetClosestNodes(table, BucketOrder[q], MaxClosestNodes)))
    /\ UNCHANGED <<timing, deaf, answering, plan>>

\* refreshTable: start calls it, and the timer, which is not set again; whether all
\* nodes are pinged is a matter of time.
RefreshTable(p) ==
    \E aged \in {FALSE, plan.aged} :
        LET nodes == GetInactiveNodes(table, SetToSeq(DOMAIN table), aged)
            n == Min({MaxSimultaneousRequests, Len(nodes)})
        IN /\ refreshTimer > 0
           /\ p \in plan.start \cap Pings /\ ~ query[p].started
           /\ Apply(StartNodes([Work EXCEPT !.query[p] =
                                   [query[p] EXCEPT !.started = TRUE,
                                                    !.received = SubSeq(nodes, n + 1, Len(nodes))]],
                               p, SubSeq(nodes, 1, n)))
           /\ refreshTimer' = refreshTimer - 1
           /\ responder' = RefreshResponder(responder, clock)
           /\ remote' = [remote EXCEPT !.refreshed = clock]
           /\ UNCHANGED <<timing, deaf, clock, plan>>

\* stopFindingPeers forgets the query, which goes on.
StopFindingPeers(q) ==
    /\ q \in plan.abandon /\ q \in Range(peersQueries)
    /\ peersQueries' = RemoveAt(peersQueries, SelectInSeq(peersQueries, LAMBDA p : p = q))
    /\ UNCHANGED <<table, query, pending, timing, deaf, packets, sent, reported, answering, plan>>

\* A timer that fires while its request is taken out finds nothing, and is not
\* started again.
Receive(packet) ==
    \E direct \in BOOLEAN :
        LET tried == ToTry(pending, packet, direct)
            w == OnUdpReceive([Work EXCEPT !.packets = @ \ {packet}], tried, packet[2])
            PendingIds(requests) == {r.id : r \in requests}
            back == (PendingIds(Range(w.pending)) \cap PendingIds(tried)) \ timing
        IN /\ packet \in packets
           /\ Apply(w)
           /\ \E lost \in IF plan.stray THEN SUBSET back ELSE {{}} :
                 deaf' = (deaf \cap PendingIds(Range(w.pending))) \cup lost
           /\ UNCHANGED <<timing, answering, plan>>

Lose(packet) ==
    /\ plan.losses > 0
    /\ plan' = [plan EXCEPT !.losses = @ - 1]
    /\ packets' = packets \ {packet}
    /\ UNCHANGED <<table, query, peersQueries, pending, timing, deaf, sent, reported,
                   answering>>

\* A request cannot be sent (postFail): onUdpClose says that nothing came.
SendFails(packet) ==
    LET i == SelectInSeq(pending, LAMBDA r : r.id = packet[2])
    IN /\ plan.losses > 0 /\ i # 0
       /\ plan' = [plan EXCEPT !.losses = @ - 1]
       /\ \E old \in BOOLEAN :
             Apply(OnResponse([Work EXCEPT !.packets = @ \ {packet}, !.pending = RemoveAt(@, i)],
                              pending[i], 0, old))
       /\ deaf' = deaf \ {packet[2]}
       /\ UNCHANGED <<timing, answering>>

\* checkTimeout up to its lock, early when the answer is still on its way
FindTimeout(id) ==
    /\ id \notin timing \cup deaf
    /\ \E r \in Range(pending) : r.id = id
    /\ timing' = timing \cup {id}
    /\ \/ ~ OnItsWay(id) /\ UNCHANGED plan
       \/ /\ OnItsWay(id) /\ plan.early > 0
          /\ plan' = [plan EXCEPT !.early = @ - 1]
    /\ UNCHANGED <<table, query, peersQueries, pending, deaf, packets, sent, reported, answering>>

\* The rest of checkTimeout: the request is sent once more, or nothing came
\* (onUdpClose); unless it has been answered or removed.
CheckTimeout(id) ==
    LET i == SelectInSeq(pending, LAMBDA r : r.id = id)
        r == pending[i]
    IN /\ id \in timing
       /\ timing' = timing \ {id}
       /\ \/ i = 0 /\ Apply(Work)
          \/ /\ i # 0 /\ r.retries = 0
             /\ Apply([Work EXCEPT !.pending[i].retries = 1,
                                   !.packets = @ \cup {<<r.node, id>>}])
          \/ /\ i # 0 /\ r.retries > 0
             /\ \E old \in BOOLEAN :
                   Apply(OnResponse([Work EXCEPT !.pending = RemoveAt(@, i)], r, 0, old))
       /\ UNCHANGED <<deaf, answering, plan>>

RemoteRequests ==
    [type : {"find_node", "get_peers"}, hash : Hashes] \cup
    [type : {"announce_peer"}, hash : Hashes, token : {g.token : g \in remote.granted}]

AnnouncedNow(h, n) ==
    [peer \in DOMAIN remote.announced \cup {<<h, n>>} |->
        IF peer = <<h, n>> THEN clock ELSE remote.announced[peer]]

\* handlePacket of the Responder
HandlePacket(n, request) ==
    LET h == request.hash
        answer == Answer(responder, table, BucketOrder[CHOOSE q \in Searches : Hash[q] = h],
                         MaxClosestNodes, n, request)
        stored == request.type = "announce_peer" /\ n \in Stored(responder', h)
    IN /\ plan.requests[n] > 0
       /\ plan' = [plan EXCEPT !.requests[n] = @ - 1]
       /\ Accepted(responder, n, request)
       /\ responder' = Announce(responder, n, request, clock)
       /\ table' = NodeResponded(table, n)
       /\ remote' = [granted |-> remote.granted \cup
                        {[token |-> t, to |-> n, at |-> responder.refreshes] : t \in answer.tokens},
                     announced |-> IF stored THEN AnnouncedNow(h, n) ELSE remote.announced,
                     refreshed |-> remote.refreshed]
       /\ UNCHANGED <<query, peersQueries, pending, timing, deaf, packets, sent, reported,
                      refreshTimer, clock>>

Tick ==
    /\ plan.ticks > 0
    /\ plan' = [plan EXCEPT !.ticks = @ - 1]
    /\ clock' = clock + 1
    /\ UNCHANGED <<table, query, peersQueries, pending, timing, deaf, packets, sent, reported,
                   responder, refreshTimer, remote>>

NewQuery == [started |-> FALSE, requests |-> <<>>, received |-> <<>>, used |-> {},
             found |-> 0, limit |-> MaxSimultaneousRequests]

\* stop, and start again: no query is left, the table is saved and loaded, the timer
\* is a new one; what the responder has stays.
Restart ==
    /\ plan.restart /\ refreshTimer < 2
    /\ plan' = [plan EXCEPT !.restart = FALSE, !.restarted = TRUE]
    /\ query' = [q \in Owners |-> [NewQuery EXCEPT !.started = query[q].started]]
    /\ peersQueries' = <<>> /\ pending' = <<>> /\ deaf' = {}
    /\ table' = Reload(table) /\ refreshTimer' = 2
    /\ UNCHANGED <<timing, packets, sent, reported, responder, clock, remote>>

Init ==
    /\ table = FoldLeft(NodeResponded,
                        [b \in Range(BucketOf) |-> EmptyBucket], KnownAtFirst)
    /\ query = [q \in Owners |-> NewQuery]
    /\ peersQueries = <<>> /\ pending = <<>> /\ timing = {} /\ deaf = {}
    /\ packets = {} /\ sent = 0
    /\ reported = [q \in Searches |-> 0]
    /\ responder = NewResponder /\ refreshTimer = 2 /\ clock = 0
    /\ remote = [granted |-> {}, announced |-> <<>>, refreshed |-> 0]
    /\ plan \in Plans

Next ==
    \/ \E q \in Searches : FindPeers(q) \/ StopFindingPeers(q)
    \/ \E q \in Finds : FindNode(q)
    \/ \E p \in Pings : RefreshTable(p)
    \/ \E packet \in packets : Receive(packet) \/ Lose(packet) \/ SendFails(packet)
    \/ \E id \in 1 .. sent : FindTimeout(id) \/ CheckTimeout(id)
    \/ \E n \in Nodes : \E request \in RemoteRequests : HandlePacket(n, request)
    \/ Restart \/ Tick

Spec == Init /\ [][Next]_vars

\* What is not lost comes, timers fire, and the thread that found a timeout gets
\* the lock: weak fairness, where an answer can always be received and a timeout
\* always be checked.
Fairness ==
    /\ []<>(packets = {}) \/ []<><<\E packet \in packets : Receive(packet)>>_vars
    /\ []<>(timing = {}) \/ []<><<\E id \in timing : CheckTimeout(id)>>_vars
    /\ WF_vars(\E id \in 1 .. sent : FindTimeout(id))

FairSpec == Spec /\ Fairness

-------------------------------------------------------------------------------
(* Properties. *)

\* The state keeps its shape; the nodes a query still wants to ask are few,
\* different, valid, and none of them was asked before: a query asks a node once,
\* and once more when the table named it at first.
TypeOK ==
    /\ \A q \in Queries :
          LET s == query[q] IN
          /\ Len(s.received) <= MaxCachedNodes /\ IsInjective(s.received)
          /\ Range(s.received) \subseteq Nodes \ s.used /\ s.used \subseteq Nodes
    /\ Range(peersQueries) \subseteq Searches
    /\ \A r \in Range(pending) : r.owner \in Owners /\ r.node \in Nodes /\ r.retries \in 0 .. 1
    /\ timing \cup deaf \subseteq 1 .. sent

\* In a bucket a node has one place, among the nodes or in the cache (one more
\* after the table was loaded again), and nodes wait in the cache only when the
\* bucket is full: a good node is not kept waiting.
TableConsistent ==
    \A b \in DOMAIN table :
        LET all == table[b].nodes \o table[b].cache IN
        /\ \A n \in Nodes :
              Cardinality({i \in DOMAIN all : all[i].id = n})
                 <= IF plan.restarted THEN 2 ELSE 1
        /\ table[b].cache # <<>> => Len(table[b].nodes) >= MaxBucketNodesCount
        /\ Len(table[b].cache) <= MaxBucketCacheSize

\* Beside the shape: whatever a query waits for, UdpAsyncComm waits for, too, so no
\* query is left with a request that nobody will end.
RequestsPending ==
    TypeOK /\ \A q \in Owners : \A n \in Nodes :
        Cardinality({i \in DOMAIN query[q].requests : query[q].requests[i].node = n})
           <= Cardinality({i \in DOMAIN pending : pending[i].owner = q /\ pending[i].node = n})

\* What others are promised: a token is good until the second refresh after it was
\* given, and for no address but those whose characters have the same sum; and a
\* peer whose announcement was stored is stored once, until the first refresh that
\* finds it older than Expiry.  Refreshes are those of RefreshTable, two after each
\* start: after them tokens stay good and peers stay stored.
AnnouncesHonoured ==
    /\ \A g \in remote.granted : \A n \in Nodes :
          IsValidToken(responder, g.token, n) <=>
             CharacterSum[n] = CharacterSum[g.to] /\ g.at + 1 >= responder.refreshes
    /\ \A h \in Hashes :
          /\ Cardinality(Stored(responder, h)) = Len(responder.values[h])
          /\ \A n \in Nodes :
                n \in Stored(responder, h) <=>
                   /\ <<h, n>> \in DOMAIN remote.announced
                   /\ remote.refreshed <= remote.announced[<<h, n>>] + Expiry

\* Every query ends, also when answers are lost, come late, come to the request of
\* another query or race with the timeout, unless a request lost its timer.
QueriesEnd ==
    <>[](deaf = {} => /\ peersQueries = <<>>
                      /\ \A q \in Owners : query[q].requests = <<>>)
===============================================================================
