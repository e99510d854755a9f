-------------------------------- MODULE Bandwidth --------------------------------
(***************************************************************************)
(* BandwidthManager, which shares the speed limits out, and its users: TCP  *)
(* streams that read only what they were granted, and mtt::Uploader, which  *)
(* sends the blocks peers ask for.  The manager's timer hands out quota in  *)
(* rounds on its own thread; a user may also be granted it at once.         *)
(*                                                                          *)
(* Sizes are in any unit.  The time of a round is the one the limit gives   *)
(* RoundQuota in; the manager is never closed.                              *)
(***************************************************************************)
EXTENDS Integers, Sequences, SequencesExt, FiniteSetsExt, FiniteSets

CONSTANTS
    Streams,        \* TcpAsyncStreams, on the channel ""
    Peers,          \* peers that ask the uploader, on the channel "upload"
    RoundQuota,     \* what one round adds to a limited channel
    MinimumAssign,  \* minimumAssign
    Rounds,         \* ttl, in rounds
    Sizes,          \* of blocks asked for, and of data waiting in a socket
    Expecting,      \* expecting_size, choked and unchoked
    Plans           \* how much of what may happen

Download == ""     \* of GetChannel("")
Channels == {Download, "upload"}
Uploader == "uploader"
Users == Streams \cup {Uploader}

ASSUME BandwidthAssumption ==
    /\ {RoundQuota, MinimumAssign, Rounds} \subseteq Nat \ {0}
    /\ IsFiniteSet(Streams) /\ Uploader \notin Streams
    /\ Sizes \subseteq Nat \ {0} /\ Expecting \subseteq Nat \ {0}
    /\ Plans \subseteq [streams : SUBSET Streams, limits : SUBSET Nat, changes : Nat, requests : Nat, closes : Nat,
                        stops : Nat, chokes : Nat]

VARIABLES
    limit,          \* of each channel, 0: none
    quotaLeft,      \* of each channel
    requestsQueue,  \* requests that wait for quota
    assigning,      \* taken from the queue by a round, not yet told to their users
    stream,         \* the streams
    uploader,       \* atOnce, a history: what sendRequests asked for last was granted
    established,    \* the peers that can be sent to
    plan

bandwidthVars == <<limit, quotaLeft, requestsQueue, assigning, stream, uploader, established, plan>>

-------------------------------------------------------------------------------
(* BandwidthManager and BandwidthChannel *)

ChannelOf(user) == IF user = Uploader THEN "upload" ELSE Download

BandwidthRequest(user, amount) ==
    [user |-> user, requestSize |-> amount, assigned |-> 0, ttl |-> Rounds]

\* What a call changes: the manager's part m of the state, and what was granted.
Manager == [left |-> quotaLeft, queue |-> requestsQueue, granted |-> 0]

NeedQueueing(m, channel, amount) ==
    limit[channel] # 0 /\ m.left[channel] - amount < limit[channel]

\* useQuota and returnQuota
Use(left, channel, amount) ==
    IF limit[channel] = 0 THEN left ELSE [left EXCEPT ![channel] = @ - amount]

\* requestBandwidth: quota built up for more than a second is given away at once.
RequestBandwidth(m, user, amount) ==
    IF NeedQueueing(m, ChannelOf(user), amount)
    THEN [m EXCEPT !.queue = Append(@, BandwidthRequest(user, amount)), !.granted = 0]
    ELSE [m EXCEPT !.left = Use(@, ChannelOf(user), amount), !.granted = amount]

IsActive(user) ==
    IF user = Uploader THEN uploader.pending # <<>> ELSE stream[user].connected

\* The requests of a queue that are in a set (SelectSeq), and the sum of amounts.
Those(requests, S) ==
    FoldLeft(LAMBDA kept, r : IF r \in S THEN Append(kept, r) ELSE kept, <<>>, requests)
Total(amounts) == FoldLeft(LAMBDA sum, amount : sum + amount, 0, amounts)

OfChannel(requests, channel) ==
    Those(requests, {r \in ToSet(requests) : ChannelOf(r.user) = channel})
QueueOf(channel) == OfChannel(requestsQueue, channel)

Active(requests) == Those(requests, {r \in ToSet(requests) : IsActive(r.user)})
Inactive(requests) == Those(requests, {r \in ToSet(requests) : ~ IsActive(r.user)})

AssignedSum(requests) == Total([i \in DOMAIN requests |-> requests[i].assigned])

\* Mutated form of Returned: all that inactive users asked for is given back.
ReturnedAll(channel) ==
    LET gone == Inactive(QueueOf(channel))
    IN Use(quotaLeft, channel, 0 - Total([i \in DOMAIN gone |-> gone[i].requestSize]))[channel]

\* The quota of a channel after what inactive users had is returned, and after
\* updateQuota, for a channel that somebody waits for.
Returned(channel) ==
    Use(quotaLeft, channel, 0 - AssignedSum(Inactive(QueueOf(channel))))[channel]

UpdateQuota(channel) ==
    IF limit[channel] = 0 \/ Active(QueueOf(channel)) = <<>> THEN Returned(channel)
    ELSE LET filled == Returned(channel) + RoundQuota
         IN IF filled \div 3 > limit[channel] THEN limit[channel] * 3 ELSE filled

\* assignBandwidth of a request: an equal share, never more than it wants.
Share(r) ==
    LET channel == ChannelOf(r.user)
        wanted == r.requestSize - r.assigned
    IN IF limit[channel] = 0 THEN wanted
       ELSE Min({wanted, Max({UpdateQuota(channel), 0}) \div Len(Active(QueueOf(channel)))})

Assigned(r) == [r EXCEPT !.assigned = @ + Share(r), !.ttl = IF @ > 0 THEN @ - 1 ELSE 0]

\* Mutated form of IsServed: a request waits for the minimum, even a smaller one.
IsServedAtMinimum(r) == r.assigned >= MinimumAssign

IsServed(r) ==
    \/ r.assigned = r.requestSize
    \/ r.assigned >= MinimumAssign
    \/ r.ttl = 0 /\ r.assigned > 0

Shares(channel) ==
    LET served == Active(QueueOf(channel))
    IN Total([i \in DOMAIN served |-> Share(served[i])])

\* updateQuotas: users that gave up get nothing, the others their share.
UpdateQuotas ==
    /\ assigning = <<>> /\ requestsQueue # <<>>
    /\ UNCHANGED <<limit, stream, uploader, established, plan>>
    /\ LET round == [i \in DOMAIN Active(requestsQueue) |-> Assigned(Active(requestsQueue)[i])]
       IN /\ requestsQueue' = Those(round, {r \in ToSet(round) : ~ IsServed(r)})
          /\ assigning' = [i \in DOMAIN Inactive(requestsQueue) |->
                              [Inactive(requestsQueue)[i] EXCEPT !.assigned = 0]]
                          \o Those(round, {r \in ToSet(round) : IsServed(r)})
    /\ quotaLeft' = [channel \in Channels |->
                        IF limit[channel] = 0 THEN quotaLeft[channel]
                        ELSE UpdateQuota(channel) - Shares(channel)]

\* GlobalBandwidth, when the user changes the settings
SetLimit ==
    /\ plan.changes > 0
    /\ \E channel \in Channels, l \in plan.limits \cup {0} :
          l # limit[channel] /\ limit' = [limit EXCEPT ![channel] = l]
    /\ plan' = [plan EXCEPT !.changes = @ - 1]
    /\ UNCHANGED <<quotaLeft, requestsQueue, assigning, stream, uploader, established>>

-------------------------------------------------------------------------------
(* TcpAsyncStream: st is the manager's part with one stream.                    *)

\* TcpAsyncStream::requestBandwidth
Ask(st, s, bytes) ==
    IF st.stream.waitingBw \/ st.stream.quota >= bytes THEN st
    ELSE LET m == RequestBandwidth(st.m, s, bytes - st.stream.quota)
         IN [m |-> m,
             stream |-> IF m.granted = 0 THEN [st.stream EXCEPT !.waitingBw = TRUE]
                        ELSE [st.stream EXCEPT !.quota = @ + m.granted]]

StartReceive(st, s) ==
    IF ~ st.stream.connected THEN st
    ELSE LET asked == Ask(st, s, st.stream.expecting)
         IN IF asked.stream.waitingData \/ asked.stream.waitingBw THEN asked
            ELSE [asked EXCEPT !.stream.waitingData = TRUE]

SetStream(s, st) ==
    /\ stream' = [stream EXCEPT ![s] = st.stream]
    /\ quotaLeft' = st.m.left
    /\ requestsQueue' = st.m.queue

\* readAvailableData: what is left of the quota after a read is gone.
ReadAvailable(st, s, available) ==
    LET asked == Ask(st, s, available)
    IN IF available > 0 /\ asked.stream.quota > 0
       THEN [asked EXCEPT !.stream.quota = 0] ELSE asked

\* handle_receive of some bytes.  More is read when all that was asked for came.
HandleReceive(s) ==
    /\ stream[s].waitingData
    /\ \E bytes \in 1 .. stream[s].quota, more \in Sizes \cup {0} :
          LET first == [m |-> Manager,
                        stream |-> [stream[s] EXCEPT !.waitingData = FALSE, !.quota = 0]]
              read == IF bytes = stream[s].quota THEN ReadAvailable(first, s, more) ELSE first
          IN (more > 0 => bytes = stream[s].quota) /\ SetStream(s, StartReceive(read, s))
    /\ UNCHANGED <<limit, assigning, uploader, established, plan>>

\* postFail, from an error, a timeout or close(); the read under way ends unheard.
PostFail(s) ==
    /\ stream[s].connected /\ plan.closes > 0
    /\ stream' = [stream EXCEPT ![s].connected = FALSE, ![s].waitingData = FALSE]
    /\ plan' = [plan EXCEPT !.closes = @ - 1]
    /\ UNCHANGED <<limit, quotaLeft, requestsQueue, assigning, uploader, established>>

SetMinBandwidthRequest(s) ==
    /\ plan.chokes > 0
    /\ \E e \in Expecting \ {stream[s].expecting} :
          stream' = [stream EXCEPT ![s].expecting = e]
    /\ plan' = [plan EXCEPT !.chokes = @ - 1]
    /\ UNCHANGED <<limit, quotaLeft, requestsQueue, assigning, uploader, established>>

-------------------------------------------------------------------------------
(* Uploader *)

\* Uploader::requestBytes
RequestBytes(up, m, amount) ==
    IF amount <= up.available \/ up.requesting THEN [up |-> up, m |-> m]
    ELSE LET granted == RequestBandwidth(m, Uploader, amount - up.available)
         IN [m |-> granted,
             up |-> IF granted.granted = 0 THEN [up EXCEPT !.requesting = TRUE]
                    ELSE [up EXCEPT !.available = @ + granted.granted]]

SetUploader(st) ==
    /\ uploader' = st.up
    /\ quotaLeft' = st.m.left
    /\ requestsQueue' = st.m.queue

PieceRequest(p) ==
    /\ established[p] /\ plan.requests > 0
    /\ \E length \in Sizes :
          LET st == RequestBytes(uploader, Manager, length)
          IN SetUploader([st EXCEPT
                !.up.pending = Append(@, [peer |-> p, length |-> length, no |-> plan.requests]),
                !.up.posted = IF st.up.requesting THEN @ ELSE @ + 1])
    /\ plan' = [plan EXCEPT !.requests = @ - 1]
    /\ UNCHANGED <<limit, assigning, stream, established>>

\* sendRequests: in order, what there are bytes for; the rest is delayed.
Sent(up) ==
    FoldLeft(LAMBDA acc, r :
                IF ~ established[r.peer] THEN acc
                ELSE IF acc.available >= r.length
                THEN [acc EXCEPT !.available = @ - r.length]
                ELSE [available |-> acc.available, delayed |-> Append(acc.delayed, r),
                      wanted |-> acc.wanted + r.length],
             [available |-> up.available, delayed |-> <<>>, wanted |-> 0], up.pending)

SendRequests ==
    /\ uploader.posted > 0
    /\ UNCHANGED <<limit, assigning, stream, established, plan>>
    /\ LET sent == Sent(uploader)
           up == [uploader EXCEPT !.posted = @ - 1, !.available = sent.available,
                                  !.pending = sent.delayed]
           st == IF sent.wanted > 0 THEN RequestBytes(up, Manager, sent.wanted)
                 ELSE [up |-> up, m |-> Manager]
       IN SetUploader([st EXCEPT !.up.atOnce = sent.wanted > 0 /\ ~ st.up.requesting])

Without(p) == Those(uploader.pending, {r \in ToSet(uploader.pending) : r.peer # p})

\* A peer's connection ends: no block is sent to it any more, then
\* connectionClosed comes, or before it the refreshRequest of every second.
PeerCloses(p) ==
    /\ established[p] /\ plan.closes > 0
    /\ established' = [established EXCEPT ![p] = FALSE]
    /\ plan' = [plan EXCEPT !.closes = @ - 1]
    /\ UNCHANGED <<limit, quotaLeft, requestsQueue, assigning, stream, uploader>>

CancelRequests(p) ==
    /\ ~ established[p] /\ Without(p) # uploader.pending
    /\ uploader' = [uploader EXCEPT !.pending = Without(p)]
    /\ UNCHANGED <<limit, quotaLeft, requestsQueue, assigning, stream, established, plan>>

StopUploader ==
    /\ plan.stops > 0
    /\ uploader' = [uploader EXCEPT !.pending = <<>>, !.requesting = FALSE, !.available = 0]
    /\ plan' = [plan EXCEPT !.stops = @ - 1]
    /\ UNCHANGED <<limit, quotaLeft, requestsQueue, assigning, stream, established>>

-------------------------------------------------------------------------------
(* assignBandwidth of the users, in the order updateQuotas calls them: from the  *)
(* back of what it took out of the queue.                                       *)

\* Mutated form of AssignUploader: the blocks are left to the next request.
AssignUploaderSilent(amount) ==
    /\ uploader' = [uploader EXCEPT !.requesting = FALSE, !.available = @ + amount]
    /\ UNCHANGED <<quotaLeft, requestsQueue, stream>>

AssignUploader(amount) ==
    /\ uploader' = [uploader EXCEPT
          !.requesting = FALSE, !.available = @ + amount,
          !.posted = IF uploader.pending # <<>> THEN @ + 1 ELSE @]
    /\ UNCHANGED <<quotaLeft, requestsQueue, stream>>

AssignStream(s, amount) ==
    /\ SetStream(s, StartReceive([m |-> Manager,
          stream |-> [stream[s] EXCEPT !.waitingBw = FALSE, !.quota = @ + amount]], s))
    /\ UNCHANGED uploader

AssignBandwidth ==
    /\ assigning # <<>>
    /\ assigning' = Front(assigning)
    /\ LET r == Last(assigning)
       IN IF r.user = Uploader THEN AssignUploader(r.assigned)
          ELSE AssignStream(r.user, r.assigned)
    /\ UNCHANGED <<limit, established, plan>>

-------------------------------------------------------------------------------
\* The streams of a plan have just connected and asked to read; the others are gone.
BandwidthInit ==
    /\ plan \in Plans
    /\ limit \in [Channels -> plan.limits]
    /\ \E e \in Expecting, order \in SetToSeqs(plan.streams) :
          /\ stream = [s \in Streams |->
                [connected |-> s \in plan.streams, expecting |-> e,
                 quota |-> IF limit[Download] = 0 THEN e ELSE 0,
                 waitingBw |-> s \in plan.streams /\ limit[Download] # 0,
                 waitingData |-> s \in plan.streams /\ limit[Download] = 0]]
          /\ requestsQueue = IF limit[Download] = 0 THEN <<>>
                             ELSE [i \in DOMAIN order |-> BandwidthRequest(order[i], e)]
    /\ quotaLeft = [channel \in Channels |-> 0]
    /\ assigning = <<>>
    /\ uploader = [pending |-> <<>>, requesting |-> FALSE, available |-> 0, posted |-> 0,
                   atOnce |-> FALSE]
    /\ established = [p \in Peers |-> TRUE]

BandwidthNext ==
    \/ UpdateQuotas \/ SetLimit \/ AssignBandwidth \/ SendRequests \/ StopUploader
    \/ \E s \in Streams : HandleReceive(s) \/ PostFail(s) \/ SetMinBandwidthRequest(s)
    \/ \E p \in Peers : PieceRequest(p) \/ PeerCloses(p) \/ CancelRequests(p)

BandwidthSpec == BandwidthInit /\ [][BandwidthNext]_bandwidthVars

\* The timer of the manager and the posted calls run: weak fairness, with what
\* enables each spelled out.
Fairness ==
    /\ []<>(requestsQueue = <<>> \/ assigning # <<>>) \/ []<><<UpdateQuotas>>_bandwidthVars
    /\ []<>(assigning = <<>>) \/ []<><<AssignBandwidth>>_bandwidthVars
    /\ []<>(uploader.posted = 0) \/ []<><<SendRequests>>_bandwidthVars

BandwidthFairSpec == BandwidthSpec /\ Fairness

-------------------------------------------------------------------------------
\* Every variable has its type; a limited channel never has less than nothing.
BandwidthTypeOK ==
    /\ limit \in [Channels -> Nat]
    /\ quotaLeft \in [Channels -> Nat]
    /\ \A r \in ToSet(requestsQueue) \cup ToSet(assigning) :
          r \in [user : Users, requestSize : Nat \ {0}, assigned : 0 .. r.requestSize,
                 ttl : 0 .. Rounds]
    /\ stream \in [Streams -> [connected : BOOLEAN, quota : Nat, expecting : Expecting,
                               waitingBw : BOOLEAN, waitingData : BOOLEAN]]
    /\ uploader.pending \in Seq([peer : Peers, length : Sizes, no : Nat])
    /\ uploader.requesting \in BOOLEAN
    /\ uploader.atOnce \in BOOLEAN /\ uploader.available \in Nat /\ uploader.posted \in Nat
    /\ established \in [Peers -> BOOLEAN]

Waiting(user) ==
    {i \in DOMAIN requestsQueue : requestsQueue[i].user = user}
        \cup {0 - i : i \in {j \in DOMAIN assigning : assigning[j].user = user}}

\* The stuck block: sendRequests asked for its bytes itself, got them, and returned.
GrantedAtOnce ==
    /\ uploader.posted = 0 /\ uploader.atOnce
    /\ \E r \in ToSet(uploader.pending) : uploader.available >= r.length

\* With blocks to send there is a call to send them, or a request on its way.
UploaderAwake ==
    \/ uploader.posted > 0
    \/ uploader.requesting /\ Waiting(Uploader) # {}
    \/ GrantedAtOnce
    \/ \A r \in ToSet(uploader.pending) : ~ established[r.peer]

\* Nobody is forgotten, whatever closes, stops or is granted at once: a connected
\* stream reads, or has exactly one request with the manager, and so with the
\* uploader while it has blocks to send (and the state keeps its types).
UsersAwake ==
    /\ BandwidthTypeOK
    /\ \A s \in Streams :
          /\ stream[s].connected => stream[s].waitingData \/ stream[s].waitingBw
          /\ stream[s].waitingBw <=> Cardinality(Waiting(s)) = 1
    /\ UploaderAwake

\* What a channel has given out or still has: with the manager, on the way, or held.
Outstanding(channel) ==
    quotaLeft[channel]
    + AssignedSum(QueueOf(channel))
    + AssignedSum(OfChannel(assigning, channel))
    + (IF channel = "upload" THEN uploader.available
       ELSE MapThenSumSet(LAMBDA s : stream[s].quota, Streams))

\* The limit holds: bytes to transfer come from rounds of the timer alone, and only
\* as many as a round may add, however requests are cut, returned, or granted at once.
QuotaConserved ==
    [][\A channel \in Channels :
          limit[channel] # 0 /\ limit'[channel] # 0 =>
              \/ Outstanding(channel)' <= Outstanding(channel)
              \/ Outstanding(channel)' <= Outstanding(channel) + RoundQuota /\ UpdateQuotas]_bandwidthVars

BlockPending(no) == \E r \in ToSet(uploader.pending) : r.no = no /\ established[r.peer]

Throttled(s) == stream[s].connected /\ stream[s].waitingBw

\* Every stream that waits for quota reads in the end, and every block asked for is
\* sent, dropped with its peer or a stop, or is the one that sendRequests was granted
\* at once and forgets: however little a round adds, and whoever shares it.
UsersServed ==
    /\ \A no \in 1 .. 3 : BlockPending(no) ~> (~ BlockPending(no) \/ GrantedAtOnce)
    /\ \A s \in Streams : Throttled(s) ~> ~ Throttled(s)

===============================================================================
