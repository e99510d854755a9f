-------------------------------- MODULE Trackers --------------------------------
(***************************************************************************)
(* mtt::TrackerManager, the trackers it talks to over UDP, HTTP and HTTPS,  *)
(* and UdpAsyncWriter, whose calls are posted to a pool of threads.         *)
(*                                                                          *)
(* There is no clock: a timer of seconds fires only once what was posted    *)
(* has run, and a request times out when its answer will not come, or early *)
(* as often as the plan says.                                               *)
(***************************************************************************)
EXTENDS Integers, Sequences, FiniteSetsExt, SequencesExt

CONSTANTS
    MaxTrackers,    \* bound
    TrackerPlans    \* what a behaviour may hold: the announce list, the trackers
                    \* imported, and how many of each disturbance

Protocols == {"udp", "http", "https", "other"}
Uri == [protocol : Protocols, host : STRING, port : STRING]

ASSUME PlansAssumption ==
    /\ MaxTrackers \in Nat
    /\ TrackerPlans \subseteq
          [uris : Seq(Uri), imports : Seq(Uri), starts : Nat, stops : Nat,
           refreshes : {0, 1},    \* bound: a second one may leave a request behind
           losses : Nat,          \* UDP answers lost
           early : Nat,           \* timeouts of requests whose answer still comes
           refusals : Nat,        \* answers that say no, or cannot be read
           failures : Nat,        \* connections and sends that fail
           partial : Nat]         \* HTTPS answers read in part

VARIABLES
    trackers,       \* TrackerManager::trackers, with all that is going on for each
    started,        \* announceCallback is set
    startAll,       \* calls posted by start()
    trackerPlan

trackerVars == <<trackers, started, startAll, trackerPlan>>

-------------------------------------------------------------------------------
(* TrackerInfo and its tracker.  comm.no numbers the trackers made; 0: none.    *)

NoMessage == [action |-> "none", id |-> 0]

NewComm(kind, no) ==
    [kind |-> kind, no |-> no, lastAnnounce |-> FALSE,
     state |-> IF kind = "udp" THEN "Clear" ELSE "Initialized",
     last |-> NoMessage,        \* lastMessage
     connection |-> "none",     \* connectionId: none, good, or bad
     pending |-> <<>>,          \* its requests in UdpAsyncComm::pendingResponses
     callback |-> FALSE,        \* UdpAsyncWriter::onResponse is set
     socket |-> "closed",       \* or open and reading, or open and deaf
     buffer |-> NoMessage,
     posted |-> EmptyBag,       \* calls of the writer, run in any order
     packets |-> {},            \* requests sent and not yet answered
     stream |-> "none",         \* tcpComm, or SslAsyncStream
     stray |-> 0,               \* streams given up before their answer
     dropped |-> 0]             \* streams given up or read, not closed yet

NoComm == NewComm("none", 0)

NewTracker(uri) ==
    [protocol |-> uri.protocol, host |-> uri.host, port |-> uri.port,
     httpFallback |-> FALSE, httpFallbackUsed |-> FALSE,
     timer |-> "none", comm |-> NoComm,
     made |-> 0,
     tasks |-> EmptyBag,        \* posted to torrent.service
     reached |-> FALSE]         \* history: announced to since the last start

\* Posted calls are bags: the pool takes them in any order.
Plus(calls, call) == calls (+) SetToBag({call})
Minus(calls, call) == calls (-) SetToBag({call})

HasComm(t) == t.comm.kind # "none"

\* One tracker may serve UDP and HTTP at the same port.
AddTracker(list, uri) ==
    LET i == SelectInSeq(list, LAMBDA t : t.host = uri.host)
    IN IF uri.port = ""
       THEN IF uri.protocol = "https" THEN Append(list, NewTracker(uri)) ELSE list
       ELSE IF i = 0 \/ list[i].port # uri.port THEN Append(list, NewTracker(uri))
       ELSE IF /\ "http" \in {list[i].protocol, uri.protocol}
               /\ "udp" \in {list[i].protocol, uri.protocol}
               /\ ~ HasComm(list[i])
       THEN [list EXCEPT ![i].protocol = "udp", ![i].httpFallback = TRUE]
       ELSE list

AddTrackers(list, uris) == FoldLeft(AddTracker, list, uris)

Post(t, task) == [t EXCEPT !.tasks = Plus(@, <<task, t.comm.no>>)]
PostUdp(t, call) == [t EXCEPT !.comm.posted = Plus(@, call)]

-------------------------------------------------------------------------------
(* announce() *)

NewId(c) ==
    Min((1 .. 9) \ ({c.last.id, c.buffer.id} \cup {p.id : p \in c.packets}
                    \cup {call.message.id : call \in BagToSet(c.posted)}))

Close == [call |-> "close", message |-> NoMessage]
Rewrite == [call |-> "rewrite", message |-> NoMessage]

Entry(action) == [action |-> action, retries |-> 0, armed |-> TRUE]

\* createConnectRequest or createAnnounceRequest, then UdpAsyncComm::sendMessage
UdpSend(t, action) ==
    LET m == [action |-> action, id |-> NewId(t.comm)]
    IN PostUdp([t EXCEPT
           !.comm.state = IF action = "connect" THEN "Connecting" ELSE "Announcing",
           !.comm.last = m, !.comm.callback = TRUE,
           !.comm.pending = Append(@, Entry(action))],
         [call |-> "write", message |-> m])

UdpAnnounce(t) ==
    UdpSend(t, IF t.comm.state \in {"Clear", "Offline", "Connecting"}
               THEN "connect" ELSE "announce")

\* The stream of an HTTP tracker that was closed after its answer takes no more.
HttpAnnounce(t) ==
    [t EXCEPT !.comm.state = "Announcing",
              !.comm.stream = IF @ = "dead" THEN "dead" ELSE "live"]

HttpsAnnounce(t) == [t EXCEPT !.comm.state = "Announcing", !.comm.stream = "live"]

Announce(t) ==
    CASE t.comm.kind = "udp" -> UdpAnnounce(t)
      [] t.comm.kind = "http" -> HttpAnnounce(t)
      [] t.comm.kind = "https" -> HttpsAnnounce(t)
      [] OTHER -> t

-------------------------------------------------------------------------------
(* fail() and the answers *)

UdpFail(t) ==
    Post([t EXCEPT !.comm.state =
             CASE @ \in {"Clear", "Offline", "Connecting"} -> "Offline"
               [] @ = "Announced" -> "Announced"
               [] OTHER -> "Connected"], "fail")

Announced(t) ==
    Post([t EXCEPT !.comm.state = "Announced", !.comm.lastAnnounce = TRUE], "announce")

\* An announcement may be taken by a handler that waits for a connection, which
\* then reads its connectionId out of the counts of peers.
ConnectAnswer(t, packet) ==
    UdpAnnounce([t EXCEPT !.comm.state = "Connected",
                          !.comm.connection =
                              IF packet.action = "connect" THEN "good" ELSE "bad"])

\* onConnectUdpResponse and onAnnounceUdpResponse: is the answer taken?
Taken(t, packet) == packet.id = t.comm.last.id

Respond(t, entry, packet, good) ==
    IF ~ good THEN UdpFail(t)
    ELSE IF entry.action = "connect" THEN ConnectAnswer(t, packet)
    ELSE Announced(t)

\* onDirectUdpReceive, or onUdpReceive of the listener: all requests of the
\* tracker are taken out; the first whose handler takes the answer is gone.
UdpReceive(t, packet, good) ==
    LET Try(acc, entry) ==
            IF ~ acc.handled /\ Taken(acc.t, packet)
            THEN [handled |-> TRUE,
                  t |-> PostUdp(Respond(acc.t, entry, packet, good), Close)]
            ELSE [acc EXCEPT !.t.comm.pending = Append(@, entry)]
    IN FoldLeft(Try, [handled |-> FALSE, t |-> [t EXCEPT !.comm.pending = <<>>]],
                t.comm.pending).t

\* onUdpClose: every request of the tracker fails.
UdpClose(t) ==
    LET Failed(u, entry) == PostUdp(UdpFail(u), Close)
    IN FoldLeft(Failed, [t EXCEPT !.comm.pending = <<>>], t.comm.pending)

\* fail() of HTTP and HTTPS
StreamFail(t) ==
    IF t.comm.state # "Announcing" THEN t
    ELSE Post([t EXCEPT !.comm.state =
                  IF t.comm.lastAnnounce THEN "Alive" ELSE "Offline"], "fail")

\* The stream given up may be a later one than the one that failed; it is still read.
HttpFail(t) ==
    StreamFail([t EXCEPT !.comm.stream = "none",
                         !.comm.stray = @ + (IF t.comm.stream = "live" THEN 1 ELSE 0)])

HttpClosed(t) == IF t.comm.state = "Announced" THEN t ELSE HttpFail(t)

-------------------------------------------------------------------------------
(* TrackerManager *)

\* Replaces the tracker; the old one takes out its request and closes its streams.
StartTracker(t) ==
    IF t.protocol = "other" THEN t
    ELSE Announce([t EXCEPT !.comm = NewComm(t.protocol, t.made + 1), !.made = @ + 1,
                            !.timer = "idle"])

StopTracker(t) == [t EXCEPT !.timer = "none", !.comm = NoComm]

OnAnnounce(t) == [t EXCEPT !.timer = "set"]

\* Mutated form of OnTrackerFail: after the fallback nothing more is tried.
OnTrackerFailGivesUp(t) ==
    IF t.httpFallback /\ ~ t.httpFallbackUsed /\ t.protocol = "udp"
    THEN Post([t EXCEPT !.httpFallbackUsed = TRUE, !.protocol = "http"], "restart")
    ELSE IF t.httpFallback /\ t.httpFallbackUsed /\ t.protocol = "http"
    THEN [t EXCEPT !.protocol = "udp"]
    ELSE [t EXCEPT !.timer = "set"]

\* HTTP is tried once for a tracker that serves both, then UDP with a delay.
OnTrackerFail(t) ==
    IF t.httpFallback /\ ~ t.httpFallbackUsed /\ t.protocol = "udp"
    THEN Post([t EXCEPT !.httpFallbackUsed = TRUE, !.protocol = "http"], "restart")
    ELSE IF t.httpFallback /\ t.httpFallbackUsed /\ t.protocol = "http"
    THEN StartTracker([t EXCEPT !.protocol = "udp"])
    ELSE [t EXCEPT !.timer = "set"]

TrackersInit ==
    /\ trackerPlan \in TrackerPlans
    /\ trackers = AddTrackers(<<>>, trackerPlan.uris)
    /\ started = FALSE
    /\ startAll = 0

SpendPlanned(what) == trackerPlan[what] > 0 /\ trackerPlan' = [trackerPlan EXCEPT ![what] = @ - 1]

Update(i, t) == trackers' = [trackers EXCEPT ![i] = t]

Start ==
    /\ ~ started
    /\ SpendPlanned("starts")
    /\ started' = TRUE
    /\ startAll' = startAll + 1
    /\ trackers' = [i \in DOMAIN trackers |-> [trackers[i] EXCEPT !.reached = FALSE]]

StartAll ==
    /\ startAll > 0
    /\ startAll' = startAll - 1
    /\ trackers' = [i \in DOMAIN trackers |-> StartTracker(trackers[i])]
    /\ UNCHANGED <<started, trackerPlan>>

Stop ==
    /\ started
    /\ SpendPlanned("stops")
    /\ started' = FALSE
    /\ trackers' = [i \in DOMAIN trackers |-> StopTracker(trackers[i])]
    /\ UNCHANGED startAll

\* Peers::importTrackers.  The bound: nothing runs, as a tracker added moves those
\* that timers and posted calls point to.
Import ==
    /\ ~ started /\ startAll = 0
    /\ \A t \in Range(trackers) : ~ HasComm(t) /\ t.tasks = EmptyBag
    /\ trackerPlan.imports # <<>>
    /\ trackers' = AddTracker(trackers, Head(trackerPlan.imports))
    /\ trackerPlan' = [trackerPlan EXCEPT !.imports = Tail(@)]
    /\ UNCHANGED <<started, startAll>>

\* Mutated form of Task: it does not look whether the torrent was stopped.
TaskAfterStop(i) ==
    \E task \in BagToSet(trackers[i].tasks) :
        LET t == [trackers[i] EXCEPT !.tasks = Minus(@, task)]
        IN /\ Update(i, CASE task[1] = "restart" -> StartTracker(t)
                          [] task[1] = "fail" /\ HasComm(t) -> OnTrackerFail(t)
                          [] task[1] = "announce" /\ HasComm(t) -> OnAnnounce(t)
                          [] OTHER -> t)
           /\ UNCHANGED <<started, startAll, trackerPlan>>

\* A call posted by onAnnounce, onTrackerFail, or by the latter's own call.
Task(i) ==
    \E task \in BagToSet(trackers[i].tasks) :
        LET t == [trackers[i] EXCEPT !.tasks = Minus(@, task)]
            found == HasComm(t) /\ t.comm.no = task[2]
        IN /\ Update(i, CASE task[1] = "restart" -> StartTracker(t)
                          [] task[1] = "fail" /\ started /\ found -> OnTrackerFail(t)
                          [] task[1] = "announce" /\ started ->
                                [IF found THEN OnAnnounce(t) ELSE t EXCEPT !.reached = TRUE]
                          [] OTHER -> t)
           /\ UNCHANGED <<started, startAll, trackerPlan>>

Quiet(t) == t.tasks = EmptyBag /\ t.comm.posted = EmptyBag /\ t.comm.dropped = 0

TimerFires(i) ==
    /\ trackers[i].timer = "set" /\ Quiet(trackers[i])
    /\ Update(i, Announce([trackers[i] EXCEPT !.timer = "idle"]))
    /\ UNCHANGED <<started, startAll, trackerPlan>>

\* Peers::refreshSource.  The bound: no call is posted that replaces the tracker,
\* as it would leave one of two requests behind.
Refresh(i) ==
    /\ started /\ HasComm(trackers[i]) /\ startAll = 0
    /\ \A task \in BagToSet(trackers[i].tasks) : task[1] = "announce"
    /\ SpendPlanned("refreshes")
    /\ Update(i, Announce(trackers[i]))
    /\ UNCHANGED <<started, startAll>>

-------------------------------------------------------------------------------
(* UDP *)

Write(t, message) ==
    [t EXCEPT !.comm.buffer = message,
              !.comm.packets = @ \cup {message},
              !.comm.socket = IF @ # "closed" THEN @
                              ELSE IF t.comm.callback THEN "reading" ELSE "deaf"]

\* do_write, do_rewrite and do_close.  A request may be sent by a socket that
\* nobody reads, when the end of the one before closes the writer first.
Posted(i) ==
    \E call \in BagToSet(trackers[i].comm.posted) :
        LET t == [trackers[i] EXCEPT !.comm.posted = Minus(@, call)]
        IN /\ Update(i, CASE call.call = "write" -> Write(t, call.message)
                          [] call.call = "rewrite" -> Write(t, t.comm.buffer)
                          [] call.call = "close" ->
                                [t EXCEPT !.comm.callback = FALSE, !.comm.socket = "closed"])
           /\ UNCHANGED <<started, startAll, trackerPlan>>

\* The name is not resolved, or the socket does not connect or send.
PostedFails(i) ==
    \E call \in BagToSet(trackers[i].comm.posted) :
        LET t == [trackers[i] EXCEPT !.comm.posted = Minus(@, call)]
            u == IF call.call = "write" THEN [t EXCEPT !.comm.buffer = call.message] ELSE t
        IN /\ call.call # "close"
           /\ SpendPlanned("failures")
           /\ Update(i, IF u.comm.callback THEN UdpClose(u) ELSE u)
           /\ UNCHANGED <<started, startAll>>

\* A closed socket leaves the answer to the listener, which has the same port.
Answer(i, packet, good) ==
    LET t == [trackers[i] EXCEPT !.comm.packets = @ \ {packet}]
    IN Update(i, IF t.comm.socket = "deaf" THEN t ELSE UdpReceive(t, packet, good))

\* The tracker refuses a connection id it did not give.
UdpAnswer(i) ==
    \E packet \in trackers[i].comm.packets :
        /\ Answer(i, packet, packet.action = "connect" \/ trackers[i].comm.connection = "good")
        /\ UNCHANGED <<started, startAll, trackerPlan>>

UdpRefuse(i) ==
    \E packet \in trackers[i].comm.packets :
        /\ SpendPlanned("refusals")
        /\ Answer(i, packet, FALSE)
        /\ UNCHANGED <<started, startAll>>

Lose(i) ==
    \E packet \in trackers[i].comm.packets :
        /\ SpendPlanned("losses")
        /\ Update(i, [trackers[i] EXCEPT !.comm.packets = @ \ {packet}])
        /\ UNCHANGED <<started, startAll>>

\* Mutated form of CheckTimeout: a request is sent again for ever by a deaf socket.
CheckTimeoutForever(t, e) ==
    PostUdp([t EXCEPT !.comm.pending[e].armed = FALSE,
                      !.comm.pending[1].armed = TRUE], Rewrite)

\* checkTimeout acts on the first request of the tracker, whichever timer fired.
CheckTimeout(t, e) ==
    IF t.comm.pending[1].retries > 0 THEN UdpClose(t)
    ELSE PostUdp([t EXCEPT !.comm.pending[e].armed = FALSE,
                           !.comm.pending[1].armed = TRUE,
                           !.comm.pending[1].retries = 1], Rewrite)

Timeout(i) ==
    \E e \in DOMAIN trackers[i].comm.pending :
        /\ trackers[i].comm.pending[e].armed /\ Quiet(trackers[i])
        /\ IF trackers[i].comm.packets = {} THEN UNCHANGED trackerPlan ELSE SpendPlanned("early")
        /\ Update(i, CheckTimeout(trackers[i], e))
        /\ UNCHANGED <<started, startAll>>

-------------------------------------------------------------------------------
(* HTTP and HTTPS *)

Asked(i, kind) ==
    /\ trackers[i].comm.kind = kind
    /\ trackers[i].comm.stream = "live"
    /\ trackers[i].comm.state = "Announcing"

\* onTcpReceived, of the tracker's stream or of one that it gave up
HttpAnswer(i) ==
    /\ Asked(i, "http")
    /\ Update(i, Announced(trackers[i]))
    /\ UNCHANGED <<started, startAll, trackerPlan>>

StrayAnswer(i) ==
    /\ trackers[i].comm.stray > 0
    /\ LET t == [trackers[i] EXCEPT !.comm.stray = @ - 1, !.comm.dropped = @ + 1]
       IN Update(i, IF t.comm.state = "Announcing" THEN Announced(t) ELSE t)
    /\ UNCHANGED <<started, startAll, trackerPlan>>

HttpBadAnswer(i) ==
    /\ Asked(i, "http")
    /\ SpendPlanned("refusals")
    /\ Update(i, StreamFail([trackers[i] EXCEPT !.comm.stream = "none", !.comm.dropped = @ + 1]))
    /\ UNCHANGED <<started, startAll>>

\* The tracker closes the stream after its answer, or the stream fails before.
HttpStreamCloses(i) ==
    /\ trackers[i].comm.kind = "http" /\ trackers[i].comm.stream = "live"
    /\ IF Asked(i, "http") THEN SpendPlanned("failures") ELSE UNCHANGED trackerPlan
    /\ Update(i, HttpClosed([trackers[i] EXCEPT !.comm.stream = "dead"]))
    /\ UNCHANGED <<started, startAll>>

DroppedStreamCloses(i) ==
    /\ trackers[i].comm.dropped > 0
    /\ Update(i, HttpClosed([trackers[i] EXCEPT !.comm.dropped = @ - 1]))
    /\ UNCHANGED <<started, startAll, trackerPlan>>

HttpsAnswer(i) ==
    /\ Asked(i, "https")
    /\ Update(i, Announced([trackers[i] EXCEPT !.comm.stream = "none"]))
    /\ UNCHANGED <<started, startAll, trackerPlan>>

\* A read that returns less than its buffer is the last: what comes later is not read.
HttpsPartialAnswer(i) ==
    /\ Asked(i, "https")
    /\ SpendPlanned("partial")
    /\ Update(i, [trackers[i] EXCEPT !.comm.stream = "dead"])
    /\ UNCHANGED <<started, startAll>>

HttpsFails(i) ==
    /\ Asked(i, "https")
    /\ \/ SpendPlanned("refusals")
       \/ SpendPlanned("failures")
    /\ Update(i, StreamFail([trackers[i] EXCEPT !.comm.stream = "none"]))
    /\ UNCHANGED <<started, startAll>>

-------------------------------------------------------------------------------

Answers(i) == UdpAnswer(i) \/ HttpAnswer(i) \/ StrayAnswer(i) \/ HttpsAnswer(i)
Program(i) == Task(i) \/ Posted(i) \/ TimerFires(i) \/ Timeout(i) \/ DroppedStreamCloses(i)
Disturbance(i) ==
    \/ Refresh(i) \/ PostedFails(i) \/ UdpRefuse(i) \/ Lose(i) \/ HttpBadAnswer(i)
    \/ HttpStreamCloses(i) \/ HttpsPartialAnswer(i) \/ HttpsFails(i)

Running(i) == i \in DOMAIN trackers

TrackersNext ==
    \/ Start \/ StartAll \/ Stop \/ Import
    \/ \E i \in DOMAIN trackers : Answers(i) \/ Program(i) \/ Disturbance(i)

TrackersSpec == TrackersInit /\ [][TrackersNext]_trackerVars

\* Fairness: the pools run what is posted, timers fire, and a tracker that was asked
\* answers, unless the plan has it fail.
TrackersFairSpec ==
    /\ TrackersSpec
    /\ WF_trackerVars(StartAll)
    /\ \A i \in 1 .. MaxTrackers : WF_trackerVars(Running(i) /\ (Answers(i) \/ Program(i)))

-------------------------------------------------------------------------------

\* The shape of the state.  A tracker has at most two requests, its timer exists
\* with its tracker, and HTTP is in use for a tracker of both kinds only as its
\* fallback.
TrackersTypeOK ==
    /\ started \in BOOLEAN /\ startAll \in Nat
    /\ \A t \in Range(trackers) :
          /\ t.protocol \in Protocols /\ t.timer \in {"none", "idle", "set"}
          /\ HasComm(t) <=> t.comm.no # 0
          /\ HasComm(t) <=> t.timer # "none"
          /\ t.comm.state \in {"Clear", "Initialized", "Offline", "Alive", "Connecting",
                               "Connected", "Announcing", "Announced"}
          /\ t.comm.socket \in {"closed", "reading", "deaf"}
          /\ t.comm.stream \in {"none", "live", "dead"}
          /\ Len(t.comm.pending) <= 2
          /\ t.httpFallback /\ t.protocol # "udp" => t.httpFallbackUsed

\* No timer is armed while the torrent is stopped: not by the announcements and failures
\* posted before the stop, nor by the answers to what is sent after it.  It is not
\* silent: a start of all or a restart posted before the stop looks at nothing and
\* still announces, and a request sent before goes on, but none of them again later.
StoppedSetsNoTimer ==
    ~ started => \A t \in Range(trackers) : t.timer # "set"

\* What nobody will wake: the stream of an HTTP tracker takes no second request,
\* and the rest of an HTTPS answer is not read.
Asleep(t) == t.comm.kind \in {"http", "https"} /\ t.comm.stream = "dead"

\* A tracker of a started torrent that is not Asleep has a request that will end, a
\* stream, a timer or a posted call: no failure, lost answer or fallback leaves it
\* without a next step (and the state keeps its shape).
TrackerAwake ==
    TrackersTypeOK /\ (started /\ startAll = 0 =>
        \A t \in Range(trackers) :
            \/ t.protocol = "other" \/ t.tasks # EmptyBag \/ t.timer = "set"
            \/ t.comm.stream = "live" \/ Asleep(t)
            \/ \E entry \in Range(t.comm.pending) : entry.armed)

ToAnnounce(i) ==
    /\ Running(i) /\ started
    /\ trackers[i].protocol # "other" /\ ~ trackers[i].reached
    /\ ~ Asleep(trackers[i]) /\ trackers[i].comm.connection # "bad"

\* A torrent that stays started has announced to each tracker in the end, through
\* lost answers, late ones, failures and the fallback to HTTP, unless it keeps a
\* connection id that the tracker never gave.
TrackerAnnounced == \A i \in 1 .. MaxTrackers : ToAnnounce(i) ~> ~ ToAnnounce(i)
===============================================================================
