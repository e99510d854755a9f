---------------------------------- MODULE Peers ----------------------------------
(***************************************************************************)
(* mtt::Peers: the peers a torrent knows and the connections it holds, on   *)
(* the threads that run at the same time: the callbacks of each connection, *)
(* trackers, the DHT and PEX with new addresses, connectNext wherever it is *)
(* posted or about to be called, the user's calls, and the transfer that    *)
(* starts and stops it all.  Every section under peersMutex is one step.    *)
(*                                                                          *)
(* Of the transfer there is what its tables hold of peers: a message enters *)
(* a peer, and the end of a connection takes it out.  Time passes only in   *)
(* Later: it makes what was tried lately fit to be tried again.             *)
(***************************************************************************)
EXTENDS Integers, Sequences, SequencesExt, FiniteSets

CONSTANTS
    Addresses,          \* what addresses peers may have
    MaxConnections,     \* maxTorrentConnections
    Plans               \* how much of what may happen, and from whom

Lists == {<<a>> : a \in Addresses} \cup {<<a, b>> : a, b \in Addresses}

ASSUME PeersAssumption ==
    /\ MaxConnections \in Nat \ {0}
    /\ Plans \subseteq
          [comms : Nat,    \* bound: connections ever made
           starts : Nat, stops : Nat, later : Nat, lists : Nat, sources : SUBSET STRING,
           connects : Nat, incoming : Nat, disconnects : Nat, punches : Nat,
           searches : Nat, switches : Nat, messages : Nat]

VARIABLES
    known,          \* knownPeers, counted from 0 where the code has an index
    active,         \* activeConnections
    comms,          \* every PeerCommunication ever made, with what its callbacks do
    connectIdx,     \* currentConnectIdx
    connecting,
    running,        \* refreshTimer is set: not stopped()
    transferring,   \* FileTransfer::refreshTimer is set
    control,        \* how far the thread in start() or stop() is
    listener,       \* is it the transfer, or nolistener
    heard,          \* keys of Downloader::peersRequestsInfo
    due,            \* calls of connectNext not run yet
    asking,         \* a thread in startConnecting() before it reads stopped()
    dht,            \* DhtSource, and the search Communication runs for this hash
    rendezvous,     \* addresses a negotiator was asked to introduce
    plan

vars == <<known, active, comms, connectIdx, connecting, running, transferring, control,
          listener, heard, due, asking, dht, rendezvous, plan>>

-------------------------------------------------------------------------------
Spend(what) == plan[what] > 0 /\ plan' = [plan EXCEPT ![what] = @ - 1]

KnownPeer(address, state, flags) ==
    [address |-> address, state |-> state, flags |-> flags, unwanted |-> FALSE,
     tried |-> "never"]     \* lastConnectionTime: never, within 30 seconds, or before

Comm(address, kind) ==
    [address |-> address, kind |-> kind,
     phase |-> "opening", closing |-> FALSE,
     step |-> "none",       \* what its callback thread has still to do
     late |-> FALSE,        \* history: entered last when a stop had ended the listening
     exchanged |-> {}]      \* addresses its PEX messages named

NoIdx == -1

Peer(idx) == known[idx + 1]

\* std::find: the first place of an address, if it is there.
Knows(address) == \E i \in DOMAIN known : known[i].address = address
FirstOf(address) ==
    {idx \in 0 .. Len(known) - 1 :
        Peer(idx).address = address /\ \A i \in 0 .. idx - 1 : Peer(i).address # address}

ActiveOf(c) == {a \in active : a.comm = c}

IsEstablished(c) == comms[c].phase = "established" /\ ~ comms[c].closing

Stopped == ~ running

Try(list, idxs) ==
    [i \in DOMAIN list |->
        IF i - 1 \in idxs THEN [list[i] EXCEPT !.state = "Connecting", !.tried = "lately"]
        ELSE list[i]]

-------------------------------------------------------------------------------
(* connectNext() *)

Connectable(p) == p.state = "Disconnected" /\ ~ p.unwanted /\ p.tried # "lately"

CanConnect == connecting /\ ~ Stopped /\ Cardinality(active) < MaxConnections

Room == IF CanConnect THEN MaxConnections - Cardinality(active) ELSE 0

\* Mutated form of Wanted: the end of the list is the last place.
WantedToEnd == {idx \in connectIdx .. Len(known) - 1 : Connectable(Peer(idx))}

\* The places it takes one of when it comes to them, once around the list.
Wanted == {idx \in 0 .. Len(known) - 1 : Connectable(Peer(idx))}

\* When it comes to a place
Turn(idx) == (idx - connectIdx + Len(known)) % Len(known)

\* The first of them it comes to, in that order, as many as there is room for.
IsChosen(chosen) ==
    /\ \A i, j \in DOMAIN chosen : i < j => Turn(chosen[i]) < Turn(chosen[j])
    /\ \A idx \in Wanted \ ToSet(chosen) :
          Len(chosen) = Room /\ \A i \in DOMAIN chosen : Turn(chosen[i]) < Turn(idx)

\* Whoever calls it: base is comms after the caller's own step.
CallConnectNext(base) ==
    /\ \E n \in 0 .. Room : \E chosen \in [1 .. n -> Wanted] :
          /\ IsChosen(chosen)
          /\ Len(comms) + n <= plan.comms
          /\ known' = Try(known, ToSet(chosen))
          /\ comms' = base \o [i \in 1 .. n |-> Comm(Peer(chosen[i]).address, "own")]
          /\ active' = active \cup {[comm |-> Len(comms) + i, idx |-> chosen[i]] : i \in 1 .. n}
          /\ connectIdx' = IF n > 0 /\ n = Room THEN (chosen[n] + 1) % Len(known) ELSE connectIdx
    /\ UNCHANGED <<connecting, running, transferring, control, listener, heard, asking,
                   dht, rendezvous, plan>>

ConnectNext == due > 0 /\ due' = due - 1 /\ CallConnectNext(comms)

-------------------------------------------------------------------------------
(* New addresses.  A list may name one address twice: both are added.           *)

\* Peers that PEX or the DHT found come first, and move the rest up.
AheadOf(source) == source \in {"Pex", "Dht"} /\ connectIdx # 0

\* Mutated form of Moved: the entry at the place itself is thought to stay.
MovedBehind(count) ==
    {[a EXCEPT !.idx = IF @ > connectIdx THEN @ + count ELSE @] : a \in active}

Moved(count) ==
    {[a EXCEPT !.idx = IF @ >= connectIdx THEN @ + count ELSE @] : a \in active}

UpdateKnownPeers(list, source, flags) ==
    \E new \in Lists \cup {<<>>} :
       LET added == [i \in DOMAIN new |-> KnownPeer(new[i], "Disconnected", flags)]
           flagged ==
               [i \in DOMAIN known |->
                   IF flags /\ i - 1 \in FirstOf(known[i].address)
                      /\ known[i].address \in ToSet(list)
                   THEN [known[i] EXCEPT !.flags = TRUE] ELSE known[i]]
       IN /\ new = SelectSeq(list, LAMBDA a : ~ Knows(a))
          /\ IF new = <<>> THEN known' = flagged /\ UNCHANGED <<active, connectIdx, due>>
             ELSE /\ due' = due + 1
                  /\ IF AheadOf(source)
                     THEN /\ known' = SubSeq(flagged, 1, connectIdx) \o added
                                      \o SubSeq(flagged, connectIdx + 1, Len(known))
                          /\ active' = Moved(Len(new))
                          /\ UNCHANGED connectIdx
                     ELSE /\ connectIdx' = IF connectIdx = 0 THEN Len(known) ELSE connectIdx
                          /\ known' = flagged \o added
                          /\ UNCHANGED active

\* The answer of a tracker, which may come after stop().
TrackerFoundPeers ==
    /\ "Tracker" \in plan.sources /\ Spend("lists")
    /\ \E list \in Lists : UpdateKnownPeers(list, "Tracker", FALSE)
    /\ UNCHANGED <<comms, connecting, running, transferring, control, listener, heard,
                   asking, dht, rendezvous>>

\* The addresses of a PEX message are those its sender was connected to once.
Exchanged(c, list) == [comms EXCEPT ![c].exchanged = @ \cup ToSet(list)]

PexFoundPeers(c) ==
    /\ "Pex" \in plan.sources /\ Spend("lists")
    /\ comms[c].phase = "established" /\ comms[c].step = "none"
    /\ \E list \in Lists :
          /\ UpdateKnownPeers(list, "Pex", TRUE)
          /\ comms' = Exchanged(c, list)
    /\ UNCHANGED <<connecting, running, transferring, control, listener, heard, asking,
                   dht, rendezvous>>

-------------------------------------------------------------------------------
(* Connections asked for by the user or a negotiator, and those that come in.   *)

Connect(address, kind) ==
    /\ ~ Stopped
    /\ ~ \E a \in active : comms[a.comm].address = address
    /\ Len(comms) < plan.comms
    /\ \E idx \in IF Knows(address) THEN FirstOf(address) ELSE {Len(known)} :
          LET list == IF idx = Len(known)
                      THEN Append(known, KnownPeer(address, "Disconnected", FALSE)) ELSE known
          IN /\ ~ list[idx + 1].unwanted
             /\ known' = Try(list, {idx})
             /\ comms' = Append(comms, Comm(address, kind))
             /\ active' = active \cup {[comm |-> Len(comms) + 1, idx |-> idx]}
    /\ UNCHANGED <<connectIdx, connecting, running, transferring, control, listener, heard,
                   due, asking, dht>>

ManualConnect ==
    /\ Spend("connects")
    /\ \E a \in Addresses : Connect(a, "manual")
    /\ UNCHANGED rendezvous

\* ut_holepunch Connect, from any peer at any time
HolepunchConnect ==
    /\ Cardinality(active) < MaxConnections
    /\ \/ Spend("punches") /\ (\E a \in Addresses : Connect(a, "punch")) /\ UNCHANGED rendezvous
       \/ \E a \in rendezvous :
             Connect(a, "punch") /\ rendezvous' = rendezvous \ {a} /\ UNCHANGED plan

\* add(): the torrent is active, perhaps only checking its files.  The peer's own
\* port is none a peer listens at.
Add ==
    /\ Spend("incoming")
    /\ Len(comms) < plan.comms
    /\ LET address == "in" IN
          /\ known' = Append(known, KnownPeer(address, "Connected", FALSE))
          /\ comms' = Append(comms, Comm(address, "remote"))
          /\ active' = active \cup {[comm |-> Len(comms) + 1, idx |-> Len(known)]}
    /\ UNCHANGED <<connectIdx, connecting, running, transferring, control, listener, heard,
                   due, asking, dht, rendezvous>>

\* disconnect(p, unwanted), by the transfer that has p in its tables
Disconnect(c, unwanted) ==
    /\ Spend("disconnects")
    /\ c \in heard /\ ~ comms[c].closing
    /\ ActiveOf(c) # {}
    /\ comms' = [comms EXCEPT ![c].closing = TRUE]
    /\ \E a \in ActiveOf(c) :
          known' = IF unwanted THEN [known EXCEPT ![a.idx + 1].unwanted = TRUE] ELSE known
    /\ UNCHANGED <<active, connectIdx, connecting, running, transferring, control,
                   listener, heard, due, asking, dht, rendezvous>>

-------------------------------------------------------------------------------
(* The callbacks of a connection, one at a time under its own mutex.            *)

StepOf(c, from, to) ==
    /\ comms[c].step = from
    /\ comms' = [comms EXCEPT ![c].step = to]

\* The handshake is done.  A connection already told to close may still get here.
\* The transfer, if it is told, sends its bitfield and keeps nothing.
HandshakeFinished(c) ==
    /\ comms[c].step = "none" /\ comms[c].phase = "opening"
    /\ comms' = [comms EXCEPT ![c].phase = "established", ![c].step = "none"]
    /\ known' = [i \in DOMAIN known |->
                    IF \E a \in ActiveOf(c) : a.idx = i - 1
                    THEN [known[i] EXCEPT !.state = "Connected"] ELSE known[i]]
    /\ UNCHANGED <<active, connectIdx, connecting, running, transferring, control,
                   listener, heard, due, asking, dht, rendezvous, plan>>

\* A message comes: messageReceived loads the listener, ...
LoadListener(c) ==
    /\ comms[c].phase = "established" /\ listener /\ Spend("messages")
    /\ StepOf(c, "none", "message")
    /\ UNCHANGED <<known, active, connectIdx, connecting, running, transferring, control,
                   listener, heard, due, asking, dht, rendezvous>>

\* ... which is the transfer and looks whether it runs, ...
TestTimer(c) ==
    /\ StepOf(c, "message", IF transferring THEN "entering" ELSE "none")
    /\ UNCHANGED <<known, active, connectIdx, connecting, running, transferring, control,
                   listener, heard, due, asking, dht, rendezvous, plan>>

\* ... and enters the peer under requestsMutex, whatever has happened since.
EnterPeer(c) ==
    /\ comms[c].step = "entering"
    /\ comms' = [comms EXCEPT ![c].step = "none", ![c].late = ~ listener]
    /\ heard' = heard \cup {c}
    /\ UNCHANGED <<known, active, connectIdx, connecting, running, transferring, control,
                   listener, due, asking, dht, rendezvous, plan>>

\* May a peer that could not be reached be punched through to?
Punchable(c) ==
    /\ comms[c].phase = "opening" /\ comms[c].kind \in {"own", "manual"}
    /\ \E a \in ActiveOf(c) : Peer(a.idx).flags

ClosedEntries(c) ==
    [i \in DOMAIN known |->
        IF \E a \in ActiveOf(c) : a.idx = i - 1
        THEN [known[i] EXCEPT !.state = "Disconnected", !.tried = "lately"] ELSE known[i]]

\* Mutated form of RemovePeer: what stop() has removed before is told nobody.
RemovePeerReturns(c) ==
    /\ StepOf(c, "none", IF ActiveOf(c) = {} THEN "gone" ELSE "removed")
    /\ active' = active \ ActiveOf(c)
    /\ known' = ClosedEntries(c)
    /\ UNCHANGED <<connectIdx, connecting, running, transferring, control, listener, heard,
                   due, asking, dht, rendezvous, plan>>

\* connectionClosed(): removePeer, when the stream failed, timed out or was closed.
RemovePeer(c) ==
    /\ StepOf(c, "none", IF Punchable(c) THEN "punchable" ELSE "removed")
    /\ active' = active \ ActiveOf(c)
    /\ known' = ClosedEntries(c)
    /\ UNCHANGED <<connectIdx, connecting, running, transferring, control, listener, heard,
                   due, asking, dht, rendezvous, plan>>

\* ... a peer that was connected to it is asked to introduce it, ...
EvaluatePossibleHolepunch(c) ==
    /\ StepOf(c, "punchable", "removed")
    /\ rendezvous' = IF \E n \in active : comms[c].address \in comms[n.comm].exchanged
                     THEN rendezvous \cup {comms[c].address} ELSE rendezvous
    /\ UNCHANGED <<known, active, connectIdx, connecting, running, transferring, control,
                   listener, heard, due, asking, dht, plan>>

\* ... connectNext is called, ...
ThenConnectNext(c) ==
    /\ comms[c].step = "removed"
    /\ CallConnectNext([comms EXCEPT ![c].step = "tell closed"])
    /\ UNCHANGED due

\* ... the listener is loaded, ...
LoadLastListener(c) ==
    /\ StepOf(c, "tell closed", IF listener THEN "last call" ELSE "gone")
    /\ UNCHANGED <<known, active, connectIdx, connecting, running, transferring, control,
                   listener, heard, due, asking, dht, rendezvous, plan>>

\* ... and takes the peer out, whether the connection was removed here or by stop().
TellClosed(c) ==
    /\ StepOf(c, "last call", "gone")
    /\ heard' = heard \ {c}
    /\ UNCHANGED <<known, active, connectIdx, connecting, running, transferring, control,
                   listener, due, asking, dht, rendezvous, plan>>

-------------------------------------------------------------------------------
(* start(listener), stop(), startConnecting(), stopConnecting()                 *)

\* setTargetListener: the transfer may now be told of messages.
StartListening ==
    /\ control = "idle" /\ ~ running /\ Spend("starts")
    /\ listener' = TRUE
    /\ control' = "listening"
    /\ UNCHANGED <<known, active, comms, connectIdx, connecting, running, transferring,
                   heard, due, asking, dht, rendezvous>>

StartTimer ==
    /\ control = "listening" /\ control' = "running"
    /\ running' = TRUE
    /\ dht' = IF dht.state = "Clear" THEN [dht EXCEPT !.state = "Connected"] ELSE dht
    /\ UNCHANGED <<known, active, comms, connectIdx, connecting, transferring, listener,
                   heard, due, asking, rendezvous, plan>>

StartPosts ==
    /\ control = "running" /\ control' = "started"
    /\ due' = IF connecting THEN due + 1 ELSE due
    /\ UNCHANGED <<known, active, comms, connectIdx, connecting, running, transferring,
                   listener, heard, asking, dht, rendezvous, plan>>

\* FileTransfer::start goes on.
StartTransfer ==
    /\ control = "started" /\ control' = "idle"
    /\ transferring' = TRUE
    /\ UNCHANGED <<known, active, comms, connectIdx, connecting, running, listener, heard,
                   due, asking, dht, rendezvous, plan>>

StopFinding ==
    /\ control = "idle" /\ Spend("stops")
    /\ control' = "stop finding"
    /\ dht' = [dht EXCEPT !.searching = FALSE]
    /\ UNCHANGED <<known, active, comms, connectIdx, connecting, running, transferring,
                   listener, heard, due, asking, rendezvous>>

\* Mutated form of StopDht: the source is left as it was.
StopDhtKeeps ==
    /\ control = "stop finding" /\ control' = "stopping"
    /\ UNCHANGED <<known, active, comms, connectIdx, connecting, running, transferring,
                   listener, heard, due, asking, dht, rendezvous, plan>>

StopDht ==
    /\ control = "stop finding" /\ control' = "stopping"
    /\ dht' = [dht EXCEPT !.state = "Clear"]
    /\ UNCHANGED <<known, active, comms, connectIdx, connecting, running, transferring,
                   listener, heard, due, asking, rendezvous, plan>>

\* One section: whoever is active is told closed, and will not be found again.
StopConnections ==
    /\ control = "stopping" /\ control' = "closing"
    /\ listener' = FALSE
    /\ connecting' = FALSE
    /\ heard' = IF listener THEN heard \ {a.comm : a \in active} ELSE heard
    /\ known' = [i \in DOMAIN known |->
                    IF \E a \in active : a.idx = i - 1
                    THEN [known[i] EXCEPT !.state = "Disconnected"] ELSE known[i]]
    /\ comms' = [c \in DOMAIN comms |->
                    IF ActiveOf(c) # {} THEN [comms[c] EXCEPT !.closing = TRUE] ELSE comms[c]]
    /\ active' = {}
    /\ UNCHANGED <<connectIdx, running, transferring, due, asking, dht, rendezvous, plan>>

StopTimer ==
    /\ control = "closing" /\ control' = "closed"
    /\ running' = FALSE
    /\ UNCHANGED <<known, active, comms, connectIdx, connecting, transferring, listener,
                   heard, due, asking, dht, rendezvous, plan>>

\* FileTransfer::stop goes on ...
StopTransfer ==
    /\ control = "closed" /\ control' = "clearing"
    /\ transferring' = FALSE
    /\ UNCHANGED <<known, active, comms, connectIdx, connecting, running, listener, heard,
                   due, asking, dht, rendezvous, plan>>

\* ... and Downloader::stop clears its tables, without a look at who is about to enter.
ClearTransfer ==
    /\ control = "clearing" /\ control' = "idle"
    /\ heard' = {}
    /\ UNCHANGED <<known, active, comms, connectIdx, connecting, running, transferring,
                   listener, due, asking, dht, rendezvous, plan>>

StartConnecting ==
    /\ ~ connecting /\ ~ asking /\ Spend("switches")
    /\ connecting' = TRUE /\ asking' = TRUE
    /\ UNCHANGED <<known, active, comms, connectIdx, running, transferring, control,
                   listener, heard, due, dht, rendezvous>>

StartConnectingPosts ==
    /\ asking /\ asking' = FALSE
    /\ due' = IF Stopped THEN due ELSE due + 1
    /\ UNCHANGED <<known, active, comms, connectIdx, connecting, running, transferring,
                   control, listener, heard, dht, rendezvous, plan>>

StopConnecting ==
    /\ connecting /\ Spend("switches")
    /\ connecting' = FALSE
    /\ UNCHANGED <<known, active, comms, connectIdx, running, transferring, control,
                   listener, heard, due, asking, dht, rendezvous>>

-------------------------------------------------------------------------------
(* DhtSource: update() every second, findPeers() then or when the user asks.  The *)
(* DHT stays enabled.                                                           *)

DhtUpdate ==
    /\ running /\ dht.thread = "none" /\ Spend("searches")
    /\ \/ dht.state = "Connected"    \* update()
       \/ dht.state = "Clear"        \* refreshSource("DHT"), which asks nothing
    /\ dht' = [dht EXCEPT !.thread = "checked"]
    /\ UNCHANGED <<known, active, comms, connectIdx, connecting, running, transferring,
                   control, listener, heard, due, asking, rendezvous>>

FindPeers ==
    /\ dht.thread = "checked"
    /\ dht' = IF dht.state # "Announcing"
              THEN [dht EXCEPT !.state = "Announcing", !.thread = "finding"]
              ELSE [dht EXCEPT !.thread = "none"]
    /\ UNCHANGED <<known, active, comms, connectIdx, connecting, running, transferring,
                   control, listener, heard, due, asking, rendezvous, plan>>

\* dht::Communication::findPeers, which has one search at most for a hash
CallFindPeers ==
    /\ dht.thread = "finding"
    /\ dht' = [dht EXCEPT !.thread = "none", !.searching = TRUE]
    /\ UNCHANGED <<known, active, comms, connectIdx, connecting, running, transferring,
                   control, listener, heard, due, asking, rendezvous, plan>>

DhtFoundPeers ==
    /\ dht.searching /\ "Dht" \in plan.sources /\ Spend("lists")
    /\ \E list \in Lists : UpdateKnownPeers(list, "Dht", FALSE)
    /\ UNCHANGED <<comms, connecting, running, transferring, control, listener, heard,
                   asking, dht, rendezvous>>

DhtFindingPeersFinished ==
    /\ dht.searching
    /\ dht' = [dht EXCEPT !.searching = FALSE, !.state = "Connected"]
    /\ UNCHANGED <<known, active, comms, connectIdx, connecting, running, transferring,
                   control, listener, heard, due, asking, rendezvous, plan>>

-------------------------------------------------------------------------------
\* MinTimeToReconnect passes.
Later ==
    /\ Spend("later")
    /\ \E p \in ToSet(known) : p.tried = "lately"
    /\ known' = [i \in DOMAIN known |->
                    IF known[i].tried = "lately" THEN [known[i] EXCEPT !.tried = "before"]
                    ELSE known[i]]
    /\ UNCHANGED <<active, comms, connectIdx, connecting, running, transferring, control,
                   listener, heard, due, asking, dht, rendezvous>>

Init ==
    /\ known = <<>> /\ active = {} /\ comms = <<>> /\ connectIdx = 0
    /\ connecting = FALSE /\ running = FALSE /\ transferring = FALSE /\ control = "idle"
    /\ listener = FALSE
    /\ heard = {} /\ due = 0 /\ asking = FALSE /\ rendezvous = {}
    /\ dht = [state |-> "Clear", thread |-> "none", searching |-> FALSE]
    /\ plan \in Plans

Callback(c) ==
    \/ HandshakeFinished(c) \/ PexFoundPeers(c)
    \/ LoadListener(c) \/ TestTimer(c) \/ EnterPeer(c)
    \/ RemovePeer(c) \/ EvaluatePossibleHolepunch(c) \/ ThenConnectNext(c)
    \/ LoadLastListener(c) \/ TellClosed(c)
    \/ \E unwanted \in BOOLEAN : Disconnect(c, unwanted)

Next ==
    \/ \E c \in DOMAIN comms : Callback(c)
    \/ ConnectNext \/ TrackerFoundPeers \/ ManualConnect \/ HolepunchConnect \/ Add
    \/ StartListening \/ StartTimer \/ StartPosts \/ StartTransfer
    \/ StopFinding \/ StopDht \/ StopConnections \/ StopTimer \/ StopTransfer \/ ClearTransfer
    \/ StartConnecting \/ StartConnectingPosts \/ StopConnecting
    \/ DhtUpdate \/ FindPeers \/ CallFindPeers \/ DhtFoundPeers \/ DhtFindingPeersFinished
    \/ Later

Spec == Init /\ [][Next]_vars

-------------------------------------------------------------------------------
\* stop() has told the transfer of the ends, and Downloader::stop has still to clear.
Clearing == {"closing", "closed", "clearing"}

\* Every variable has its type.
TypeOK ==
    /\ known \in Seq([address : Addresses \cup {"in"}, flags : BOOLEAN, unwanted : BOOLEAN,
                      state : {"Disconnected", "Connecting", "Connected"},
                      tried : {"never", "lately", "before"}])
    /\ active \subseteq [comm : DOMAIN comms, idx : 0 .. Len(known) - 1]
    /\ \A c \in DOMAIN comms :
          comms[c] \in [address : Addresses \cup {"in"},
                        kind : {"own", "manual", "punch", "remote"},
                        phase : {"opening", "established"}, closing : BOOLEAN,
                        step : {"none", "message", "entering", "punchable", "removed",
                                "tell closed", "last call", "gone"}, late : BOOLEAN,
                        exchanged : SUBSET Addresses]
    /\ connectIdx \in Nat /\ connecting \in BOOLEAN
    /\ running \in BOOLEAN /\ transferring \in BOOLEAN
    /\ control \in {"idle", "listening", "running", "started", "stop finding", "stopping"}
                       \cup Clearing
    /\ listener \in BOOLEAN /\ heard \subseteq DOMAIN comms /\ due \in Nat
    /\ asking \in BOOLEAN /\ rendezvous \subseteq Addresses
    /\ dht.state \in {"Clear", "Connected", "Announcing"}

\* The indexes of activeConnections survive addresses inserted below them: an active
\* connection keeps the entry of its own address, and an entry is taken for
\* connecting or connected exactly when one active connection holds it (else the
\* peer is never tried again, or another one is given its state).
ActiveIndexes ==
    /\ TypeOK
    /\ \A a \in active : Peer(a.idx).address = comms[a.comm].address
    /\ \A i \in DOMAIN known :
          (known[i].state # "Disconnected")
              <=> Cardinality({a \in active : a.idx = i - 1}) = 1

\* While the torrent wants peers and has room, no peer it never tried is left aside:
\* whatever the order of start, startConnecting, new addresses and ends of
\* connections, some call of connectNext is still to come.
NoPeerForgotten ==
    (/\ CanConnect /\ control \in {"idle", "started"} /\ ~ asking /\ due = 0
     /\ \A c \in DOMAIN comms : comms[c].step \notin {"punchable", "removed"})
        => \A p \in ToSet(known) :
              ~ (p.state = "Disconnected" /\ ~ p.unwanted /\ p.tried = "never")

\* The transfer, which keeps pointers to its peers, keeps none whose last callback has
\* run, though stops and starts come between the steps of the callbacks: between the
\* loading of the listener and the call, or between the test of the timer and the
\* entry.  But for those a message enters when a stop has ended the listening since
\* it was tested: nobody takes them out.
HeardIsAlive ==
    control \notin Clearing =>
        \A c \in heard : comms[c].step = "gone" => comms[c].late

\* A DhtSource that waits for the end of a search has one, or is about to start one,
\* however stop() and start() fall between its steps: it never waits for nothing.
DhtSearches ==
    dht.state = "Announcing" /\ control # "stop finding"
        => dht.searching \/ dht.thread = "finding"

===============================================================================
