-------------------------------- MODULE PeerStream --------------------------------
(***************************************************************************)
(* One connection between two peers: PeerCommunication and PeerStream that  *)
(* open it, over TCP or uTP and with or without encryption, and the         *)
(* IncomingPeersListener that accepts it.  A stream that cannot connect     *)
(* tries the other transport; one that is closed without an answer is       *)
(* opened again the other way, encrypted or plain.                          *)
(*                                                                          *)
(* A message is a sequence of parts; reads end anywhere between them.  A    *)
(* part carries its place in the cipher's key stream, and is garbage to a   *)
(* reader whose own place is another one.  Padding, hashes and keys are     *)
(* right or not there.                                                      *)
(***************************************************************************)
EXTENDS Integers, Sequences, SequencesExt, FiniteSets

CONSTANTS
    Plans       \* the settings, the remote, and how much of what may happen

Sides == {"out", "in"}      \* the peer that opens the connection, and the other
Other(side) == IF side = "out" THEN "in" ELSE "out"
Types == {"Tcp", "Utp"}
Encryption == {"Refuse", "Allow", "Require"}

\* The remote is this program, with the torrent running, stopped or unknown, or
\* another that takes only plain or only encrypted connections.
Remotes == {"running", "stopped", "unknown", "plainOnly", "encryptedOnly"}

ASSUME PeerStreamAssumption ==
    Plans \subseteq [encryption : Encryption, types : SUBSET Types, preferUtp : BOOLEAN, holepunch : BOOLEAN,
                     remote : Remotes, enableTcpIn : BOOLEAN, padded : BOOLEAN, threads : 1 .. 2,
                     changes : 0 .. 1, closes : Nat, breaks : Nat, stops : Nat]

VARIABLES
    encryption, \* the setting, which the user may change
    stream,     \* PeerStream of the side that opens
    transport,  \* its TcpAsyncStream or utp::Stream
    incoming,   \* the transport of the other side, and its entry in pendingPeers
    handling,   \* what connectionClosed found to do and has not done yet
    end,        \* what both sides have: cipher, handshakes, and messages on their way
    told,       \* calls of onCloseCallback
    swapped,    \* a history: two messages were written out of order
    plan

vars == <<encryption, stream, transport, incoming, handling, end, told, swapped, plan>>

-------------------------------------------------------------------------------
(* Messages and the cipher *)

Plain == -1
Part(kind) == [kind |-> kind, n |-> Plain]

Handshake == <<Part("Handshake"), Part("HandshakeRest")>>
Extended == <<Part("Extended")>>
Padding == IF plan.padded THEN <<Part("Padding")>> ELSE <<>>
Key == <<Part("Key")>> \o Padding

\* The parts at and after place n of the key stream.
Encrypted(parts, n) == [i \in DOMAIN parts |-> [parts[i] EXCEPT !.n = n + i - 1]]
Decrypted(parts, n) ==
    [i \in DOMAIN parts |-> Part(IF parts[i].n = n + i - 1 THEN parts[i].kind ELSE "Garbage")]

\* createPe3Handshake: the hashes are plain, the message that opens comes encrypted.
Pe3 == <<[Part("Request") EXCEPT !.n = 0], [Part("InitialMessage") EXCEPT !.n = 1]>>

\* createPe4Handshake
Pe4 == Encrypted(<<Part("Verification")>> \o Padding, 0)

NewEnd == [posted |-> <<>>, wire |-> <<>>, buffer |-> <<>>, received |-> FALSE,
           pe |-> FALSE, handshake |-> "none", rcIn |-> 0, rcOut |-> 0,
           action |-> "Disconnected", ext |-> "Disabled"]

\* Every write is posted to the threads of the stream.
Post(e, parts) == [e EXCEPT !.posted = Append(@, parts)]

\* PeerStream::write, once the first message is gone
Write(e, parts) ==
    IF e.pe THEN [Post(e, Encrypted(parts, e.rcOut)) EXCEPT !.rcOut = @ + Len(parts)]
    ELSE Post(e, parts)

-------------------------------------------------------------------------------
(* PeerCommunication, on the end e of either side *)

SendHandshake(e) == Write([e EXCEPT !.action = "Handshake"], Handshake)
SendExtendedHandshake(e) == [Write(e, Extended) EXCEPT !.ext = "Handshake"]

Greeted(e) == IF e.action = "Connected" THEN SendHandshake(e) ELSE e

HandleHandshake(e) ==
    IF e.action \notin {"Connected", "Handshake"} THEN e
    ELSE LET established == [Greeted(e) EXCEPT !.action = "Established"]
         IN IF e.ext = "Disabled" THEN SendExtendedHandshake(established) ELSE established

HandleExtendedMessage(e) ==
    [IF e.ext = "Disabled" THEN SendExtendedHandshake(e) ELSE e EXCEPT !.ext = "Enabled"]

\* dataReceived: whole messages are handled, the rest stays in the buffer.
CommReceived(e) ==
    FoldLeft(LAMBDA acc, part :
                CASE acc.buffer = <<>> /\ part.kind = "Extended" -> HandleExtendedMessage(acc)
                  [] acc.buffer = <<Part("Handshake")>> /\ part.kind = "HandshakeRest" ->
                        HandleHandshake([acc EXCEPT !.buffer = <<>>])
                  [] OTHER -> [acc EXCEPT !.buffer = Append(@, part)],
             [e EXCEPT !.buffer = <<>>], e.buffer)

\* PeerStream::dataReceived of new parts after the key exchange, or without one
Received(e, parts) ==
    CommReceived([e EXCEPT
        !.buffer = @ \o (IF e.pe THEN Decrypted(parts, e.rcIn) ELSE parts),
        !.rcIn = IF e.pe THEN @ + Len(parts) ELSE @])

-------------------------------------------------------------------------------
(* ProtocolEncryptionHandshake of the side that opens *)

StartProtocolEncryption(e) == Post([e EXCEPT !.handshake = "Pe2"], Key)

\* What follows the key is taken for its padding.
ReadPe2(e) ==
    IF e.buffer = <<>> THEN e
    ELSE [Post([e EXCEPT !.buffer = <<>>, !.handshake = "Pe4"], Pe3) EXCEPT
            !.rcOut = Len(Pe3), !.rcIn = 0]

\* Mutated form of ReadPe4: what follows the handshake is dropped with it.
ReadPe4Drops(e) ==
    LET found == {i \in DOMAIN e.buffer : e.buffer[i] = [Part("Verification") EXCEPT !.n = e.rcIn]}
        i == CHOOSE i \in found : TRUE
    IN IF e.buffer = <<>> THEN e
       ELSE IF found = {} THEN [e EXCEPT !.rcIn = @ + 1]
       ELSE IF Len(e.buffer) < i + Len(Padding)
       THEN [e EXCEPT !.rcIn = @ + 1, !.buffer = SubSeq(@, i, Len(@))]
       ELSE [e EXCEPT !.handshake = "none", !.pe = TRUE, !.rcIn = Len(Pe4), !.buffer = <<>>]

\* The cipher has moved on even when the message is not all there.
ReadPe4(e) ==
    LET found == {i \in DOMAIN e.buffer : e.buffer[i] = [Part("Verification") EXCEPT !.n = e.rcIn]}
        i == CHOOSE i \in found : TRUE
        after == SubSeq(e.buffer, i + Len(Pe4), Len(e.buffer))
    IN IF e.buffer = <<>> THEN e
       ELSE IF found = {} THEN [e EXCEPT !.rcIn = @ + 1]
       ELSE IF Len(e.buffer) < i + Len(Padding)
       THEN [e EXCEPT !.rcIn = @ + 1, !.buffer = SubSeq(@, i, Len(@))]
       ELSE Received([e EXCEPT !.handshake = "none", !.pe = TRUE, !.rcIn = Len(Pe4), !.buffer = <<>>],
                     after)

\* dataReceivedPeHandshake
ReceivedPeHandshake(e, parts) ==
    LET all == [e EXCEPT !.buffer = @ \o parts]
    IN IF e.handshake = "Pe2" THEN ReadPe2(all) ELSE ReadPe4(all)

-------------------------------------------------------------------------------
(* PeerStream of the side that opens: st is [stream, transport, end].          *)

Clear == [type |-> "none", state |-> "Clear", opened |-> FALSE, closing |-> FALSE]

\* openTcpStream, openUtpStream: a new transport, with nothing on its way.
OpenStream(st, type) ==
    [st EXCEPT !.stream.tried = @ \cup {type},
               !.transport = [Clear EXCEPT !.type = type, !.state = "Connecting"],
               !.end = [@ EXCEPT !.posted = <<>>, !.wire = <<>>, !.buffer = <<>>, !.received = FALSE]]

\* The first message is kept for a second attempt; when encryption is required
\* it is sent inside the key exchange.
WriteFirst(st) ==
    LET handshake == [st.end EXCEPT !.action = "Handshake"]
    IN [st EXCEPT !.stream.initialMessage = TRUE,
                  !.end = IF encryption = "Require" THEN StartProtocolEncryption(handshake)
                          ELSE Post(handshake, Handshake)]

\* Mutated form of SendEncryptionMethodRetry: the message is kept for another retry.
SendEncryptionMethodRetryKeeps(st) ==
    [st EXCEPT !.end = IF @.handshake = "none" THEN StartProtocolEncryption(@)
                       ELSE Post([@ EXCEPT !.handshake = "none"], Handshake)]

SendEncryptionMethodRetry(st) ==
    [st EXCEPT !.stream.initialMessage = FALSE,
               !.end = IF @.handshake = "none" THEN StartProtocolEncryption(@)
                       ELSE Post([@ EXCEPT !.handshake = "none"], Handshake)]

\* PeerStream::connectionOpened and PeerCommunication::connectionOpened
ConnectionOpened(st) ==
    LET connected == [st EXCEPT !.stream.connected = TRUE]
    IN IF st.stream.reconnect THEN SendEncryptionMethodRetry(connected) ELSE WriteFirst(connected)

\* The transport to fall back to: enabled, and not tried yet.
OtherType(st) ==
    {type \in plan.types : type # st.transport.type /\ type \notin st.stream.tried}

\* Mutated form of Closed: nobody is told of what was closed from here.
ClosedQuietly(st) ==
    IF st.stream.manualClose THEN "none"
    ELSE IF ~ st.stream.connected
    THEN IF OtherType(st) # {} THEN "fallback" ELSE "tell"
    ELSE "retry"

\* The tests of connectionClosed
Closed(st) ==
    IF st.stream.manualClose THEN "tell"
    ELSE IF ~ st.stream.connected
    THEN IF OtherType(st) # {} THEN "fallback" ELSE "tell"
    ELSE "retry"

\* Mutated form of Retried: the setting is not looked at.
RetriedAnyway(st) ==
    st.stream.initialMessage /\ (st.end.handshake = "none" => ~ st.end.received)

\* retryEncryptionMethod: an unfinished key exchange is followed by a plain
\* handshake, a plain one without an answer by a key exchange.
Retried(st) ==
    /\ st.stream.initialMessage
    /\ IF st.end.handshake = "none" THEN ~ st.end.received /\ encryption # "Refuse"
       ELSE encryption # "Require"

Current == [stream |-> stream, transport |-> transport, end |-> end["out"]]

SetOut(st) ==
    /\ stream' = st.stream
    /\ transport' = st.transport
    /\ end' = [end EXCEPT !["out"] = st.end]

NewIncoming == [state |-> "none", closing |-> FALSE, pending |-> FALSE, dead |-> FALSE, started |-> FALSE]

\* A new connection: whatever the other side still had of the last one is its own affair.
SetOutAnew(st) ==
    /\ stream' = st.stream
    /\ transport' = st.transport
    /\ end' = [side \in Sides |-> IF side = "out" THEN st.end ELSE NewEnd]
    /\ incoming' = NewIncoming

\* PeerCommunication::connect and PeerStream::open
Connect ==
    /\ end["out"].action = "Disconnected" /\ transport = Clear /\ ~ stream.refused /\ told = 0
    /\ LET st == [Current EXCEPT !.end.action = "Connecting"]
       IN SetOutAnew(IF "Utp" \in plan.types /\ (plan.holepunch \/ plan.preferUtp \/ "Tcp" \notin plan.types)
                     THEN OpenStream(st, "Utp")
                     ELSE IF "Tcp" \in plan.types /\ ~ plan.holepunch THEN OpenStream(st, "Tcp")
                     ELSE [st EXCEPT !.stream.refused = TRUE])
    /\ UNCHANGED <<encryption, handling, told, swapped, plan>>

\* open() with nothing enabled posts the end of the connection.
TellRefused ==
    /\ stream.refused
    /\ stream' = [stream EXCEPT !.refused = FALSE]
    /\ told' = told + 1
    /\ UNCHANGED <<encryption, transport, incoming, handling, end, swapped, plan>>

\* handle_connect, setAsConnected; it and do_close take turns (README, section 4)
Connected ==
    /\ transport.state = "Connecting"
    /\ SetOut(ConnectionOpened([Current EXCEPT !.transport.state = "Connected", !.transport.opened = TRUE]))
    /\ UNCHANGED <<encryption, incoming, handling, told, swapped, plan>>

\* postFail: whoever comes first ends the transport, and calls connectionClosed.
PostFail ==
    /\ transport' = [transport EXCEPT !.state = "Disconnected", !.closing = FALSE]
    /\ handling' = Closed(Current)
    /\ UNCHANGED <<encryption, stream, incoming, end, told, swapped>>

ConnectFails ==
    /\ transport.state = "Connecting"
    /\ PostFail /\ UNCHANGED plan

ConnectionClosed ==
    /\ handling # "none"
    /\ handling' = "none"
    /\ \/ /\ handling = "fallback"
          /\ SetOutAnew(OpenStream(Current, CHOOSE type \in OtherType(Current) : TRUE))
          /\ UNCHANGED told
       \/ /\ handling = "retry" /\ Retried(Current)
          /\ SetOutAnew(OpenStream([Current EXCEPT !.stream.reconnect = TRUE], transport.type))
          /\ UNCHANGED told
       \/ /\ handling = "tell" \/ (handling = "retry" /\ ~ Retried(Current))
          /\ stream' = IF handling = "retry" THEN [stream EXCEPT !.initialMessage = FALSE] ELSE stream
          /\ told' = told + 1
          /\ UNCHANGED <<transport, incoming, end>>
    /\ UNCHANGED <<encryption, swapped, plan>>

\* Mutated form of CloseStream: a transport that connects is left alone.
CloseStreamConnected == [transport EXCEPT !.closing = @ \/ transport.state = "Connected"]

\* closeStream: the transport of the moment is closed by one of its threads.
CloseStream == [transport EXCEPT !.closing = @ \/ transport.state \in {"Connecting", "Connected"}]

\* PeerCommunication::close
Close ==
    /\ plan.closes > 0 /\ end["out"].action # "Disconnected"
    /\ plan' = [plan EXCEPT !.closes = @ - 1]
    /\ stream' = [stream EXCEPT !.manualClose = TRUE, !.late = handling \in {"fallback", "retry"}]
    /\ transport' = CloseStream
    /\ end' = [end EXCEPT !["out"].action = "Disconnected"]
    /\ UNCHANGED <<encryption, incoming, handling, told, swapped>>

DoClose ==
    /\ transport.closing
    /\ PostFail /\ UNCHANGED plan

-------------------------------------------------------------------------------
(* Transports of both sides *)

IsConnected(side) ==
    IF side = "out" THEN transport.state = "Connected" ELSE incoming.state = "Connected"

\* do_write: threads that run two posted writes at once may swap them.
DoWrite(side) ==
    /\ IsConnected(side)
    /\ \E i \in 1 .. plan.threads :
          /\ i <= Len(end[side].posted)
          /\ end' = [end EXCEPT ![side].posted = RemoveAt(@, i),
                                ![Other(side)].wire = @ \o end[side].posted[i]]
          /\ swapped' = (swapped \/ i > 1)
    /\ UNCHANGED <<encryption, stream, transport, incoming, handling, told, plan>>

\* handle_receive of the side that opened: some of the parts that arrived.
ReceiveOut ==
    /\ IsConnected("out") /\ handling = "none"
    /\ \E n \in DOMAIN end["out"].wire :
          LET parts == SubSeq(end["out"].wire, 1, n)
              e == [end["out"] EXCEPT !.wire = SubSeq(@, n + 1, Len(@)), !.received = TRUE]
          IN IF e.handshake # "none"
             THEN end' = [end EXCEPT !["out"] = ReceivedPeHandshake(e, parts)] /\ UNCHANGED stream
             ELSE /\ end' = [end EXCEPT !["out"] = Received(e, parts)]
                  /\ stream' = [stream EXCEPT !.initialMessage = FALSE]
    /\ UNCHANGED <<encryption, transport, incoming, handling, told, swapped, plan>>

\* Both sides are connected and nothing is on its way.
Idle ==
    /\ IsConnected("out") /\ IsConnected("in")
    /\ ~ transport.closing /\ ~ incoming.closing
    /\ \A side \in Sides : end[side].posted = <<>> /\ end[side].wire = <<>>

\* The other side closed, or nothing came for a minute.
ReceiveFails ==
    /\ IsConnected("out")
    /\ incoming.state = "Disconnected" \/ Idle
    /\ PostFail /\ UNCHANGED plan

Break(side) ==
    /\ plan.breaks > 0 /\ IsConnected(side)
    /\ plan' = [plan EXCEPT !.breaks = @ - 1]
    /\ IF side = "out" THEN PostFail
       ELSE /\ incoming' = [incoming EXCEPT !.state = "Disconnected", !.pending = FALSE]
            /\ UNCHANGED <<encryption, stream, transport, handling, end, told, swapped>>

-------------------------------------------------------------------------------
(* IncomingPeersListener *)

\* fromStream and the entry in pendingPeers
Accepted == [NewIncoming EXCEPT !.state = "Connected", !.pending = TRUE]

\* The acceptCallback of createTcpListener.
AcceptTcp ==
    IF plan.enableTcpIn THEN Accepted
    ELSE [NewIncoming EXCEPT !.state = "Connected", !.closing = TRUE]

\* The connectionCallback of createUtpListener.
AcceptUtp == Accepted

\* handle_accept.  A peer that is gone by then ends before it is told where.
Accept ==
    LET accepted == IF transport.type = "Tcp" THEN AcceptTcp ELSE AcceptUtp
        gone == [accepted EXCEPT !.state = "Disconnected", !.dead = TRUE]
    IN /\ incoming.state = "none" /\ transport.opened
       /\ \/ incoming' = accepted
          \/ /\ transport.type = "Tcp" /\ transport.state = "Disconnected" /\ ~ accepted.closing
             /\ incoming' = gone
       /\ UNCHANGED <<encryption, stream, transport, handling, end, told, swapped, plan>>

\* startPeer with the handshake the peer sent, in the clear or inside the key
\* exchange, and Core's search for the torrent: res is [incoming, end].
StartPeer(res) ==
    LET known == [res EXCEPT !.incoming.pending = FALSE]
    IN IF ~ res.incoming.pending THEN res
       ELSE IF plan.remote = "stopped" \/ plan.remote = "unknown" THEN known
       ELSE [incoming |-> [known.incoming EXCEPT !.started = TRUE],
             end |-> CommReceived([known.end EXCEPT !.action = "Connected", !.buffer = Handshake])]

\* The remote's own close()
ClosePeer(res) == [res EXCEPT !.incoming.closing = TRUE]

\* A handshake that is not all there has no known torrent.
ReadHandshake(res) ==
    LET whole == Len(res.end.buffer) >= 2
        taken == [res EXCEPT !.end.buffer = <<>>]
        started == StartPeer(taken)
    IN IF plan.remote = "encryptedOnly" THEN ClosePeer(taken)
       ELSE IF ~ whole THEN ClosePeer([taken EXCEPT !.incoming.pending = FALSE])
       ELSE IF started.incoming.started THEN started ELSE ClosePeer(started)

\* readPe3Handshake: every call sets the cipher up anew.
ReadPe3(res) ==
    LET found == {i \in DOMAIN res.end.buffer : res.end.buffer[i].kind = "Request"}
        i == CHOOSE i \in found : TRUE
        read == [res EXCEPT !.end = Post([@ EXCEPT !.buffer = <<>>, !.handshake = "none", !.pe = TRUE,
                                          !.rcIn = Len(Pe3), !.rcOut = Len(Pe4)], Pe4)]
    IN IF found = {} THEN res
       ELSE IF plan.remote = "unknown" THEN ClosePeer([res EXCEPT !.end.handshake = "Error"])
       ELSE IF Len(res.end.buffer) < i + 1 THEN [res EXCEPT !.end.buffer = SubSeq(@, i, Len(@))]
       ELSE StartPeer(read)

\* readRemoteDataAsListener
ReadAsListener(res) ==
    IF plan.remote = "plainOnly" \/ res.end.handshake = "Error" THEN ClosePeer(res)
    ELSE IF res.end.handshake = "none"
    THEN [res EXCEPT !.end = Post([@ EXCEPT !.buffer = <<>>, !.handshake = "Pe3"], Key)]
    ELSE ReadPe3(res)

\* readStreamData
ReadStreamData(res) ==
    IF Head(res.end.buffer).kind = "Handshake" THEN ReadHandshake(res)
    ELSE IF res.incoming.pending THEN ReadAsListener(res)
    ELSE res

SetIn(res) ==
    /\ incoming' = res.incoming
    /\ end' = [end EXCEPT !["in"] = res.end]

ReceiveIn ==
    /\ IsConnected("in")
    /\ \E n \in DOMAIN end["in"].wire :
          LET parts == SubSeq(end["in"].wire, 1, n)
              e == [end["in"] EXCEPT !.wire = SubSeq(@, n + 1, Len(@)), !.received = TRUE]
          IN SetIn(IF incoming.started THEN [incoming |-> incoming, end |-> Received(e, parts)]
                   ELSE ReadStreamData([incoming |-> incoming,
                                        end |-> [e EXCEPT !.buffer = @ \o parts]]))
    /\ UNCHANGED <<encryption, stream, transport, handling, told, swapped, plan>>

\* postFail and removePeer
Removed == [incoming EXCEPT !.state = "Disconnected", !.closing = FALSE, !.pending = FALSE]

EndIn ==
    /\ IsConnected("in")
    /\ incoming.closing \/ transport.state = "Disconnected" \/ Idle
    /\ incoming' = Removed
    /\ UNCHANGED <<encryption, stream, transport, handling, end, told, swapped, plan>>

\* stop: what is pending is closed and nobody is told.
StopListening ==
    /\ plan.stops > 0 /\ incoming.pending
    /\ plan' = [plan EXCEPT !.stops = @ - 1]
    /\ incoming' = [incoming EXCEPT !.pending = FALSE, !.closing = incoming.state = "Connected"]
    /\ UNCHANGED <<encryption, stream, transport, handling, end, told, swapped>>

SetEncryption ==
    /\ plan.changes > 0
    /\ plan' = [plan EXCEPT !.changes = @ - 1]
    /\ encryption' \in Encryption \ {encryption}
    /\ UNCHANGED <<stream, transport, incoming, handling, end, told, swapped>>

-------------------------------------------------------------------------------
Init ==
    /\ plan \in Plans
    /\ encryption = plan.encryption
    /\ stream = [tried |-> {}, connected |-> FALSE, reconnect |-> FALSE, initialMessage |-> FALSE,
                 manualClose |-> FALSE, late |-> FALSE, refused |-> FALSE]
    /\ transport = Clear
    /\ incoming = NewIncoming
    /\ handling = "none"
    /\ end = [side \in Sides |-> NewEnd]
    /\ told = 0
    /\ swapped = FALSE

Next ==
    \/ Connect \/ TellRefused \/ Connected \/ ConnectFails \/ ConnectionClosed \/ Close \/ DoClose
    \/ ReceiveOut \/ ReceiveFails \/ Accept \/ ReceiveIn \/ EndIn \/ StopListening \/ SetEncryption
    \/ \E side \in Sides : DoWrite(side) \/ Break(side)

Spec == Init /\ [][Next]_vars

\* Threads, timers and the network do their part: weak fairness, with what
\* enables each spelled out.
Fairness ==
    /\ []<>(transport.state # "Connecting") \/ []<><<Connected \/ ConnectFails>>_vars
    /\ []<>(handling = "none") \/ []<><<ConnectionClosed>>_vars
    /\ []<>(~ transport.closing) \/ []<><<DoClose>>_vars
    /\ []<>(~ stream.refused) \/ []<><<TellRefused>>_vars
    /\ []<>(~ (IsConnected("out") /\ (incoming.state = "Disconnected" \/ Idle))) \/ []<><<ReceiveFails>>_vars
    /\ []<>(~ IsConnected("out") \/ end["out"].wire = <<>>) \/ []<><<ReceiveOut>>_vars
    /\ []<>(incoming.state # "none" \/ ~ IsConnected("out")) \/ []<><<Accept>>_vars
    /\ []<>(~ IsConnected("in") \/ end["in"].wire = <<>>) \/ []<><<ReceiveIn>>_vars
    /\ []<>(~ IsConnected("in") \/ ~ (incoming.closing \/ transport.state = "Disconnected"))
          \/ []<><<EndIn>>_vars
    /\ \A side \in Sides :
          []<>(~ IsConnected(side) \/ end[side].posted = <<>>) \/ []<><<DoWrite(side)>>_vars

FairSpec == Spec /\ Fairness

-------------------------------------------------------------------------------
(* Properties. *)

\* Every variable has its type; the key streams never run past what was written.
TypeOK ==
    /\ encryption \in Encryption
    /\ stream \in [tried : SUBSET plan.types, connected : BOOLEAN, reconnect : BOOLEAN,
                   initialMessage : BOOLEAN, manualClose : BOOLEAN, late : BOOLEAN, refused : BOOLEAN]
    /\ transport.type \in Types \cup {"none"} /\ transport.closing \in BOOLEAN
    /\ transport.state \in {"Clear", "Connecting", "Connected", "Disconnected"}
    /\ incoming.state \in {"none", "Connected", "Disconnected"}
    /\ handling \in {"none", "tell", "fallback", "retry"}
    /\ \A side \in Sides :
          /\ end[side].action \in {"Disconnected", "Connecting", "Connected", "Handshake", "Established"}
          /\ end[side].ext \in {"Disabled", "Handshake", "Enabled"}
          /\ end[side].handshake \in {"none", "Pe2", "Pe3", "Pe4", "Error"}
          /\ end[side].rcIn \in Nat /\ end[side].rcOut \in Nat
    /\ told \in Nat

InStep(side) ==
    /\ end[side].action = "Established" /\ end[side].ext = "Enabled" /\ end[side].buffer = <<>>
    /\ end[side].pe = end[Other(side)].pe
    /\ end[side].pe => end[side].rcIn = end[Other(side)].rcOut

\* When nothing is on its way both peers are through the handshakes, and read
\* with the cipher the other writes with (PeerStream.cpp:314-364,
\* ProtocolEncryption.cpp:81-130): nobody waits for somebody who waits.  Left
\* out: writes that two threads swapped, an answer of the key exchange that came
\* in pieces (readPe4Handshake), a stopped torrent that was asked for inside a
\* key exchange, and a connection that was closed while it was being reopened.
HandshakeEnds ==
    /\ TypeOK
    /\ Idle => \/ \A side \in Sides : InStep(side)
               \/ swapped
               \/ end["out"].handshake = "Pe4" /\ end["out"].rcIn > 0
               \/ plan.remote = "stopped" /\ end["in"].pe
               \/ stream.late

\* The listener of the peer is told of the end once, exactly when no transport is left
\* and none will be opened: neither while one still runs, nor never
\* (PeerStream.cpp:273-312, Peers::connectionClosed takes the peer away).  A peer
\* of the listener that is gone is not kept either, unless it was gone when it
\* was accepted (TcpAsyncServer.cpp:28-45, IncomingPeersListener.cpp:119-143).
GoneIsTold ==
    /\ told \in {0, 1}
    /\ told > 0 => transport.state \in {"Clear", "Disconnected"} /\ handling = "none"
    /\ transport.state = "Disconnected" /\ handling = "none" => told = 1
    /\ incoming.pending /\ ~ incoming.dead => incoming.state = "Connected"

\* After close() no transport lives on, unless close() came between the tests of
\* connectionClosed and what it does (PeerStream.cpp:91-98, 277-296).
CloseHonoured ==
    stream.manualClose /\ ~ stream.late =>
        \/ transport.state \in {"Clear", "Disconnected"} /\ handling \in {"none", "tell"}
        \/ transport.closing

Posts(message) == end["out"].posted # end'["out"].posted /\ message \in ToSet(end'["out"].posted)

\* With Require no handshake leaves unencrypted, with Refuse no key exchange is
\* begun, whatever was tried before, as long as the setting is not changed: by the
\* end that connects (PeerStream.cpp:60-89, 375-415).  The end that accepts never
\* looks at the setting (IncomingPeersListener).
EncryptionHonoured ==
    [][encryption = plan.encryption =>
        /\ encryption = "Require" => ~ Posts(Handshake)
        /\ encryption = "Refuse" => ~ Posts(Key)]_vars

\* An attempt to connect ends, established or told, unless its second connection
\* is refused again and again: that one is opened anew every time
\* (PeerStream.cpp:296, 387-391).
AttemptEnds ==
    \/ []<><<ConnectFails /\ stream.reconnect>>_vars
    \/ end["out"].action = "Connecting" ~> (end["out"].action = "Established" \/ told > 0)
===============================================================================
