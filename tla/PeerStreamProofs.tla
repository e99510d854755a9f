--------------------------- MODULE PeerStreamProofs ---------------------------
(***************************************************************************)
(* For any settings, any remote and any number of closes and breaks: the    *)
(* owner of a connection is told of its end exactly once, when no transport *)
(* is left and none will be opened, and a connection that was closed keeps  *)
(* none; and what leaves is encrypted or plain as the settings say.         *)
(***************************************************************************)
EXTENDS PeerStream, ListTheorems, SequenceTheorems, TLAPS

States == {"Clear", "Connecting", "Connected", "Disconnected"}
Live == {"Connecting", "Connected"}

\* Types of what decides about the end of a connection.
StreamType ==
    [tried : SUBSET (Types \cup {"none"}), connected : BOOLEAN, reconnect : BOOLEAN,
     initialMessage : BOOLEAN, manualClose : BOOLEAN, late : BOOLEAN, refused : BOOLEAN]
TransportType ==
    [type : Types \cup {"none"}, state : States, opened : BOOLEAN, closing : BOOLEAN]
IncomingType ==
    [state : {"none", "Connected", "Disconnected"}, closing : BOOLEAN, pending : BOOLEAN,
     dead : BOOLEAN, started : BOOLEAN]

PlanType ==
    [encryption : Encryption, types : SUBSET Types, preferUtp : BOOLEAN, holepunch : BOOLEAN,
     remote : Remotes, enableTcpIn : BOOLEAN, padded : BOOLEAN, threads : 1 .. 2,
     changes : Int, closes : Int, breaks : Int, stops : Int]

ControlTypes ==
    /\ plan \in PlanType
    /\ stream \in StreamType /\ transport \in TransportType /\ incoming \in IncomingType
    /\ handling \in {"none", "tell", "fallback", "retry"}
    /\ told \in Nat

\* A transport that lives has nobody told, one that has ended has somebody about
\* to be told or told once.
ToldOnce ==
    /\ transport.state \in Live => handling = "none" /\ told = 0 /\ ~ stream.refused
    /\ transport.state = "Disconnected" =>
          /\ handling # "none" <=> told = 0
          /\ told \in {0, 1} /\ ~ stream.refused
    /\ transport.state = "Clear" =>
          /\ handling = "none"
          /\ told \in {0, 1} /\ (stream.refused => told = 0)
    /\ transport.closing => transport.state \in Live

\* What connectionClosed found to fall back to is still there when it does.
FallbackLeft == handling = "fallback" => OtherType(Current) # {}

\* What pendingPeers keeps is connected, or was gone from the start.
PendingLives == incoming.pending /\ ~ incoming.dead => incoming.state = "Connected"

ToldInv == ControlTypes /\ ToldOnce /\ FallbackLeft /\ PendingLives

\* Before the first transport a connection that was asked for, or closed, is one
\* that open() refused: connect() will not open a transport for it any more.
BeforeOpen ==
    transport.state = "Clear" =>
        /\ DOMAIN end["out"] = DOMAIN NewEnd
        /\ end["out"].action # "Disconnected" \/ stream.manualClose => stream.refused \/ told = 1

CloseInv == ToldInv /\ DOMAIN end = Sides /\ BeforeOpen /\ CloseHonoured

-------------------------------------------------------------------------------
LEMMA ToldInvInit == Init => ToldInv
<1>1. Init => plan \in PlanType
  BY PeerStreamAssumption DEF Init, PlanType
<1> QED  BY <1>1
     DEF Init, FallbackLeft, ToldInv, ControlTypes, StreamType, TransportType,
         IncomingType, ToldOnce,
       PendingLives, States, Live, Clear, NewIncoming, Types

\* What the steps of the stream do to it and to its transport.
Fields == {"stream", "transport", "end"}

LEMMA OpenStreamIs ==
    ASSUME NEW st, DOMAIN st = Fields, st.stream \in StreamType, NEW type \in Types \cup {"none"}
    PROVE  LET opened == OpenStream(st, type)
           IN /\ opened.stream \in StreamType
              /\ opened.stream.refused = st.stream.refused
              /\ opened.stream.manualClose = st.stream.manualClose
              /\ opened.stream.late = st.stream.late
              /\ opened.transport \in TransportType
              /\ opened.transport.state = "Connecting" /\ ~ opened.transport.closing
<1>1. OpenStream(st, type).stream = [st.stream EXCEPT !.tried = @ \cup {type}]
  BY DEF OpenStream, Fields
<1>2. [st.stream EXCEPT !.tried = @ \cup {type}] \in StreamType
  BY DEF StreamType, Types
<1>3. OpenStream(st, type).transport = [Clear EXCEPT !.type = type, !.state = "Connecting"]
  BY DEF OpenStream, Fields
<1>4. [Clear EXCEPT !.type = type, !.state = "Connecting"] \in TransportType
  BY DEF Clear, TransportType, States, Types
<1> QED  BY <1>1, <1>2, <1>3, <1>4 DEF StreamType, Clear

LEMMA ConnectionOpenedIs ==
    ASSUME NEW st, DOMAIN st = Fields, st.stream \in StreamType
    PROVE  LET opened == ConnectionOpened(st)
           IN /\ opened.stream \in StreamType
              /\ opened.stream.refused = st.stream.refused
              /\ opened.stream.manualClose = st.stream.manualClose
              /\ opened.stream.late = st.stream.late
              /\ opened.transport = st.transport
<1> DEFINE c == [st EXCEPT !.stream.connected = TRUE]
<1>1. /\ DOMAIN c = Fields /\ c.transport = st.transport
      /\ c.stream = [st.stream EXCEPT !.connected = TRUE]
  BY DEF Fields
<1> HIDE DEF c
<1>2. /\ SendEncryptionMethodRetry(c).stream = [c.stream EXCEPT !.initialMessage = FALSE]
      /\ SendEncryptionMethodRetry(c).transport = c.transport
  BY <1>1 DEF SendEncryptionMethodRetry, Fields
<1>3. /\ WriteFirst(c).stream = [c.stream EXCEPT !.initialMessage = TRUE]
      /\ WriteFirst(c).transport = c.transport
  BY <1>1 DEF WriteFirst, Fields
<1>4. ASSUME NEW b \in BOOLEAN
      PROVE  LET s == [c.stream EXCEPT !.initialMessage = b]
             IN /\ s \in StreamType /\ s.refused = st.stream.refused
                /\ s.manualClose = st.stream.manualClose /\ s.late = st.stream.late
  BY <1>1 DEF StreamType
<1> QED  BY <1>1, <1>2, <1>3, <1>4 DEF ConnectionOpened, c

LEMMA PlanKept ==
    ASSUME plan \in PlanType, [Next]_vars
    PROVE  plan' \in PlanType /\ plan'.types = plan.types
<1>1. ASSUME NEW n \in Int
      PROVE  \A p \in {[plan EXCEPT !.changes = n], [plan EXCEPT !.closes = n],
                       [plan EXCEPT !.breaks = n], [plan EXCEPT !.stops = n]} :
                p \in PlanType /\ p.types = plan.types
  BY DEF PlanType
<1>2. /\ plan.changes - 1 \in Int /\ plan.closes - 1 \in Int
      /\ plan.breaks - 1 \in Int /\ plan.stops - 1 \in Int
  BY DEF PlanType
<1>3. CASE Close
  BY <1>1, <1>2, <1>3 DEF Close
<1>4. CASE \E side \in Sides : Break(side)
  <2>1. plan' = [plan EXCEPT !.breaks = plan.breaks - 1]
    BY <1>4 DEF Break
  <2> QED  BY <1>1, <1>2, <2>1
<1>5. CASE StopListening
  BY <1>1, <1>2, <1>5 DEF StopListening
<1>6. CASE SetEncryption
  BY <1>1, <1>2, <1>6 DEF SetEncryption
<1>7. CASE UNCHANGED plan
  BY <1>7
<1>8. CASE Connect \/ TellRefused \/ Connected \/ ConnectFails \/ ConnectionClosed \/ DoClose
  BY <1>7, <1>8
     DEF Connect, TellRefused, Connected, ConnectFails, ConnectionClosed,
         DoClose
<1>9. CASE \/ ReceiveOut \/ ReceiveFails \/ Accept \/ ReceiveIn \/ EndIn
           \/ \E side \in Sides : DoWrite(side)
  BY <1>7, <1>9 DEF ReceiveOut, ReceiveFails, Accept, ReceiveIn, EndIn, DoWrite
<1> QED  BY <1>3, <1>4, <1>5, <1>6, <1>7, <1>8, <1>9 DEF Next, vars

\* What the other side reads changes what it has started, and takes it out of
\* pendingPeers or not: it neither ends the connection there nor adds an entry.
Kept(incomingNow) ==
    /\ incomingNow \in IncomingType
    /\ incomingNow.state = incoming.state /\ incomingNow.dead = incoming.dead
    /\ incomingNow.pending => incoming.pending

Results == {"incoming", "end"}

LEMMA ClosePeerKeeps ==
    ASSUME NEW res, DOMAIN res = Results, Kept(res.incoming)
    PROVE  Kept(ClosePeer(res).incoming) /\ DOMAIN ClosePeer(res) = Results
<1>1. /\ ClosePeer(res).incoming = [res.incoming EXCEPT !.closing = TRUE]
      /\ DOMAIN ClosePeer(res) = Results
  BY DEF ClosePeer, Results
<1> QED  BY <1>1 DEF Kept, IncomingType

LEMMA UnlistedKeeps ==
    ASSUME NEW res, DOMAIN res = Results, Kept(res.incoming)
    PROVE  LET known == [res EXCEPT !.incoming.pending = FALSE]
           IN Kept(known.incoming) /\ DOMAIN known = Results
<1> DEFINE known == [res EXCEPT !.incoming.pending = FALSE]
<1>1. known.incoming = [res.incoming EXCEPT !.pending = FALSE] /\ DOMAIN known = Results
  BY DEF Results
<1>2. Kept([res.incoming EXCEPT !.pending = FALSE])
  BY DEF Kept, IncomingType
<1> QED  BY <1>1, <1>2

LEMMA StartPeerKeeps ==
    ASSUME NEW res, DOMAIN res = Results, Kept(res.incoming)
    PROVE  Kept(StartPeer(res).incoming) /\ DOMAIN StartPeer(res) = Results
<1> DEFINE known == [res EXCEPT !.incoming.pending = FALSE]
           new == CommReceived([known.end EXCEPT !.action = "Connected", !.buffer = Handshake])
           started == [incoming |-> [known.incoming EXCEPT !.started = TRUE], end |-> new]
<1>1. Kept(known.incoming) /\ DOMAIN known = Results
  BY UnlistedKeeps
<1>2. StartPeer(res) \in {res, known, started}
  BY DEF StartPeer
<1> HIDE DEF known, new
<1>3. Kept(started.incoming)
  BY <1>1 DEF Kept, IncomingType
<1>4. DOMAIN started = Results
  BY DEF Results
<1> QED  BY <1>1, <1>2, <1>3, <1>4

LEMMA ReadKeeps ==
    ASSUME NEW res, DOMAIN res = Results, Kept(res.incoming)
    PROVE  Kept(ReadStreamData(res).incoming)
<1>1. ASSUME NEW e
      PROVE  LET new == [res EXCEPT !.end = e] IN DOMAIN new = Results /\ Kept(new.incoming)
  BY DEF Results
<1>2. Kept(ReadHandshake(res).incoming)
  <2> DEFINE taken == [res EXCEPT !.end.buffer = <<>>]
             gone == [taken EXCEPT !.incoming.pending = FALSE]
  <2>1. DOMAIN taken = Results /\ Kept(taken.incoming)
    BY DEF Results
  <2> HIDE DEF taken
  <2>2. DOMAIN gone = Results /\ Kept(gone.incoming)
    BY <2>1, UnlistedKeeps
  <2>3. DOMAIN StartPeer(taken) = Results /\ Kept(StartPeer(taken).incoming)
    BY <2>1, StartPeerKeeps
  <2>4. ReadHandshake(res) \in {ClosePeer(taken), ClosePeer(gone), StartPeer(taken),
                                ClosePeer(StartPeer(taken))}
    BY DEF ReadHandshake, taken
  <2> HIDE DEF gone
  <2> QED  BY <2>1, <2>2, <2>3, <2>4, ClosePeerKeeps
<1>3. Kept(ReadPe3(res).incoming)
  <2> DEFINE new == Post([res.end EXCEPT !.buffer = <<>>, !.handshake = "none", !.pe = TRUE,
                                         !.rcIn = Len(Pe3), !.rcOut = Len(Pe4)], Pe4)
             found == {i \in DOMAIN res.end.buffer : res.end.buffer[i].kind = "Request"}
             i == CHOOSE i \in found : TRUE
             kept == [res.end EXCEPT !.buffer = SubSeq(@, i, Len(@))]
             failed == [res.end EXCEPT !.handshake = "Error"]
  <2>1. ReadPe3(res) \in {res, ClosePeer([res EXCEPT !.end = failed]), [res EXCEPT !.end = kept],
                          StartPeer([res EXCEPT !.end = new])}
    BY DEF ReadPe3
  <2> HIDE DEF new, kept, failed, found, i
  <2> QED  BY <1>1, <2>1, ClosePeerKeeps, StartPeerKeeps
<1>4. Kept(ReadAsListener(res).incoming)
  <2> DEFINE new == Post([res.end EXCEPT !.buffer = <<>>, !.handshake = "Pe3"], Key)
  <2>1. ReadAsListener(res) \in {ClosePeer(res), [res EXCEPT !.end = new], ReadPe3(res)}
    BY DEF ReadAsListener
  <2> HIDE DEF new
  <2> QED  BY <1>1, <1>3, <2>1, ClosePeerKeeps
<1> QED  BY <1>2, <1>4 DEF ReadStreamData

LEMMA ToldInvNext == ToldInv /\ [Next]_vars => ToldInv'
<1> SUFFICES ASSUME ToldInv, [Next]_vars PROVE ToldInv'
  OBVIOUS
<1> USE DEF ToldInv, ControlTypes
<1>0. /\ transport.state \in States /\ transport.closing \in BOOLEAN /\ stream.refused \in BOOLEAN
      /\ DOMAIN Current = Fields /\ Current.stream = stream
  BY DEF TransportType, StreamType, Current, Fields
<1>16. plan' \in PlanType /\ plan'.types = plan.types
  BY PlanKept
<1>17. OtherType(Current) = {type \in plan.types : type # transport.type /\ type \notin stream.tried}
  BY DEF OtherType, Current
<1>18. OtherType(Current)' = {type \in plan.types : type # transport'.type /\ type \notin stream'.tried}
  BY <1>16 DEF OtherType, Current
<1>19. ASSUME handling' = handling, stream'.tried = stream.tried, transport'.type = transport.type
      PROVE  FallbackLeft'
  BY <1>17, <1>18, <1>19 DEF FallbackLeft
<1>20. FallbackLeft'
  <2>1. CASE Close
    <3>1. stream' = [stream EXCEPT !.manualClose = TRUE, !.late = handling \in {"fallback", "retry"}]
      BY <2>1 DEF Close
    <3>2. stream'.tried = stream.tried
      BY <3>1 DEF StreamType
    <3>3. handling' = handling /\ transport'.type = transport.type
      BY <2>1 DEF Close, CloseStream, TransportType
    <3> QED  BY <1>19, <3>2, <3>3
  <2>2. CASE TellRefused \/ ReceiveOut
    <3>1. stream'.tried = stream.tried
      BY <2>2 DEF TellRefused, ReceiveOut, StreamType
    <3> QED  BY <1>19, <2>2, <3>1 DEF TellRefused, ReceiveOut
  <2>3. CASE Connect \/ Connected
    <3>1. handling' = handling /\ (transport = Clear \/ transport.state = "Connecting")
      BY <2>3 DEF Connect, Connected
    <3> QED  BY <3>1 DEF ToldOnce, FallbackLeft, Live, Clear
  <2>4. CASE PostFail
    <3>1. transport'.type = transport.type /\ stream' = stream
      BY <2>4 DEF PostFail, TransportType
    <3>2. handling' = "fallback" => OtherType(Current) # {}
      BY <2>4 DEF PostFail, Closed
    <3> QED  BY <1>17, <1>18, <3>1, <3>2 DEF FallbackLeft
  <2>5. CASE ConnectionClosed
    BY <2>5 DEF ConnectionClosed, FallbackLeft
  <2>6. CASE UNCHANGED <<handling, stream, transport>>
    BY <1>19, <2>6
  <2>7. CASE Accept \/ ReceiveIn \/ EndIn \/ StopListening \/ SetEncryption
    BY <2>6, <2>7 DEF Accept, ReceiveIn, EndIn, StopListening, SetEncryption
  <2>8. CASE \E side \in Sides : DoWrite(side) \/ Break(side)
    BY <2>4, <2>6, <2>8 DEF DoWrite, Break
  <2>9. CASE ConnectFails \/ DoClose \/ ReceiveFails
    BY <2>4, <2>9 DEF ConnectFails, DoClose, ReceiveFails
  <2> QED  BY <2>1, <2>2, <2>3, <2>5, <2>6, <2>7, <2>8, <2>9 DEF Next, vars
<1>1. CASE Connect
  <2>1. /\ Clear.state = "Clear"
        /\ NewIncoming.pending = FALSE
        /\ NewIncoming \in IncomingType
        /\ incoming' = NewIncoming
    BY <1>1 DEF Connect, SetOutAnew, Clear, NewIncoming, IncomingType
  <2>2. /\ handling = "none" /\ handling' = handling /\ told = 0 /\ told' = told
    BY <1>1, <2>1 DEF Connect, ToldOnce
  <2>3. CASE \E type \in Types :
           LET opened == OpenStream([Current EXCEPT !.end.action = "Connecting"], type)
           IN stream' = opened.stream /\ transport' = opened.transport
    <3> DEFINE st == [Current EXCEPT !.end.action = "Connecting"]
    <3>1. DOMAIN st = Fields /\ st.stream = stream
      BY <1>0 DEF Fields
    <3>2. /\ stream' \in StreamType
          /\ stream'.refused = stream.refused
          /\ transport' \in TransportType
          /\ transport'.state = "Connecting"
          /\ ~ transport'.closing
      <4>1. PICK type \in Types : /\ stream' = OpenStream(st, type).stream
                                    /\ transport' = OpenStream(st, type).transport
        BY <2>3
      <4> HIDE DEF st
      <4> QED  BY <3>1, <4>1, OpenStreamIs
    <3> QED  BY <1>16, <1>20, <1>1, <2>1, <2>2, <3>2
         DEF Connect, ToldOnce, PendingLives, Live
  <2>4. CASE stream' = [stream EXCEPT !.refused = TRUE] /\ transport' = Clear
    <3>1. stream' \in StreamType /\ Clear \in TransportType /\ ~ Clear.closing
      BY <2>4 DEF StreamType, TransportType, Clear, States
    <3> QED  BY <1>16, <1>20, <2>1, <2>2, <2>4, <3>1
         DEF ToldOnce, PendingLives, Live
  <2> QED  BY <1>1, <2>3, <2>4 DEF Connect, SetOutAnew, Types, Current
<1>2. CASE TellRefused
  <2>1. stream' \in StreamType /\ ~ stream'.refused
    BY <1>2 DEF TellRefused, StreamType
  <2>2. transport.state = "Clear" /\ told = 0
    BY <1>0, <1>2 DEF TellRefused, ToldOnce, States, Live
  <2> QED  BY <1>16, <1>20, <1>2, <2>1, <2>2
       DEF TellRefused, ToldOnce, PendingLives, Live
<1>3. CASE Connected
  <2> DEFINE t == [transport EXCEPT !.state = "Connected", !.opened = TRUE]
  <2>1. t \in TransportType /\ t.state = "Connected"
    BY DEF TransportType, States
  <2> DEFINE st == [Current EXCEPT !.transport.state = "Connected", !.transport.opened = TRUE]
  <2>2. DOMAIN st = Fields /\ st.stream = stream /\ st.transport = t
    BY DEF Fields, Current
  <2>3. stream' \in StreamType /\ stream'.refused = stream.refused /\ transport' = t
    BY <1>3, <2>1, <2>2, ConnectionOpenedIs DEF Connected, SetOut
  <2>4. transport.state = "Connecting" /\ UNCHANGED <<incoming, handling, told>>
    BY <1>3 DEF Connected
  <2> QED  BY <1>16, <1>20, <2>1, <2>3, <2>4 DEF ToldOnce, PendingLives, Live
<1>4. ASSUME PostFail, transport.state \in Live \/ transport.closing PROVE ToldInv'
  <2>1. /\ transport' \in TransportType
        /\ transport'.state = "Disconnected"
        /\ ~ transport'.closing
    BY <1>4 DEF PostFail, TransportType, States
  <2>2. handling' \in {"tell", "fallback", "retry"}
    BY <1>4 DEF PostFail, Closed
  <2>3. UNCHANGED <<stream, incoming, told>>
    BY <1>4 DEF PostFail
  <2> QED  BY <1>16, <1>20, <1>4, <2>1, <2>2, <2>3
       DEF ToldOnce, PendingLives, Live
<1>5. CASE ConnectionClosed
  <2>0. /\ transport.state = "Disconnected"
        /\ told = 0
        /\ ~ stream.refused
        /\ handling' = "none"
    BY <1>0, <1>5 DEF ConnectionClosed, ToldOnce, Live, States
  <2>1. ASSUME NEW st, NEW type \in Types \cup {"none"}, DOMAIN st = Fields, st.stream \in StreamType,
               ~ st.stream.refused, SetOutAnew(OpenStream(st, type)), told' = told
        PROVE  ToldInv'
    <3>1. /\ stream' \in StreamType /\ ~ stream'.refused /\ transport' \in TransportType
          /\ transport'.state = "Connecting" /\ ~ transport'.closing
      BY <2>1, OpenStreamIs DEF SetOutAnew
    <3>2. incoming' \in IncomingType /\ ~ incoming'.pending
      BY <2>1 DEF SetOutAnew, NewIncoming, IncomingType
    <3> QED  BY <1>16, <1>20, <2>0, <2>1, <3>1, <3>2
         DEF ToldOnce, PendingLives, Live
  <2>2. CASE /\ handling = "fallback"
             /\ SetOutAnew(OpenStream(Current, CHOOSE type \in OtherType(Current) : TRUE))
             /\ told' = told
    <3>1. OtherType(Current) \subseteq Types
      BY <1>17 DEF PlanType
    <3>2. (CHOOSE type \in OtherType(Current) : TRUE) \in Types
      BY <2>2, <3>1 DEF FallbackLeft
    <3> QED  BY <1>0, <2>0, <2>1, <2>2, <3>2
  <2>3. CASE /\ handling = "retry"
             /\ SetOutAnew(OpenStream([Current EXCEPT !.stream.reconnect = TRUE], transport.type))
             /\ told' = told
    <3>1. [Current EXCEPT !.stream.reconnect = TRUE].stream = [stream EXCEPT !.reconnect = TRUE]
      BY <1>0 DEF Fields
    <3>2. /\ [stream EXCEPT !.reconnect = TRUE] \in StreamType
          /\ ~ [stream EXCEPT !.reconnect = TRUE].refused
      BY <2>0 DEF StreamType
    <3>3. DOMAIN [Current EXCEPT !.stream.reconnect = TRUE] = Fields
      BY <1>0
    <3>4. transport.type \in Types \cup {"none"}
      BY DEF TransportType
    <3> QED  BY <2>0, <2>1, <2>3, <3>1, <3>2, <3>3, <3>4
  <2>4. CASE /\ stream' \in {stream, [stream EXCEPT !.initialMessage = FALSE]}
             /\ told' = told + 1 /\ UNCHANGED <<transport, incoming>>
    <3>1. stream' \in StreamType /\ ~ stream'.refused
      BY <2>0, <2>4 DEF StreamType
    <3> QED  BY <1>16, <1>20, <2>0, <2>4, <3>1 DEF ToldOnce, PendingLives, Live
  <2> QED  BY <1>5, <2>2, <2>3, <2>4 DEF ConnectionClosed
<1>6. CASE Close
  <2>1. stream' \in StreamType /\ stream'.refused = stream.refused
    <3> DEFINE late == handling \in {"fallback", "retry"}
    <3>1. stream' = [stream EXCEPT !.manualClose = TRUE, !.late = late]
      BY <1>6 DEF Close
    <3>2. late \in BOOLEAN
      OBVIOUS
    <3> HIDE DEF late
    <3> QED  BY <3>1, <3>2 DEF StreamType
  <2>2. transport' = [transport EXCEPT !.closing = transport.closing \/ transport.state \in Live]
    BY <1>6 DEF Close, CloseStream, Live
  <2>3. /\ transport' \in TransportType
        /\ transport'.state = transport.state
        /\ (transport'.closing => transport.closing \/ transport.state \in Live)
    BY <2>2 DEF TransportType
  <2>4. UNCHANGED <<incoming, handling, told>>
    BY <1>6 DEF Close
  <2> QED  BY <1>16, <1>20, <2>1, <2>3, <2>4 DEF ToldOnce, PendingLives
<1>7. CASE ReceiveOut
  <2>1. stream' \in StreamType /\ stream'.refused = stream.refused
    BY <1>7 DEF ReceiveOut, StreamType
  <2> QED  BY <1>16, <1>20, <1>7, <2>1 DEF ReceiveOut, ToldOnce, PendingLives
<1>8. CASE Accept
  <2>1. /\ incoming' \in IncomingType
        /\ (incoming'.pending /\ ~ incoming'.dead => incoming'.state = "Connected")
    BY <1>8
       DEF Accept, AcceptTcp, AcceptUtp, Accepted, NewIncoming, IncomingType
  <2> QED  BY <1>16, <1>20, <1>8, <2>1 DEF Accept, ToldOnce, PendingLives
<1>9. CASE ReceiveIn
  <2>1. \E e : \/ incoming' = incoming
               \/ incoming' = ReadStreamData([incoming |-> incoming, end |-> e]).incoming
    BY <1>9 DEF ReceiveIn, SetIn
  <2>2. ASSUME NEW e PROVE Kept(ReadStreamData([incoming |-> incoming, end |-> e]).incoming)
    <3> DEFINE res == [incoming |-> incoming, end |-> e]
    <3>1. DOMAIN res = Results /\ Kept(res.incoming)
      BY DEF Results, Kept
    <3> QED  BY <3>1, ReadKeeps
  <2>3. Kept(incoming')
    BY <2>1, <2>2 DEF Kept
  <2> QED  BY <1>16, <1>20, <1>9, <2>3
       DEF ReceiveIn, ToldOnce, Kept, PendingLives
<1>10. CASE EndIn
  <2>1. incoming' \in IncomingType /\ ~ incoming'.pending
    BY <1>10 DEF EndIn, Removed, IncomingType
  <2> QED  BY <1>16, <1>20, <1>10, <2>1 DEF EndIn, ToldOnce, PendingLives
<1>11. CASE StopListening
  <2>1. incoming' \in IncomingType /\ ~ incoming'.pending
    BY <1>11 DEF StopListening, IncomingType
  <2> QED  BY <1>16, <1>20, <1>11, <2>1
       DEF StopListening, ToldOnce, PendingLives
<1>12. CASE SetEncryption \/ \E side \in Sides : DoWrite(side)
  BY <1>16, <1>20, <1>12 DEF SetEncryption, DoWrite, ToldOnce, PendingLives
<1>13. ASSUME NEW side \in Sides, Break(side) PROVE ToldInv'
  <2>1. CASE side = "out"
    BY <1>4, <1>13, <2>1 DEF Break, IsConnected, Live
  <2>2. CASE side # "out"
    <3>1. incoming' \in IncomingType /\ ~ incoming'.pending
      BY <1>13, <2>2 DEF Break, IncomingType
    <3> QED  BY <1>16, <1>20, <1>13, <2>2, <3>1
         DEF Break, ToldOnce, PendingLives
  <2> QED  BY <2>1, <2>2
<1>14. CASE ConnectFails \/ DoClose \/ ReceiveFails
  BY <1>14, <1>4 DEF ConnectFails, DoClose, ReceiveFails, IsConnected, Live
<1>15. CASE UNCHANGED vars
  BY <1>16, <1>20, <1>15 DEF vars, ToldOnce, PendingLives
<1> QED  BY <1>1, <1>2, <1>3, <1>5, <1>6, <1>7, <1>8, <1>9, <1>10, <1>11,
     <1>12, <1>13, <1>14, <1>15 DEF Next

\* The listener of a peer is told of its end once, exactly when no transport is
\* left and none will be opened (PeerStream.cpp:273-312), for every setting,
\* every remote and any number of closes and breaks.
THEOREM EndIsToldOnce == Spec => []GoneIsTold
<1>1. ToldInv => GoneIsTold
  BY DEF ToldInv, ControlTypes, ToldOnce, PendingLives, GoneIsTold,
         TransportType, States, Live
<1> QED  BY <1>1, ToldInvInit, ToldInvNext, PTL DEF Spec

-------------------------------------------------------------------------------
LEMMA CloseInvInit == Init => CloseInv
<1>1. Init => DOMAIN end = Sides /\ end["out"] = NewEnd /\ ~ stream.manualClose
  BY DEF Init, Sides
<1>2. NewEnd.action = "Disconnected"
  BY DEF NewEnd
<1> QED  BY <1>1, <1>2, ToldInvInit DEF CloseInv, BeforeOpen, CloseHonoured

\* What is closed once is not opened again.
LEMMA CloseInvNext == CloseInv /\ [Next]_vars => CloseInv'
<1> SUFFICES ASSUME CloseInv, [Next]_vars PROVE CloseInv'
  OBVIOUS
<1> USE DEF CloseInv
<1>0. /\ ToldInv' /\ ToldInv /\ transport \in TransportType /\ stream \in StreamType
      /\ stream.late \in BOOLEAN /\ transport.state \in States /\ transport.closing \in BOOLEAN
  BY ToldInvNext DEF ToldInv, ControlTypes, StreamType, TransportType
<1>1. DOMAIN Current = Fields /\ Current.stream = stream /\ Current.transport = transport
      /\ Current.end = end["out"]
  BY DEF Current, Fields
<1>2. "out" \in Sides /\ DOMAIN NewEnd = {"posted", "wire", "buffer", "received", "pe", "handshake",
                                         "rcIn", "rcOut", "action", "ext"}
  BY DEF Sides, NewEnd
<1>3. ASSUME DOMAIN end' = Sides, UNCHANGED <<stream, transport, handling, told>>,
             transport.state = "Clear" => /\ DOMAIN end'["out"] = DOMAIN NewEnd
                                          /\ end'["out"].action = end["out"].action
      PROVE  CloseInv'
  BY <1>0, <1>3 DEF BeforeOpen, CloseHonoured
<1>4. CASE UNCHANGED <<stream, transport, handling, end, told>>
  BY <1>3, <1>4 DEF BeforeOpen
<1>5. CASE Connect
  <2> DEFINE st == [Current EXCEPT !.end.action = "Connecting"]
  <2>1. /\ DOMAIN st = Fields /\ st.stream = stream /\ st.end = [end["out"] EXCEPT !.action = "Connecting"]
    BY <1>1 DEF Fields
  <2>2. /\ ~ stream.manualClose /\ DOMAIN end["out"] = DOMAIN NewEnd
        /\ handling = "none" /\ handling' = handling /\ told' = told
    BY <1>5 DEF Connect, BeforeOpen, ToldInv, ToldOnce, Clear
  <2> HIDE DEF st
  <2>3. \/ \E type \in Types : SetOutAnew(OpenStream(st, type))
        \/ SetOutAnew([st EXCEPT !.stream.refused = TRUE])
    BY <1>5 DEF Connect, Types, st
  <2>4. DOMAIN end' = Sides
    BY <2>3 DEF SetOutAnew
  <2>5. CASE \E type \in Types : SetOutAnew(OpenStream(st, type))
    <3>1. PICK type \in Types : SetOutAnew(OpenStream(st, type))
      BY <2>5
    <3>2. stream'.manualClose = stream.manualClose /\ transport'.state = "Connecting"
      BY <1>0, <2>1, <3>1, OpenStreamIs DEF SetOutAnew
    <3> QED  BY <1>0, <2>2, <2>4, <3>2 DEF BeforeOpen, CloseHonoured
  <2>6. CASE SetOutAnew([st EXCEPT !.stream.refused = TRUE])
    <3>1. stream' = [stream EXCEPT !.refused = TRUE] /\ end'["out"] = st.end
      BY <1>2, <2>1, <2>6 DEF SetOutAnew, Fields
    <3>2. stream'.refused /\ stream'.manualClose = stream.manualClose
      BY <1>0, <3>1 DEF StreamType
    <3>3. DOMAIN st.end = DOMAIN NewEnd
      BY <2>1, <2>2
    <3> QED  BY <1>0, <2>2, <2>4, <3>1, <3>2, <3>3
         DEF BeforeOpen, CloseHonoured
  <2> QED  BY <2>3, <2>5, <2>6
<1>6. CASE TellRefused
  <2>1. stream'.manualClose = stream.manualClose /\ stream'.late = stream.late
    BY <1>0, <1>6 DEF TellRefused, StreamType
  <2>2. transport.state = "Clear" => told = 0
    BY <1>6 DEF TellRefused, ToldInv, ToldOnce
  <2> QED  BY <1>0, <1>6, <2>1, <2>2 DEF TellRefused, BeforeOpen, CloseHonoured
<1>7. CASE Connected
  <2> DEFINE t == [transport EXCEPT !.state = "Connected", !.opened = TRUE]
             st == [Current EXCEPT !.transport.state = "Connected", !.transport.opened = TRUE]
  <2>1. DOMAIN st = Fields /\ st.stream = stream /\ st.transport = t
    BY <1>1 DEF Fields
  <2>2. t.state = "Connected" /\ t.closing = transport.closing
    BY <1>0 DEF TransportType
  <2> HIDE DEF st
  <2>3. /\ stream'.manualClose = stream.manualClose /\ stream'.late = stream.late
        /\ transport' = t /\ DOMAIN end' = Sides
    BY <1>0, <1>7, <2>1, ConnectionOpenedIs DEF Connected, SetOut, st
  <2>4. transport.state = "Connecting"
    BY <1>7 DEF Connected
  <2> QED  BY <1>0, <2>2, <2>3, <2>4 DEF BeforeOpen, CloseHonoured
<1>8. CASE PostFail
  <2>1. transport'.state = "Disconnected" /\ UNCHANGED <<stream, end, told>>
    BY <1>0, <1>8 DEF PostFail, TransportType
  <2>2. stream.manualClose => handling' = "tell"
    BY <1>1, <1>8 DEF PostFail, Closed
  <2> QED  BY <1>0, <2>1, <2>2 DEF BeforeOpen, CloseHonoured
<1>9. CASE ConnectionClosed
  <2>0. /\ transport.state = "Disconnected" /\ ~ transport.closing /\ handling' = "none"
        /\ stream.manualClose /\ ~ stream.late => handling = "tell"
    BY <1>0, <1>9
       DEF ConnectionClosed, ToldInv, ToldOnce, Live, States, CloseHonoured
  <2>1. ASSUME NEW st, NEW type \in Types \cup {"none"}, DOMAIN st = Fields, st.stream \in StreamType,
               st.stream.manualClose = stream.manualClose, st.stream.late = stream.late,
               SetOutAnew(OpenStream(st, type)), handling # "tell"
        PROVE  CloseInv'
    <3>1. /\ stream'.manualClose = stream.manualClose /\ stream'.late = stream.late
          /\ transport'.state = "Connecting"
      BY <2>1, OpenStreamIs DEF SetOutAnew
    <3>2. DOMAIN end' = Sides
      BY <2>1 DEF SetOutAnew
    <3> QED  BY <1>0, <2>0, <2>1, <3>1, <3>2 DEF BeforeOpen, CloseHonoured
  <2>2. CASE /\ handling = "fallback"
             /\ SetOutAnew(OpenStream(Current, CHOOSE type \in OtherType(Current) : TRUE))
    <3>1. OtherType(Current) # {} /\ OtherType(Current) \subseteq Types
      BY <2>2 DEF ToldInv, ControlTypes, FallbackLeft, OtherType, PlanType
    <3>2. (CHOOSE type \in OtherType(Current) : TRUE) \in Types
      BY <3>1
    <3> QED  BY <1>0, <1>1, <2>1, <2>2, <3>2
  <2>3. CASE /\ handling = "retry"
             /\ SetOutAnew(OpenStream([Current EXCEPT !.stream.reconnect = TRUE], transport.type))
    <3> DEFINE s == [stream EXCEPT !.reconnect = TRUE]
    <3>1. [Current EXCEPT !.stream.reconnect = TRUE].stream = s
      BY <1>1 DEF Fields
    <3>2. s \in StreamType /\ s.manualClose = stream.manualClose /\ s.late = stream.late
      BY <1>0 DEF StreamType
    <3>3. DOMAIN [Current EXCEPT !.stream.reconnect = TRUE] = Fields
      BY <1>1
    <3>4. transport.type \in Types \cup {"none"}
      BY <1>0 DEF TransportType
    <3> HIDE DEF s
    <3> QED  BY <2>1, <2>3, <3>1, <3>2, <3>3, <3>4
  <2>4. CASE /\ stream' \in {stream, [stream EXCEPT !.initialMessage = FALSE]}
             /\ UNCHANGED <<transport, end>>
    <3>1. stream'.manualClose = stream.manualClose /\ stream'.late = stream.late
      BY <1>0, <2>4 DEF StreamType
    <3> QED  BY <1>0, <2>0, <2>4, <3>1 DEF BeforeOpen, CloseHonoured
  <2> QED  BY <1>9, <2>2, <2>3, <2>4 DEF ConnectionClosed
<1>10. CASE Close
  <2> DEFINE late == handling \in {"fallback", "retry"}
  <2>1. stream' = [stream EXCEPT !.manualClose = TRUE, !.late = late]
    BY <1>10 DEF Close
  <2>2. stream'.late <=> late
    <3> HIDE DEF late
    <3> QED  BY <1>0, <2>1 DEF StreamType
  <2>3. stream'.refused = stream.refused
    <3> HIDE DEF late
    <3> QED  BY <1>0, <2>1 DEF StreamType
  <2>4. transport' = [transport EXCEPT !.closing = transport.closing \/ transport.state \in Live]
    BY <1>10 DEF Close, CloseStream, Live
  <2>5. /\ transport'.state = transport.state
        /\ (transport.state \in Live => transport'.closing)
    BY <1>0, <2>4 DEF TransportType
  <2>6. end' = [end EXCEPT !["out"].action = "Disconnected"]
    BY <1>10 DEF Close
  <2>7. /\ DOMAIN end' = Sides
        /\ end'["out"] = [end["out"] EXCEPT !.action = "Disconnected"]
    BY <1>2, <2>6
  <2>8. transport.state = "Clear" => /\ DOMAIN end'["out"] = DOMAIN NewEnd
                                     /\ stream.refused \/ told = 1
    BY <1>10, <2>7 DEF Close, BeforeOpen
  <2>9. /\ handling' = handling
        /\ told' = told
        /\ handling \in {"none", "tell", "fallback", "retry"}
    BY <1>0, <1>10 DEF Close, ToldInv, ControlTypes
  <2> QED  BY <1>0, <2>2, <2>3, <2>5, <2>7, <2>8, <2>9
       DEF BeforeOpen, CloseHonoured, States, Live
<1>11. CASE ReceiveOut
  <2>1. /\ transport.state = "Connected"
        /\ UNCHANGED <<transport, handling, told>>
        /\ DOMAIN end' = Sides
    BY <1>11 DEF ReceiveOut, IsConnected
  <2>2. stream'.manualClose = stream.manualClose /\ stream'.late = stream.late
    BY <1>0, <1>11 DEF ReceiveOut, StreamType
  <2> QED  BY <1>0, <2>1, <2>2 DEF BeforeOpen, CloseHonoured
<1>12. CASE ReceiveIn
  <2>1. \E e : end' = [end EXCEPT !["in"] = e]
    BY <1>12 DEF ReceiveIn, SetIn
  <2>2. DOMAIN end' = Sides /\ end'["out"] = end["out"]
    BY <1>2, <2>1
  <2> QED  BY <1>3, <1>12, <2>2 DEF ReceiveIn, BeforeOpen
<1>13. ASSUME NEW side \in Sides, DoWrite(side) PROVE CloseInv'
  <2>1. PICK i \in 1 .. plan.threads :
            end' = [end EXCEPT ![side].posted = RemoveAt(@, i),
                               ![Other(side)].wire = @ \o end[side].posted[i]]
    BY <1>13 DEF DoWrite
  <2>2. DOMAIN end' = Sides
    BY <2>1
  <2>3. CASE side = "out"
    <3>1. transport.state = "Connected"
      BY <1>13, <2>3 DEF DoWrite, IsConnected
    <3> QED  BY <1>3, <1>13, <2>2, <3>1 DEF DoWrite
  <2>4. CASE side = "in"
    <3>1. \E w : end'["out"] = [end["out"] EXCEPT !.wire = w]
      BY <1>2, <2>1, <2>4 DEF Other
    <3> QED  BY <1>2, <1>3, <1>13, <2>2, <3>1 DEF DoWrite, BeforeOpen
  <2> QED  BY <2>3, <2>4 DEF Sides
<1>14. ASSUME NEW side \in Sides, Break(side) PROVE CloseInv'
  BY <1>4, <1>8, <1>14 DEF Break
<1>15. CASE ConnectFails \/ DoClose \/ ReceiveFails
  BY <1>8, <1>15 DEF ConnectFails, DoClose, ReceiveFails
<1>16. CASE Accept \/ EndIn \/ StopListening \/ SetEncryption \/ UNCHANGED vars
  BY <1>4, <1>16 DEF Accept, EndIn, StopListening, SetEncryption, vars
<1> QED  BY <1>5, <1>6, <1>7, <1>9, <1>10, <1>11, <1>12, <1>13, <1>14, <1>15,
     <1>16 DEF Next

\* After close() no transport lives on, unless close() came between the tests of
\* connectionClosed and what it does (PeerStream.cpp:91-98, 277-296), whatever
\* was tried before it.
THEOREM CloseIsHonoured == Spec => []CloseHonoured
<1>1. CloseInv => CloseHonoured
  BY DEF CloseInv
<1> QED  BY <1>1, CloseInvInit, CloseInvNext, PTL DEF Spec

-------------------------------------------------------------------------------
\* What both sides have is of its type, and the cipher never runs backwards.
Kinds == {"Key", "Request", "Verification", "Padding", "InitialMessage", "Handshake", "HandshakeRest",
          "Extended", "Garbage"}
Parts == [kind : Kinds, n : Int]
Messages == Seq(Parts)

EndType ==
    [posted : Seq(Messages), wire : Messages, buffer : Messages, received : BOOLEAN, pe : BOOLEAN,
     handshake : {"none", "Pe2", "Pe3", "Pe4", "Error"}, rcIn : Nat, rcOut : Nat,
     action : {"Disconnected", "Connecting", "Connected", "Handshake", "Established"},
     ext : {"Disabled", "Handshake", "Enabled"}]

\* A first message is kept only of a connection that was made; a fallback is
\* for one that was not.
FirstKept ==
    /\ stream.initialMessage => stream.connected
    /\ handling = "fallback" => ~ stream.connected
    /\ transport.state = "Clear" => ~ stream.connected

\* While the setting is the one the connection began with: with Require the
\* first message was sent in a key exchange, and what ended that has been
\* received, so there is nothing to retry; with Refuse no exchange began.
FirstHonoured ==
    /\ plan.changes \in 0 .. 1
    /\ encryption # plan.encryption => plan.changes = 0
    /\ encryption = plan.encryption /\ encryption = "Require" =>
          /\ ~ stream.reconnect
          /\ stream.initialMessage => end["out"].handshake # "none" \/ end["out"].received
          /\ \A m \in ToSet(end["out"].posted) : m # Handshake
    /\ encryption = plan.encryption /\ encryption = "Refuse" =>
          /\ ~ stream.reconnect
          /\ end["out"].handshake = "none"
          /\ \A m \in ToSet(end["out"].posted) : m[1].kind # "Key"

EncInv ==
    /\ ToldInv
    /\ encryption \in Encryption
    /\ end \in [Sides -> EndType] /\ end["out"].action # "Connected"
    /\ FirstKept /\ FirstHonoured

-------------------------------------------------------------------------------
LEMMA EmptyTyped == <<>> \in Messages
BY DEF Messages

LEMMA EncryptedTyped ==
    ASSUME NEW parts \in Messages, NEW n \in Int
    PROVE  /\ Encrypted(parts, n) \in Messages
           /\ Len(Encrypted(parts, n)) = Len(parts)
           /\ \A i \in 1 .. Len(parts) : Encrypted(parts, n)[i].kind = parts[i].kind
<1> DEFINE k == Len(parts)
           f == [i \in 1 .. k |-> [parts[i] EXCEPT !.n = n + i - 1]]
<1>1. k \in Nat /\ DOMAIN parts = 1 .. k /\ \A i \in 1 .. k : parts[i] \in Parts
  BY DEF Messages
<1>2. \A p \in Parts, j \in Int : [p EXCEPT !.n = j] \in Parts /\ [p EXCEPT !.n = j].kind = p.kind
  BY DEF Parts
<1>3. f = Encrypted(parts, n)
  BY <1>1 DEF Encrypted
<1>4. \A i \in 1 .. k : f[i] \in Parts /\ f[i].kind = parts[i].kind
  <2> SUFFICES ASSUME NEW i \in 1 .. k PROVE f[i] \in Parts /\ f[i].kind = parts[i].kind
    OBVIOUS
  <2>1. n + i - 1 \in Int /\ parts[i] \in Parts
    BY <1>1
  <2>2. f[i] = [parts[i] EXCEPT !.n = n + i - 1]
    OBVIOUS
  <2> QED
    BY <1>2, <2>1, <2>2
<1>5. f \in [1 .. k -> Parts]
  BY <1>4
<1> HIDE DEF f
<1> QED
  BY <1>1, <1>3, <1>4, <1>5, SeqDef DEF Messages

LEMMA DecryptedTyped ==
    ASSUME NEW parts \in Messages, NEW n \in Int
    PROVE  Decrypted(parts, n) \in Messages
<1> DEFINE k == Len(parts)
           f == [i \in 1 .. k |-> Part(IF parts[i].n = n + i - 1 THEN parts[i].kind ELSE "Garbage")]
<1>1. k \in Nat /\ DOMAIN parts = 1 .. k /\ \A i \in 1 .. k : parts[i].kind \in Kinds
  <2>1. k \in Nat /\ DOMAIN parts = 1 .. k /\ \A i \in 1 .. k : parts[i] \in Parts
    BY DEF Messages
  <2> QED
    BY <2>1 DEF Parts
<1>2. \A kind \in Kinds : Part(kind) \in Parts
  BY DEF Part, Plain, Parts
<1>3. f = Decrypted(parts, n)
  BY <1>1 DEF Decrypted
<1>4. "Garbage" \in Kinds
  BY DEF Kinds
<1>5. \A i \in 1 .. k : f[i] \in Parts
  BY <1>1, <1>2, <1>4
<1>6. f \in [1 .. k -> Parts]
  BY <1>5
<1> HIDE DEF f
<1> QED
  BY <1>1, <1>3, <1>6, SeqDef DEF Messages

LEMMA MessagesTyped ==
    ASSUME plan \in PlanType
    PROVE  /\ Handshake \in Messages /\ Extended \in Messages /\ Key \in Messages
           /\ Padding \in Messages /\ Pe3 \in Messages /\ Pe4 \in Messages
           /\ Extended[1].kind = "Extended" /\ Pe3[1].kind = "Request"
           /\ Key[1].kind = "Key" /\ Handshake[1].kind = "Handshake"
           /\ Len(Extended) = 1 /\ Len(Pe3) = 2 /\ Len(Pe4) \in Nat /\ Len(Padding) \in Nat
<1>1. \A kind \in Kinds : Part(kind) \in Parts /\ Part(kind).kind = kind
  BY DEF Part, Plain, Parts, Kinds
<1>2. Padding \in Messages
  BY <1>1 DEF Padding, Messages, Kinds
<1>3. /\ [Part("Request") EXCEPT !.n = 0] \in Parts
      /\ [Part("Request") EXCEPT !.n = 0].kind = "Request"
      /\ [Part("InitialMessage") EXCEPT !.n = 1] \in Parts
  BY DEF Part, Plain, Parts, Kinds
<1>4. Pe3 \in Messages /\ Pe3[1].kind = "Request" /\ Len(Pe3) = 2
  <2> DEFINE a == [Part("Request") EXCEPT !.n = 0]
             b == [Part("InitialMessage") EXCEPT !.n = 1]
  <2>1. Pe3 = <<a, b>>
    BY DEF Pe3
  <2>2. a \in Parts /\ b \in Parts /\ a.kind = "Request"
    BY <1>3
  <2> HIDE DEF a, b
  <2> QED
    BY <2>1, <2>2 DEF Messages
<1>5. Key \in Messages /\ Key[1].kind = "Key"
  BY <1>1, <1>2 DEF Key, Messages, Kinds
<1>6. <<Part("Verification")>> \o Padding \in Messages
  BY <1>1, <1>2 DEF Messages, Kinds
<1>7. Pe4 \in Messages
  BY <1>6, EncryptedTyped DEF Pe4
<1> QED
  BY <1>1, <1>2, <1>4, <1>5, <1>7 DEF Messages, Handshake, Extended, Kinds

\* What an end may become when it reads, in any number of steps.
OnlyAnswers(e, x) ==
    ToSet(x.posted) \subseteq
        ToSet(e.posted) \cup {m \in Messages : m[1].kind \in {"Extended", "Request"}}

Reads(e) ==
    {x \in EndType :
        /\ x.received = e.received
        /\ e.handshake = "none" => x.handshake = "none"
        /\ e.action # "Connected" => x.action # "Connected" /\ OnlyAnswers(e, x)}

LEMMA ReadsOfReads ==
    ASSUME NEW e, NEW x \in Reads(e), NEW y \in Reads(x)
    PROVE  y \in Reads(e)
BY DEF Reads, OnlyAnswers

LEMMA ReadsWith ==
    ASSUME NEW e \in EndType, NEW x \in EndType, x.received = e.received,
           x.handshake = e.handshake, x.posted = e.posted,
           e.action # "Connected" => x.action # "Connected"
    PROVE  x \in Reads(e)
BY DEF Reads, OnlyAnswers

LEMMA PostTyped ==
    ASSUME NEW e \in EndType, NEW parts \in Messages
    PROVE  LET x == Post(e, parts)
           IN /\ x \in EndType
              /\ x = [e EXCEPT !.posted = Append(e.posted, parts)]
              /\ ToSet(x.posted) = ToSet(e.posted) \cup {parts}
<1>1. e.posted \in Seq(Messages)
  BY DEF EndType
<1>2. Append(e.posted, parts) \in Seq(Messages)
  BY <1>1
<1>3. ToSet(Append(e.posted, parts)) = ToSet(e.posted) \cup {parts}
  BY <1>1, AppendProperties DEF ToSet
<1>4. Post(e, parts) = [e EXCEPT !.posted = Append(e.posted, parts)]
  BY DEF Post
<1>5. Post(e, parts) \in EndType /\ Post(e, parts).posted = Append(e.posted, parts)
  BY <1>2, <1>4 DEF EndType
<1> QED
  BY <1>3, <1>4, <1>5

LEMMA WriteTyped ==
    ASSUME NEW e \in EndType, NEW parts \in Messages, parts # <<>>
    PROVE  LET x == Write(e, parts)
           IN /\ x \in EndType
              /\ x.received = e.received /\ x.handshake = e.handshake /\ x.action = e.action
              /\ x.ext = e.ext /\ x.buffer = e.buffer /\ x.wire = e.wire
              /\ \E m \in Messages : m[1].kind = parts[1].kind /\ ToSet(x.posted) = ToSet(e.posted) \cup {m}
<1>1. e.rcOut \in Nat /\ Len(parts) \in Nat /\ 1 \in 1 .. Len(parts)
  BY DEF EndType, Messages
<1>2. CASE e.pe
  <2> DEFINE m == Encrypted(parts, e.rcOut)
             x == Post(e, m)
  <2>1. m \in Messages /\ m[1].kind = parts[1].kind
    BY <1>1, EncryptedTyped
  <2>2. /\ x \in EndType
        /\ x = [e EXCEPT !.posted = Append(e.posted, m)]
        /\ ToSet(x.posted) = ToSet(e.posted) \cup {m}
    BY <2>1, PostTyped
  <2>3. Write(e, parts) = [x EXCEPT !.rcOut = x.rcOut + Len(parts)]
    BY <1>2 DEF Write
  <2> HIDE DEF m
  <2>4. /\ x.rcOut = e.rcOut /\ x.received = e.received /\ x.handshake = e.handshake
        /\ x.action = e.action /\ x.ext = e.ext /\ x.buffer = e.buffer /\ x.wire = e.wire
    BY <2>2 DEF EndType
  <2>5. Write(e, parts) \in EndType
    <3>1. x.rcOut + Len(parts) \in Nat
      BY <1>1, <2>4
    <3> HIDE DEF x
    <3> QED
      BY <2>2, <2>3, <3>1 DEF EndType
  <2>6. /\ Write(e, parts).received = x.received /\ Write(e, parts).handshake = x.handshake
        /\ Write(e, parts).action = x.action /\ Write(e, parts).ext = x.ext
        /\ Write(e, parts).buffer = x.buffer /\ Write(e, parts).wire = x.wire
        /\ Write(e, parts).posted = x.posted
    <3> HIDE DEF x
    <3> QED
      BY <2>2, <2>3 DEF EndType
  <2> HIDE DEF x
  <2> QED
    BY <2>1, <2>2, <2>4, <2>5, <2>6
<1>3. CASE ~ e.pe
  <2> DEFINE x == Post(e, parts)
  <2>1. /\ x \in EndType
        /\ x = [e EXCEPT !.posted = Append(e.posted, parts)]
        /\ ToSet(x.posted) = ToSet(e.posted) \cup {parts}
    BY PostTyped
  <2>2. Write(e, parts) = x
    BY <1>3 DEF Write
  <2>3. /\ x.received = e.received /\ x.handshake = e.handshake
        /\ x.action = e.action /\ x.ext = e.ext /\ x.buffer = e.buffer /\ x.wire = e.wire
    BY <2>1 DEF EndType
  <2> HIDE DEF x
  <2> QED
    BY <2>1, <2>2, <2>3
<1> QED
  BY <1>2, <1>3

LEMMA SendExtendedReads ==
    ASSUME plan \in PlanType, NEW e \in EndType
    PROVE  SendExtendedHandshake(e) \in Reads(e)
<1> DEFINE w == Write(e, Extended)
<1>1. /\ w \in EndType
      /\ w.received = e.received /\ w.handshake = e.handshake /\ w.action = e.action
      /\ \E m \in Messages : m[1].kind = "Extended" /\ ToSet(w.posted) = ToSet(e.posted) \cup {m}
  <2>1. Extended \in Messages /\ Extended[1].kind = "Extended"
    BY MessagesTyped
  <2>2. Extended # <<>>
    BY DEF Extended
  <2>3. /\ w \in EndType
        /\ w.received = e.received /\ w.handshake = e.handshake /\ w.action = e.action
        /\ \E m \in Messages : m[1].kind = Extended[1].kind /\ ToSet(w.posted) = ToSet(e.posted) \cup {m}
    BY <2>1, <2>2, WriteTyped
  <2> QED
    BY <2>1, <2>3
<1>2. SendExtendedHandshake(e) = [w EXCEPT !.ext = "Handshake"]
  BY DEF SendExtendedHandshake
<1> HIDE DEF w
<1>3. /\ SendExtendedHandshake(e) \in EndType
      /\ SendExtendedHandshake(e).received = w.received
      /\ SendExtendedHandshake(e).handshake = w.handshake
      /\ SendExtendedHandshake(e).action = w.action
      /\ SendExtendedHandshake(e).posted = w.posted
  BY <1>1, <1>2 DEF EndType
<1> QED
  BY <1>1, <1>3 DEF Reads, OnlyAnswers

LEMMA SendHandshakeReads ==
    ASSUME plan \in PlanType, NEW e \in EndType, e.action = "Connected"
    PROVE  SendHandshake(e) \in Reads(e)
<1> DEFINE h == [e EXCEPT !.action = "Handshake"]
<1>1. h \in EndType /\ h.received = e.received /\ h.handshake = e.handshake
  BY DEF EndType
<1>2. Handshake \in Messages /\ Handshake # <<>>
  BY MessagesTyped DEF Handshake
<1> HIDE DEF h
<1>3. /\ Write(h, Handshake) \in EndType
      /\ Write(h, Handshake).received = h.received /\ Write(h, Handshake).handshake = h.handshake
  BY <1>1, <1>2, WriteTyped
<1>4. SendHandshake(e) = Write(h, Handshake)
  BY DEF SendHandshake, h
<1> QED
  BY <1>1, <1>3, <1>4 DEF Reads

LEMMA HandleHandshakeReads ==
    ASSUME plan \in PlanType, NEW e \in EndType
    PROVE  HandleHandshake(e) \in Reads(e)
<1>0. e \in Reads(e)
  BY ReadsWith
<1>1. CASE e.action \notin {"Connected", "Handshake"}
  BY <1>0, <1>1 DEF HandleHandshake
<1>2. CASE e.action \in {"Connected", "Handshake"}
  <2>1. Greeted(e) \in Reads(e)
    BY <1>0, SendHandshakeReads DEF Greeted
  <2> DEFINE g == Greeted(e)
             s == [g EXCEPT !.action = "Established"]
  <2> HIDE DEF g
  <2>2. g \in EndType
    BY <2>1 DEF g, Reads
  <2>3. s \in EndType /\ s.received = g.received /\ s.handshake = g.handshake
        /\ s.posted = g.posted /\ s.action # "Connected"
    BY <2>2 DEF EndType
  <2> HIDE DEF s
  <2>4. s \in Reads(e)
    BY <2>1, <2>2, <2>3, ReadsWith, ReadsOfReads DEF g
  <2>5. SendExtendedHandshake(s) \in Reads(e)
    BY <2>3, <2>4, SendExtendedReads, ReadsOfReads
  <2>6. HandleHandshake(e) \in {s, SendExtendedHandshake(s)}
    BY <1>2 DEF HandleHandshake, s, g
  <2> QED
    BY <2>4, <2>5, <2>6
<1> QED
  BY <1>1, <1>2

LEMMA HandleExtendedReads ==
    ASSUME plan \in PlanType, NEW e \in EndType
    PROVE  HandleExtendedMessage(e) \in Reads(e)
<1> DEFINE s == IF e.ext = "Disabled" THEN SendExtendedHandshake(e) ELSE e
<1>1. s \in Reads(e)
  BY SendExtendedReads, ReadsWith
<1> HIDE DEF s
<1>2. s \in EndType
  BY <1>1 DEF Reads
<1>3. HandleExtendedMessage(e) = [s EXCEPT !.ext = "Enabled"]
  BY DEF HandleExtendedMessage, s
<1>4. [s EXCEPT !.ext = "Enabled"] \in Reads(s)
  <2> DEFINE x == [s EXCEPT !.ext = "Enabled"]
  <2>1. x \in EndType /\ x.received = s.received /\ x.handshake = s.handshake
        /\ x.posted = s.posted /\ x.action = s.action
    BY <1>2 DEF EndType
  <2> QED
    BY <1>2, <2>1, ReadsWith, Zenon
<1> QED
  BY <1>1, <1>3, <1>4, ReadsOfReads

\* dataReceived, for one more part.
Taken(acc, part) ==
    CASE acc.buffer = <<>> /\ part.kind = "Extended" -> HandleExtendedMessage(acc)
      [] acc.buffer = <<Part("Handshake")>> /\ part.kind = "HandshakeRest" ->
            HandleHandshake([acc EXCEPT !.buffer = <<>>])
      [] OTHER -> [acc EXCEPT !.buffer = Append(@, part)]

LEMMA WithBuffer ==
    ASSUME NEW e \in EndType, NEW b \in Messages
    PROVE  /\ [e EXCEPT !.buffer = b] \in Reads(e)
           /\ [e EXCEPT !.buffer = b] \in EndType
           /\ [e EXCEPT !.buffer = b].buffer = b
<1> DEFINE x == [e EXCEPT !.buffer = b]
<1>1. x \in EndType /\ x.received = e.received /\ x.handshake = e.handshake
      /\ x.posted = e.posted /\ x.action = e.action /\ x.buffer = b
  BY DEF EndType
<1> QED
  BY <1>1, ReadsWith, Zenon

LEMMA TakenReads ==
    ASSUME plan \in PlanType, NEW e \in EndType, NEW acc \in Reads(e), NEW part \in Parts
    PROVE  Taken(acc, part) \in Reads(e)
<1>1. acc \in EndType /\ acc.buffer \in Messages /\ <<>> \in Messages
  BY DEF Reads, EndType, Messages
<1>2. Append(acc.buffer, part) \in Messages
  BY <1>1 DEF Messages
<1>3. HandleExtendedMessage(acc) \in Reads(e)
  BY <1>1, HandleExtendedReads, ReadsOfReads
<1>4. HandleHandshake([acc EXCEPT !.buffer = <<>>]) \in Reads(e)
  <2>1. [acc EXCEPT !.buffer = <<>>] \in EndType /\ [acc EXCEPT !.buffer = <<>>] \in Reads(acc)
    BY <1>1, WithBuffer
  <2> QED
    BY <2>1, HandleHandshakeReads, ReadsOfReads
<1>5. [acc EXCEPT !.buffer = Append(acc.buffer, part)] \in Reads(e)
  BY <1>1, <1>2, WithBuffer, ReadsOfReads
<1>6. Taken(acc, part) \in {HandleExtendedMessage(acc), HandleHandshake([acc EXCEPT !.buffer = <<>>]),
                            [acc EXCEPT !.buffer = Append(acc.buffer, part)]}
  BY DEF Taken
<1> QED
  BY <1>3, <1>4, <1>5, <1>6

LEMMA CommReceivedReads ==
    ASSUME plan \in PlanType, NEW e \in EndType
    PROVE  CommReceived(e) \in Reads(e)
<1> DEFINE from == e.buffer
           b == [e EXCEPT !.buffer = <<>>]
           n == Len(from)
           body(f) == [s \in SUBSET (DOMAIN from) |->
                          IF s = {} THEN b
                          ELSE LET x == Max(s) IN Taken(f[s \ {x}], from[x])]
           it == CHOOSE f : f = body(f)
           R == [x \in Reads(e) \X (1 .. n) |-> Taken(x[1], from[x[2]])]
<1>1. n \in Nat /\ DOMAIN from = 1 .. n /\ \A i \in 1 .. n : from[i] \in Parts
  BY DEF EndType, Messages
<1>2. CommReceived(e) = it[DOMAIN from]
  BY DEF CommReceived, FoldLeft, MapThenFoldSet, Taken
<1>3. b \in Reads(e)
  BY EmptyTyped, WithBuffer
<1>4. R \in [Reads(e) \X (1 .. n) -> Reads(e)]
  BY <1>1, TakenReads
<1>5. it = body(it)
  <2>1. PICK f \in [SUBSET (1 .. n) -> Reads(e)] : FoldOf(f, b, R, n)
    <3> HIDE DEF R, b, n
    <3> QED
      BY <1>1, <1>3, <1>4, FoldExists
  <2>2. ASSUME NEW s \in SUBSET (1 .. n)
        PROVE  f[s] = IF s = {} THEN b ELSE Taken(f[s \ {Max(s)}], from[Max(s)])
    <3>1. CASE s = {}
      BY <2>1, <3>1 DEF FoldOf
    <3>2. CASE s # {}
      <4>1. Max(s) \in 1 .. n /\ f[s \ {Max(s)}] \in Reads(e)
        <5>1. Max(s) \in s
          BY <1>1, <3>2, LastPosition
        <5> QED
          BY <2>1, <5>1
      <4>2. f[s] = R[<<f[s \ {Max(s)}], Max(s)>>]
        BY <2>1, <3>2 DEF FoldOf
      <4> QED
        BY <3>2, <4>1, <4>2
    <3> QED
      BY <3>1, <3>2
  <2>3. f = body(f)
    BY <1>1, <2>1, <2>2
  <2> HIDE DEF body
  <2> QED
    BY <2>3
<1>6. ASSUME NEW s \in SUBSET (1 .. n), s # {}, it[s \ {Max(s)}] \in Reads(e)
      PROVE  it[s] \in Reads(e)
  <2>1. it[s] = body(it)[s]
    <3> HIDE DEF it, body
    <3> QED
      BY <1>5
  <2> HIDE DEF it, b
  <2>2. it[s] = Taken(it[s \ {Max(s)}], from[Max(s)])
    BY <1>1, <1>6, <2>1
  <2>3. Max(s) \in 1 .. n
    BY <1>1, <1>6, LastPosition
  <2> QED
    BY <1>1, <1>6, <2>2, <2>3, TakenReads
<1>7. it[{}] = b
  <2>1. it[{}] = body(it)[{}]
    <3> HIDE DEF it, body
    <3> QED
      BY <1>5
  <2> HIDE DEF it, b
  <2> QED
    BY <2>1
<1> DEFINE T == [s \in SUBSET (1 .. n) |-> Reads(e)]
<1> HIDE DEF b, n, it, from
<1>8. \A s \in SUBSET (1 .. n) : T[s] = Reads(e) /\ s \ {Max(s)} \in SUBSET (1 .. n)
  OBVIOUS
<1>9. {} \in SUBSET (1 .. n) /\ 1 .. n \in SUBSET (1 .. n)
  OBVIOUS
<1> HIDE DEF T
<1>10. it[{}] \in T[{}]
  BY <1>3, <1>7, <1>8, <1>9
<1>11. \A s \in SUBSET (1 .. n) :
          s # {} /\ it[s \ {Max(s)}] \in T[s \ {Max(s)}] => it[s] \in T[s]
  BY <1>6, <1>8
<1>12. it[1 .. n] \in T[1 .. n]
  BY <1>1, <1>9, <1>10, <1>11, FoldStaysAt
<1> QED
  BY <1>1, <1>2, <1>8, <1>9, <1>12

LEMMA ReceivedReads ==
    ASSUME plan \in PlanType, NEW e \in EndType, NEW parts \in Messages
    PROVE  Received(e, parts) \in Reads(e)
<1> DEFINE more == IF e.pe THEN Decrypted(parts, e.rcIn) ELSE parts
           rc == IF e.pe THEN e.rcIn + Len(parts) ELSE e.rcIn
           x == [e EXCEPT !.buffer = e.buffer \o more, !.rcIn = rc]
<1>1. e.rcIn \in Nat /\ Len(parts) \in Nat /\ e.buffer \in Messages
  BY DEF EndType, Messages
<1>2. more \in Messages /\ rc \in Nat
  BY <1>1, DecryptedTyped
<1> HIDE DEF more, rc
<1>3. e.buffer \o more \in Messages
  BY <1>1, <1>2 DEF Messages
<1>4. x \in EndType /\ x.received = e.received /\ x.handshake = e.handshake
      /\ x.posted = e.posted /\ x.action = e.action
  BY <1>2, <1>3 DEF EndType
<1>5. Received(e, parts) = CommReceived(x)
  BY DEF Received, more, rc
<1>6. x \in Reads(e)
  BY <1>4, ReadsWith, Zenon
<1> HIDE DEF x
<1> QED
  BY <1>4, <1>5, <1>6, CommReceivedReads, ReadsOfReads

LEMMA ReadPe2Reads ==
    ASSUME plan \in PlanType, NEW e \in EndType, e.handshake = "Pe2"
    PROVE  ReadPe2(e) \in Reads(e)
<1> DEFINE x == [e EXCEPT !.buffer = <<>>, !.handshake = "Pe4"]
           p == Post(x, Pe3)
<1>1. x \in EndType /\ x.received = e.received /\ x.posted = e.posted /\ x.action = e.action
  BY EmptyTyped DEF EndType
<1>2. Pe3 \in Messages /\ Pe3[1].kind = "Request" /\ Len(Pe3) = 2
  BY MessagesTyped
<1> HIDE DEF x
<1>3. /\ p \in EndType
      /\ p = [x EXCEPT !.posted = Append(x.posted, Pe3)]
      /\ ToSet(p.posted) = ToSet(x.posted) \cup {Pe3}
  BY <1>1, <1>2, PostTyped
<1>4. p.received = x.received /\ p.action = x.action
  BY <1>1, <1>3 DEF EndType
<1>5. ReadPe2(e) = IF e.buffer = <<>> THEN e ELSE [p EXCEPT !.rcOut = Len(Pe3), !.rcIn = 0]
  BY DEF ReadPe2, x
<1> HIDE DEF p
<1> DEFINE y == [p EXCEPT !.rcOut = Len(Pe3), !.rcIn = 0]
<1>6. y \in EndType /\ y.received = p.received /\ y.posted = p.posted /\ y.action = p.action
  <2>1. p \in EndType /\ Len(Pe3) \in Nat
    BY <1>2, <1>3
  <2> QED
    BY <2>1 DEF EndType
<1>7. e \in Reads(e)
  BY ReadsWith
<1> HIDE DEF y
<1>8. y \in Reads(e)
  BY <1>1, <1>2, <1>3, <1>4, <1>6 DEF Reads, OnlyAnswers
<1> QED
  BY <1>5, <1>7, <1>8 DEF y

LEMMA Suffix ==
    ASSUME NEW parts \in Messages, NEW i \in 1 .. Len(parts)
    PROVE  SubSeq(parts, i, Len(parts)) \in Messages
BY SubSeqProperties DEF Messages

LEMMA ReadPe4Reads ==
    ASSUME plan \in PlanType, NEW e \in EndType, e.handshake # "none"
    PROVE  ReadPe4(e) \in Reads(e)
<1> DEFINE found == {i \in DOMAIN e.buffer : e.buffer[i] = [Part("Verification") EXCEPT !.n = e.rcIn]}
           i == CHOOSE i \in found : TRUE
           after == SubSeq(e.buffer, i + Len(Pe4), Len(e.buffer))
           on == [e EXCEPT !.rcIn = e.rcIn + 1]
           kept == [e EXCEPT !.rcIn = e.rcIn + 1, !.buffer = SubSeq(e.buffer, i, Len(e.buffer))]
           done == [e EXCEPT !.handshake = "none", !.pe = TRUE, !.rcIn = Len(Pe4), !.buffer = <<>>]
<1>1. /\ e.buffer \in Messages /\ e.rcIn \in Nat /\ e.rcIn + 1 \in Nat /\ Len(Pe4) \in Nat
      /\ DOMAIN e.buffer = 1 .. Len(e.buffer) /\ Len(e.buffer) \in Nat
  BY MessagesTyped DEF EndType, Messages
<1>2. CASE found = {}
  <2>1. ReadPe4(e) \in {e, on}
    BY <1>2 DEF ReadPe4
  <2>2. on \in EndType /\ on.received = e.received /\ on.handshake = e.handshake
        /\ on.posted = e.posted /\ on.action = e.action
    BY <1>1 DEF EndType
  <2> QED
    BY <2>1, <2>2, ReadsWith, Zenon
<1>3. CASE found # {}
  <2>1. i \in 1 .. Len(e.buffer)
    <3>1. i \in found
      BY <1>3
    <3> HIDE DEF i
    <3> QED
      BY <1>1, <3>1
  <2> HIDE DEF i, found
  <2>2. SubSeq(e.buffer, i, Len(e.buffer)) \in Messages
    BY <1>1, <2>1, Suffix
  <2>3. after \in Messages
    <3>1. \A j \in i + Len(Pe4) .. Len(e.buffer) : e.buffer[j] \in Parts
      BY <1>1, <2>1 DEF Messages
    <3>2. i + Len(Pe4) \in Int /\ Len(e.buffer) \in Int
      BY <1>1, <2>1
    <3> QED
      BY <3>1, <3>2, SubSeqProperties DEF Messages
  <2>4. kept \in EndType /\ kept.received = e.received /\ kept.handshake = e.handshake
        /\ kept.posted = e.posted /\ kept.action = e.action
    BY <1>1, <2>2 DEF EndType
  <2>5. kept \in Reads(e) /\ e \in Reads(e)
    BY <2>4, ReadsWith, Zenon
  <2>6. done \in EndType /\ done.received = e.received
        /\ done.posted = e.posted /\ done.action = e.action
    BY <1>1, EmptyTyped DEF EndType
  <2> HIDE DEF after
  <2>7. done \in Reads(e)
    <3> HIDE DEF done
    <3> QED
      BY <2>6 DEF Reads, OnlyAnswers
  <2>8. Received(done, after) \in Reads(e)
    <3> HIDE DEF done
    <3> QED
      BY <2>3, <2>6, <2>7, ReceivedReads, ReadsOfReads
  <2>9. ReadPe4(e) \in {e, kept, Received(done, after)}
    BY <1>3 DEF ReadPe4, found, i, after
  <2> QED
    BY <2>5, <2>8, <2>9
<1> QED
  BY <1>2, <1>3

LEMMA ReceivedPeReads ==
    ASSUME plan \in PlanType, NEW e \in EndType, e.handshake # "none", NEW parts \in Messages
    PROVE  ReceivedPeHandshake(e, parts) \in Reads(e)
<1> DEFINE b == e.buffer \o parts
           all == [e EXCEPT !.buffer = b]
<1>1. b \in Messages
  BY DEF EndType, Messages
<1>2. all \in EndType /\ all \in Reads(e)
  BY <1>1, WithBuffer
<1>3. all.handshake = e.handshake
  BY DEF EndType
<1>4. ReceivedPeHandshake(e, parts) = IF e.handshake = "Pe2" THEN ReadPe2(all) ELSE ReadPe4(all)
  BY DEF ReceivedPeHandshake
<1> HIDE DEF all
<1> QED
  BY <1>2, <1>3, <1>4, ReadPe2Reads, ReadPe4Reads, ReadsOfReads

\* The other side, when it reads.
ResultTyped(res) == DOMAIN res = Results /\ res.end \in EndType

LEMMA WithEnd ==
    ASSUME NEW res, DOMAIN res = Results, NEW e \in EndType
    PROVE  /\ ResultTyped([res EXCEPT !.end = e])
           /\ [res EXCEPT !.end = e].end = e
           /\ [res EXCEPT !.end = e].incoming = res.incoming
BY DEF Results, ResultTyped

LEMMA WithIncoming ==
    ASSUME NEW res, ResultTyped(res)
    PROVE  /\ ResultTyped([res EXCEPT !.incoming.pending = FALSE])
           /\ ResultTyped(ClosePeer(res))
BY DEF Results, ResultTyped, ClosePeer

LEMMA StartPeerTyped ==
    ASSUME plan \in PlanType, NEW res, ResultTyped(res)
    PROVE  ResultTyped(StartPeer(res))
<1> DEFINE known == [res EXCEPT !.incoming.pending = FALSE]
           e == [known.end EXCEPT !.action = "Connected", !.buffer = Handshake]
           started == [incoming |-> [known.incoming EXCEPT !.started = TRUE], end |-> CommReceived(e)]
<1>1. ResultTyped(known)
  BY WithIncoming
<1>2. StartPeer(res) \in {res, known, started}
  BY DEF StartPeer
<1> HIDE DEF known
<1>3. e \in EndType
  BY <1>1, MessagesTyped DEF ResultTyped, EndType
<1> HIDE DEF e
<1>4. ResultTyped(started)
  BY <1>3, CommReceivedReads DEF ResultTyped, Results, Reads
<1> QED
  BY <1>1, <1>2, <1>4

LEMMA ReadHandshakeTyped ==
    ASSUME plan \in PlanType, NEW res, ResultTyped(res)
    PROVE  ResultTyped(ReadHandshake(res))
<1> DEFINE e == [res.end EXCEPT !.buffer = <<>>]
           taken == [res EXCEPT !.end.buffer = <<>>]
           gone == [taken EXCEPT !.incoming.pending = FALSE]
<1>1. e \in EndType
  BY EmptyTyped, WithBuffer DEF ResultTyped
<1>2. taken = [res EXCEPT !.end = e]
  OBVIOUS
<1>3. ResultTyped(taken)
  <2> HIDE DEF e, taken
  <2> QED
    BY <1>1, <1>2, WithEnd DEF ResultTyped
<1>4. ReadHandshake(res) \in {ClosePeer(taken), ClosePeer(gone), StartPeer(taken),
                              ClosePeer(StartPeer(taken))}
  BY DEF ReadHandshake
<1> HIDE DEF taken
<1> QED
  BY <1>3, <1>4, WithIncoming, StartPeerTyped

LEMMA ReadPe3Typed ==
    ASSUME plan \in PlanType, NEW res, ResultTyped(res)
    PROVE  ResultTyped(ReadPe3(res))
<1> DEFINE found == {i \in DOMAIN res.end.buffer : res.end.buffer[i].kind = "Request"}
           i == CHOOSE i \in found : TRUE
           ready == [res.end EXCEPT !.buffer = <<>>, !.handshake = "none", !.pe = TRUE,
                                    !.rcIn = Len(Pe3), !.rcOut = Len(Pe4)]
           new == Post(ready, Pe4)
           kept == [res.end EXCEPT !.buffer = SubSeq(@, i, Len(@))]
           failed == [res.end EXCEPT !.handshake = "Error"]
<1>1. /\ res.end \in EndType /\ res.end.buffer \in Messages /\ DOMAIN res = Results
      /\ DOMAIN res.end.buffer = 1 .. Len(res.end.buffer)
  BY DEF ResultTyped, EndType, Messages
<1>2. ready \in EndType
  <2>1. Len(Pe3) \in Nat /\ Len(Pe4) \in Nat /\ res.end \in EndType
    BY <1>1, MessagesTyped
  <2> QED
    BY <2>1, EmptyTyped DEF EndType
<1> HIDE DEF ready
<1>3. new \in EndType
  BY <1>2, MessagesTyped, PostTyped
<1>4. failed \in EndType
  BY <1>1 DEF EndType
<1>5. CASE found = {}
  BY <1>5 DEF ReadPe3
<1>6. CASE found # {}
  <2>1. i \in 1 .. Len(res.end.buffer)
    <3>1. i \in found
      BY <1>6
    <3> HIDE DEF i
    <3> QED
      BY <1>1, <3>1
  <2> HIDE DEF i, found
  <2>2. SubSeq(res.end.buffer, i, Len(res.end.buffer)) \in Messages
    BY <1>1, <2>1, Suffix
  <2>3. kept \in EndType
    BY <1>1, <2>2, WithBuffer
  <2>4. ReadPe3(res) \in {ClosePeer([res EXCEPT !.end = failed]), [res EXCEPT !.end = kept],
                          StartPeer([res EXCEPT !.end = new])}
    BY <1>6 DEF ReadPe3, found, i, ready
  <2> HIDE DEF new, kept, failed
  <2>5. /\ ResultTyped([res EXCEPT !.end = failed])
        /\ ResultTyped([res EXCEPT !.end = kept])
        /\ ResultTyped([res EXCEPT !.end = new])
    BY <1>1, <1>3, <1>4, <2>3, WithEnd
  <2>6. /\ ResultTyped(ClosePeer([res EXCEPT !.end = failed]))
        /\ ResultTyped(StartPeer([res EXCEPT !.end = new]))
    BY <2>5, WithIncoming, StartPeerTyped
  <2> QED
    BY <2>4, <2>5, <2>6
<1> QED
  BY <1>5, <1>6

LEMMA ReadStreamTyped ==
    ASSUME plan \in PlanType, NEW res, ResultTyped(res)
    PROVE  ResultTyped(ReadStreamData(res))
<1> DEFINE e == [res.end EXCEPT !.buffer = <<>>, !.handshake = "Pe3"]
           new == Post(e, Key)
<1>1. e \in EndType
  BY EmptyTyped DEF ResultTyped, EndType
<1> HIDE DEF e
<1>2. new \in EndType
  BY <1>1, MessagesTyped, PostTyped
<1>3. ReadStreamData(res) \in {res, ReadHandshake(res), ClosePeer(res), ReadPe3(res),
                               [res EXCEPT !.end = new]}
  BY DEF ReadStreamData, ReadAsListener, e
<1> HIDE DEF new
<1> QED
  BY <1>2, <1>3, ReadHandshakeTyped, ReadPe3Typed, WithIncoming, WithEnd DEF ResultTyped

-------------------------------------------------------------------------------
(* The side that opens.                                                       *)

LEMMA OpenStreamEnd ==
    ASSUME NEW st, DOMAIN st = Fields, st.stream \in StreamType, st.end \in EndType, NEW type
    PROVE  LET x == OpenStream(st, type)
           IN /\ x.end \in EndType /\ ToSet(x.end.posted) = {}
              /\ x.end.action = st.end.action /\ x.end.handshake = st.end.handshake
              /\ x.stream.connected = st.stream.connected
              /\ x.stream.reconnect = st.stream.reconnect
              /\ x.stream.initialMessage = st.stream.initialMessage
<1> DEFINE e == [st.end EXCEPT !.posted = <<>>, !.wire = <<>>, !.buffer = <<>>, !.received = FALSE]
           s == [st.stream EXCEPT !.tried = @ \cup {type}]
<1>1. OpenStream(st, type).end = e /\ OpenStream(st, type).stream = s
  BY DEF OpenStream, Fields
<1>2. <<>> \in Seq(Messages) /\ ToSet(<<>>) = {}
  BY DEF ToSet
<1>3. e \in EndType /\ e.action = st.end.action /\ e.handshake = st.end.handshake /\ e.posted = <<>>
  BY <1>2, EmptyTyped DEF EndType
<1>4. /\ s.connected = st.stream.connected /\ s.reconnect = st.stream.reconnect
      /\ s.initialMessage = st.stream.initialMessage
  BY DEF StreamType
<1> HIDE DEF e, s
<1> QED
  BY <1>1, <1>2, <1>3, <1>4

LEMMA WithPosted ==
    ASSUME plan \in PlanType, NEW e \in EndType, NEW parts \in {Key, Handshake}
    PROVE  /\ Post(e, parts) \in EndType
           /\ Post(e, parts).action = e.action /\ Post(e, parts).handshake = e.handshake
           /\ ToSet(Post(e, parts).posted) = ToSet(e.posted) \cup {parts}
<1>1. parts \in Messages
  BY MessagesTyped
<1>2. /\ Post(e, parts) \in EndType
      /\ Post(e, parts) = [e EXCEPT !.posted = Append(e.posted, parts)]
      /\ ToSet(Post(e, parts).posted) = ToSet(e.posted) \cup {parts}
  BY <1>1, PostTyped
<1>3. Post(e, parts).action = e.action /\ Post(e, parts).handshake = e.handshake
  BY <1>2 DEF EndType
<1> QED
  BY <1>2, <1>3

LEMMA StartEncryption ==
    ASSUME plan \in PlanType, NEW e \in EndType
    PROVE  LET x == StartProtocolEncryption(e)
           IN /\ x \in EndType /\ x.action = e.action /\ x.handshake = "Pe2"
              /\ ToSet(x.posted) = ToSet(e.posted) \cup {Key}
<1> DEFINE y == [e EXCEPT !.handshake = "Pe2"]
<1>1. y \in EndType /\ y.action = e.action /\ y.handshake = "Pe2" /\ y.posted = e.posted
  BY DEF EndType
<1>2. StartProtocolEncryption(e) = Post(y, Key)
  BY DEF StartProtocolEncryption
<1> HIDE DEF y
<1> QED
  BY <1>1, <1>2, WithPosted

LEMMA ConnectionOpenedEnd ==
    ASSUME plan \in PlanType, NEW st, DOMAIN st = Fields, st.stream \in StreamType,
           st.end \in EndType, st.end.action # "Connected"
    PROVE  LET x == ConnectionOpened(st)
           IN /\ x.end \in EndType /\ x.end.action # "Connected"
              /\ x.stream.connected /\ x.stream.reconnect = st.stream.reconnect
              /\ ~ st.stream.reconnect /\ encryption = "Require" =>
                    /\ x.end.handshake = "Pe2"
                    /\ ToSet(x.end.posted) = ToSet(st.end.posted) \cup {Key}
              /\ ~ st.stream.reconnect /\ encryption # "Require" =>
                    /\ x.end.handshake = st.end.handshake
                    /\ ToSet(x.end.posted) = ToSet(st.end.posted) \cup {Handshake}
<1> DEFINE c == [st EXCEPT !.stream.connected = TRUE]
           h == [st.end EXCEPT !.action = "Handshake"]
           none == [st.end EXCEPT !.handshake = "none"]
           first == IF encryption = "Require" THEN StartProtocolEncryption(h) ELSE Post(h, Handshake)
           second == IF st.end.handshake = "none" THEN StartProtocolEncryption(st.end)
                     ELSE Post(none, Handshake)
<1>1. /\ DOMAIN c = Fields /\ c.end = st.end
      /\ c.stream = [st.stream EXCEPT !.connected = TRUE]
  BY DEF Fields
<1> HIDE DEF c
<1>2. c.stream \in StreamType /\ c.stream.connected /\ c.stream.reconnect = st.stream.reconnect
  BY <1>1 DEF StreamType
<1>3. h \in EndType /\ h.action = "Handshake" /\ h.handshake = st.end.handshake
      /\ h.posted = st.end.posted
  BY DEF EndType
<1>4. none \in EndType /\ none.action = st.end.action
  BY DEF EndType
<1> HIDE DEF h, none
<1>5. ConnectionOpened(st) = IF st.stream.reconnect THEN SendEncryptionMethodRetry(c) ELSE WriteFirst(c)
  BY DEF ConnectionOpened, c
<1>6. /\ WriteFirst(c).end = first
      /\ WriteFirst(c).stream = [c.stream EXCEPT !.initialMessage = TRUE]
  BY <1>1 DEF WriteFirst, Fields, h
<1>7. /\ SendEncryptionMethodRetry(c).end = second
      /\ SendEncryptionMethodRetry(c).stream = [c.stream EXCEPT !.initialMessage = FALSE]
  BY <1>1 DEF SendEncryptionMethodRetry, Fields, none
<1>8. ASSUME NEW b \in BOOLEAN
      PROVE  LET s == [c.stream EXCEPT !.initialMessage = b]
             IN s.connected /\ s.reconnect = st.stream.reconnect
  BY <1>2 DEF StreamType
<1>9. first \in EndType /\ first.action # "Connected"
      /\ IF encryption = "Require"
         THEN first.handshake = "Pe2" /\ ToSet(first.posted) = ToSet(st.end.posted) \cup {Key}
         ELSE first.handshake = st.end.handshake
              /\ ToSet(first.posted) = ToSet(st.end.posted) \cup {Handshake}
  BY <1>3, WithPosted, StartEncryption
<1>10. second \in EndType /\ second.action # "Connected"
  BY <1>4, WithPosted, StartEncryption
<1> HIDE DEF first, second
<1> QED
  BY <1>5, <1>6, <1>7, <1>8, <1>9, <1>10

LEMMA PlanFixed ==
    ASSUME plan \in PlanType, [Next]_vars
    PROVE  /\ plan'.encryption = plan.encryption
           /\ SetEncryption \/ (plan'.changes = plan.changes /\ encryption' = encryption)
<1>1. ASSUME NEW n
      PROVE  \A p \in {[plan EXCEPT !.closes = n], [plan EXCEPT !.breaks = n],
                       [plan EXCEPT !.stops = n]} :
                p.encryption = plan.encryption /\ p.changes = plan.changes
  BY DEF PlanType
<1>2. CASE Close
  BY <1>1, <1>2 DEF Close
<1>3. ASSUME NEW side \in Sides, Break(side)
      PROVE  plan'.encryption = plan.encryption /\ plan'.changes = plan.changes /\ encryption' = encryption
  <2>1. plan' = [plan EXCEPT !.breaks = plan.breaks - 1] /\ encryption' = encryption
    BY <1>3 DEF Break, PostFail
  <2> QED
    BY <1>1, <2>1
<1>4. CASE StopListening
  BY <1>1, <1>4 DEF StopListening
<1>5. CASE SetEncryption
  <2>1. plan' = [plan EXCEPT !.changes = plan.changes - 1]
    BY <1>5 DEF SetEncryption
  <2> QED
    BY <1>5, <2>1 DEF PlanType
<1>6. CASE Connect \/ TellRefused \/ Connected \/ ConnectFails \/ ConnectionClosed \/ DoClose
  BY <1>6
     DEF Connect, TellRefused, Connected, ConnectFails, ConnectionClosed,
         DoClose, PostFail
<1>7. CASE \/ ReceiveOut \/ ReceiveFails \/ Accept \/ ReceiveIn \/ EndIn
           \/ \E side \in Sides : DoWrite(side)
  BY <1>7 DEF ReceiveOut, ReceiveFails, Accept, ReceiveIn, EndIn, DoWrite, PostFail
<1>8. CASE UNCHANGED vars
  BY <1>8 DEF vars
<1> QED  BY <1>2, <1>3, <1>4, <1>5, <1>6, <1>7, <1>8 DEF Next

LEMMA NewEndTyped == NewEnd \in EndType
<1>1. <<>> \in Seq(Messages)
  OBVIOUS
<1> QED
  BY <1>1, EmptyTyped DEF NewEnd, EndType

LEMMA EncInvInit == Init => EncInv
<1> SUFFICES ASSUME Init PROVE EncInv
  OBVIOUS
<1>1. ToldInv
  BY ToldInvInit
<1>2. plan.encryption \in Encryption /\ plan.changes \in 0 .. 1 /\ encryption = plan.encryption
  BY PeerStreamAssumption DEF Init
<1>3. end["out"] = NewEnd /\ end["in"] = NewEnd /\ end \in [Sides -> EndType]
  BY NewEndTyped DEF Init, Sides
<1>4. ToSet(NewEnd.posted) = {} /\ NewEnd.action = "Disconnected" /\ NewEnd.handshake = "none"
  BY DEF NewEnd, ToSet
<1> QED
  BY <1>1, <1>2, <1>3, <1>4 DEF Init, EncInv, FirstKept, FirstHonoured, Clear

\* An action that leaves the setting alone.
LEMMA HonouredAgain ==
    ASSUME FirstHonoured, plan'.encryption = plan.encryption, plan'.changes = plan.changes,
           encryption' = encryption,
           encryption \in {"Require", "Refuse"} => stream.reconnect \/ ~ stream'.reconnect,
           encryption = "Require" /\ encryption = plan.encryption =>
              /\ stream'.initialMessage => end'["out"].handshake # "none" \/ end'["out"].received
              /\ \A m \in ToSet(end'["out"].posted) : m # Handshake,
           encryption = "Refuse" /\ encryption = plan.encryption =>
              /\ end'["out"].handshake = "none"
              /\ \A m \in ToSet(end'["out"].posted) : m[1].kind # "Key"
    PROVE  FirstHonoured'
BY DEF FirstHonoured

LEMMA EncInvNext == EncInv /\ [Next]_vars => EncInv'
<1> SUFFICES ASSUME EncInv, [Next]_vars PROVE EncInv'
  OBVIOUS
<1> USE DEF EncInv
<1>0. /\ ToldInv /\ ToldInv' /\ plan \in PlanType /\ stream \in StreamType
      /\ transport \in TransportType /\ transport.state \in States
      /\ plan'.encryption = plan.encryption
      /\ SetEncryption \/ (plan'.changes = plan.changes /\ encryption' = encryption)
  BY ToldInvNext, PlanFixed DEF ToldInv, ControlTypes, TransportType
<1>1. /\ DOMAIN Current = Fields /\ Current.stream = stream /\ Current.transport = transport
      /\ Current.end = end["out"] /\ end["out"] \in EndType /\ end["in"] \in EndType
  BY DEF Current, Fields, Sides
<1>2. /\ \A m \in ToSet(end["out"].posted) : m # Handshake => m # Handshake
      /\ Handshake[1].kind = "Handshake" /\ Key[1].kind = "Key" /\ Key # Handshake
  BY <1>0, MessagesTyped
<1>3. SetEncryption => EncInv'
  <2> SUFFICES ASSUME SetEncryption PROVE EncInv'
    OBVIOUS
  <2>1. /\ UNCHANGED <<stream, transport, handling, end>>
        /\ encryption' # encryption /\ encryption' \in Encryption
        /\ plan.changes > 0 /\ plan' = [plan EXCEPT !.changes = plan.changes - 1]
    BY DEF SetEncryption
  <2>2. plan'.changes = plan.changes - 1
    BY <1>0, <2>1 DEF PlanType
  <2>3. plan'.changes = 0 /\ encryption = plan.encryption
    BY <2>1, <2>2 DEF FirstHonoured
  <2> QED
    BY <1>0, <2>1, <2>3 DEF FirstKept, FirstHonoured
<1> SUFFICES ASSUME plan'.changes = plan.changes, encryption' = encryption PROVE EncInv'
  BY <1>0, <1>3
<1>4. CASE UNCHANGED <<stream, transport, handling, end>>
  BY <1>0, <1>4 DEF FirstKept, FirstHonoured
<1>5. CASE Connect
  <2> DEFINE e == [end["out"] EXCEPT !.action = "Connecting"]
             st == [Current EXCEPT !.end.action = "Connecting"]
  <2>1. /\ DOMAIN st = Fields /\ st.stream = stream /\ st.end = e
    BY <1>1 DEF Fields
  <2>2. e \in EndType /\ e.action # "Connected" /\ e.handshake = end["out"].handshake
        /\ e.posted = end["out"].posted
    BY <1>1 DEF EndType
  <2>3. ~ stream.connected /\ ~ stream.initialMessage /\ handling = "none" /\ handling' = handling
    BY <1>0, <1>5 DEF Connect, FirstKept, ToldInv, ToldOnce, Clear
  <2> HIDE DEF st, e
  <2>4. \/ \E type \in Types : SetOutAnew(OpenStream(st, type))
        \/ SetOutAnew([st EXCEPT !.stream.refused = TRUE])
    BY <1>5 DEF Connect, Types, st
  <2>5. ASSUME NEW x, SetOutAnew(x), x.end \in EndType, x.end.action # "Connected",
               x.end.handshake = e.handshake, ToSet(x.end.posted) \subseteq ToSet(e.posted),
               x.stream.reconnect = stream.reconnect, x.stream.connected = stream.connected,
               x.stream.initialMessage = stream.initialMessage
        PROVE  EncInv'
    <3>1. stream' = x.stream /\ end' \in [Sides -> EndType] /\ end'["out"] = x.end
      BY <2>5, NewEndTyped DEF SetOutAnew, Sides
    <3>2. FirstKept'
      BY <2>3, <2>5, <3>1 DEF FirstKept
    <3>3. FirstHonoured'
      BY <1>0, <2>2, <2>3, <2>5, <3>1 DEF FirstHonoured
    <3> QED
      BY <1>0, <2>5, <3>1, <3>2, <3>3
  <2>6. CASE \E type \in Types : SetOutAnew(OpenStream(st, type))
    BY <1>0, <2>1, <2>2, <2>5, <2>6, OpenStreamEnd
  <2>7. CASE SetOutAnew([st EXCEPT !.stream.refused = TRUE])
    <3> DEFINE x == [st EXCEPT !.stream.refused = TRUE]
    <3>1. x.end = e /\ x.stream = [stream EXCEPT !.refused = TRUE]
      BY <2>1 DEF Fields
    <3>2. /\ x.stream.reconnect = stream.reconnect /\ x.stream.connected = stream.connected
          /\ x.stream.initialMessage = stream.initialMessage
      BY <1>0, <3>1 DEF StreamType
    <3> HIDE DEF x
    <3> QED
      BY <2>2, <2>5, <2>7, <3>1, <3>2 DEF x
  <2> QED
    BY <2>4, <2>6, <2>7
<1>6. CASE TellRefused
  <2>1. /\ stream'.connected = stream.connected /\ stream'.reconnect = stream.reconnect
        /\ stream'.initialMessage = stream.initialMessage /\ UNCHANGED <<handling, transport, end>>
    BY <1>0, <1>6 DEF TellRefused, StreamType
  <2> QED
    BY <1>0, <2>1 DEF FirstKept, FirstHonoured
<1>7. CASE Connected
  <2> DEFINE st == [Current EXCEPT !.transport.state = "Connected", !.transport.opened = TRUE]
             x == ConnectionOpened(st)
  <2>1. /\ DOMAIN st = Fields /\ st.stream = stream /\ st.end = end["out"]
    BY <1>1 DEF Fields
  <2>2. st.transport = [transport EXCEPT !.state = "Connected", !.opened = TRUE]
    BY <1>1 DEF Fields
  <2>3. st.transport.state = "Connected"
    BY <1>0, <2>2 DEF TransportType
  <2> HIDE DEF st
  <2>4. /\ x.end \in EndType /\ x.end.action # "Connected"
        /\ x.stream.connected /\ x.stream.reconnect = stream.reconnect
        /\ ~ stream.reconnect /\ encryption = "Require" =>
              /\ x.end.handshake = "Pe2"
              /\ ToSet(x.end.posted) = ToSet(end["out"].posted) \cup {Key}
        /\ ~ stream.reconnect /\ encryption # "Require" =>
              /\ x.end.handshake = end["out"].handshake
              /\ ToSet(x.end.posted) = ToSet(end["out"].posted) \cup {Handshake}
    BY <1>0, <1>1, <2>1, ConnectionOpenedEnd
  <2>5. x.transport = st.transport
    BY <1>0, <2>1, ConnectionOpenedIs
  <2> HIDE DEF x
  <2>6. stream' = x.stream /\ transport' = x.transport /\ end' = [end EXCEPT !["out"] = x.end]
        /\ handling' = handling /\ transport.state = "Connecting"
    BY <1>7 DEF Connected, SetOut, st, x
  <2>7. end' \in [Sides -> EndType] /\ end'["out"] = x.end /\ handling = "none"
    BY <1>0, <2>4, <2>6 DEF Sides, ToldInv, ToldOnce, Live
  <2>8. FirstKept'
    BY <2>3, <2>4, <2>5, <2>6, <2>7 DEF FirstKept
  <2>9. FirstHonoured'
    BY <1>0, <1>2, <2>4, <2>6, <2>7 DEF FirstHonoured
  <2> QED
    BY <1>0, <2>4, <2>7, <2>8, <2>9
<1>8. CASE PostFail
  <2>1. transport'.state = "Disconnected" /\ UNCHANGED <<stream, end>>
    BY <1>0, <1>8 DEF PostFail, TransportType
  <2>2. handling' = "fallback" => ~ stream.connected
    BY <1>1, <1>8 DEF PostFail, Closed
  <2> QED
    BY <1>0, <2>1, <2>2 DEF FirstKept, FirstHonoured
<1>9. CASE ConnectionClosed
  <2>0. handling' = "none"
    BY <1>9 DEF ConnectionClosed
  <2>1. ASSUME NEW st, NEW type \in Types \cup {"none"}, DOMAIN st = Fields, st.stream \in StreamType,
               st.end = end["out"], SetOutAnew(OpenStream(st, type)),
               st.stream.initialMessage = stream.initialMessage,
               st.stream.connected = stream.connected,
               st.stream.reconnect => stream.reconnect
                  \/ ~ (encryption = plan.encryption /\ encryption \in {"Require", "Refuse"}),
               encryption = plan.encryption /\ encryption = "Require" /\ stream.initialMessage =>
                  end["out"].handshake # "none"
        PROVE  EncInv'
    <3> DEFINE x == OpenStream(st, type)
    <3>1. /\ x.end \in EndType /\ ToSet(x.end.posted) = {}
          /\ x.end.action = st.end.action /\ x.end.handshake = st.end.handshake
          /\ x.stream.connected = st.stream.connected
          /\ x.stream.reconnect = st.stream.reconnect
          /\ x.stream.initialMessage = st.stream.initialMessage
      BY <1>1, <2>1, OpenStreamEnd
    <3>2. x.transport.state = "Connecting"
      BY <2>1, OpenStreamIs
    <3> HIDE DEF x
    <3>3. stream' = x.stream /\ transport' = x.transport
          /\ end' \in [Sides -> EndType] /\ end'["out"] = x.end
      BY <2>1, <3>1, NewEndTyped DEF SetOutAnew, Sides, x
    <3>4. FirstKept'
      BY <2>0, <2>1, <3>1, <3>2, <3>3 DEF FirstKept
    <3>5. FirstHonoured'
      BY <1>0, <2>1, <3>1, <3>3 DEF FirstHonoured
    <3> QED
      BY <1>0, <2>1, <3>1, <3>3, <3>4, <3>5
  <2>2. CASE /\ handling = "fallback"
             /\ SetOutAnew(OpenStream(Current, CHOOSE type \in OtherType(Current) : TRUE))
    <3>1. OtherType(Current) # {} /\ OtherType(Current) \subseteq Types
      BY <1>0, <2>2 DEF ToldInv, ControlTypes, FallbackLeft, OtherType, PlanType
    <3>2. (CHOOSE type \in OtherType(Current) : TRUE) \in Types
      BY <3>1
    <3>3. ~ stream.initialMessage
      BY <2>2 DEF FirstKept
    <3> QED
      BY <1>0, <1>1, <2>1, <2>2, <3>2, <3>3
  <2>3. CASE /\ handling = "retry" /\ Retried(Current)
             /\ SetOutAnew(OpenStream([Current EXCEPT !.stream.reconnect = TRUE], transport.type))
    <3> DEFINE s == [stream EXCEPT !.reconnect = TRUE]
               st == [Current EXCEPT !.stream.reconnect = TRUE]
    <3>1. DOMAIN st = Fields /\ st.stream = s /\ st.end = end["out"]
      BY <1>1 DEF Fields
    <3>2. s \in StreamType /\ s.initialMessage = stream.initialMessage /\ s.connected = stream.connected
      BY <1>0 DEF StreamType
    <3>3. transport.type \in Types \cup {"none"}
      BY <1>0 DEF TransportType
    <3>4. ~ (encryption = plan.encryption /\ encryption \in {"Require", "Refuse"})
      BY <1>1, <2>3 DEF Retried, FirstHonoured
    <3> HIDE DEF st, s
    <3>5. SetOutAnew(OpenStream(st, transport.type))
      BY <2>3 DEF st
    <3> QED
      BY <2>1, <3>1, <3>2, <3>3, <3>4, <3>5
  <2>4. CASE /\ stream' \in {stream, [stream EXCEPT !.initialMessage = FALSE]}
             /\ UNCHANGED <<transport, end>>
    <3>1. /\ stream'.connected = stream.connected /\ stream'.reconnect = stream.reconnect
          /\ stream'.initialMessage => stream.initialMessage
      BY <1>0, <2>4 DEF StreamType
    <3> QED
      BY <1>0, <2>0, <2>4, <3>1 DEF FirstKept, FirstHonoured
  <2> QED
    BY <1>9, <2>2, <2>3, <2>4 DEF ConnectionClosed
<1>10. CASE Close
  <2> DEFINE late == handling \in {"fallback", "retry"}
  <2>1. stream' = [stream EXCEPT !.manualClose = TRUE, !.late = late] /\ handling' = handling
    BY <1>10 DEF Close
  <2> HIDE DEF late
  <2>2. /\ stream'.connected = stream.connected /\ stream'.reconnect = stream.reconnect
        /\ stream'.initialMessage = stream.initialMessage
    BY <1>0, <2>1 DEF StreamType
  <2>3. transport' = [transport EXCEPT !.closing = transport.closing \/ transport.state \in Live]
    BY <1>10 DEF Close, CloseStream, Live
  <2>4. transport'.state = transport.state
    BY <1>0, <2>3 DEF TransportType
  <2> DEFINE e == [end["out"] EXCEPT !.action = "Disconnected"]
  <2>5. e \in EndType /\ e.action # "Connected" /\ e.handshake = end["out"].handshake
        /\ e.posted = end["out"].posted /\ e.received = end["out"].received
    BY <1>1 DEF EndType
  <2>6. end' = [end EXCEPT !["out"] = e]
    BY <1>10 DEF Close
  <2> HIDE DEF e
  <2>7. end' \in [Sides -> EndType] /\ end'["out"] = e
    BY <2>5, <2>6 DEF Sides
  <2> QED
    BY <1>0, <2>1, <2>2, <2>4, <2>5, <2>7 DEF FirstKept, FirstHonoured
<1>11. CASE ReceiveOut
  <2>1. PICK n \in DOMAIN end["out"].wire :
          LET parts == SubSeq(end["out"].wire, 1, n)
              e == [end["out"] EXCEPT !.wire = SubSeq(@, n + 1, Len(@)), !.received = TRUE]
          IN IF e.handshake # "none"
             THEN end' = [end EXCEPT !["out"] = ReceivedPeHandshake(e, parts)] /\ UNCHANGED stream
             ELSE /\ end' = [end EXCEPT !["out"] = Received(e, parts)]
                  /\ stream' = [stream EXCEPT !.initialMessage = FALSE]
    BY <1>11 DEF ReceiveOut
  <2> DEFINE wire == end["out"].wire
             parts == SubSeq(wire, 1, n)
             left == SubSeq(wire, n + 1, Len(wire))
             e == [end["out"] EXCEPT !.wire = left, !.received = TRUE]
             x == IF e.handshake # "none" THEN ReceivedPeHandshake(e, parts) ELSE Received(e, parts)
  <2>2. wire \in Messages /\ n \in 1 .. Len(wire) /\ Len(wire) \in Nat
    BY <1>1 DEF EndType, Messages
  <2>3. parts \in Messages /\ left \in Messages
    <3>1. (\A i \in 1 .. n : wire[i] \in Parts) /\ (\A i \in n + 1 .. Len(wire) : wire[i] \in Parts)
      BY <2>2 DEF Messages
    <3>2. n \in Int /\ 1 \in Int /\ n + 1 \in Int /\ Len(wire) \in Int
      BY <2>2
    <3> HIDE DEF wire
    <3> QED
      BY <3>1, <3>2, SubSeqProperties DEF Messages
  <2>4. end' = [end EXCEPT !["out"] = x] /\ stream' \in {stream, [stream EXCEPT !.initialMessage = FALSE]}
    BY <2>1
  <2> HIDE DEF left, parts, wire
  <2>5. e \in EndType /\ e.handshake = end["out"].handshake /\ e.posted = end["out"].posted
        /\ e.received = TRUE /\ e.action = end["out"].action
    BY <1>1, <2>3 DEF EndType
  <2> HIDE DEF e
  <2>6. x \in Reads(e)
    BY <1>0, <2>3, <2>5, ReceivedPeReads, ReceivedReads
  <2> HIDE DEF x
  <2>7. x \in EndType /\ x.received /\ x.action # "Connected"
        /\ (end["out"].handshake = "none" => x.handshake = "none")
        /\ \A m \in ToSet(x.posted) : m \in ToSet(end["out"].posted) \/ m[1].kind \in {"Extended", "Request"}
    BY <2>5, <2>6 DEF Reads, OnlyAnswers
  <2>8. end' \in [Sides -> EndType] /\ end'["out"] = x
    BY <2>4, <2>7 DEF Sides
  <2>9. /\ stream'.connected = stream.connected /\ stream'.reconnect = stream.reconnect
        /\ stream'.initialMessage => stream.initialMessage
    BY <1>0, <2>4 DEF StreamType
  <2>10. handling' = handling /\ transport' = transport
    BY <1>11 DEF ReceiveOut
  <2> QED
    BY <1>0, <1>2, <2>7, <2>8, <2>9, <2>10 DEF FirstKept, FirstHonoured
<1>12. CASE ReceiveIn
  <2>1. PICK n \in DOMAIN end["in"].wire :
          LET parts == SubSeq(end["in"].wire, 1, n)
              e == [end["in"] EXCEPT !.wire = SubSeq(@, n + 1, Len(@)), !.received = TRUE]
          IN SetIn(IF incoming.started THEN [incoming |-> incoming, end |-> Received(e, parts)]
                   ELSE ReadStreamData([incoming |-> incoming,
                                        end |-> [e EXCEPT !.buffer = @ \o parts]]))
    BY <1>12 DEF ReceiveIn
  <2> DEFINE wire == end["in"].wire
             parts == SubSeq(wire, 1, n)
             left == SubSeq(wire, n + 1, Len(wire))
             e == [end["in"] EXCEPT !.wire = left, !.received = TRUE]
             b == e.buffer \o parts
             y == [e EXCEPT !.buffer = b]
             x == IF incoming.started THEN Received(e, parts)
                  ELSE ReadStreamData([incoming |-> incoming, end |-> y]).end
  <2>2. wire \in Messages /\ n \in 1 .. Len(wire) /\ Len(wire) \in Nat
    BY <1>1 DEF EndType, Messages
  <2>3. parts \in Messages /\ left \in Messages
    <3>1. (\A i \in 1 .. n : wire[i] \in Parts) /\ (\A i \in n + 1 .. Len(wire) : wire[i] \in Parts)
      BY <2>2 DEF Messages
    <3>2. n \in Int /\ 1 \in Int /\ n + 1 \in Int /\ Len(wire) \in Int
      BY <2>2
    <3> HIDE DEF wire
    <3> QED
      BY <3>1, <3>2, SubSeqProperties DEF Messages
  <2>4. end' = [end EXCEPT !["in"] = x]
    BY <2>1 DEF SetIn
  <2> HIDE DEF left, parts, wire
  <2>5. e \in EndType
    BY <1>1, <2>3 DEF EndType
  <2> HIDE DEF e
  <2>6. b \in Messages
    BY <2>3, <2>5 DEF EndType, Messages
  <2>7. y \in EndType
    BY <2>5, <2>6, WithBuffer
  <2> HIDE DEF y
  <2>8. ResultTyped([incoming |-> incoming, end |-> y])
    BY <2>7 DEF ResultTyped, Results
  <2>9. x \in EndType
    <3>1. Received(e, parts) \in EndType
      BY <1>0, <2>3, <2>5, ReceivedReads DEF Reads
    <3>2. ReadStreamData([incoming |-> incoming, end |-> y]).end \in EndType
      BY <1>0, <2>8, ReadStreamTyped DEF ResultTyped
    <3> QED
      BY <3>1, <3>2
  <2> HIDE DEF x
  <2>10. end' \in [Sides -> EndType] /\ end'["out"] = end["out"]
    BY <2>4, <2>9 DEF Sides
  <2> QED
    BY <1>0, <1>12, <2>10 DEF ReceiveIn, FirstKept, FirstHonoured
<1>13. ASSUME NEW side \in Sides, DoWrite(side) PROVE EncInv'
  <2>1. PICK i \in 1 .. plan.threads :
            /\ i <= Len(end[side].posted)
            /\ end' = [end EXCEPT ![side].posted = RemoveAt(@, i),
                                  ![Other(side)].wire = @ \o end[side].posted[i]]
    BY <1>13 DEF DoWrite
  <2>2. UNCHANGED <<stream, transport, handling>>
    BY <1>13 DEF DoWrite
  <2> DEFINE posted == end[side].posted
             other == Other(side)
             new == RemoveAt(posted, i)
             wire == end[other].wire \o posted[i]
  <2>3. other \in Sides /\ other # side /\ end[side] \in EndType /\ end[other] \in EndType
    BY <1>1 DEF Sides, Other
  <2>4. posted \in Seq(Messages) /\ i \in 1 .. Len(posted)
    BY <1>0, <2>1, <2>3 DEF EndType, PlanType
  <2>5. new \in Seq(Messages) /\ ToSet(new) \subseteq ToSet(posted)
    <3> HIDE DEF posted
    <3>1. new \in Seq(Messages) /\ Range(new) \subseteq Range(posted)
      BY <2>4, RemoveAtFacts
    <3>2. ToSet(new) = Range(new) /\ ToSet(posted) = Range(posted)
      BY DEF ToSet, Range
    <3> QED
      BY <3>1, <3>2
  <2>6. wire \in Messages
    <3>1. posted[i] \in Messages /\ end[other].wire \in Messages
      BY <2>3, <2>4 DEF EndType
    <3> QED
      BY <3>1 DEF Messages
  <2>7. end' = [end EXCEPT ![side] = [end[side] EXCEPT !.posted = new],
                           ![other] = [end[other] EXCEPT !.wire = wire]]
    BY <2>1, <2>3
  <2> HIDE DEF new, wire, other, posted
  <2>8. [end[side] EXCEPT !.posted = new] \in EndType /\ [end[other] EXCEPT !.wire = wire] \in EndType
    BY <2>3, <2>5, <2>6 DEF EndType
  <2>9. /\ end' \in [Sides -> EndType]
        /\ end'[side] = [end[side] EXCEPT !.posted = new]
        /\ end'[other] = [end[other] EXCEPT !.wire = wire]
    BY <2>3, <2>7, <2>8
  <2>10. /\ end'["out"].action = end["out"].action /\ end'["out"].handshake = end["out"].handshake
         /\ end'["out"].received = end["out"].received
         /\ ToSet(end'["out"].posted) \subseteq ToSet(end["out"].posted)
    <3>1. CASE side = "out"
      BY <2>3, <2>5, <2>9, <3>1 DEF EndType, posted
    <3>2. CASE other = "out"
      BY <2>3, <2>9, <3>2 DEF EndType
    <3> QED
      BY <2>3, <3>1, <3>2 DEF Sides
  <2> QED
    BY <1>0, <2>2, <2>9, <2>10 DEF FirstKept, FirstHonoured
<1>14. ASSUME NEW side \in Sides, Break(side) PROVE EncInv'
  BY <1>4, <1>8, <1>14 DEF Break
<1>15. CASE ConnectFails \/ DoClose \/ ReceiveFails
  BY <1>8, <1>15 DEF ConnectFails, DoClose, ReceiveFails
<1>16. CASE Accept \/ EndIn \/ StopListening \/ UNCHANGED vars
  BY <1>4, <1>16 DEF Accept, EndIn, StopListening, vars
<1> QED
  BY <1>3, <1>5, <1>6, <1>7, <1>9, <1>10, <1>11, <1>12, <1>13, <1>14, <1>15,
     <1>16 DEF Next

\* With Require no handshake leaves unencrypted and with Refuse no key exchange
\* begins, whatever was tried before, as long as the setting is the one the
\* connection began with: by the end that connects (PeerStream.cpp:60-89, 375-415).
THEOREM EncryptionIsHonoured == Spec => EncryptionHonoured
<1>1. EncInv /\ EncInv' /\ [Next]_vars =>
        [encryption = plan.encryption =>
            /\ encryption = "Require" => ~ Posts(Handshake)
            /\ encryption = "Refuse" => ~ Posts(Key)]_vars
  <2> SUFFICES ASSUME EncInv, EncInv', [Next]_vars, encryption = plan.encryption
               PROVE  /\ encryption = "Require" => ~ Posts(Handshake)
                      /\ encryption = "Refuse" => ~ Posts(Key)
    OBVIOUS
  <2>1. plan \in PlanType
    BY DEF EncInv, ToldInv, ControlTypes
  <2>2. CASE SetEncryption
    BY <2>2 DEF SetEncryption, Posts
  <2>3. CASE encryption' = encryption /\ plan'.encryption = plan.encryption
    <3>1. Key[1].kind = "Key"
      BY <2>1, MessagesTyped
    <3> QED
      BY <2>3, <3>1 DEF EncInv, FirstHonoured, Posts
  <2> QED
    BY <2>1, <2>2, <2>3, PlanFixed
<1> QED
  BY <1>1, EncInvInit, EncInvNext, PTL DEF Spec, EncryptionHonoured

\* Only what is enabled is ever tried.
TriedEnabled ==
    /\ stream.tried \subseteq plan.types
    /\ transport.state # "Clear" => transport.type \in plan.types

LEMMA TriedNext == EncInv /\ TriedEnabled /\ [Next]_vars => TriedEnabled'
<1> SUFFICES ASSUME EncInv, TriedEnabled, [Next]_vars PROVE TriedEnabled'
  OBVIOUS
<1>0. /\ plan \in PlanType /\ stream \in StreamType /\ transport \in TransportType
      /\ ToldInv /\ plan'.types = plan.types
      /\ DOMAIN Current = Fields /\ Current.stream = stream /\ Current.transport = transport
  BY PlanKept DEF EncInv, ToldInv, ControlTypes, Current, Fields
<1>1. ASSUME stream'.tried = stream.tried, transport'.type = transport.type,
             transport.state = "Clear" => transport'.state = "Clear"
      PROVE  TriedEnabled'
  BY <1>0, <1>1 DEF TriedEnabled
<1>2. ASSUME NEW st, DOMAIN st = Fields, st.stream \in StreamType, st.stream.tried = stream.tried,
             NEW type \in plan.types, SetOutAnew(OpenStream(st, type))
      PROVE  TriedEnabled'
  <2> DEFINE s == [st.stream EXCEPT !.tried = st.stream.tried \cup {type}]
  <2>1. OpenStream(st, type).stream = s
        /\ OpenStream(st, type).transport = [Clear EXCEPT !.type = type, !.state = "Connecting"]
    BY <1>2 DEF OpenStream, Fields
  <2>2. s.tried = stream.tried \cup {type}
    BY <1>2 DEF StreamType
  <2>3. stream'.tried = stream.tried \cup {type} /\ transport'.type = type
    BY <1>2, <2>1, <2>2 DEF SetOutAnew, Clear
  <2> QED
    BY <1>0, <1>2, <2>3 DEF TriedEnabled
<1>3. CASE Connect
  <2> DEFINE st == [Current EXCEPT !.end.action = "Connecting"]
             x == [st EXCEPT !.stream.refused = TRUE]
  <2>1. DOMAIN st = Fields /\ st.stream = stream /\ st.transport = transport
    BY <1>0 DEF Fields
  <2> HIDE DEF st
  <2>2. \/ "Utp" \in plan.types /\ SetOutAnew(OpenStream(st, "Utp"))
        \/ "Tcp" \in plan.types /\ SetOutAnew(OpenStream(st, "Tcp"))
        \/ SetOutAnew(x)
    BY <1>3 DEF Connect, st
  <2>3. CASE SetOutAnew(x)
    <3>1. x.stream = [stream EXCEPT !.refused = TRUE] /\ x.transport = transport
      BY <2>1 DEF Fields
    <3>2. x.stream.tried = stream.tried
      BY <1>0, <3>1 DEF StreamType
    <3> HIDE DEF x
    <3> QED
      BY <1>1, <2>3, <3>1, <3>2 DEF SetOutAnew
  <2> QED
    BY <1>0, <1>2, <2>1, <2>2, <2>3
<1>4. CASE Connected
  <2> DEFINE st == [Current EXCEPT !.transport.state = "Connected", !.transport.opened = TRUE]
             c == [st EXCEPT !.stream.connected = TRUE]
             t == [transport EXCEPT !.state = "Connected", !.opened = TRUE]
             s == [stream EXCEPT !.connected = TRUE]
  <2>1. DOMAIN c = Fields /\ c.stream = s /\ c.transport = t /\ s.tried = stream.tried
        /\ s \in StreamType
    BY <1>0 DEF Fields, StreamType
  <2>2. ConnectionOpened(st) \in {SendEncryptionMethodRetry(c), WriteFirst(c)}
    BY DEF ConnectionOpened
  <2>3. stream' = ConnectionOpened(st).stream /\ transport' = ConnectionOpened(st).transport
        /\ transport.state = "Connecting"
    BY <1>4 DEF Connected, SetOut
  <2> HIDE DEF c, st, s, t
  <2>4. \E b \in BOOLEAN : stream' = [s EXCEPT !.initialMessage = b]
    BY <2>1, <2>2, <2>3 DEF SendEncryptionMethodRetry, WriteFirst, Fields
  <2>5. transport' = t
    BY <2>1, <2>2, <2>3 DEF SendEncryptionMethodRetry, WriteFirst, Fields
  <2>6. stream'.tried = stream.tried
    BY <2>1, <2>4 DEF StreamType
  <2>7. t.type = transport.type
    BY <1>0 DEF t, TransportType
  <2> QED
    BY <1>1, <2>3, <2>5, <2>6, <2>7
<1>5. CASE ConnectionClosed
  <2>1. CASE /\ handling = "fallback"
             /\ SetOutAnew(OpenStream(Current, CHOOSE type \in OtherType(Current) : TRUE))
    <3>1. OtherType(Current) # {} /\ OtherType(Current) \subseteq plan.types
      BY <1>0, <2>1 DEF ToldInv, FallbackLeft, OtherType
    <3>2. (CHOOSE type \in OtherType(Current) : TRUE) \in plan.types
      BY <3>1
    <3> QED
      BY <1>0, <1>2, <2>1, <3>2
  <2>2. CASE SetOutAnew(OpenStream([Current EXCEPT !.stream.reconnect = TRUE], transport.type))
             /\ handling = "retry"
    <3> DEFINE s == [stream EXCEPT !.reconnect = TRUE]
               st == [Current EXCEPT !.stream.reconnect = TRUE]
    <3>1. DOMAIN st = Fields /\ st.stream = s
      BY <1>0 DEF Fields
    <3>2. s \in StreamType /\ s.tried = stream.tried
      BY <1>0 DEF StreamType
    <3>3. transport.type \in plan.types
      BY <1>0, <2>2 DEF TriedEnabled, ToldInv, ToldOnce
    <3> HIDE DEF st, s
    <3>4. SetOutAnew(OpenStream(st, transport.type))
      BY <2>2 DEF st
    <3> QED
      BY <1>2, <3>1, <3>2, <3>3, <3>4
  <2>3. CASE stream' \in {stream, [stream EXCEPT !.initialMessage = FALSE]} /\ UNCHANGED transport
    <3>1. stream'.tried = stream.tried
      BY <1>0, <2>3 DEF StreamType
    <3> QED
      BY <1>1, <2>3, <3>1
  <2> QED
    BY <1>5, <2>1, <2>2, <2>3 DEF ConnectionClosed
<1>6. CASE Close
  <2> DEFINE late == handling \in {"fallback", "retry"}
             closing == transport.closing \/ transport.state \in {"Connecting", "Connected"}
  <2>1. stream' = [stream EXCEPT !.manualClose = TRUE, !.late = late]
        /\ transport' = [transport EXCEPT !.closing = closing]
    BY <1>6 DEF Close, CloseStream
  <2> HIDE DEF late, closing
  <2> QED
    BY <1>0, <1>1, <2>1 DEF StreamType, TransportType
<1>7. CASE PostFail /\ transport.state # "Clear"
  <2>1. /\ transport' = [transport EXCEPT !.state = "Disconnected", !.closing = FALSE]
        /\ stream' = stream
    BY <1>7 DEF PostFail
  <2>2. transport'.type = transport.type
    BY <1>0, <2>1 DEF TransportType
  <2> QED
    BY <1>1, <1>7, <2>1, <2>2
<1>8. CASE TellRefused \/ ReceiveOut
  <2>1. stream'.tried = stream.tried /\ transport' = transport
    BY <1>0, <1>8 DEF TellRefused, ReceiveOut, StreamType
  <2> QED
    BY <1>1, <2>1
<1>9. CASE UNCHANGED <<stream, transport>>
  BY <1>1, <1>9
<1>10. CASE \E side \in Sides : DoWrite(side) \/ Break(side)
  BY <1>7, <1>9, <1>10 DEF DoWrite, Break, IsConnected
<1>11. CASE ConnectFails \/ DoClose \/ ReceiveFails
  BY <1>0, <1>7, <1>11 DEF ConnectFails, DoClose, ReceiveFails, IsConnected, ToldInv, ToldOnce, Live
<1>12. CASE Accept \/ ReceiveIn \/ EndIn \/ StopListening \/ SetEncryption \/ UNCHANGED vars
  BY <1>9, <1>12 DEF Accept, ReceiveIn, EndIn, StopListening, SetEncryption, vars
<1> QED
  BY <1>3, <1>4, <1>5, <1>6, <1>8, <1>10, <1>11, <1>12 DEF Next

\* Every variable keeps its type: no key stream runs backwards, and no transport
\* is tried that is not enabled (PeerStream::open, connectionClosed).
THEOREM StreamTypesHold == Spec => []TypeOK
<1>1. Init => TriedEnabled
  BY DEF Init, TriedEnabled, Clear
<1>2. EncInv /\ TriedEnabled => TypeOK
  <2> SUFFICES ASSUME EncInv, TriedEnabled PROVE TypeOK
    OBVIOUS
  <2>1. stream \in [tried : SUBSET plan.types, connected : BOOLEAN, reconnect : BOOLEAN,
                    initialMessage : BOOLEAN, manualClose : BOOLEAN, late : BOOLEAN, refused : BOOLEAN]
    BY DEF EncInv, ToldInv, ControlTypes, StreamType, TriedEnabled
  <2>2. \A side \in Sides :
           /\ end[side].action \in {"Disconnected", "Connecting", "Connected", "Handshake", "Established"}
           /\ end[side].ext \in {"Disabled", "Handshake", "Enabled"}
           /\ end[side].handshake \in {"none", "Pe2", "Pe3", "Pe4", "Error"}
           /\ end[side].rcIn \in Nat /\ end[side].rcOut \in Nat
    BY DEF EncInv, EndType
  <2> QED
    BY <2>1, <2>2 DEF EncInv, ToldInv, ControlTypes, TypeOK, TransportType, IncomingType, States
<1> QED
  BY <1>1, <1>2, EncInvInit, EncInvNext, TriedNext, PTL DEF Spec

===============================================================================
