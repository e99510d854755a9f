---------------------------------- MODULE Utp ----------------------------------
(***************************************************************************)
(* mtt::utp::Stream and mtt::utp::Manager: one connecting stream and the    *)
(* streams its SYNs open at the other end, over a network that loses,       *)
(* duplicates and reorders packets.                                         *)
(*                                                                          *)
(* Sequence numbers have IdSpace values (2^16 in the code).  A packet holds *)
(* one unit of data, and sizes count units (the search for the MTU is left  *)
(* out).  There is no clock: a timeout may come whenever no packet is on    *)
(* its way (copies of packets stand for the early ones), and the silence of *)
(* MaxStreamTimeout that closes a stream at any time.                       *)
(***************************************************************************)
EXTENDS Integers, Sequences, FiniteSets, SequencesExt

CONSTANTS
    Listeners,                  \* streams that SYNs may open: 1 .. Listeners
    IdSpace,                    \* number of sequence numbers
    WndSize,                    \* receiving.wnd_size, the same at both ends
    MaxDuplicateAckBeforeResend,
    Environments                \* what may happen around the streams

Types == {"SYN", "STATE", "DATA", "FIN", "RESET"}

Connector == 0
Ends == 0 .. Listeners

ASSUME BoundsAssumption ==
    /\ Listeners \in Nat \ {0} /\ IdSpace \in Nat /\ IdSpace > 3
    /\ WndSize \in Nat \ {0} /\ MaxDuplicateAckBeforeResend \in Nat
    /\ Environments \subseteq
          [first : [Ends -> 0 .. IdSpace - 1],  \* first sequence numbers
           units : [Ends -> Nat],               \* bound: units written by each end
           losses : [Types -> Nat],             \* bound: packets lost
           copies : [Types -> Nat],             \* bound: packets doubled
           finish : SUBSET Ends,                \* ends that finish with FIN or RESET
           close : SUBSET Ends]                 \* bound: ends closed by their owner

VARIABLES
    streams,    \* Manager::streams of both ends: the streams that get packets
    stream,     \* state of each stream
    closing,    \* streams whose close is posted
    network,
    env         \* what is still to happen of one of Environments

vars == <<streams, stream, closing, network, env>>

PeersOf == [e \in Ends |-> IF e = Connector THEN 1 .. Listeners ELSE {Connector}]

Next16(id) == (id + 1) % IdSpace
Distance(from, to) == (to - from) % IdSpace
IdLowerThan(l, r) == Distance(l, r) < Distance(r, l)
IdHigherThan(l, r) == Distance(l, r) > Distance(r, l)

-------------------------------------------------------------------------------
(* Functions of the state `s' of a stream; s.out holds the packets written.  *)

Packet(type, seq, ack, sack, data) ==
    [type |-> type, seq |-> seq, ack |-> ack, sack |-> sack, data |-> data]

NoData == <<Connector, 0>>

\* Sequence numbers received after the missing ones.  They are looked for from
\* ack + 2 on: a front that is not above that hides the others.
SelectiveAcks(s) ==
    IF s.receivedData # <<>> /\ IdHigherThan(s.receivedData[1].seq, Next16(s.ack))
    THEN {d.seq : d \in Range(s.receivedData)} ELSE {}

SendSyn(s) ==
    [s EXCEPT !.out = @ \cup {Packet("SYN", s.sequence, s.ack, {}, NoData)},
              !.sequence = Next16(@)]

SendState(s) ==
    [s EXCEPT !.out = @ \cup
        {Packet("STATE", s.sequence, s.ack, SelectiveAcks(s), NoData)}]

SendFin(s) ==
    [s EXCEPT !.out = @ \cup
        {Packet("FIN", s.sequence, s.eofAck, SelectiveAcks(s), NoData)}]

SendData(s, unit) ==
    [s EXCEPT
        !.out = @ \cup {Packet("DATA", s.sequence, s.ack, {}, unit)},
        !.sentData = Append(@, [seq |-> s.sequence, data |-> unit,
                                resent |-> FALSE, needResend |-> FALSE]),
        !.sequence = Next16(@)]

SendAll(s, units) == FoldLeft(SendData, s, units)

\* Packets at the head of the unacknowledged ones for which Test holds.
LeadingCount(sent, Test(_)) ==
    Cardinality({n \in DOMAIN sent : \A m \in 1 .. n : Test(sent[m])})

\* Mutated form of ResendPackets: what was sent twice is never sent again.
ResendPacketsOnce(s, last) ==
    LET n == LeadingCount(s.sentData, LAMBDA p : ~ IdHigherThan(p.seq, last))
        again == {k \in 1 .. n : ~ s.sentData[k].resent}
    IN [s EXCEPT
          !.out = @ \cup {Packet("DATA", s.sentData[k].seq, s.ack, {},
                                 s.sentData[k].data) : k \in again},
          !.sentData = [k \in DOMAIN @ |->
                IF k \in again
                THEN [@[k] EXCEPT !.resent = TRUE, !.needResend = FALSE] ELSE @[k]],
          !.duplicateAcks = 0]

ResendPackets(s, last) ==
    LET n == LeadingCount(s.sentData, LAMBDA p : ~ IdHigherThan(p.seq, last))
        again == {k \in 1 .. n : ~ s.sentData[k].resent \/ s.sentData[k].needResend}
    IN [s EXCEPT
          !.out = @ \cup {Packet("DATA", s.sentData[k].seq, s.ack, {},
                                 s.sentData[k].data) : k \in again},
          !.sentData = [k \in DOMAIN @ |->
                IF k \in again
                THEN [@[k] EXCEPT !.resent = TRUE, !.needResend = FALSE] ELSE @[k]],
          !.duplicateAcks = 0]

\* Everything up to the acknowledged number is done.
AckSentData(s, header) ==
    LET acked == LeadingCount(s.sentData,
                              LAMBDA p : ~ IdHigherThan(p.seq, header.ack))
    IN IF acked > 0
       THEN [s EXCEPT !.sentData = SubSeq(@, acked + 1, Len(@)),
                      !.duplicateAcks = 0, !.lastAck = header.ack]
       ELSE IF header.type # "DATA" /\ s.lastAck = header.ack
       THEN [s EXCEPT !.duplicateAcks = @ + 1]
       ELSE s

\* handleExtension: packets behind the missing ones are done; when there are
\* many of them, what is missing before the last few is sent again.
AckSelected(s, header) ==
    LET Behind(seq) == {x \in header.sack : Distance(header.ack, x) > Distance(header.ack, seq)}
        rest == [s EXCEPT !.sentData = SelectSeq(@, LAMBDA p : p.seq \notin header.sack)]
    IN IF Cardinality(header.sack) > MaxDuplicateAckBeforeResend
       THEN LET third == CHOOSE x \in header.sack :
                            Cardinality(Behind(x)) = MaxDuplicateAckBeforeResend
            IN ResendPackets(rest, (third - 1) % IdSpace)
       ELSE rest

\* flushSendData: lost packets first, then as much as the window of the peer.
FlushSendData(s) ==
    LET need == LeadingCount(s.sentData, LAMBDA p : p.needResend)
        again == IF s.duplicateAcks > MaxDuplicateAckBeforeResend
                 THEN ResendPackets(s, Next16(s.lastAck))
                 ELSE IF need > 0
                 THEN ResendPackets(s, (s.lastAck + need) % IdSpace)
                 ELSE s
        n == IF WndSize < Len(s.prepared) THEN WndSize ELSE Len(s.prepared)
    IN [SendAll(again, SubSeq(s.prepared, 1, n))
           EXCEPT !.prepared = SubSeq(@, n + 1, Len(@))]

Connected(s, header) ==
    IF s.step \notin {"SYN_SEND", "SYN_RECV"} THEN s
    ELSE [s EXCEPT !.ack = IF s.step = "SYN_SEND" THEN (header.seq - 1) % IdSpace ELSE @,
                   !.step = "CONNECTED", !.lastAck = header.ack]

TooOld(s, header) == header.type = "DATA" /\ IdLowerThan(header.seq, s.ack)

UpdateState(s, header) ==
    FlushSendData(AckSelected(Connected(AckSentData(s, header), header), header))

FlushFirst(s, n) ==
    [s EXCEPT !.buffer = @ \o [k \in 1 .. n |-> s.receivedData[k].data],
              !.ack = IF n > 0 THEN s.receivedData[n].seq ELSE @,
              !.receivedData = SubSeq(@, n + 1, Len(@))]

\* Mutated form of FlushReceivedData: a packet behind a gap is taken too.
FlushReceivedDataGap(s) == FlushFirst(s, Len(s.receivedData))

\* flushReceivedData compares with ack + 1 in 32 bits: a packet that waits with
\* number 0 is never next.
FlushReceivedData(s) ==
    FlushFirst(s, Cardinality({n \in DOMAIN s.receivedData :
                      \A m \in 1 .. n : s.receivedData[m].seq = s.ack + m}))

AppendReceiveBuffer(s, header) ==
    [s EXCEPT !.buffer = Append(@, header.data), !.ack = Next16(@)]

StoreReceivedData(s, header) ==
    LET before == LeadingCount(s.receivedData, LAMBDA d : ~ IdHigherThan(d.seq, header.seq))
    IN IF \E d \in Range(s.receivedData) : d.seq = header.seq THEN s
       ELSE [s EXCEPT !.receivedData =
                InsertAt(@, before + 1, [seq |-> header.seq, data |-> header.data])]

\* What a data packet does once updateState has taken it.
HandleData(s, header) ==
    IF s.step = "CLOSED" THEN s
    ELSE IF header.seq = Next16(s.ack)
    THEN [FlushReceivedData(AppendReceiveBuffer(s, header))
             EXCEPT !.received = TRUE, !.appended = TRUE]
    ELSE IF IdHigherThan(header.seq, s.ack)
    THEN [StoreReceivedData(s, header) EXCEPT !.received = TRUE]
    ELSE s

AtEof(s) == s.step # "CLOSED" /\ Next16(s.ack) = s.eofAck

HandleFin(s, header) ==
    IF s.step = "CLOSED" THEN s
    ELSE [s EXCEPT !.eofAck = header.seq, !.step = "CLOSING",
                   !.prepared = <<>>, !.sentData = <<>>]

-------------------------------------------------------------------------------
(* Actions. *)

\* Stream e is now `s'; what it wrote is on its way.
Set(e, s) ==
    stream' = [stream EXCEPT ![e] = [s EXCEPT !.out = {}]]

Sent(e, s) == {[to |-> PeersOf[e], header |-> h] : h \in s.out}

Write(e) ==
    LET s == stream[e]
        unit == <<e, s.written + 1>>
        full == WndSize < Len(s.sentData) \/ s.prepared # <<>>
        next == IF full THEN [s EXCEPT !.prepared = Append(@, unit)] ELSE SendData(s, unit)
        done == [next EXCEPT !.written = @ + 1]
    IN /\ s.step \in {"CONNECTED", "CLOSING"}
       /\ s.written < env.units[e]
       /\ Set(e, done)
       /\ network' = network \cup Sent(e, done)
       /\ UNCHANGED <<streams, closing, env>>

\* connectStream and connect
Connect ==
    LET s == SendSyn([stream[Connector] EXCEPT !.step = "SYN_SEND"])
    IN /\ stream[Connector].step = "CLEAN"
       /\ Set(Connector, s)
       /\ streams' = streams \cup {Connector}
       /\ network' = network \cup Sent(Connector, s)
       /\ UNCHANGED <<closing, env>>

\* The network delivers p, or a copy of it, and takes what stream e, now `s', sent.
Deliver(p, e, s) ==
    \/ network' = (network \ {p}) \cup Sent(e, s) /\ UNCHANGED env
    \/ /\ env.copies[p.header.type] > 0
       /\ env' = [env EXCEPT !.copies[p.header.type] = @ - 1]
       /\ network' = network \cup Sent(e, s)

\* findStream: several streams of one id and endpoint are asked in the order
\* in which they were added.
Receiver(p) ==
    {e \in p.to \cap streams : \A f \in p.to \cap streams : e <= f}

\* onNewConnection and connectRemote: a SYN never finds a stream, since the
\* stream it opened has the next id.
AcceptSyn(p, e) ==
    LET header == p.header
        s == SendState([stream[e] EXCEPT !.step = "SYN_RECV", !.ack = header.seq])
    IN /\ header.type = "SYN"
       /\ e \in p.to /\ stream[e].step = "CLEAN"
       /\ \A f \in p.to : stream[f].step = "CLEAN" => e <= f
       /\ streams' = streams \cup {e}
       /\ Set(e, s)
       /\ Deliver(p, e, s)
       /\ UNCHANGED <<closing>>

Received(p, e, s, close) ==
    /\ e \in Receiver(p)
    /\ Set(e, s)
    /\ closing' = IF close THEN closing \cup {e} ELSE closing
    /\ Deliver(p, e, s)
    /\ UNCHANGED streams

ReadState(p, e) ==
    /\ p.header.type = "STATE"
    /\ Received(p, e, UpdateState(stream[e], p.header), FALSE)

ReadData(p, e) ==
    LET s == stream[e]
        t == HandleData(UpdateState(s, p.header), p.header)
        eof == t.received /\ t.step = "CLOSING" /\ AtEof(t)
    IN /\ p.header.type = "DATA"
       /\ IF TooOld(s, p.header) THEN Received(p, e, s, FALSE)
          ELSE Received(p, e, IF eof THEN SendFin(t) ELSE t, eof)

ReadFin(p, e) ==
    LET s == HandleFin(stream[e], p.header)
    IN /\ p.header.type = "FIN"
       /\ Received(p, e, IF AtEof(s) THEN SendFin(s) ELSE s, AtEof(s))

ReadReset(p, e) ==
    /\ p.header.type = "RESET"
    /\ Received(p, e, [stream[e] EXCEPT !.prepared = <<>>, !.sentData = <<>>],
                stream[e].step # "CLOSED")

\* readFinish, after a batch of packets
ReadFinish(e) ==
    LET s == stream[e]
        t == IF s.received THEN SendState(s) ELSE s
        open == s.step # "CLOSED"
    IN /\ s.received \/ s.appended
       /\ Set(e, [t EXCEPT
              !.received = FALSE, !.appended = FALSE,
              !.buffer = IF s.appended /\ open THEN <<>> ELSE @,
              !.delivered = IF s.appended /\ open THEN @ \o s.buffer ELSE @])
       /\ network' = network \cup Sent(e, t)
       /\ UNCHANGED <<streams, closing, env>>

\* close, as posted
Closed(e) ==
    /\ e \in closing
    /\ closing' = closing \ {e}
    /\ stream' = [stream EXCEPT ![e].step = "CLOSED"]
    /\ UNCHANGED <<streams, network, env>>

\* The upper layer closes its stream, or refresh does, when nothing came for
\* MaxStreamTimeout.
Close(e) ==
    /\ e \in env.close
    /\ stream[e].step \notin {"CLEAN", "CLOSED"}
    /\ closing' = closing \cup {e}
    /\ UNCHANGED <<streams, stream, network, env>>

\* refresh after packetTimeout: what was sent is sent again, the first packet
\* at once.  A SYN or its answer is sent again once.
RefreshTimeout(e) ==
    LET s == stream[e]
        marked == [s EXCEPT !.sentData =
                      [k \in DOMAIN @ |-> [@[k] EXCEPT !.needResend = TRUE]]]
        t == IF s.sentData # <<>> THEN ResendPackets(marked, s.sentData[1].seq)
             ELSE IF s.step = "SYN_SEND" THEN SendSyn(s)
             ELSE IF s.step = "SYN_RECV" THEN SendState(s) ELSE s
        close == \/ s.step = "CLOSING"
                 \/ s.step \in {"SYN_SEND", "SYN_RECV"} /\ s.sentData = <<>> /\ s.timedOut
    IN /\ s.step \notin {"CLEAN", "CLOSED"} /\ network = {}
       /\ IF close
          THEN closing' = closing \cup {e} /\ UNCHANGED <<stream, network>>
          ELSE /\ Set(e, [t EXCEPT !.timedOut = TRUE])
               /\ network' = network \cup Sent(e, t)
               /\ UNCHANGED closing
       /\ UNCHANGED <<streams, env>>

\* refresh of a closed stream: the manager forgets it.
Erase(e) ==
    /\ e \in streams /\ stream[e].step = "CLOSED"
    /\ streams' = streams \ {e}
    /\ UNCHANGED <<stream, closing, network, env>>

-------------------------------------------------------------------------------
(* The network, and peers that finish: this code answers FIN and RESET but    *)
(* sends neither on its own.                                                  *)

Lose(p) ==
    /\ env.losses[p.header.type] > 0
    /\ env' = [env EXCEPT !.losses[p.header.type] = @ - 1]
    /\ network' = network \ {p}
    /\ UNCHANGED <<streams, stream, closing>>

\* Nobody has the stream any more (or Listeners streams have been opened).
Ignore(p) ==
    /\ IF p.header.type = "SYN" THEN \A e \in p.to : stream[e].step # "CLEAN"
                                ELSE Receiver(p) = {}
    /\ network' = network \ {p}
    /\ UNCHANGED <<streams, stream, closing, env>>

Finish(e) ==
    LET s == stream[e] IN
    /\ e \in env.finish /\ s.step = "CONNECTED"
    /\ s.written = env.units[e] /\ s.prepared = <<>>
    /\ env' = [env EXCEPT !.finish = @ \ {e}]
    /\ \E type \in {"FIN", "RESET"} :
          network' = network \cup
              {[to |-> PeersOf[e], header |-> Packet(type, s.sequence, s.ack, {}, NoData)]}
    /\ UNCHANGED <<streams, stream, closing>>

-------------------------------------------------------------------------------
Clean(sequence) ==
    [step |-> "CLEAN", sequence |-> sequence, ack |-> 0, lastAck |-> 0, eofAck |-> 0,
     duplicateAcks |-> 0, timedOut |-> FALSE,
     prepared |-> <<>>, sentData |-> <<>>, receivedData |-> <<>>, buffer |-> <<>>,
     received |-> FALSE, appended |-> FALSE, out |-> {},
     written |-> 0, delivered |-> <<>>]

Init ==
    /\ streams = {} /\ closing = {} /\ network = {}
    /\ env \in Environments
    /\ stream = [e \in Ends |-> Clean(env.first[e])]

Read(p, e) ==
    AcceptSyn(p, e) \/ ReadState(p, e) \/ ReadData(p, e) \/ ReadFin(p, e) \/ ReadReset(p, e)

Next ==
    \/ Connect
    \/ \E e \in Ends :
          \/ Write(e) \/ ReadFinish(e) \/ Closed(e) \/ Close(e) \/ Erase(e)
          \/ RefreshTimeout(e) \/ Finish(e)
          \/ \E p \in network : Read(p, e)
    \/ \E p \in network : Lose(p) \/ Ignore(p)

Spec == Init /\ [][Next]_vars

\* The network delivers, the UDP receiver reports the end of each batch, posted
\* closes run, and Manager::refresh comes every 500 ms.
Fairness ==
    /\ \A e \in Ends :
          /\ WF_vars(\E p \in network : Read(p, e))
          /\ WF_vars(ReadFinish(e))
          /\ WF_vars(Closed(e))
          /\ WF_vars(stream[e].sentData # <<>> /\ RefreshTimeout(e))
    /\ WF_vars(\E p \in network : Ignore(p))

FairSpec == Spec /\ Fairness

-------------------------------------------------------------------------------
(* Properties. *)

\* The state keeps its shape, what waits for an acknowledgement is in order and
\* below the next number (ackSentDataBuffer counts on it), and what waits for
\* missing packets is above the last number received (receivedData), but for
\* number 0, which flushReceivedData leaves behind.
TypeOK ==
    /\ streams \subseteq Ends /\ closing \subseteq Ends
    /\ \A e \in Ends :
          LET s == stream[e] IN
          /\ s.step \in {"CLEAN", "SYN_SEND", "SYN_RECV", "CONNECTED", "CLOSING", "CLOSED"}
          /\ {s.sequence, s.ack, s.lastAck, s.eofAck} \subseteq 0 .. IdSpace - 1
          /\ \A k \in DOMAIN s.sentData :
                /\ s.sentData[k].seq \in 0 .. IdSpace - 1
                /\ \A l \in k + 1 .. Len(s.sentData) :
                      IdLowerThan(s.sentData[k].seq, s.sentData[l].seq)
                /\ IdLowerThan(s.sentData[k].seq, s.sequence)
          /\ \A d \in Range(s.receivedData) : d.seq = 0 \/ IdHigherThan(d.seq, s.ack)

\* Whatever is lost, doubled or reordered, an end reads the units its peer wrote,
\* in order and each once, and nothing more once it is closed: uTP keeps the
\* promise PeerCommunication relies on.  The buffers behind it keep their shape.
Unordered == INSTANCE Channel WITH
    wrote <- [e \in Ends |-> stream[e].written],
    read <- [e \in Ends |-> stream[e].delivered],
    open <- [e \in Ends |-> stream[e].step # "CLOSED"]
InOrder == Unordered!ChannelSpec /\ []TypeOK

SentUnits(e) == stream[e].written - Len(stream[e].prepared)

\* The connection stays up, no second SYN opened another stream, and no sequence
\* number wrapped.
Undisturbed ==
    /\ \A e \in {Connector, 1} : /\ stream[e].step = "CONNECTED"
                               /\ env.first[e] + stream[e].written + 1 < IdSpace
    /\ \A e \in Ends \ {Connector, 1} : stream[e].step = "CLEAN"

\* Every unit that was sent is read at the other end, although packets are lost
\* and the acknowledgements of later ones come first: what needs another sending
\* gets one.
Delivered ==
    <>[](Undisturbed => /\ Len(stream[1].delivered) = SentUnits(Connector)
                        /\ Len(stream[Connector].delivered) = SentUnits(1))
===============================================================================
