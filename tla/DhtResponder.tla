------------------------------ MODULE DhtResponder ------------------------------
(***************************************************************************)
(* mtt::dht::Responder: what this node answers to the requests of others,   *)
(* and the peers announced to it.                                           *)
(*                                                                          *)
(* Random secrets are different, and no two differ by what the addresses of *)
(* two nodes do.  A node is its address.                                    *)
(***************************************************************************)
EXTENDS Naturals, Sequences, SequencesExt, DhtTable

CONSTANTS
    Hashes,
    MaxStoredAnnouncedPeers,
    MaxPeerValuesResponse,
    CharacterSum,           \* of the address of each node
    Expiry                  \* the 30 minutes a peer is kept

ASSUME ResponderAssumption ==
    /\ MaxStoredAnnouncedPeers \in Nat \ {0} /\ MaxPeerValuesResponse \in Nat \ {0}
    /\ CharacterSum \in [Nodes -> Nat] /\ Expiry \in Nat

\* Both secrets are the same at first; `refreshes' numbers them.
NewResponder ==
    [secret |-> <<0, 0>>, refreshes |-> 0, values |-> [h \in Hashes |-> <<>>]]

\* The characters of the address are added to the secret.
GetAnnounceToken(addr, secret) == [sum |-> CharacterSum[addr], secret |-> secret]

IsValidToken(r, token, addr) ==
    \E i \in 1 .. 2 : token = GetAnnounceToken(addr, r.secret[i])

\* A peer that comes again is young again; a new one needs room.
AnnouncedPeer(r, h, addr, time) ==
    LET i == SelectInSeq(r.values[h], LAMBDA v : v.addr = addr)
        stored == [addr |-> addr, timestamp |-> time]
    IN IF i # 0 THEN [r EXCEPT !.values[h][i] = stored]
       ELSE IF Len(r.values[h]) < MaxStoredAnnouncedPeers
       THEN [r EXCEPT !.values[h] = Append(@, stored)]
       ELSE r

\* Peers that were announced more than 30 minutes ago go.
RefreshStoredValues(r, time) ==
    [r EXCEPT !.values = [h \in Hashes |->
        Those(@[h], {v \in Range(@[h]) : ~ v.timestamp + Expiry < time})]]

\* Mutated form of RefreshResponder: the former secret is forgotten.
RefreshResponderBoth(r, time) ==
    LET n == r.refreshes + 1
    IN [RefreshStoredValues(r, time) EXCEPT !.secret = <<n, n>>, !.refreshes = n]

RefreshResponder(r, time) ==
    LET n == r.refreshes + 1
    IN [RefreshStoredValues(r, time) EXCEPT !.secret = <<n, @[1]>>, !.refreshes = n]

Stored(r, h) == {r.values[h][i].addr : i \in DOMAIN r.values[h]}

WriteNodes(table, order, count) == Range(GetClosestNodes(table, order, count))

WriteValues(r, h) ==
    {r.values[h][i].addr : i \in DOMAIN r.values[h] \cap 1 .. MaxPeerValuesResponse}

\* The parts of handlePacket: the answer, nothing being answered to an
\* announcement with a wrong token, and what is stored.
Answer(r, table, order, count, addr, request) ==
    LET asked == request.type = "get_peers"
    IN [nodes |-> IF request.type = "announce_peer" THEN {}
                  ELSE WriteNodes(table, order, count),
        values |-> IF asked THEN WriteValues(r, request.hash) ELSE {},
        tokens |-> IF asked THEN {GetAnnounceToken(addr, r.secret[1])} ELSE {}]

Accepted(r, addr, request) ==
    request.type = "announce_peer" => IsValidToken(r, request.token, addr)

Announce(r, addr, request, time) ==
    IF request.type = "announce_peer" THEN AnnouncedPeer(r, request.hash, addr, time) ELSE r
===============================================================================
