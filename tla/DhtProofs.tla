------------------------------- MODULE DhtProofs -------------------------------
(***************************************************************************)
(* For any nodes, buckets, queries and limits, and any number of packets    *)
(* lost, late or early: the promises to others, the table, and the requests *)
(* of the queries.                                                          *)
(***************************************************************************)
EXTENDS Dht, ListTheorems, FiniteSetTheorems, WellFoundedInduction, TLAPS

-------------------------------------------------------------------------------
(* Lists of nodes. *)

LEMMA ThoseFacts ==
    ASSUME NEW A, NEW seq \in Seq(A), NEW S
    PROVE  /\ Those(seq, S) \in Seq(A)
           /\ Range(Those(seq, S)) = Range(seq) \cap S
           /\ IsInjective(seq) => IsInjective(Those(seq, S))
<1> DEFINE n == Len(seq)
           Op(kept, x) == IF x \in S THEN Append(kept, x) ELSE kept
           body(f) == [s \in SUBSET (DOMAIN seq) |->
                          IF s = {} THEN <<>>
                          ELSE LET x == Max(s) IN Op(f[s \ {x}], seq[x])]
           it == CHOOSE f : f = body(f)
           U == Seq(A)
           R == [x \in U \X (1 .. n) |-> Op(x[1], seq[x[2]])]
           Kept(k) == {q \in U : /\ Range(q) = {seq[i] : i \in 1 .. k} \cap S
                                 /\ IsInjective(seq) => IsInjective(q)}
           T == [k \in 0 .. n |-> Kept(k)]
<1>1. n \in Nat /\ DOMAIN seq = 1 .. n
  OBVIOUS
<1>2. Those(seq, S) = it[DOMAIN seq]
  BY DEF Those, FoldLeft, MapThenFoldSet
<1>3. <<>> \in U
  OBVIOUS
<1>4. R \in [U \X (1 .. n) -> U]
  OBVIOUS
<1>5. it = body(it)
  <2>1. PICK f \in [SUBSET (1 .. n) -> U] : FoldOf(f, <<>>, R, n)
    <3> HIDE DEF R, n, U
    <3> QED
      BY <1>1, <1>3, <1>4, FoldExists
  <2>2. ASSUME NEW s \in SUBSET (1 .. n)
        PROVE  f[s] = IF s = {} THEN <<>> ELSE Op(f[s \ {Max(s)}], seq[Max(s)])
    <3> HIDE DEF Op
    <3>1. CASE s = {}
      BY <2>1, <3>1 DEF FoldOf
    <3>2. CASE s # {}
      <4>1. Max(s) \in 1 .. n /\ f[s \ {Max(s)}] \in U
        <5>1. Max(s) \in s
          BY <1>1, <3>2, LastPosition
        <5> HIDE DEF U
        <5> QED
          BY <2>1, <5>1
      <4>2. f[s] = R[<<f[s \ {Max(s)}], Max(s)>>]
        BY <2>1, <3>2 DEF FoldOf
      <4> QED
        BY <3>2, <4>1, <4>2
    <3> QED
      BY <3>1, <3>2
  <2>3. f = body(f)
    <3> HIDE DEF Op
    <3> QED
      BY <1>1, <2>1, <2>2
  <2> HIDE DEF body
  <2> QED
    BY <2>3
<1>6. \A s \in SUBSET (1 .. n) :
         it[s] = IF s = {} THEN <<>> ELSE Op(it[s \ {Max(s)}], seq[Max(s)])
  <2>1. \A s \in SUBSET (1 .. n) : it[s] = body(it)[s]
    <3> HIDE DEF it, body
    <3> QED
      BY <1>5
  <2> HIDE DEF it, Op
  <2> QED
    BY <1>1, <2>1
<1> HIDE DEF it
<1>7. it[{}] \in T[0]
  <2>1. it[{}] = <<>>
    BY <1>6
  <2>2. Range(<<>>) = {} /\ IsInjective(<<>>)
    BY DEF Range, IsInjective
  <2> QED
    BY <2>1, <2>2
<1>8. ASSUME NEW k \in 0 .. n - 1, NEW q \in T[k]
      PROVE  Op(q, seq[k + 1]) \in T[k + 1]
  <2>0. T[k + 1] = Kept(k + 1)
    <3> HIDE DEF Kept
    <3> QED
      BY <1>1
  <2>1. /\ q \in Seq(A) /\ seq[k + 1] \in A
        /\ {seq[i] : i \in 1 .. k + 1} = {seq[i] : i \in 1 .. k} \cup {seq[k + 1]}
    <3>1. 1 .. k + 1 = (1 .. k) \cup {k + 1}
      OBVIOUS
    <3> QED
      BY <3>1
  <2>2. IsInjective(seq) => seq[k + 1] \notin {seq[i] : i \in 1 .. k}
    BY DEF IsInjective
  <2> DEFINE B == {seq[i] : i \in 1 .. k} C == {seq[i] : i \in 1 .. k + 1}
  <2>3. Range(q) = B \cap S /\ (IsInjective(seq) => IsInjective(q))
    OBVIOUS
  <2> HIDE DEF B, C
  <2>4. CASE seq[k + 1] \in S
    <3> DEFINE new == Append(q, seq[k + 1])
    <3>1. new \in U /\ Range(new) = Range(q) \cup {seq[k + 1]}
          /\ (IsInjective(q) /\ seq[k + 1] \notin Range(q) => IsInjective(new))
      BY <2>1, AppendFacts
    <3> HIDE DEF new
    <3>2. Range(new) = C \cap S
      BY <2>1, <2>3, <2>4, <3>1 DEF B, C
    <3>3. IsInjective(seq) => IsInjective(new)
      BY <2>2, <2>3, <3>1 DEF B
    <3>4. Op(q, seq[k + 1]) = new
      BY <2>4 DEF new
    <3> HIDE DEF T, Op
    <3> QED
      BY <2>0, <3>1, <3>2, <3>3, <3>4 DEF C
  <2>5. CASE seq[k + 1] \notin S
    <3>1. Range(q) = C \cap S
      BY <2>1, <2>3, <2>5 DEF B, C
    <3> QED
      BY <2>1, <2>3, <2>5, <3>1 DEF C
  <2> QED
    BY <2>4, <2>5
<1>9. it[1 .. n] \in T[n]
  <2>1. ASSUME NEW k \in 0 .. n - 1, it[1 .. k] \in T[k],
               NEW s \in SUBSET (1 .. n), s # {}, Max(s) = k + 1, s \ {Max(s)} = 1 .. k
        PROVE  it[s] \in T[k + 1]
    <3> HIDE DEF Op, T, n
    <3>1. it[s] = Op(it[1 .. k], seq[k + 1])
      BY <1>6, <2>1
    <3> QED
      BY <1>8, <2>1, <3>1
  <2> HIDE DEF T, n
  <2> QED
    BY <1>1, <1>7, <2>1, FoldStays
<1>10. {seq[i] : i \in 1 .. n} = Range(seq)
  BY DEF Range
<1> QED
  BY <1>1, <1>2, <1>9, <1>10
-------------------------------------------------------------------------------
(* What others are promised. *)

Peer == [addr : Nodes, timestamp : Nat]

\* The peers stored for a hash, one for each address.
PeersOf(seq) ==
    /\ seq \in Seq(Peer)
    /\ \A i, j \in DOMAIN seq : seq[i].addr = seq[j].addr => i = j

\* Whoever is stored was announced at the time that is stored, and was not too old
\* at the last refresh; whoever was announced and is not stored was.
KeptFor(seq, h, last, announced) ==
    \A i \in DOMAIN seq :
       /\ <<h, seq[i].addr>> \in DOMAIN announced
       /\ announced[<<h, seq[i].addr>>] = seq[i].timestamp
       /\ last <= seq[i].timestamp + Expiry

GoneAfter(seq, h, last, announced) ==
    \A n \in Nodes :
       <<h, n>> \in DOMAIN announced =>
          /\ announced[<<h, n>>] \in Nat
          /\ (\A i \in DOMAIN seq : seq[i].addr # n) => ~ last <= announced[<<h, n>>] + Expiry

Promise(seq, h, last, announced) ==
    PeersOf(seq) /\ KeptFor(seq, h, last, announced) /\ GoneAfter(seq, h, last, announced)

\* Secrets are the numbers of the last two refreshes; a token has that of the time
\* it was given.
Secrets(r) ==
    r.refreshes \in Nat /\ r.secret = <<r.refreshes, IF r.refreshes = 0 THEN 0 ELSE r.refreshes - 1>>

GivenAt(g, now) == g.at \in 0 .. now /\ g.token = GetAnnounceToken(g.to, g.at)

Tokens(granted, now) == \A g \in granted : GivenAt(g, now)

\* What is remembered, the last refresh being in the past.
Times ==
    /\ clock \in Nat /\ remote.refreshed \in 0 .. clock
    /\ remote = [granted |-> remote.granted, announced |-> remote.announced,
                 refreshed |-> remote.refreshed]

HonourInv ==
    /\ Times
    /\ Secrets(responder)
    /\ Tokens(remote.granted, responder.refreshes)
    /\ DOMAIN responder.values = Hashes
    /\ \A h \in Hashes :
          Promise(responder.values[h], h, remote.refreshed, remote.announced)

LEMMA HonourEnough == HonourInv /\ ResponderAssumption => AnnouncesHonoured
<1> SUFFICES ASSUME HonourInv, ResponderAssumption PROVE AnnouncesHonoured
  OBVIOUS
<1>1. ASSUME NEW g \in remote.granted, NEW n \in Nodes
      PROVE  IsValidToken(responder, g.token, n) <=>
                CharacterSum[n] = CharacterSum[g.to] /\ g.at + 1 >= responder.refreshes
  <2> DEFINE now == responder.refreshes
             sum == CharacterSum[n]
  <2>1. now \in Nat /\ responder.secret = <<now, IF now = 0 THEN 0 ELSE now - 1>>
    BY DEF HonourInv, Secrets
  <2>2. g.at \in 0 .. now /\ g.token = [sum |-> CharacterSum[g.to], secret |-> g.at]
    BY DEF HonourInv, Tokens, GivenAt, GetAnnounceToken
  <2>3. IsValidToken(responder, g.token, n) <=>
           \/ g.token = [sum |-> sum, secret |-> now]
           \/ g.token = [sum |-> sum, secret |-> IF now = 0 THEN 0 ELSE now - 1]
    <3>1. 1 .. 2 = {1, 2}
      OBVIOUS
    <3>2. responder.secret[1] = now /\ responder.secret[2] = IF now = 0 THEN 0 ELSE now - 1
      BY <2>1
    <3> HIDE DEF now
    <3> QED
      BY <3>1, <3>2 DEF IsValidToken, GetAnnounceToken
  <2>4. \A s : g.token = [sum |-> sum, secret |-> s] <=> CharacterSum[g.to] = sum /\ s = g.at
    BY <2>2
  <2> HIDE DEF now, sum
  <2>5. IsValidToken(responder, g.token, n) <=>
           CharacterSum[g.to] = sum /\ (now = g.at \/ (IF now = 0 THEN 0 ELSE now - 1) = g.at)
    BY <2>3, <2>4
  <2>6. IsValidToken(responder, g.token, n) <=> CharacterSum[g.to] = sum /\ g.at + 1 >= now
    BY <2>1, <2>2, <2>5
  <2> QED
    BY <2>6 DEF now, sum
<1>2. ASSUME NEW h \in Hashes
      PROVE  Cardinality(Stored(responder, h)) = Len(responder.values[h])
  <2> DEFINE seq == responder.values[h]
  <2>1. seq \in Seq(Peer) /\ \A i, j \in DOMAIN seq : seq[i].addr = seq[j].addr => i = j
    BY DEF HonourInv, Promise, PeersOf
  <2>2. Stored(responder, h) = {seq[i].addr : i \in DOMAIN seq}
    BY DEF Stored
  <2> HIDE DEF seq
  <2> DEFINE f == [i \in DOMAIN seq |-> seq[i].addr]
  <2>3. DOMAIN seq = 1 .. Len(seq) /\ Len(seq) \in Nat
    BY <2>1
  <2>4. f \in Bijection(1 .. Len(seq), Stored(responder, h))
    BY <2>1, <2>2, <2>3 DEF Bijection, Injection, Surjection, IsInjective
  <2>5. ExistsBijection(1 .. Len(seq), Stored(responder, h))
    BY <2>4 DEF ExistsBijection
  <2>6. Cardinality(Stored(responder, h)) = Len(seq)
    BY <2>3, <2>5, FS_CountingElements
  <2> QED
    BY <2>6 DEF seq
<1>3. ASSUME NEW h \in Hashes, NEW n \in Nodes
      PROVE  n \in Stored(responder, h) <=>
                /\ <<h, n>> \in DOMAIN remote.announced
                /\ remote.refreshed <= remote.announced[<<h, n>>] + Expiry
  <2> DEFINE seq == responder.values[h] last == remote.refreshed announced == remote.announced
  <2>1. KeptFor(seq, h, last, announced) /\ GoneAfter(seq, h, last, announced)
    BY DEF HonourInv, Promise
  <2>2. Stored(responder, h) = {seq[i].addr : i \in DOMAIN seq}
    BY DEF Stored
  <2> HIDE DEF seq, last, announced
  <2>3. CASE n \in Stored(responder, h)
    <3>1. PICK i \in DOMAIN seq : seq[i].addr = n
      BY <2>2, <2>3
    <3>2. <<h, n>> \in DOMAIN announced /\ last <= announced[<<h, n>>] + Expiry
      BY <2>1, <3>1 DEF KeptFor
    <3> QED
      BY <2>3, <3>2 DEF last, announced
  <2>4. CASE n \notin Stored(responder, h)
    <3>1. \A i \in DOMAIN seq : seq[i].addr # n
      BY <2>2, <2>4
    <3>2. <<h, n>> \in DOMAIN announced => ~ last <= announced[<<h, n>>] + Expiry
      BY <2>1, <3>1 DEF GoneAfter
    <3> QED
      BY <2>4, <3>2 DEF last, announced
  <2> QED
    BY <2>3, <2>4
<1> QED
  BY <1>1, <1>2, <1>3 DEF AnnouncesHonoured
\* An announcement of another hash or peer changes nothing of what is stored here.
LEMMA OthersAnnounced ==
    ASSUME NEW seq, NEW h, NEW last, NEW announced, NEW more,
           Promise(seq, h, last, announced),
           \A n : <<h, n>> \in DOMAIN more <=> <<h, n>> \in DOMAIN announced,
           \A n : <<h, n>> \in DOMAIN announced => more[<<h, n>>] = announced[<<h, n>>]
    PROVE  Promise(seq, h, last, more)
<1>1. KeptFor(seq, h, last, more)
  BY DEF Promise, KeptFor
<1>2. GoneAfter(seq, h, last, more)
  BY DEF Promise, GoneAfter
<1> QED
  BY <1>1, <1>2 DEF Promise

\* In new, n is stored now, and the others are those of seq.
Refreshed(seq, n, time, new) ==
    /\ PeersOf(new)
    /\ \A i \in DOMAIN new : \/ new[i] = [addr |-> n, timestamp |-> time]
                             \/ new[i].addr # n /\ \E j \in DOMAIN seq : seq[j] = new[i]
    /\ \A j \in DOMAIN seq : \E i \in DOMAIN new : new[i].addr = seq[j].addr
    /\ \E i \in DOMAIN new : new[i].addr = n

\* n is announced now, the others as before.
AnnouncedAt(more, announced, p, now) ==
    /\ DOMAIN more = DOMAIN announced \cup {p} /\ more[p] = now
    /\ \A q \in DOMAIN announced : q # p => more[q] = announced[q]

\* A peer that was stored or is stored now is told of from now on; one for which
\* there was no room is not.
LEMMA PeerStored ==
    ASSUME NEW h, NEW now \in Nat, NEW last \in 0 .. now, NEW announced, NEW n \in Nodes,
           Expiry \in Nat, NEW seq, Promise(seq, h, last, announced),
           NEW new, Refreshed(seq, n, now, new),
           NEW more, AnnouncedAt(more, announced, <<h, n>>, now)
    PROVE  Promise(new, h, last, more)
<1>1. /\ \A i \in DOMAIN new : \/ new[i] = [addr |-> n, timestamp |-> now]
                               \/ new[i].addr # n /\ \E j \in DOMAIN seq : seq[j] = new[i]
      /\ \A j \in DOMAIN seq : \E i \in DOMAIN new : new[i].addr = seq[j].addr
      /\ \E i \in DOMAIN new : new[i].addr = n
  BY DEF Refreshed
<1>2. /\ DOMAIN more = DOMAIN announced \cup {<<h, n>>} /\ more[<<h, n>>] = now
      /\ \A p \in DOMAIN announced : p # <<h, n>> => more[p] = announced[p]
  BY DEF AnnouncedAt
<1>3. ASSUME NEW i \in DOMAIN new
      PROVE  /\ <<h, new[i].addr>> \in DOMAIN more
             /\ more[<<h, new[i].addr>>] = new[i].timestamp
             /\ last <= new[i].timestamp + Expiry
  <2>1. CASE new[i] = [addr |-> n, timestamp |-> now]
    <3>1. new[i].addr = n /\ new[i].timestamp = now /\ last <= now + Expiry
      BY <2>1
    <3> QED
      BY <1>2, <3>1
  <2>2. CASE new[i].addr # n /\ \E j \in DOMAIN seq : seq[j] = new[i]
    <3>1. PICK j \in DOMAIN seq : seq[j] = new[i]
      BY <2>2
    <3> DEFINE p == <<h, seq[j].addr>>
    <3>2. p \in DOMAIN announced /\ announced[p] = seq[j].timestamp
          /\ last <= seq[j].timestamp + Expiry
      BY DEF Promise, KeptFor
    <3>3. p # <<h, n>>
      BY <2>2, <3>1
    <3>4. p = <<h, new[i].addr>>
      BY <3>1
    <3> HIDE DEF p
    <3>5. p \in DOMAIN more /\ more[p] = announced[p]
      BY <1>2, <3>2, <3>3
    <3> QED
      BY <3>1, <3>2, <3>4, <3>5
  <2> QED
    BY <1>1, <2>1, <2>2
<1>4. ASSUME NEW m \in Nodes, <<h, m>> \in DOMAIN more
      PROVE  /\ more[<<h, m>>] \in Nat
             /\ (\A i \in DOMAIN new : new[i].addr # m) => ~ last <= more[<<h, m>>] + Expiry
  <2>1. CASE m = n
    BY <1>1, <1>2, <2>1
  <2>2. CASE m # n
    <3>1. <<h, m>> \in DOMAIN announced /\ more[<<h, m>>] = announced[<<h, m>>]
      BY <1>2, <1>4, <2>2
    <3>2. /\ announced[<<h, m>>] \in Nat
          /\ (\A j \in DOMAIN seq : seq[j].addr # m) => ~ last <= announced[<<h, m>>] + Expiry
      BY <3>1 DEF Promise, GoneAfter
    <3>3. (\A i \in DOMAIN new : new[i].addr # m) => (\A j \in DOMAIN seq : seq[j].addr # m)
      BY <1>1
    <3> QED
      BY <3>1, <3>2, <3>3
  <2> QED
    BY <2>1, <2>2
<1> QED
  BY <1>3, <1>4 DEF Promise, Refreshed, KeptFor, GoneAfter

\* What AnnouncedPeer does to the list of a hash.
Stores(seq, n, time, new) ==
    LET i == SelectInSeq(seq, LAMBDA v : v.addr = n)
        stored == [addr |-> n, timestamp |-> time]
    IN new = IF i # 0 THEN [seq EXCEPT ![i] = stored]
             ELSE IF Len(seq) < MaxStoredAnnouncedPeers THEN Append(seq, stored) ELSE seq

LEMMA StoredOnce ==
    ASSUME NEW seq, PeersOf(seq), NEW n \in Nodes, NEW time \in Nat, NEW new,
           Stores(seq, n, time, new)
    PROVE  \/ new = seq /\ \A i \in DOMAIN new : new[i].addr # n
           \/ Refreshed(seq, n, time, new)
<1> DEFINE found == {i \in 1 .. Len(seq) : seq[i].addr = n}
           place == SelectInSeq(seq, LAMBDA v : v.addr = n)
           stored == [addr |-> n, timestamp |-> time]
<1>1. PICK k \in Nat : k = Len(seq) /\ DOMAIN seq = 1 .. k /\ seq \in Seq(Peer)
  BY DEF PeersOf
<1>2. stored \in Peer /\ stored.addr = n
  BY DEF Peer
<1>3. \A i, j \in 1 .. k : seq[i].addr = seq[j].addr => i = j
  BY <1>1 DEF PeersOf
<1>4. CASE found # {}
  <2>1. place \in found
    <3>1. found \in SUBSET Nat
      BY <1>1
    <3>2. Min(found) \in found
      <4> HIDE DEF found
      <4> QED
        BY <1>4, <3>1, MinExists
    <3>3. place = Min(found)
      BY <1>4 DEF SelectInSeq
    <3> QED
      BY <3>2, <3>3
  <2>2. place \in 1 .. k /\ seq[place].addr = n /\ place # 0
    BY <1>1, <2>1
  <2>3. new = [seq EXCEPT ![place] = stored]
    BY <2>2 DEF Stores
  <2> HIDE DEF place, stored, found
  <2>4. new \in Seq(Peer) /\ DOMAIN new = 1 .. k /\ new[place] = stored
        /\ \A i \in 1 .. k : i # place => new[i] = seq[i]
    BY <1>1, <1>2, <2>2, <2>3
  <2>5. \A i \in 1 .. k : new[i].addr = seq[i].addr
    BY <1>2, <2>2, <2>4
  <2>6. PeersOf(new)
    BY <1>3, <2>4, <2>5 DEF PeersOf
  <2>7. ASSUME NEW i \in 1 .. k
        PROVE  new[i] = stored \/ (new[i].addr # n /\ \E j \in DOMAIN seq : seq[j] = new[i])
    BY <1>1, <1>3, <2>2, <2>4
  <2>8. \A j \in 1 .. k : \E i \in 1 .. k : new[i].addr = seq[j].addr
    BY <2>5
  <2>9. \E i \in 1 .. k : new[i].addr = n
    BY <1>2, <2>2, <2>4
  <2> QED
    BY <1>1, <2>4, <2>6, <2>7, <2>8, <2>9 DEF stored, Refreshed
<1>5. CASE found = {}
  <2>1. place = 0
    BY <1>5 DEF SelectInSeq
  <2>2. \A i \in 1 .. k : seq[i].addr # n
    BY <1>1, <1>5
  <2>3. CASE k < MaxStoredAnnouncedPeers
    <3>1. new = Append(seq, stored)
      BY <1>1, <2>1, <2>3 DEF Stores
    <3> HIDE DEF stored
    <3>2. new \in Seq(Peer) /\ DOMAIN new = 1 .. k + 1 /\ new[k + 1] = stored
          /\ \A i \in 1 .. k : new[i] = seq[i]
      BY <1>1, <1>2, <3>1
    <3>3. ASSUME NEW i \in 1 .. k + 1 PROVE i \in 1 .. k \/ i = k + 1
      OBVIOUS
    <3>4. PeersOf(new)
      <4> SUFFICES ASSUME NEW i \in 1 .. k + 1, NEW j \in 1 .. k + 1, new[i].addr = new[j].addr
                   PROVE  i = j
        BY <3>2 DEF PeersOf
      <4> QED
        BY <1>2, <1>3, <2>2, <3>2, <3>3
    <3>5. ASSUME NEW i \in 1 .. k + 1
          PROVE  new[i] = stored \/ (new[i].addr # n /\ \E j \in DOMAIN seq : seq[j] = new[i])
      BY <1>1, <2>2, <3>2, <3>3
    <3>6. \A j \in 1 .. k : j \in 1 .. k + 1 /\ new[j].addr = seq[j].addr
      BY <1>1, <3>2
    <3>7. k + 1 \in 1 .. k + 1 /\ new[k + 1].addr = n
      BY <1>1, <1>2, <3>2
    <3> QED
      BY <1>1, <3>2, <3>4, <3>5, <3>6, <3>7 DEF stored, Refreshed
  <2>4. CASE ~ (k < MaxStoredAnnouncedPeers)
    <3>1. new = seq
      BY <1>1, <2>1, <2>4 DEF Stores
    <3> QED
      BY <1>1, <2>2, <3>1
  <2> QED
    BY <2>3, <2>4
<1> QED
  BY <1>4, <1>5
\* What RefreshStoredValues does to the list of a hash.
YoungPeers(seq, time) == Those(seq, {v \in Range(seq) : ~ v.timestamp + Expiry < time})

LEMMA PeersAge ==
    ASSUME NEW h, NEW last \in Nat, NEW now \in Nat, last <= now, NEW announced, Expiry \in Nat,
           NEW seq, Promise(seq, h, last, announced)
    PROVE  Promise(YoungPeers(seq, now), h, now, announced)
<1> DEFINE stay == {v \in Range(seq) : ~ v.timestamp + Expiry < now}
           new == Those(seq, stay)
<1>1. PICK k \in Nat : k = Len(seq) /\ DOMAIN seq = 1 .. k /\ seq \in Seq(Peer)
  BY DEF Promise, PeersOf
<1>2. \A i, j \in 1 .. k : seq[i].addr = seq[j].addr => i = j
  BY <1>1 DEF Promise, PeersOf
<1>3. \A i \in 1 .. k : seq[i].timestamp \in Nat /\ seq[i] \in Range(seq)
  <2>1. \A i \in 1 .. k : seq[i] \in Peer
    BY <1>1
  <2> QED
    BY <1>1, <2>1 DEF Peer, Range
<1>4. new = YoungPeers(seq, now)
  BY DEF YoungPeers
<1>5. stay \subseteq Range(seq) /\ \A v \in Range(seq) : v \in stay <=> ~ v.timestamp + Expiry < now
  OBVIOUS
<1> HIDE DEF stay, new
<1>6. IsInjective(seq)
  BY <1>1, <1>2 DEF IsInjective
<1>7. new \in Seq(Peer) /\ Range(new) = stay /\ IsInjective(new)
  <2>1. Range(seq) \cap stay = stay
    BY <1>5
  <2> QED
    BY <1>1, <1>6, <2>1, ThoseFacts DEF new
<1>8. ASSUME NEW i \in DOMAIN new
      PROVE  \E j \in 1 .. k : new[i] = seq[j] /\ seq[j] \in stay
  <2>1. new[i] \in stay
    BY <1>7 DEF Range
  <2>2. new[i] \in Range(seq)
    BY <1>5, <2>1
  <2> QED
    BY <1>1, <2>1, <2>2 DEF Range
<1>9. PeersOf(new)
  <2> SUFFICES ASSUME NEW i \in DOMAIN new, NEW j \in DOMAIN new, new[i].addr = new[j].addr
               PROVE  i = j
    BY <1>7 DEF PeersOf
  <2>1. PICK a \in 1 .. k : new[i] = seq[a]
    BY <1>8
  <2>2. PICK b \in 1 .. k : new[j] = seq[b]
    BY <1>8
  <2>3. new[i] = new[j]
    BY <1>2, <2>1, <2>2
  <2> QED
    BY <1>7, <2>3 DEF IsInjective
<1>10. KeptFor(new, h, now, announced)
  <2> SUFFICES ASSUME NEW i \in DOMAIN new
               PROVE  /\ <<h, new[i].addr>> \in DOMAIN announced
                      /\ announced[<<h, new[i].addr>>] = new[i].timestamp
                      /\ now <= new[i].timestamp + Expiry
    BY DEF KeptFor
  <2>1. PICK j \in 1 .. k : new[i] = seq[j] /\ seq[j] \in stay
    BY <1>8
  <2>2. now <= seq[j].timestamp + Expiry
    BY <1>3, <1>5, <2>1
  <2>3. /\ <<h, seq[j].addr>> \in DOMAIN announced
        /\ announced[<<h, seq[j].addr>>] = seq[j].timestamp
    BY <1>1 DEF Promise, KeptFor
  <2> QED
    BY <2>1, <2>2, <2>3
<1>11. GoneAfter(new, h, now, announced)
  <2> SUFFICES ASSUME NEW n \in Nodes, <<h, n>> \in DOMAIN announced
               PROVE  /\ announced[<<h, n>>] \in Nat
                      /\ (\A i \in DOMAIN new : new[i].addr # n)
                            => ~ now <= announced[<<h, n>>] + Expiry
    BY DEF GoneAfter
  <2> DEFINE at == announced[<<h, n>>]
  <2>1. /\ at \in Nat
        /\ (\A i \in DOMAIN seq : seq[i].addr # n) => ~ last <= at + Expiry
    BY DEF Promise, GoneAfter
  <2>2. ASSUME NEW j \in DOMAIN seq, seq[j].addr = n, \A i \in DOMAIN new : new[i].addr # n
        PROVE  ~ now <= at + Expiry
    <3>1. j \in 1 .. k /\ at = seq[j].timestamp
      BY <1>1, <2>2 DEF Promise, KeptFor
    <3>2. seq[j] \notin stay
      <4> SUFFICES ASSUME seq[j] \in Range(new) PROVE FALSE
        BY <1>7
      <4>1. PICK i \in DOMAIN new : new[i] = seq[j]
        BY DEF Range
      <4> QED
        BY <2>2, <4>1
    <3>3. seq[j].timestamp + Expiry < now
      BY <1>3, <1>5, <3>1, <3>2
    <3> HIDE DEF at
    <3> QED
      BY <2>1, <3>1, <3>3
  <2> HIDE DEF at
  <2>3. ASSUME \A i \in DOMAIN new : new[i].addr # n PROVE ~ now <= at + Expiry
    <3>1. CASE \E j \in DOMAIN seq : seq[j].addr = n
      BY <2>2, <2>3, <3>1
    <3>2. CASE \A j \in DOMAIN seq : seq[j].addr # n
      BY <2>1, <3>2
    <3> QED
      BY <3>1, <3>2
  <2> QED
    BY <2>1, <2>3 DEF at
<1> QED
  BY <1>4, <1>9, <1>10, <1>11 DEF Promise

-------------------------------------------------------------------------------
(* The steps that concern promises. *)

LEMMA HonourInit == Init => HonourInv
<1> SUFFICES ASSUME Init PROVE HonourInv
  OBVIOUS
<1>1. responder = [secret |-> <<0, 0>>, refreshes |-> 0, values |-> [h \in Hashes |-> <<>>]]
  BY DEF Init, NewResponder
<1>2. remote = [granted |-> {}, announced |-> <<>>, refreshed |-> 0] /\ clock = 0
  BY DEF Init
<1>3. Secrets(responder) /\ Times
  BY <1>1, <1>2 DEF Secrets, Times
<1>4. Tokens(remote.granted, responder.refreshes)
  BY <1>2 DEF Tokens
<1>5. ASSUME NEW h \in Hashes
      PROVE  Promise(responder.values[h], h, remote.refreshed, remote.announced)
  <2>1. responder.values[h] = <<>> /\ remote.announced = <<>>
    BY <1>1, <1>2
  <2>2. PeersOf(<<>>)
    BY DEF PeersOf
  <2>3. DOMAIN <<>> = {}
    OBVIOUS
  <2> QED
    BY <2>1, <2>2, <2>3 DEF Promise, KeptFor, GoneAfter
<1> QED
  BY <1>1, <1>3, <1>4, <1>5 DEF HonourInv

LEMMA HonourRefresh ==
    ASSUME HonourInv, Expiry \in Nat, NEW p \in Pings, RefreshTable(p)
    PROVE  HonourInv'
<1> DEFINE now == responder.refreshes
<1>1. /\ responder' = RefreshResponder(responder, clock) /\ clock' = clock
      /\ remote' = [remote EXCEPT !.refreshed = clock]
  BY DEF RefreshTable
<1>2. now \in Nat /\ responder.secret[1] = now /\ clock \in Nat
      /\ remote.refreshed \in 0 .. clock
  BY DEF HonourInv, Secrets, Times
<1>3. /\ responder'.refreshes = now + 1
      /\ responder'.secret = <<now + 1, responder.secret[1]>>
      /\ responder'.values = [h \in Hashes |-> YoungPeers(responder.values[h], clock)]
  BY <1>1 DEF RefreshResponder, RefreshStoredValues, YoungPeers
<1>4. Secrets(responder')
  <2>1. now + 1 \in Nat /\ now + 1 # 0 /\ (now + 1) - 1 = now
    BY <1>2
  <2> QED
    BY <1>2, <1>3, <2>1 DEF Secrets
<1>5. Tokens(remote.granted, now + 1)
  BY <1>2 DEF HonourInv, Tokens, GivenAt
<1>6. /\ remote' = [granted |-> remote.granted, announced |-> remote.announced,
                    refreshed |-> clock]
      /\ remote'.granted = remote.granted /\ remote'.announced = remote.announced
      /\ remote'.refreshed = clock
  <2> DEFINE g == remote.granted a == remote.announced l == remote.refreshed
  <2>1. remote = [granted |-> g, announced |-> a, refreshed |-> l]
    BY DEF HonourInv, Times
  <2> HIDE DEF g, a, l
  <2>2. remote' = [granted |-> g, announced |-> a, refreshed |-> clock]
    BY <1>1, <2>1
  <2> QED
    BY <2>2 DEF g, a
<1>7. Times'
  <2>1. clock' \in Nat /\ remote'.refreshed \in 0 .. clock'
    BY <1>1, <1>2, <1>6
  <2>2. remote' = [granted |-> remote'.granted, announced |-> remote'.announced,
                   refreshed |-> remote'.refreshed]
    BY <1>6
  <2> QED
    BY <2>1, <2>2 DEF Times
<1>8. ASSUME NEW h \in Hashes
      PROVE  Promise(responder'.values[h], h, clock, remote.announced)
  <2> DEFINE last == remote.refreshed
  <2>1. Promise(responder.values[h], h, last, remote.announced)
    BY DEF HonourInv
  <2>2. last \in Nat /\ last <= clock
    BY <1>2
  <2> HIDE DEF last
  <2>3. Promise(YoungPeers(responder.values[h], clock), h, clock, remote.announced)
    BY <1>2, <2>1, <2>2, PeersAge
  <2> QED
    BY <1>3, <2>3
<1> QED
  BY <1>3, <1>4, <1>5, <1>6, <1>7, <1>8 DEF HonourInv

LEMMA HonourAsked ==
    ASSUME HonourInv, NEW n \in Nodes, NEW request \in RemoteRequests,
           request.type # "announce_peer", HandlePacket(n, request)
    PROVE  HonourInv'
<1> DEFINE now == responder.refreshes
           tokens == Answer(responder, table,
                            BucketOrder[CHOOSE q \in Searches : Hash[q] = request.hash],
                            MaxClosestNodes, n, request).tokens
<1>1. responder' = responder
  BY DEF HandlePacket, Announce
<1>2. /\ remote' = [granted |-> remote.granted \cup
                                  {[token |-> t, to |-> n, at |-> now] : t \in tokens},
                    announced |-> remote.announced, refreshed |-> remote.refreshed]
      /\ clock' = clock
  BY DEF HandlePacket
<1>3. tokens \subseteq {GetAnnounceToken(n, responder.secret[1])}
  BY DEF Answer
<1>4. now \in Nat /\ responder.secret[1] = now
  BY DEF HonourInv, Secrets
<1> HIDE DEF tokens, now
<1>5. ASSUME NEW g \in remote'.granted PROVE GivenAt(g, now)
  <2>1. CASE g \in remote.granted
    BY <2>1 DEF HonourInv, Tokens, now
  <2>2. CASE g \in {[token |-> t, to |-> n, at |-> now] : t \in tokens}
    <3>1. g = [token |-> GetAnnounceToken(n, now), to |-> n, at |-> now]
      BY <1>3, <1>4, <2>2
    <3>2. g.at = now /\ g.token = GetAnnounceToken(n, now) /\ g.to = n
      BY <3>1
    <3> QED
      BY <1>4, <3>2 DEF GivenAt
  <2> QED
    BY <1>2, <1>5, <2>1, <2>2
<1>6. /\ Tokens(remote'.granted, now) /\ remote'.announced = remote.announced
      /\ remote'.refreshed = remote.refreshed
  BY <1>2, <1>5 DEF Tokens
<1>7. Times'
  BY <1>2 DEF HonourInv, Times
<1> QED
  BY <1>1, <1>6, <1>7 DEF HonourInv, now

LEMMA HonourAnnounced ==
    ASSUME HonourInv, Expiry \in Nat, NEW n \in Nodes, NEW request \in RemoteRequests,
           request.type = "announce_peer", HandlePacket(n, request)
    PROVE  HonourInv'
<1> DEFINE now == responder.refreshes
           h == request.hash
           i == SelectInSeq(responder.values[h], LAMBDA v : v.addr = n)
           stored == [addr |-> n, timestamp |-> clock]
           last == remote.refreshed
           told == n \in Stored(responder', h)
           old == remote.announced
           new == responder'.values[h]
<1>1. h \in Hashes
  <2>1. \/ request \in [type : {"find_node", "get_peers"}, hash : Hashes]
        \/ request \in [type : {"announce_peer"}, hash : Hashes,
                        token : {g.token : g \in remote.granted}]
    BY DEF RemoteRequests
  <2> QED
    BY <2>1
<1>2. /\ now \in Nat /\ DOMAIN responder.values = Hashes
      /\ Promise(responder.values[h], h, last, old) /\ clock \in Nat /\ last \in 0 .. clock
  BY <1>1 DEF HonourInv, Secrets, Times
<1>3. responder' = AnnouncedPeer(responder, h, n, clock)
  BY DEF HandlePacket, Announce
<1>4. /\ responder'.refreshes = now /\ responder'.secret = responder.secret
      /\ DOMAIN responder'.values = Hashes
      /\ \A k \in Hashes : k # h => responder'.values[k] = responder.values[k]
      /\ Stores(responder.values[h], n, clock, new)
  <2> DEFINE r == responder values == responder.values seq == responder.values[h]
  <2>1. CASE i # 0
    <3>1. responder' = [r EXCEPT !.values[h][i] = stored]
      BY <1>3, <2>1 DEF AnnouncedPeer
    <3>2. responder'.refreshes = now /\ responder'.secret = r.secret
          /\ responder'.values = [values EXCEPT ![h] = [seq EXCEPT ![i] = stored]]
      BY <3>1
    <3>3. new = [seq EXCEPT ![i] = stored]
      BY <1>1, <1>2, <3>2
    <3>4. Stores(seq, n, clock, new)
      BY <2>1, <3>3 DEF Stores
    <3> QED
      BY <1>2, <3>2, <3>4
  <2>2. CASE i = 0 /\ Len(seq) < MaxStoredAnnouncedPeers
    <3>1. responder' = [r EXCEPT !.values[h] = Append(@, stored)]
      BY <1>3, <2>2 DEF AnnouncedPeer
    <3>2. responder'.refreshes = now /\ responder'.secret = r.secret
          /\ responder'.values = [values EXCEPT ![h] = Append(seq, stored)]
      BY <3>1
    <3>3. new = Append(seq, stored)
      BY <1>1, <1>2, <3>2
    <3>4. Stores(seq, n, clock, new)
      BY <2>2, <3>3 DEF Stores
    <3> QED
      BY <1>2, <3>2, <3>4
  <2>3. CASE i = 0 /\ ~ (Len(seq) < MaxStoredAnnouncedPeers)
    <3>1. responder' = r
      BY <1>3, <2>3 DEF AnnouncedPeer
    <3>2. Stores(seq, n, clock, new)
      BY <2>3, <3>1 DEF Stores
    <3> QED
      BY <1>2, <3>1, <3>2
  <2> QED
    BY <2>1, <2>2, <2>3
<1>5. /\ remote'.granted = remote.granted /\ remote'.refreshed = last /\ Times'
      /\ remote'.announced = IF told THEN AnnouncedNow(h, n) ELSE old
  <2> DEFINE tokens == Answer(responder, table,
                              BucketOrder[CHOOSE q \in Searches : Hash[q] = h],
                              MaxClosestNodes, n, request).tokens
  <2>1. tokens = {}
    BY DEF Answer
  <2>2. /\ remote' = [granted |-> remote.granted \cup
                                    {[token |-> t, to |-> n, at |-> now] : t \in tokens},
                      announced |-> IF told THEN AnnouncedNow(h, n) ELSE old,
                      refreshed |-> last]
        /\ clock' = clock
    BY DEF HandlePacket
  <2> HIDE DEF tokens, told
  <2>3. Times'
    BY <1>2, <2>2 DEF Times
  <2> QED
    BY <2>1, <2>2, <2>3
<1>6. told <=> \E k \in DOMAIN new : new[k].addr = n
  BY DEF Stored
<1> HIDE DEF i, stored, told, new
<1>7. PeersOf(responder.values[h])
  BY <1>2 DEF Promise
<1>8. \/ new = responder.values[h] /\ ~ told
      \/ Refreshed(responder.values[h], n, clock, new) /\ told
  <2> DEFINE seq == responder.values[h]
  <2> HIDE DEF seq
  <2>1. PeersOf(seq) /\ Stores(seq, n, clock, new)
    BY <1>4, <1>7 DEF seq
  <2>2. \/ new = seq /\ \A j \in DOMAIN new : new[j].addr # n
        \/ Refreshed(seq, n, clock, new)
    BY <1>2, <2>1, StoredOnce
  <2>3. Refreshed(seq, n, clock, new) => \E j \in DOMAIN new : new[j].addr = n
    BY DEF Refreshed
  <2>4. \/ new = seq /\ ~ told
        \/ Refreshed(seq, n, clock, new) /\ told
    BY <1>6, <2>2, <2>3
  <2> QED
    BY <2>4 DEF seq
<1>9. Promise(new, h, last, remote'.announced)
  <2>1. CASE ~ told
    BY <1>2, <1>5, <1>8, <2>1
  <2>2. CASE told
    <3> DEFINE more == remote'.announced seq == responder.values[h]
    <3>1. more = AnnouncedNow(h, n)
      BY <1>5, <2>2
    <3>2. AnnouncedAt(more, old, <<h, n>>, clock)
      BY <3>1 DEF AnnouncedNow, AnnouncedAt
    <3>3. Refreshed(seq, n, clock, new) /\ Promise(seq, h, last, old)
      BY <1>2, <1>8, <2>2
    <3> HIDE DEF more, last, h, old, seq
    <3>4. Promise(new, h, last, more)
      BY <1>2, <3>2, <3>3, PeerStored
    <3> QED
      BY <3>4 DEF more
  <2> QED
    BY <2>1, <2>2
<1>10. ASSUME NEW k \in Hashes, k # h
       PROVE  Promise(responder'.values[k], k, last, remote'.announced)
  <2>1. Promise(responder.values[k], k, last, old)
    BY DEF HonourInv
  <2> DEFINE more == remote'.announced
  <2>2. \A m : <<k, m>> # <<h, n>>
    BY <1>10
  <2>3. /\ \A m : <<k, m>> \in DOMAIN more <=> <<k, m>> \in DOMAIN old
        /\ \A m : <<k, m>> \in DOMAIN old => more[<<k, m>>] = old[<<k, m>>]
    <3>1. CASE ~ told
      BY <1>5, <3>1
    <3>2. CASE told
      <4>1. more = AnnouncedNow(h, n)
        BY <1>5, <3>2
      <4>2. /\ DOMAIN more = DOMAIN old \cup {<<h, n>>}
            /\ \A p \in DOMAIN old : p # <<h, n>> => more[p] = old[p]
        BY <4>1 DEF AnnouncedNow
      <4> HIDE DEF more, old, h
      <4> QED
        BY <2>2, <4>2
    <3> QED
      BY <3>1, <3>2
  <2> HIDE DEF more, old, h, last
  <2>4. Promise(responder.values[k], k, last, more)
    BY <2>1, <2>3, OthersAnnounced
  <2> QED
    BY <1>4, <1>10, <2>4 DEF more
<1>11. Secrets(responder')
  BY <1>4 DEF HonourInv, Secrets
<1>12. Tokens(remote'.granted, now)
  BY <1>5 DEF HonourInv
<1>13. \A k \in Hashes : Promise(responder'.values[k], k, last, remote'.announced)
  BY <1>9, <1>10 DEF new
<1> QED
  BY <1>4, <1>5, <1>11, <1>12, <1>13 DEF HonourInv

LEMMA HonourNext == HonourInv /\ Expiry \in Nat /\ [Next]_vars => HonourInv'
<1> SUFFICES ASSUME HonourInv, Expiry \in Nat, [Next]_vars PROVE HonourInv'
  OBVIOUS
<1>1. ASSUME UNCHANGED answering PROVE HonourInv'
  BY <1>1 DEF answering, HonourInv, Times
<1>2. ASSUME NEW q \in Searches, FindPeers(q) \/ StopFindingPeers(q) PROVE HonourInv'
  BY <1>1, <1>2 DEF FindPeers, StopFindingPeers
<1>3. ASSUME NEW q \in Finds, FindNode(q) PROVE HonourInv'
  BY <1>1, <1>3 DEF FindNode
<1>4. ASSUME NEW p \in Pings, RefreshTable(p) PROVE HonourInv'
  BY <1>4, HonourRefresh
<1>5. ASSUME NEW packet \in packets, Receive(packet) \/ Lose(packet) \/ SendFails(packet)
      PROVE  HonourInv'
  BY <1>1, <1>5 DEF Receive, Lose, SendFails
<1>6. ASSUME NEW id \in 1 .. sent, FindTimeout(id) \/ CheckTimeout(id) PROVE HonourInv'
  BY <1>1, <1>6 DEF FindTimeout, CheckTimeout
<1>7. ASSUME NEW n \in Nodes, NEW request \in RemoteRequests, HandlePacket(n, request)
      PROVE  HonourInv'
  BY <1>7, HonourAsked, HonourAnnounced
<1>8. CASE Restart
  BY <1>8 DEF Restart, HonourInv, Times
<1>9. CASE UNCHANGED vars
  BY <1>1, <1>9 DEF vars
<1>10. CASE Tick
  <2>1. clock' = clock + 1 /\ responder' = responder /\ remote' = remote
    BY <1>10 DEF Tick
  <2>2. Times'
    BY <2>1 DEF HonourInv, Times
  <2> QED
    BY <2>1, <2>2 DEF HonourInv
<1> QED
  BY <1>2, <1>3, <1>4, <1>5, <1>6, <1>7, <1>8, <1>9, <1>10 DEF Next

\* Whatever others ask, at whatever times, and however often this node restarts: a
\* token it gave is good until the second refresh after it, and for no address but
\* those with the same sum of characters; a peer announced with one, if there was
\* room, is stored once and until the first refresh that finds it older than Expiry.
\* Nothing is promised of when a refresh comes: two follow a start (AnnouncesHonoured).
THEOREM PromisesAreKept == Spec => []AnnouncesHonoured
<1>1. Expiry \in Nat
  BY ResponderAssumption DEF ResponderAssumption
<1>2. Init => HonourInv
  BY HonourInit
<1>3. HonourInv /\ [Next]_vars => HonourInv'
  BY <1>1, HonourNext
<1>4. HonourInv => AnnouncesHonoured
  BY ResponderAssumption, HonourEnough
<1> QED
  BY <1>2, <1>3, <1>4, PTL DEF Spec

-------------------------------------------------------------------------------
(* What the table keeps to. *)

NodeEntry == [id : Nodes, active : BOOLEAN, behind : BOOLEAN]

Bucket == [nodes : Seq(NodeEntry), cache : Seq(NodeEntry)]

Distinct(entries) ==
    \A i, j \in DOMAIN entries : entries[i].id = entries[j].id => i = j

\* A node has two places at most.
TwiceAtMost(entries) ==
    \A i, j, k \in DOMAIN entries :
       entries[i].id = entries[j].id /\ entries[j].id = entries[k].id
          => i = j \/ j = k \/ i = k

Few(entries, twice) == IF twice THEN TwiceAtMost(entries) ELSE Distinct(entries)

\* A bucket, whose nodes may be there twice once the table was loaded again.
BucketGood(bucket, twice) ==
    /\ Few(bucket.nodes, twice) /\ Distinct(bucket.cache)
    /\ Ids(bucket.nodes) \cap Ids(bucket.cache) = {}
    /\ Len(bucket.cache) = 0 \/ Len(bucket.nodes) >= MaxBucketNodesCount
    /\ Len(bucket.cache) <= MaxBucketCacheSize

TableGood(tab, twice) ==
    /\ tab \in [Range(BucketOf) -> Bucket]
    /\ \A b \in Range(BucketOf) : BucketGood(tab[b], twice)

-------------------------------------------------------------------------------
(* What a callback works on. *)

AskedNode == [node : Nodes, id : Nat \ {0}]

PendingRequest == [owner : Owners, node : Nodes, id : Nat \ {0}, minDistance : Nat,
                   retries : 0 .. 1]

QueryState == [started : BOOLEAN, requests : Seq(AskedNode), received : Seq(Nodes),
               used : SUBSET Nodes, found : Nat, limit : Nat]

WorkSet == [table : [Range(BucketOf) -> Bucket], query : [Owners -> QueryState],
            peersQueries : Seq(Searches), pending : Seq(PendingRequest),
            packets : SUBSET (Nodes \X Nat), sent : Nat, reported : [Searches -> Nat]]

\* What a query still wants to ask, none of it asked before.
Wants(used) ==
    {to \in Seq(Nodes) : /\ Len(to) <= MaxCachedNodes /\ IsInjective(to)
                         /\ Range(to) \cap used = {}}

Wishes(queries) == \A q \in Queries : queries[q].received \in Wants(queries[q].used)

\* Requests carry different numbers, none of them from the future.
Numbered(requests, last) ==
    /\ \A r \in requests : r.id <= last
    /\ \A r, s \in requests : r.id = s.id => r = s

\* What is pending and what is taken out and not tried yet (rest).
Unique(waiting, rest, last) ==
    /\ rest \subseteq PendingRequest /\ IsFiniteSet(rest)
    /\ IsInjective(waiting) /\ Range(waiting) \cap rest = {}
    /\ Numbered(Range(waiting) \cup rest, last)

At(requests, n) == {r \in requests : r.node = n}

Of(q, requests) == {r \in requests : r.owner = q}

\* The requests a query counts are watched: as many for each node, and the very
\* same unless the query is a search, which forgets by node.
Watched(q, asked, waiting) ==
    IF q \in Searches
    THEN \A n \in Nodes : Cardinality(At(asked, n)) <= Cardinality(At(waiting, n))
    ELSE \A r \in asked : \E s \in waiting : s.id = r.id /\ s.node = r.node

Counts(q, requests, waiting, last) ==
    /\ IsInjective(requests) /\ Numbered(Range(requests), last)
    /\ Watched(q, Range(requests), Of(q, waiting))

AllCount(queries, waiting, last) ==
    \A q \in Owners : Counts(q, queries[q].requests, waiting, last)

Good(w, rest, twice) ==
    /\ w \in WorkSet /\ sent \in Nat /\ sent <= w.sent
    /\ TableGood(w.table, twice)
    /\ Wishes(w.query)
    /\ Unique(w.pending, rest, w.sent)
    /\ AllCount(w.query, Range(w.pending) \cup rest, w.sent)

-------------------------------------------------------------------------------
(* Buckets. *)

\* Nodes stay where they are.
LEMMA SamePlaces ==
    ASSUME NEW old, NEW new, DOMAIN new = DOMAIN old,
           \A i \in DOMAIN old : new[i].id = old[i].id
    PROVE  /\ Ids(new) = Ids(old)
           /\ Distinct(old) => Distinct(new)
           /\ TwiceAtMost(old) => TwiceAtMost(new)
<1>1. Ids(new) = Ids(old)
  BY DEF Ids
<1>2. Distinct(old) => Distinct(new)
  BY DEF Distinct
<1>3. TwiceAtMost(old) => TwiceAtMost(new)
  <2> SUFFICES ASSUME TwiceAtMost(old), NEW i \in DOMAIN old, NEW j \in DOMAIN old,
                      NEW k \in DOMAIN old, new[i].id = new[j].id, new[j].id = new[k].id
               PROVE  i = j \/ j = k \/ i = k
    BY DEF TwiceAtMost
  <2>1. old[i].id = old[j].id /\ old[j].id = old[k].id
    OBVIOUS
  <2> QED
    BY <2>1 DEF TwiceAtMost
<1> QED
  BY <1>1, <1>2, <1>3

LEMMA DistinctIsFew ==
    ASSUME NEW entries, Distinct(entries)
    PROVE  TwiceAtMost(entries)
BY DEF Distinct, TwiceAtMost

\* A node that was not there gets a place.
LEMMA NewPlace ==
    ASSUME NEW old \in Seq(NodeEntry), NEW e \in NodeEntry, e.id \notin Ids(old)
    PROVE  /\ Append(old, e) \in Seq(NodeEntry) /\ Len(Append(old, e)) = Len(old) + 1
           /\ Ids(Append(old, e)) = Ids(old) \cup {e.id}
           /\ Distinct(old) => Distinct(Append(old, e))
           /\ TwiceAtMost(old) => TwiceAtMost(Append(old, e))
<1> DEFINE new == Append(old, e)
<1>1. PICK n \in Nat : n = Len(old) /\ DOMAIN old = 1 .. n
  OBVIOUS
<1>2. /\ new \in Seq(NodeEntry) /\ Len(new) = n + 1 /\ DOMAIN new = 1 .. n + 1
      /\ new[n + 1] = e /\ \A i \in 1 .. n : new[i] = old[i]
  BY <1>1
<1> HIDE DEF new
<1>3. \A i \in 1 .. n + 1 : i \in 1 .. n \/ i = n + 1
  BY <1>1
<1>4. \A i \in 1 .. n : new[i].id = old[i].id /\ new[i].id # e.id
  BY <1>1, <1>2 DEF Ids
<1>5. Ids(new) = Ids(old) \cup {e.id}
  <2>1. 1 .. n + 1 = (1 .. n) \cup {n + 1}
    BY <1>1
  <2> QED
    BY <1>1, <1>2, <2>1 DEF Ids
<1>6. ASSUME Distinct(old) PROVE Distinct(new)
  <2> SUFFICES ASSUME NEW i \in 1 .. n + 1, NEW j \in 1 .. n + 1, new[i].id = new[j].id
               PROVE  i = j
    BY <1>2 DEF Distinct
  <2>1. CASE i \in 1 .. n /\ j \in 1 .. n
    <3>1. old[i].id = old[j].id
      BY <1>4, <2>1
    <3> QED
      BY <1>1, <1>6, <2>1, <3>1 DEF Distinct
  <2>2. CASE i = n + 1 \/ j = n + 1
    BY <1>2, <1>3, <1>4, <2>2
  <2> QED
    BY <1>3, <2>1, <2>2
<1>7. ASSUME TwiceAtMost(old) PROVE TwiceAtMost(new)
  <2> SUFFICES ASSUME NEW i \in 1 .. n + 1, NEW j \in 1 .. n + 1, NEW k \in 1 .. n + 1,
                      new[i].id = new[j].id, new[j].id = new[k].id
               PROVE  i = j \/ j = k \/ i = k
    BY <1>2 DEF TwiceAtMost
  <2>1. CASE i \in 1 .. n /\ j \in 1 .. n /\ k \in 1 .. n
    <3>1. old[i].id = old[j].id /\ old[j].id = old[k].id
      BY <1>4, <2>1
    <3> QED
      BY <1>1, <1>7, <2>1, <3>1 DEF TwiceAtMost
  <2>2. CASE i = n + 1 \/ j = n + 1 \/ k = n + 1
    BY <1>2, <1>3, <1>4, <2>2
  <2> QED
    BY <1>3, <2>1, <2>2
<1> QED
  BY <1>1, <1>2, <1>5, <1>6, <1>7 DEF new

\* A node gives up its place.
LEMMA PlaceGone ==
    ASSUME NEW old \in Seq(NodeEntry), NEW i \in 1 .. Len(old)
    PROVE  /\ RemoveAt(old, i) \in Seq(NodeEntry) /\ Len(RemoveAt(old, i)) = Len(old) - 1
           /\ Ids(RemoveAt(old, i)) \subseteq Ids(old)
           /\ Distinct(old) => /\ Distinct(RemoveAt(old, i))
                               /\ old[i].id \notin Ids(RemoveAt(old, i))
           /\ TwiceAtMost(old) => TwiceAtMost(RemoveAt(old, i))
<1> DEFINE new == RemoveAt(old, i)
           p == [j \in 1 .. Len(old) - 1 |-> IF j < i THEN j ELSE j + 1]
<1>1. PICK n \in Nat : n = Len(old) /\ DOMAIN old = 1 .. n
  OBVIOUS
<1>2. /\ new \in Seq(NodeEntry) /\ Len(new) = n - 1
      /\ \A j \in 1 .. n - 1 : new[j] = IF j < i THEN old[j] ELSE old[j + 1]
  BY <1>1, RemoveAtFacts
<1>3. DOMAIN new = 1 .. n - 1
  BY <1>1, <1>2
<1>4. \A j \in 1 .. n - 1 : p[j] \in 1 .. n /\ p[j] # i /\ new[j] = old[p[j]]
  BY <1>1, <1>2
<1>5. \A j, k \in 1 .. n - 1 : p[j] = p[k] => j = k
  BY <1>1
<1> HIDE DEF new, p
<1>6. Ids(new) \subseteq Ids(old)
  BY <1>1, <1>3, <1>4 DEF Ids
<1>7. ASSUME Distinct(old) PROVE Distinct(new) /\ old[i].id \notin Ids(new)
  <2>1. Distinct(new)
    <3> SUFFICES ASSUME NEW a \in 1 .. n - 1, NEW b \in 1 .. n - 1, new[a].id = new[b].id
                 PROVE  a = b
      BY <1>3 DEF Distinct
    <3>1. /\ p[a] \in DOMAIN old /\ p[b] \in DOMAIN old
          /\ old[p[a]].id = old[p[b]].id
      BY <1>1, <1>4
    <3> QED
      BY <1>5, <1>7, <3>1 DEF Distinct
  <2>2. old[i].id \notin Ids(new)
    BY <1>1, <1>3, <1>4, <1>7 DEF Distinct, Ids
  <2> QED
    BY <2>1, <2>2
<1>8. ASSUME TwiceAtMost(old) PROVE TwiceAtMost(new)
  <2> SUFFICES ASSUME NEW a \in 1 .. n - 1, NEW b \in 1 .. n - 1, NEW c \in 1 .. n - 1,
                      new[a].id = new[b].id, new[b].id = new[c].id
               PROVE  a = b \/ b = c \/ a = c
    BY <1>3 DEF TwiceAtMost
  <2>1. p[a] = p[b] \/ p[b] = p[c] \/ p[a] = p[c]
    <3>1. /\ p[a] \in DOMAIN old /\ p[b] \in DOMAIN old /\ p[c] \in DOMAIN old
          /\ old[p[a]].id = old[p[b]].id /\ old[p[b]].id = old[p[c]].id
      BY <1>1, <1>4
    <3> QED
      BY <1>8, <3>1 DEF TwiceAtMost
  <2> QED
    BY <1>5, <2>1
<1> QED
  BY <1>1, <1>2, <1>6, <1>7, <1>8 DEF new

LEMMA PlaceFound ==
    ASSUME NEW entries \in Seq(NodeEntry), NEW n
    PROVE  /\ Place(entries, n) = 0 <=> n \notin Ids(entries)
           /\ Place(entries, n) # 0 => /\ Place(entries, n) \in 1 .. Len(entries)
                                       /\ entries[Place(entries, n)].id = n
<1> DEFINE found == {i \in 1 .. Len(entries) : entries[i].id = n}
<1>1. found \in SUBSET Nat /\ Ids(entries) = {entries[i].id : i \in 1 .. Len(entries)}
  BY DEF Ids
<1>2. Place(entries, n) = IF found # {} THEN Min(found) ELSE 0
  BY DEF Place, SelectInSeq
<1>3. found # {} => Min(found) \in found
  <2> HIDE DEF found
  <2> QED
    BY <1>1, MinExists
<1>4. n \in Ids(entries) <=> found # {}
  BY <1>1
<1> QED
  BY <1>2, <1>3, <1>4

LEMMA BucketMade ==
    ASSUME NEW twice, NEW nodes \in Seq(NodeEntry), NEW cache \in Seq(NodeEntry),
           Few(nodes, twice), Distinct(cache), Ids(nodes) \cap Ids(cache) = {},
           Len(cache) = 0 \/ Len(nodes) >= MaxBucketNodesCount,
           Len(cache) <= MaxBucketCacheSize
    PROVE  /\ [nodes |-> nodes, cache |-> cache] \in Bucket
           /\ BucketGood([nodes |-> nodes, cache |-> cache], twice)
<1> DEFINE bucket == [nodes |-> nodes, cache |-> cache]
<1>1. bucket.nodes = nodes /\ bucket.cache = cache /\ bucket \in Bucket
  BY DEF Bucket
<1> HIDE DEF bucket
<1>2. BucketGood(bucket, twice)
  BY <1>1 DEF BucketGood
<1> QED
  BY <1>1, <1>2 DEF bucket

LEMMA HeardBucket ==
    ASSUME NEW twice \in BOOLEAN, NEW bucket \in Bucket, BucketGood(bucket, twice),
           NEW n \in Nodes, NEW i, i = Place(bucket.nodes, n), NEW next,
           MaxBucketCacheSize \in Nat \ {0},
           next = IF i # 0
                  THEN [nodes |-> Updated([bucket.nodes EXCEPT ![i].active = TRUE], i),
                        cache |-> Updated(bucket.cache, 0)]
                  ELSE IF n \notin Ids(bucket.cache) /\ Len(bucket.nodes) < MaxBucketNodesCount
                  THEN [nodes |-> Updated(Append(bucket.nodes, Entry(n, TRUE)),
                                          Len(bucket.nodes) + 1),
                        cache |-> Updated(bucket.cache, 0)]
                  ELSE [bucket EXCEPT !.cache = CacheNode(@, n)]
    PROVE  next \in Bucket /\ BucketGood(next, twice)
<1> DEFINE nodes == bucket.nodes cache == bucket.cache
<1>1. nodes \in Seq(NodeEntry) /\ cache \in Seq(NodeEntry)
  BY DEF Bucket
<1>2. /\ Few(nodes, twice) /\ Distinct(cache) /\ Ids(nodes) \cap Ids(cache) = {}
      /\ Len(cache) = 0 \/ Len(nodes) >= MaxBucketNodesCount
      /\ Len(cache) <= MaxBucketCacheSize
  BY DEF BucketGood
<1>3. \A new, waiting : next = [nodes |-> new, cache |-> waiting] =>
         next.nodes = new /\ next.cache = waiting
  OBVIOUS
<1>4. \A k, e : LET u == Updated(e, k)
                IN DOMAIN u = DOMAIN e /\ \A j \in DOMAIN e : u[j] = [e[j] EXCEPT !.behind = j # k]
  BY DEF Updated
<1>5. ASSUME NEW old \in Seq(NodeEntry), NEW k
      PROVE  /\ Updated(old, k) \in Seq(NodeEntry) /\ Len(Updated(old, k)) = Len(old)
             /\ Ids(Updated(old, k)) = Ids(old)
             /\ Distinct(old) => Distinct(Updated(old, k))
             /\ Few(old, twice) => Few(Updated(old, k), twice)
  <2> DEFINE u == Updated(old, k)
  <2>1. PICK l \in Nat : l = Len(old) /\ DOMAIN old = 1 .. l
    OBVIOUS
  <2>2. \A j \in 1 .. l : old[j] \in NodeEntry
    BY <2>1
  <2>3. DOMAIN u = 1 .. l /\ u = [j \in 1 .. l |-> u[j]]
    BY <2>1 DEF Updated
  <2>4. \A j \in 1 .. l : u[j] \in NodeEntry /\ u[j].id = old[j].id
    <3> SUFFICES ASSUME NEW j \in 1 .. l PROVE u[j] \in NodeEntry /\ u[j].id = old[j].id
      OBVIOUS
    <3>1. u[j] = [old[j] EXCEPT !.behind = j # k]
      BY <2>1 DEF Updated
    <3> HIDE DEF u
    <3> QED
      BY <2>2, <3>1 DEF NodeEntry
  <2> HIDE DEF u
  <2>5. u \in Seq(NodeEntry) /\ Len(u) = Len(old)
    BY <2>1, <2>3, <2>4
  <2>6. Ids(u) = Ids(old) /\ (Distinct(old) => Distinct(u)) /\ (TwiceAtMost(old) => TwiceAtMost(u))
    BY <2>1, <2>3, <2>4, SamePlaces
  <2> QED
    BY <2>5, <2>6 DEF u, Few
<1> DEFINE waiting == Updated(cache, 0)
<1>9. /\ waiting \in Seq(NodeEntry) /\ Len(waiting) = Len(cache) /\ Ids(waiting) = Ids(cache)
      /\ Distinct(waiting)
  BY <1>1, <1>2, <1>5
<1> HIDE DEF waiting
<1>6. CASE i # 0
  <2> DEFINE woken == [nodes EXCEPT ![i].active = TRUE]
  <2>1. i \in 1 .. Len(nodes)
    BY <1>1, <1>6, PlaceFound
  <2> DEFINE e == [nodes[i] EXCEPT !.active = TRUE]
  <2>2. e \in NodeEntry /\ e.id = nodes[i].id
    <3>1. nodes[i] \in NodeEntry
      BY <1>1, <2>1
    <3> HIDE DEF nodes
    <3> QED
      BY <3>1 DEF NodeEntry
  <2>3. woken = [nodes EXCEPT ![i] = e]
    OBVIOUS
  <2> HIDE DEF woken, nodes, e
  <2>4. /\ woken \in Seq(NodeEntry) /\ Len(woken) = Len(nodes) /\ DOMAIN woken = DOMAIN nodes
        /\ \A j \in DOMAIN nodes : woken[j].id = nodes[j].id
    BY <1>1, <2>1, <2>2, <2>3
  <2>5. Ids(woken) = Ids(nodes) /\ Few(woken, twice)
    <3>1. /\ Ids(woken) = Ids(nodes) /\ (Distinct(nodes) => Distinct(woken))
          /\ (TwiceAtMost(nodes) => TwiceAtMost(woken))
      BY <2>4, SamePlaces
    <3> QED
      BY <1>2, <3>1 DEF Few
  <2> DEFINE new == Updated(woken, i)
  <2>6. /\ new \in Seq(NodeEntry) /\ Len(new) = Len(nodes)
        /\ Ids(new) = Ids(nodes) /\ Few(new, twice)
    BY <1>5, <2>4, <2>5
  <2>7. next = [nodes |-> new, cache |-> waiting]
    BY <1>6 DEF nodes, woken, waiting
  <2> HIDE DEF new, cache
  <2>8. Ids(new) \cap Ids(waiting) = {} /\ (Len(waiting) = 0 \/ Len(new) >= MaxBucketNodesCount)
    BY <1>2, <1>9, <2>6
  <2> DEFINE made == [nodes |-> new, cache |-> waiting]
  <2>9. made \in Bucket /\ BucketGood(made, twice)
    BY <1>1, <1>2, <1>9, <2>6, <2>8, BucketMade
  <2> QED
    BY <2>7, <2>9
<1>7. CASE i = 0 /\ n \notin Ids(cache) /\ Len(nodes) < MaxBucketNodesCount
  <2> DEFINE more == Append(nodes, Entry(n, TRUE)) new == Updated(more, Len(nodes) + 1)
  <2>1. n \notin Ids(nodes)
    BY <1>1, <1>7, PlaceFound
  <2>2. Entry(n, TRUE) \in NodeEntry /\ Entry(n, TRUE).id = n
    BY DEF Entry, NodeEntry
  <2>3. next = [nodes |-> new, cache |-> waiting]
    BY <1>7 DEF waiting
  <2> HIDE DEF nodes
  <2>4. /\ more \in Seq(NodeEntry) /\ Len(more) = Len(nodes) + 1
        /\ Ids(more) = Ids(nodes) \cup {n} /\ Few(more, twice)
    <3>1. /\ more \in Seq(NodeEntry) /\ Len(more) = Len(nodes) + 1
          /\ Ids(more) = Ids(nodes) \cup {n}
          /\ (Distinct(nodes) => Distinct(more)) /\ (TwiceAtMost(nodes) => TwiceAtMost(more))
      BY <1>1, <2>1, <2>2, NewPlace
    <3> QED
      BY <1>2, <3>1 DEF Few
  <2> HIDE DEF more
  <2>5. /\ new \in Seq(NodeEntry) /\ Len(new) = Len(nodes) + 1
        /\ Ids(new) = Ids(nodes) \cup {n} /\ Few(new, twice)
    BY <1>5, <2>4
  <2>6. Len(cache) = 0 \/ Len(nodes) + 1 >= MaxBucketNodesCount
    BY <1>1, <1>2, <1>7, TableAssumption DEF TableAssumption
  <2>7. (Ids(nodes) \cup {n}) \cap Ids(cache) = {}
    BY <1>2, <1>7
  <2> HIDE DEF new, cache
  <2>8. Ids(new) \cap Ids(waiting) = {} /\ (Len(waiting) = 0 \/ Len(new) >= MaxBucketNodesCount)
    BY <1>9, <2>5, <2>6, <2>7
  <2> DEFINE made == [nodes |-> new, cache |-> waiting]
  <2>9. made \in Bucket /\ BucketGood(made, twice)
    BY <1>1, <1>2, <1>9, <2>5, <2>8, BucketMade
  <2> QED
    BY <2>3, <2>9
<1>8. CASE i = 0 /\ ~ (n \notin Ids(cache) /\ Len(nodes) < MaxBucketNodesCount)
  <2> DEFINE new == CacheNode(cache, n)
  <2>1. n \notin Ids(nodes)
    BY <1>1, <1>8, PlaceFound
  <2>2. Entry(n, FALSE) \in NodeEntry /\ Entry(n, FALSE).id = n
    BY DEF Entry, NodeEntry
  <2>3. next = [nodes |-> nodes, cache |-> new]
    BY <1>8 DEF Bucket
  <2> HIDE DEF nodes, cache
  <2>4. PICK l \in Nat : l = Len(cache) /\ DOMAIN cache = 1 .. l
    BY <1>1
  <2>5. /\ new \in Seq(NodeEntry) /\ Distinct(new) /\ Ids(new) \subseteq Ids(cache) \cup {n}
        /\ Len(new) <= MaxBucketCacheSize
    <3>1. CASE n \in Ids(cache)
      <4> DEFINE k == Place(cache, n) e == [cache[k] EXCEPT !.behind = FALSE]
      <4>1. k \in 1 .. l
        BY <1>1, <2>4, <3>1, PlaceFound
      <4>2. new = [cache EXCEPT ![k] = e]
        BY <3>1 DEF CacheNode
      <4>3. e \in NodeEntry /\ e.id = cache[k].id
        <5>1. cache[k] \in NodeEntry
          BY <1>1, <2>4, <4>1
        <5> HIDE DEF k
        <5> QED
          BY <5>1 DEF NodeEntry
      <4> HIDE DEF k, e, new
      <4>4. /\ new \in Seq(NodeEntry) /\ Len(new) = l /\ DOMAIN new = DOMAIN cache
            /\ \A j \in DOMAIN cache : new[j].id = cache[j].id
        BY <1>1, <2>4, <4>1, <4>2, <4>3
      <4>5. Ids(new) = Ids(cache) /\ (Distinct(cache) => Distinct(new))
        BY <4>4, SamePlaces
      <4> QED
        BY <1>2, <2>4, <4>4, <4>5
    <3>2. CASE n \notin Ids(cache) /\ l < MaxBucketCacheSize
      <4>1. new = Append(cache, Entry(n, FALSE))
        BY <2>4, <3>2 DEF CacheNode
      <4> HIDE DEF new
      <4>2. /\ new \in Seq(NodeEntry) /\ Len(new) = l + 1 /\ Ids(new) = Ids(cache) \cup {n}
            /\ Distinct(new)
        BY <1>1, <1>2, <2>2, <2>4, <3>2, <4>1, NewPlace
      <4> QED
        BY <2>4, <3>2, <4>2
    <3>3. CASE n \notin Ids(cache) /\ ~ (l < MaxBucketCacheSize)
      <4>1. new = [cache EXCEPT ![l] = Entry(n, FALSE)]
        BY <2>4, <3>3 DEF CacheNode
      <4>2. l \in 1 .. l
        BY <2>4, <3>3
      <4> DEFINE e == Entry(n, FALSE)
      <4> HIDE DEF new, e
      <4>3. /\ new \in Seq(NodeEntry) /\ DOMAIN new = 1 .. l /\ Len(new) = l
            /\ new[l].id = n /\ \A j \in 1 .. l : j # l => new[j] = cache[j]
        <5>1. new = [cache EXCEPT ![l] = e] /\ e \in NodeEntry /\ e.id = n
          BY <2>2, <4>1 DEF e
        <5>2. DOMAIN new = 1 .. l /\ new[l] = e /\ \A j \in 1 .. l : j # l => new[j] = cache[j]
          BY <2>4, <4>2, <5>1
        <5>3. new \in Seq(NodeEntry)
          BY <1>1, <2>4, <4>2, <5>1
        <5>4. Len(new) = l
          BY <2>4, <5>2, <5>3
        <5> QED
          BY <5>1, <5>2, <5>3, <5>4
      <4>4. \A j \in 1 .. l : cache[j].id # n
        BY <2>4, <3>3 DEF Ids
      <4>5. Distinct(new)
        <5> SUFFICES ASSUME NEW j \in 1 .. l, NEW k \in 1 .. l, new[j].id = new[k].id PROVE j = k
          BY <4>3 DEF Distinct
        <5>1. CASE j # l /\ k # l
          BY <1>2, <2>4, <4>3, <5>1 DEF Distinct
        <5>2. CASE j = l \/ k = l
          BY <4>3, <4>4, <5>2
        <5> QED
          BY <5>1, <5>2
      <4>6. Ids(new) \subseteq Ids(cache) \cup {n}
        BY <2>4, <4>3 DEF Ids
      <4>7. Len(new) <= MaxBucketCacheSize
        BY <1>2, <2>4, <4>3
      <4> QED
        BY <4>3, <4>5, <4>6, <4>7
    <3> QED
      BY <3>1, <3>2, <3>3
  <2>6. Len(nodes) >= MaxBucketNodesCount
    <3>1. CASE n \in Ids(cache)
      <4>1. Len(cache) # 0
        BY <2>4, <3>1 DEF Ids
      <4> QED
        BY <1>2, <4>1
    <3>2. CASE n \notin Ids(cache)
      <4>1. ~ (Len(nodes) < MaxBucketNodesCount)
        BY <1>8, <3>2
      <4> QED
        BY <1>1, <4>1, TableAssumption DEF TableAssumption
    <3> QED
      BY <3>1, <3>2
  <2>7. Ids(nodes) \cap Ids(new) = {}
    BY <1>2, <2>1, <2>5
  <2> HIDE DEF new
  <2> DEFINE made == [nodes |-> nodes, cache |-> new]
  <2>8. made \in Bucket /\ BucketGood(made, twice)
    BY <1>1, <1>2, <2>5, <2>6, <2>7, BucketMade
  <2> QED
    BY <2>3, <2>8
<1> QED
  BY <1>6, <1>7, <1>8
LEMMA FirstLeaves ==
    ASSUME NEW old \in Seq(NodeEntry), Len(old) # 0, Distinct(old)
    PROVE  /\ SubSeq(old, 2, Len(old)) \in Seq(NodeEntry)
           /\ Len(SubSeq(old, 2, Len(old))) = Len(old) - 1
           /\ Distinct(SubSeq(old, 2, Len(old)))
           /\ Ids(SubSeq(old, 2, Len(old))) \subseteq Ids(old) \ {Head(old).id}
           /\ Head(old) \in NodeEntry /\ Head(old).id \in Ids(old)
<1> DEFINE new == SubSeq(old, 2, Len(old))
<1>1. PICK n \in Nat \ {0} : n = Len(old) /\ DOMAIN old = 1 .. n
  OBVIOUS
<1>2. new \in Seq(NodeEntry) /\ Len(new) = n - 1
  BY <1>1
<1>3. DOMAIN new = 1 .. n - 1
  BY <1>1, <1>2
<1>4. \A j \in 1 .. n - 1 : j + 1 \in 1 .. n /\ j + 1 # 1 /\ new[j] = old[j + 1]
  BY <1>1
<1>5. 1 \in 1 .. n /\ Head(old) = old[1]
  BY <1>1
<1> HIDE DEF new
<1>6. Head(old) \in NodeEntry /\ Head(old).id \in Ids(old)
  BY <1>1, <1>5 DEF Ids
<1>7. Distinct(new)
  <2> SUFFICES ASSUME NEW a \in 1 .. n - 1, NEW b \in 1 .. n - 1, new[a].id = new[b].id
               PROVE  a = b
    BY <1>3 DEF Distinct
  <2>1. a + 1 \in DOMAIN old /\ b + 1 \in DOMAIN old /\ old[a + 1].id = old[b + 1].id
    BY <1>1, <1>4
  <2>2. a + 1 = b + 1
    BY <2>1 DEF Distinct
  <2> QED
    BY <2>2
<1>8. ASSUME NEW a \in 1 .. n - 1 PROVE new[a].id \in Ids(old) \ {old[1].id}
  <2>1. a + 1 \in 1 .. n /\ a + 1 # 1 /\ new[a] = old[a + 1]
    BY <1>4
  <2> QED
    BY <1>1, <1>5, <2>1 DEF Distinct, Ids
<1>9. Ids(new) \subseteq Ids(old) \ {Head(old).id}
  BY <1>3, <1>5, <1>8 DEF Ids
<1> QED
  BY <1>1, <1>2, <1>6, <1>7, <1>9 DEF new

LEMMA UnheardBucket ==
    ASSUME NEW twice \in BOOLEAN, NEW bucket \in Bucket, BucketGood(bucket, twice),
           NEW n \in Nodes, NEW i, i = Place(bucket.nodes, n), NEW gone, NEW promoted, NEW next,
           promoted = IF bucket.cache = <<>> THEN <<>> ELSE <<Head(bucket.cache)>>,
           next = IF i = 0 THEN bucket
                  ELSE IF gone
                  THEN [nodes |-> RemoveAt(bucket.nodes, i) \o promoted,
                        cache |-> SubSeq(bucket.cache, 2, Len(bucket.cache))]
                  ELSE [bucket EXCEPT !.nodes[i] =
                           [id |-> n, active |-> FALSE, behind |-> @.behind /\ ~ @.active]]
    PROVE  next \in Bucket /\ BucketGood(next, twice)
<1> DEFINE nodes == bucket.nodes cache == bucket.cache
<1>1. nodes \in Seq(NodeEntry) /\ cache \in Seq(NodeEntry)
  BY DEF Bucket
<1>2. /\ Few(nodes, twice) /\ Distinct(cache) /\ Ids(nodes) \cap Ids(cache) = {}
      /\ Len(cache) = 0 \/ Len(nodes) >= MaxBucketNodesCount
      /\ Len(cache) <= MaxBucketCacheSize
  BY DEF BucketGood
<1>3. CASE i = 0
  BY <1>3
<1>4. ASSUME i # 0 PROVE i \in 1 .. Len(nodes)
  BY <1>1, <1>4, PlaceFound
<1>5. CASE i # 0 /\ ~ gone
  <2> DEFINE x == nodes[i]
             e == [id |-> n, active |-> FALSE, behind |-> x.behind /\ ~ x.active]
             new == [nodes EXCEPT ![i] = e]
             made == [nodes |-> new, cache |-> cache]
  <2>1. x \in NodeEntry /\ x.id = n
    BY <1>1, <1>4, <1>5, PlaceFound
  <2>2. e \in NodeEntry /\ e.id = x.id
    <3> HIDE DEF x
    <3> QED
      BY <2>1 DEF NodeEntry
  <2>3. next = made
    BY <1>5 DEF Bucket
  <2> HIDE DEF e, x, nodes, cache
  <2>4. /\ new \in Seq(NodeEntry) /\ Len(new) = Len(nodes) /\ DOMAIN new = DOMAIN nodes
        /\ \A j \in DOMAIN nodes : new[j].id = nodes[j].id
    BY <1>1, <1>4, <1>5, <2>2 DEF x
  <2> HIDE DEF new
  <2>5. Ids(new) = Ids(nodes) /\ Few(new, twice)
    <3>1. /\ Ids(new) = Ids(nodes) /\ (Distinct(nodes) => Distinct(new))
          /\ (TwiceAtMost(nodes) => TwiceAtMost(new))
      BY <2>4, SamePlaces
    <3> QED
      BY <1>2, <3>1 DEF Few
  <2>6. Ids(new) \cap Ids(cache) = {} /\ (Len(cache) = 0 \/ Len(new) >= MaxBucketNodesCount)
    BY <1>2, <2>4, <2>5
  <2>7. made \in Bucket /\ BucketGood(made, twice)
    BY <1>1, <1>2, <2>4, <2>5, <2>6, BucketMade
  <2> QED
    BY <2>3, <2>7
<1>6. CASE i # 0 /\ gone
  <2> DEFINE left == RemoveAt(nodes, i) new == left \o promoted
             rest == SubSeq(cache, 2, Len(cache))
             made == [nodes |-> new, cache |-> rest]
  <2>1. next = made
    BY <1>6
  <2> HIDE DEF nodes, cache
  <2>2. /\ left \in Seq(NodeEntry) /\ Len(left) = Len(nodes) - 1 /\ Ids(left) \subseteq Ids(nodes)
        /\ Few(left, twice)
    <3>1. i \in 1 .. Len(nodes)
      BY <1>4, <1>6
    <3>2. /\ left \in Seq(NodeEntry) /\ Len(left) = Len(nodes) - 1 /\ Ids(left) \subseteq Ids(nodes)
          /\ (Distinct(nodes) => Distinct(left)) /\ (TwiceAtMost(nodes) => TwiceAtMost(left))
      BY <1>1, <3>1, PlaceGone
    <3> QED
      BY <1>2, <3>2 DEF Few
  <2> HIDE DEF left
  <2>3. CASE Len(cache) = 0
    <3>1. cache = <<>>
      BY <1>1, <2>3
    <3>2. new = left
      BY <2>2, <3>1 DEF cache
    <3>3. rest = <<>>
      BY <3>1
    <3> HIDE DEF new, rest
    <3>4. rest \in Seq(NodeEntry) /\ Distinct(rest) /\ Ids(rest) = {} /\ Len(rest) = 0
      BY <3>3 DEF Distinct, Ids
    <3>5. Len(rest) <= MaxBucketCacheSize
      BY <3>4, TableAssumption DEF TableAssumption
    <3>6. made \in Bucket /\ BucketGood(made, twice)
      BY <2>2, <3>2, <3>4, <3>5, BucketMade
    <3> QED
      BY <2>1, <3>6
  <2>4. CASE Len(cache) # 0
    <3>1. cache # <<>>
      BY <1>1, <2>4
    <3>2. new = Append(left, Head(cache))
      <4>1. promoted = <<Head(cache)>>
        BY <3>1 DEF cache
      <4> QED
        BY <2>2, <4>1
    <3>3. /\ rest \in Seq(NodeEntry) /\ Len(rest) = Len(cache) - 1 /\ Distinct(rest)
          /\ Ids(rest) \subseteq Ids(cache) \ {Head(cache).id}
          /\ Head(cache) \in NodeEntry /\ Head(cache).id \in Ids(cache)
      BY <1>1, <1>2, <2>4, FirstLeaves
    <3> HIDE DEF new, rest
    <3>4. Head(cache).id \notin Ids(left)
      BY <1>2, <2>2, <3>3
    <3>5. /\ new \in Seq(NodeEntry) /\ Len(new) = Len(left) + 1
          /\ Ids(new) = Ids(left) \cup {Head(cache).id}
          /\ (Distinct(left) => Distinct(new)) /\ (TwiceAtMost(left) => TwiceAtMost(new))
      BY <2>2, <3>2, <3>3, <3>4, NewPlace
    <3>6. Few(new, twice)
      BY <2>2, <3>5 DEF Few
    <3>7. Ids(new) \cap Ids(rest) = {}
      BY <1>2, <2>2, <3>3, <3>5
    <3>8. Len(rest) = 0 \/ Len(new) >= MaxBucketNodesCount
      BY <1>1, <1>2, <2>2, <2>4, <3>5
    <3>9. Len(rest) <= MaxBucketCacheSize
      BY <1>1, <1>2, <3>3, TableAssumption DEF TableAssumption
    <3>10. made \in Bucket /\ BucketGood(made, twice)
      BY <3>3, <3>5, <3>6, <3>7, <3>8, <3>9, BucketMade
    <3> QED
      BY <2>1, <3>10
  <2> QED
    BY <2>3, <2>4
<1> QED
  BY <1>3, <1>5, <1>6

LEMMA BucketReloaded ==
    ASSUME NEW bucket \in Bucket, BucketGood(bucket, FALSE), NEW again,
           again = [i \in DOMAIN bucket.nodes |->
                       [id |-> bucket.nodes[i].id, active |-> TRUE, behind |-> TRUE]]
    PROVE  /\ [bucket EXCEPT !.nodes = @ \o again] \in Bucket
           /\ BucketGood([bucket EXCEPT !.nodes = @ \o again], TRUE)
<1> DEFINE nodes == bucket.nodes cache == bucket.cache new == nodes \o again
           made == [nodes |-> new, cache |-> cache]
<1>1. nodes \in Seq(NodeEntry) /\ cache \in Seq(NodeEntry)
  BY DEF Bucket
<1>20. [bucket EXCEPT !.nodes = @ \o again] = made
  <2>1. bucket \in [nodes : Seq(NodeEntry), cache : Seq(NodeEntry)]
    BY DEF Bucket
  <2> HIDE DEF new
  <2>2. [bucket EXCEPT !.nodes = new] = [nodes |-> new, cache |-> bucket.cache]
    BY <2>1
  <2> QED
    BY <2>2 DEF new
<1>2. /\ Distinct(nodes) /\ Distinct(cache) /\ Ids(nodes) \cap Ids(cache) = {}
      /\ Len(cache) = 0 \/ Len(nodes) >= MaxBucketNodesCount
      /\ Len(cache) <= MaxBucketCacheSize
  BY DEF BucketGood, Few
<1>21. /\ DOMAIN again = DOMAIN nodes
       /\ \A i \in DOMAIN nodes : again[i] = [id |-> nodes[i].id, active |-> TRUE, behind |-> TRUE]
       /\ again = [j \in DOMAIN nodes |-> again[j]]
  OBVIOUS
<1> HIDE DEF nodes, cache
<1>3. PICK n \in Nat : n = Len(nodes) /\ DOMAIN nodes = 1 .. n
  BY <1>1
<1>4. \A i \in 1 .. n : again[i] \in NodeEntry /\ again[i].id = nodes[i].id
  <2> SUFFICES ASSUME NEW i \in 1 .. n PROVE again[i] \in NodeEntry /\ again[i].id = nodes[i].id
    OBVIOUS
  <2> DEFINE x == nodes[i].id saved == [id |-> x, active |-> TRUE, behind |-> TRUE]
  <2>1. x \in Nodes
    <3>1. nodes[i] \in NodeEntry
      BY <1>1, <1>3
    <3> QED
      BY <3>1 DEF NodeEntry
  <2>2. again[i] = saved
    BY <1>21, <1>3
  <2> HIDE DEF x
  <2>3. saved \in NodeEntry /\ saved.id = x
    BY <2>1 DEF NodeEntry
  <2> QED
    BY <2>2, <2>3 DEF x
<1>5. again \in Seq(NodeEntry) /\ Len(again) = n
  <2>1. again = [i \in 1 .. n |-> again[i]]
    BY <1>21, <1>3
  <2>2. again \in [1 .. n -> NodeEntry]
    BY <1>4, <2>1
  <2> QED
    BY <2>2, FunctionIsSeq
<1>6. /\ new \in Seq(NodeEntry) /\ Len(new) = n + n /\ DOMAIN new = 1 .. n + n
      /\ \A i \in 1 .. n : new[i] = nodes[i]
      /\ \A i \in 1 .. n + n : ~ (i <= n) => i - n \in 1 .. n /\ new[i] = again[i - n]
  <2>1. new \in Seq(NodeEntry)
    BY <1>1, <1>5
  <2>2. Len(new) = n + n
    <3>1. Len(new) = Len(nodes) + Len(again)
      BY <1>1, <1>5
    <3> QED
      BY <1>3, <1>5, <3>1
  <2>3. \A i \in 1 .. n : new[i] = nodes[i]
    BY <1>1, <1>3, <1>5
  <2>4. \A i \in 1 .. n + n : ~ (i <= n) => i - n \in 1 .. n
    BY <1>3
  <2>5. \A i \in 1 .. n + n : ~ (i <= n) => new[i] = again[i - n]
    BY <1>1, <1>3, <1>5
  <2>6. DOMAIN new = 1 .. n + n
    BY <2>1, <2>2
  <2> QED
    BY <2>1, <2>2, <2>3, <2>4, <2>5, <2>6
<1> DEFINE p == [i \in 1 .. n + n |-> IF i <= n THEN i ELSE i - n]
<1>7. \A i \in 1 .. n + n : p[i] \in 1 .. n /\ new[i].id = nodes[p[i]].id
  <2> SUFFICES ASSUME NEW i \in 1 .. n + n PROVE p[i] \in 1 .. n /\ new[i].id = nodes[p[i]].id
    OBVIOUS
  <2> HIDE DEF new
  <2>1. CASE i <= n
    BY <1>3, <1>6, <2>1
  <2>2. CASE ~ (i <= n)
    BY <1>3, <1>4, <1>6, <2>2
  <2> QED
    BY <2>1, <2>2
<1>8. \A i, j, k \in 1 .. n + n : p[i] = p[j] /\ p[j] = p[k] => i = j \/ j = k \/ i = k
  BY <1>3
<1> HIDE DEF new, p
<1>9. Few(new, TRUE)
  <2> SUFFICES ASSUME NEW i \in 1 .. n + n, NEW j \in 1 .. n + n, NEW k \in 1 .. n + n,
                      new[i].id = new[j].id, new[j].id = new[k].id
               PROVE  i = j \/ j = k \/ i = k
    BY <1>6 DEF Few, TwiceAtMost
  <2>1. /\ p[i] \in DOMAIN nodes /\ p[j] \in DOMAIN nodes /\ p[k] \in DOMAIN nodes
        /\ nodes[p[i]].id = nodes[p[j]].id /\ nodes[p[j]].id = nodes[p[k]].id
    BY <1>3, <1>7
  <2>2. p[i] = p[j] /\ p[j] = p[k]
    BY <1>2, <2>1 DEF Distinct
  <2> QED
    BY <1>8, <2>2
<1>10. Ids(new) \subseteq Ids(nodes)
  BY <1>3, <1>6, <1>7 DEF Ids
<1>11. Ids(new) \cap Ids(cache) = {} /\ (Len(cache) = 0 \/ Len(new) >= MaxBucketNodesCount)
  BY <1>2, <1>3, <1>6, <1>10, TableAssumption DEF TableAssumption
<1>12. made \in Bucket /\ BucketGood(made, TRUE)
  BY <1>1, <1>2, <1>6, <1>9, <1>11, BucketMade
<1> QED
  BY <1>20, <1>12
-------------------------------------------------------------------------------
(* The table. *)

LEMMA Responded ==
    ASSUME NEW twice \in BOOLEAN, NEW tab, TableGood(tab, twice), NEW n \in Nodes
    PROVE  TableGood(NodeResponded(tab, n), twice)
<1> DEFINE b == BucketOf[n] bucket == tab[b] i == Place(bucket.nodes, n)
           next == IF i # 0
                   THEN [nodes |-> Updated([bucket.nodes EXCEPT ![i].active = TRUE], i),
                         cache |-> Updated(bucket.cache, 0)]
                   ELSE IF n \notin Ids(bucket.cache) /\ Len(bucket.nodes) < MaxBucketNodesCount
                   THEN [nodes |-> Updated(Append(bucket.nodes, Entry(n, TRUE)),
                                           Len(bucket.nodes) + 1),
                         cache |-> Updated(bucket.cache, 0)]
                   ELSE [bucket EXCEPT !.cache = CacheNode(@, n)]
<1>1. b \in Range(BucketOf)
  BY TableAssumption DEF TableAssumption, Range
<1>2. bucket \in Bucket /\ BucketGood(bucket, twice)
  BY <1>1 DEF TableGood
<1>3. NodeResponded(tab, n) = [tab EXCEPT ![b] = next]
  BY DEF NodeResponded
<1> HIDE DEF b, bucket
<1>4. next \in Bucket /\ BucketGood(next, twice)
  BY <1>2, HeardBucket, TableAssumption DEF TableAssumption
<1> HIDE DEF next
<1> QED
  BY <1>1, <1>3, <1>4 DEF TableGood

LEMMA NotResponded ==
    ASSUME NEW twice \in BOOLEAN, NEW tab, TableGood(tab, twice), NEW n \in Nodes, NEW old
    PROVE  TableGood(NodeNotResponded(tab, n, old), twice)
<1> DEFINE b == BucketOf[n] bucket == tab[b] i == Place(bucket.nodes, n)
           gone == old /\ ~ bucket.nodes[i].active /\ bucket.nodes[i].behind
           promoted == IF bucket.cache = <<>> THEN <<>> ELSE <<Head(bucket.cache)>>
           next == IF i = 0 THEN bucket
                   ELSE IF gone
                   THEN [nodes |-> RemoveAt(bucket.nodes, i) \o promoted,
                         cache |-> SubSeq(bucket.cache, 2, Len(bucket.cache))]
                   ELSE [bucket EXCEPT !.nodes[i] =
                            [id |-> n, active |-> FALSE, behind |-> @.behind /\ ~ @.active]]
<1>1. b \in Range(BucketOf)
  BY TableAssumption DEF TableAssumption, Range
<1>2. bucket \in Bucket /\ BucketGood(bucket, twice)
  BY <1>1 DEF TableGood
<1>3. NodeNotResponded(tab, n, old) = [tab EXCEPT ![b] = next]
  BY DEF NodeNotResponded
<1> HIDE DEF b, bucket
<1>4. next \in Bucket /\ BucketGood(next, twice)
  <2> HIDE DEF gone
  <2> QED
    BY <1>2, UnheardBucket
<1> HIDE DEF next
<1> QED
  BY <1>1, <1>3, <1>4 DEF TableGood

LEMMA Reloaded ==
    ASSUME NEW tab, TableGood(tab, FALSE)
    PROVE  TableGood(Reload(tab), TRUE)
<1> DEFINE Again(b) == [i \in DOMAIN tab[b].nodes |->
                           [id |-> tab[b].nodes[i].id, active |-> TRUE, behind |-> TRUE]]
           Next_(b) == [tab[b] EXCEPT !.nodes = @ \o Again(b)]
<1>1. DOMAIN tab = Range(BucketOf)
  BY DEF TableGood
<1>2. Reload(tab) = [b \in Range(BucketOf) |-> Next_(b)]
  BY <1>1 DEF Reload
<1>3. ASSUME NEW b \in Range(BucketOf)
      PROVE  Next_(b) \in Bucket /\ BucketGood(Next_(b), TRUE)
  <2>1. tab[b] \in Bucket /\ BucketGood(tab[b], FALSE)
    BY DEF TableGood
  <2> DEFINE bucket == tab[b]
  <2> HIDE DEF bucket
  <2>2. /\ [bucket EXCEPT !.nodes = @ \o [i \in DOMAIN bucket.nodes |->
               [id |-> bucket.nodes[i].id, active |-> TRUE, behind |-> TRUE]]] \in Bucket
        /\ BucketGood([bucket EXCEPT !.nodes = @ \o [i \in DOMAIN bucket.nodes |->
               [id |-> bucket.nodes[i].id, active |-> TRUE, behind |-> TRUE]]], TRUE)
    BY <2>1, BucketReloaded DEF bucket
  <2> QED
    BY <2>2 DEF bucket
<1> HIDE DEF Next_
<1> QED
  BY <1>2, <1>3 DEF TableGood

LEMMA TableEnough ==
    ASSUME NEW twice \in BOOLEAN, NEW tab, TableGood(tab, twice), NEW b \in DOMAIN tab
    PROVE  LET all == tab[b].nodes \o tab[b].cache IN
           /\ \A n \in Nodes :
                 Cardinality({i \in DOMAIN all : all[i].id = n}) <= IF twice THEN 2 ELSE 1
           /\ tab[b].cache # <<>> => Len(tab[b].nodes) >= MaxBucketNodesCount
           /\ Len(tab[b].cache) <= MaxBucketCacheSize
<1> DEFINE nodes == tab[b].nodes cache == tab[b].cache all == nodes \o cache
<1>1. tab[b] \in Bucket /\ BucketGood(tab[b], twice)
  BY DEF TableGood
<1>2. nodes \in Seq(NodeEntry) /\ cache \in Seq(NodeEntry)
  BY <1>1 DEF Bucket
<1>3. /\ Few(nodes, twice) /\ Distinct(cache) /\ Ids(nodes) \cap Ids(cache) = {}
      /\ Len(cache) = 0 \/ Len(nodes) >= MaxBucketNodesCount
      /\ Len(cache) <= MaxBucketCacheSize
  BY <1>1 DEF BucketGood
<1> HIDE DEF nodes, cache
<1>4. PICK p \in Nat : p = Len(nodes) /\ DOMAIN nodes = 1 .. p
  BY <1>2
<1>5. PICK c \in Nat : c = Len(cache) /\ DOMAIN cache = 1 .. c
  BY <1>2
<1>6. /\ DOMAIN all = 1 .. p + c /\ \A i \in 1 .. p : all[i] = nodes[i]
      /\ \A i \in 1 .. p + c : ~ (i <= p) => i - p \in 1 .. c /\ all[i] = cache[i - p]
  <2>1. Len(all) = p + c /\ all \in Seq(NodeEntry)
    <3>1. Len(all) = Len(nodes) + Len(cache)
      BY <1>2
    <3> QED
      BY <1>2, <1>4, <1>5, <3>1
  <2>2. DOMAIN all = 1 .. p + c
    BY <2>1
  <2>3. \A i \in 1 .. p : all[i] = nodes[i]
    BY <1>2, <1>4, <1>5
  <2>4. \A i \in 1 .. p + c : ~ (i <= p) => i - p \in 1 .. c
    BY <1>4, <1>5
  <2>5. \A i \in 1 .. p + c : ~ (i <= p) => all[i] = cache[i - p]
    BY <1>2, <1>4, <1>5
  <2> QED
    BY <2>2, <2>3, <2>4, <2>5
<1> HIDE DEF all
<1>7. ASSUME NEW n \in Nodes
      PROVE  Cardinality({i \in DOMAIN all : all[i].id = n}) <= IF twice THEN 2 ELSE 1
  <2> DEFINE here == {i \in DOMAIN all : all[i].id = n}
             Same(i) == \A j \in here : j = i
  <2>1. here \subseteq 1 .. p + c
    BY <1>6
  <2>2. ASSUME NEW i \in here, NEW j \in here, ~ (i <= p)
        PROVE  i = j
    <3>1. i - p \in 1 .. c /\ cache[i - p].id = n /\ i \in Int
      BY <1>6, <2>2
    <3>2. n \in Ids(cache)
      BY <1>5, <3>1 DEF Ids
    <3>3. n \notin Ids(nodes)
      BY <1>3, <3>2
    <3>4. ~ (j <= p)
      <4> SUFFICES ASSUME j <= p PROVE n \in Ids(nodes)
        BY <3>3
      <4>1. j \in 1 .. p /\ nodes[j].id = n
        BY <1>6
      <4> QED
        BY <1>4, <4>1 DEF Ids
    <3>5. j - p \in 1 .. c /\ cache[j - p].id = n /\ j \in Int
      BY <1>6, <3>4
    <3>6. i - p = j - p
      BY <1>3, <1>5, <3>1, <3>5 DEF Distinct
    <3> QED
      BY <1>4, <3>1, <3>5, <3>6
  <2>3. \A i \in here : i <= p => i \in DOMAIN nodes /\ nodes[i].id = n
    BY <1>4, <1>6
  <2>4. CASE ~ twice
    <3>1. \A i, j \in here : i = j
      <4> SUFFICES ASSUME NEW i \in here, NEW j \in here PROVE i = j
        OBVIOUS
      <4>1. CASE i <= p /\ j <= p
        BY <1>3, <2>3, <2>4, <4>1 DEF Few, Distinct
      <4>2. CASE ~ (i <= p) \/ ~ (j <= p)
        BY <2>2, <4>2
      <4> HIDE DEF here
      <4> QED
        BY <4>1, <4>2
    <3>2. here = {} \/ \E i : here = {i}
      <4> HIDE DEF here
      <4> QED
        BY <3>1
    <3> HIDE DEF here
    <3>3. Cardinality(here) <= 1
      <4>1. CASE here = {}
        BY <4>1, FS_EmptySet
      <4>2. ASSUME NEW x, here = {x} PROVE Cardinality(here) <= 1
        BY <4>2, FS_Singleton
      <4> QED
        BY <3>2, <4>1, <4>2
    <3> QED
      BY <2>4, <3>3 DEF here
  <2>5. CASE twice
    <3>1. \A i, j, k \in here : i = j \/ j = k \/ i = k
      <4> SUFFICES ASSUME NEW i \in here, NEW j \in here, NEW k \in here
                   PROVE  i = j \/ j = k \/ i = k
        OBVIOUS
      <4>1. CASE i <= p /\ j <= p /\ k <= p
        BY <1>3, <2>3, <2>5, <4>1 DEF Few, TwiceAtMost
      <4>2. CASE ~ (i <= p) \/ ~ (j <= p) \/ ~ (k <= p)
        BY <2>2, <4>2
      <4> HIDE DEF here
      <4> QED
        BY <4>1, <4>2
    <3> HIDE DEF here
    <3>2. here = {} \/ \E i, j : here = {i, j}
      <4>1. CASE here # {}
        <5>1. PICK i \in here : TRUE
          BY <4>1
        <5>2. CASE \A j \in here : j = i
          <6>1. here = {i, i}
            BY <5>1, <5>2
          <6> QED
            BY <6>1
        <5>3. CASE \E j \in here : j # i
          <6>1. PICK j \in here : j # i
            BY <5>3
          <6>2. here = {i, j}
            BY <3>1, <5>1, <6>1
          <6> QED
            BY <6>2
        <5> QED
          BY <5>2, <5>3
      <4> QED
        BY <4>1
    <3>3. Cardinality(here) <= 2
      <4>1. CASE here = {}
        BY <4>1, FS_EmptySet
      <4>2. ASSUME NEW i, NEW j, here = {i, j} PROVE Cardinality(here) <= 2
        <5>1. IsFiniteSet({i}) /\ Cardinality({i}) = 1
          BY FS_Singleton
        <5>2. Cardinality({i} \cup {j}) <= 2
          BY <5>1, FS_AddElement
        <5>3. here = {i} \cup {j}
          BY <4>2
        <5> QED
          BY <5>2, <5>3
      <4> QED
        BY <3>2, <4>1, <4>2
    <3> QED
      BY <2>5, <3>3 DEF here
  <2> QED
    BY <2>4, <2>5
<1>8. cache # <<>> => Len(nodes) >= MaxBucketNodesCount
  BY <1>2, <1>3
<1> QED
  BY <1>3, <1>7, <1>8 DEF all, nodes, cache
\* The table with the nodes that were saved.
LEMMA TableLoaded ==
    TableGood(FoldLeft(NodeResponded, [b \in Range(BucketOf) |-> EmptyBucket], KnownAtFirst), FALSE)
<1> DEFINE seq == KnownAtFirst
           n == Len(seq)
           Op(tab, x) == NodeResponded(tab, x)
           empty == [b \in Range(BucketOf) |-> EmptyBucket]
           U == {tab \in [Range(BucketOf) -> Bucket] : TableGood(tab, FALSE)}
           body(f) == [s \in SUBSET (DOMAIN seq) |->
                          IF s = {} THEN empty
                          ELSE LET x == Max(s) IN Op(f[s \ {x}], seq[x])]
           it == CHOOSE f : f = body(f)
           R == [x \in U \X (1 .. n) |-> Op(x[1], seq[x[2]])]
<1>1. n \in Nat /\ DOMAIN seq = 1 .. n /\ seq \in Seq(Nodes)
  BY DhtAssumption DEF DhtAssumption
<1>2. empty \in U
  <2>1. EmptyBucket \in Bucket /\ BucketGood(EmptyBucket, FALSE)
    <3>1. /\ <<>> \in Seq(NodeEntry) /\ Few(<<>>, FALSE) /\ Distinct(<<>>) /\ Ids(<<>>) = {}
          /\ Len(<<>>) = 0
      BY DEF Few, Distinct, Ids
    <3>2. 0 <= MaxBucketCacheSize
      BY TableAssumption DEF TableAssumption
    <3> QED
      BY <3>1, <3>2, BucketMade DEF EmptyBucket
  <2> QED
    BY <2>1 DEF TableGood
<1>3. R \in [U \X (1 .. n) -> U]
  <2> SUFFICES ASSUME NEW tab \in U, NEW i \in 1 .. n PROVE Op(tab, seq[i]) \in U
    OBVIOUS
  <2>1. seq[i] \in Nodes
    BY <1>1
  <2> HIDE DEF seq
  <2>2. TableGood(Op(tab, seq[i]), FALSE)
    BY <2>1, Responded
  <2> QED
    BY <2>2 DEF TableGood
<1>4. it = body(it)
  <2>1. PICK f \in [SUBSET (1 .. n) -> U] : FoldOf(f, empty, R, n)
    <3> HIDE DEF R, n, U
    <3> QED
      BY <1>1, <1>2, <1>3, FoldExists
  <2>2. ASSUME NEW s \in SUBSET (1 .. n)
        PROVE  f[s] = IF s = {} THEN empty ELSE Op(f[s \ {Max(s)}], seq[Max(s)])
    <3>1. CASE s = {}
      BY <2>1, <3>1 DEF FoldOf
    <3>2. CASE s # {}
      <4>1. Max(s) \in 1 .. n /\ f[s \ {Max(s)}] \in U
        <5>1. Max(s) \in s
          BY <1>1, <3>2, LastPosition
        <5> HIDE DEF U
        <5> QED
          BY <2>1, <5>1
      <4>2. f[s] = R[<<f[s \ {Max(s)}], Max(s)>>]
        BY <2>1, <3>2 DEF FoldOf
      <4> HIDE DEF Op, U
      <4> QED
        BY <3>2, <4>1, <4>2
    <3> QED
      BY <3>1, <3>2
  <2>3. f = body(f)
    <3> HIDE DEF Op
    <3> QED
      BY <1>1, <2>1, <2>2
  <2> HIDE DEF body
  <2> QED
    BY <2>3
<1>5. \A s \in SUBSET (1 .. n) :
         it[s] = IF s = {} THEN empty ELSE Op(it[s \ {Max(s)}], seq[Max(s)])
  <2>1. \A s \in SUBSET (1 .. n) : it[s] = body(it)[s]
    <3> HIDE DEF it, body
    <3> QED
      BY <1>4
  <2> HIDE DEF it, Op
  <2> QED
    BY <1>1, <2>1
<1> HIDE DEF it
<1>6. it[1 .. n] \in U
  <2> DEFINE T == [k \in 0 .. n |-> U]
  <2>1. it[{}] \in U
    BY <1>2, <1>5
  <2>2. ASSUME NEW k \in 0 .. n - 1, it[1 .. k] \in U,
               NEW s \in SUBSET (1 .. n), s # {}, Max(s) = k + 1, s \ {Max(s)} = 1 .. k
        PROVE  it[s] \in U
    <3>1. it[s] = Op(it[1 .. k], seq[k + 1])
      <4> HIDE DEF Op
      <4> QED
        BY <1>5, <2>2
    <3>2. k + 1 \in 1 .. n
      BY <1>1
    <3>3. Op(it[1 .. k], seq[k + 1]) = R[<<it[1 .. k], k + 1>>]
      <4> HIDE DEF Op, U
      <4> QED
        BY <2>2, <3>2
    <3> HIDE DEF Op, U, R
    <3> QED
      BY <1>3, <2>2, <3>1, <3>2, <3>3
  <2>3. it[{}] \in T[0] /\ \A k \in 0 .. n - 1 : T[k] = U /\ T[k + 1] = U
    <3> HIDE DEF U
    <3> QED
      BY <1>1, <2>1
  <2>4. T[n] = U
    <3> HIDE DEF U
    <3> QED
      BY <1>1
  <2>5. \A k \in 0 .. n - 1 : it[1 .. k] \in T[k] =>
           (\A s \in SUBSET (1 .. n) :
               s # {} /\ Max(s) = k + 1 /\ s \ {Max(s)} = 1 .. k => it[s] \in T[k + 1])
    <3> HIDE DEF T, n, U
    <3> QED
      BY <2>2, <2>3
  <2> HIDE DEF T, n, U
  <2> QED
    BY <1>1, <2>3, <2>4, <2>5, FoldStays
<1> QED
  <2>1. FoldLeft(NodeResponded, empty, KnownAtFirst) = it[DOMAIN seq]
    BY DEF FoldLeft, MapThenFoldSet, it
  <2> QED
    BY <1>1, <1>6, <2>1

\* The nodes that buckets name.
LEMMA NamedInOrder ==
    ASSUME NEW B, NEW A, NEW picked \in [B -> Seq(A)], NEW order \in Seq(B)
    PROVE  Joined(picked, order) \in Seq(A)
<1> DEFINE seq == order
           n == Len(seq)
           Op(all, b) == all \o picked[b]
           U == Seq(A)
           body(f) == [s \in SUBSET (DOMAIN seq) |->
                          IF s = {} THEN <<>>
                          ELSE LET x == Max(s) IN Op(f[s \ {x}], seq[x])]
           it == CHOOSE f : f = body(f)
           R == [x \in U \X (1 .. n) |-> Op(x[1], seq[x[2]])]
<1>1. n \in Nat /\ DOMAIN seq = 1 .. n
  OBVIOUS
<1>2. <<>> \in U
  OBVIOUS
<1>3. R \in [U \X (1 .. n) -> U]
  <2> SUFFICES ASSUME NEW all \in Seq(A), NEW i \in 1 .. n PROVE Op(all, seq[i]) \in Seq(A)
    OBVIOUS
  <2>1. picked[seq[i]] \in Seq(A)
    OBVIOUS
  <2> HIDE DEF seq
  <2> QED
    BY <2>1
<1>4. it = body(it)
  <2>1. PICK f \in [SUBSET (1 .. n) -> U] : FoldOf(f, <<>>, R, n)
    <3> HIDE DEF R, n, U
    <3> QED
      BY <1>1, <1>2, <1>3, FoldExists
  <2>2. ASSUME NEW s \in SUBSET (1 .. n)
        PROVE  f[s] = IF s = {} THEN <<>> ELSE Op(f[s \ {Max(s)}], seq[Max(s)])
    <3>1. CASE s = {}
      BY <2>1, <3>1 DEF FoldOf
    <3>2. CASE s # {}
      <4>1. Max(s) \in 1 .. n /\ f[s \ {Max(s)}] \in U
        <5>1. Max(s) \in s
          BY <1>1, <3>2, LastPosition
        <5> HIDE DEF U
        <5> QED
          BY <2>1, <5>1
      <4>2. f[s] = R[<<f[s \ {Max(s)}], Max(s)>>]
        BY <2>1, <3>2 DEF FoldOf
      <4> HIDE DEF Op, U
      <4> QED
        BY <3>2, <4>1, <4>2
    <3> QED
      BY <3>1, <3>2
  <2>3. f = body(f)
    <3> HIDE DEF Op
    <3> QED
      BY <1>1, <2>1, <2>2
  <2> HIDE DEF body
  <2> QED
    BY <2>3
<1>5. \A s \in SUBSET (1 .. n) :
         it[s] = IF s = {} THEN <<>> ELSE Op(it[s \ {Max(s)}], seq[Max(s)])
  <2>1. \A s \in SUBSET (1 .. n) : it[s] = body(it)[s]
    <3> HIDE DEF it, body
    <3> QED
      BY <1>4
  <2> HIDE DEF it, Op
  <2> QED
    BY <1>1, <2>1
<1> HIDE DEF it
<1>6. it[1 .. n] \in U
  <2> DEFINE T == [k \in 0 .. n |-> U]
  <2>1. it[{}] \in U
    BY <1>2, <1>5
  <2>2. ASSUME NEW k \in 0 .. n - 1, it[1 .. k] \in U,
               NEW s \in SUBSET (1 .. n), s # {}, Max(s) = k + 1, s \ {Max(s)} = 1 .. k
        PROVE  it[s] \in U
    <3>1. it[s] = Op(it[1 .. k], seq[k + 1])
      <4> HIDE DEF Op
      <4> QED
        BY <1>5, <2>2
    <3>2. k + 1 \in 1 .. n
      BY <1>1
    <3>3. Op(it[1 .. k], seq[k + 1]) = R[<<it[1 .. k], k + 1>>]
      <4> HIDE DEF Op, U
      <4> QED
        BY <2>2, <3>2
    <3> HIDE DEF Op, U, R
    <3> QED
      BY <1>3, <2>2, <3>1, <3>2, <3>3
  <2>3. it[{}] \in T[0] /\ \A k \in 0 .. n - 1 : T[k] = U /\ T[k + 1] = U
    <3> HIDE DEF U
    <3> QED
      BY <1>1, <2>1
  <2>4. T[n] = U
    <3> HIDE DEF U
    <3> QED
      BY <1>1
  <2>5. \A k \in 0 .. n - 1 : it[1 .. k] \in T[k] =>
           (\A s \in SUBSET (1 .. n) :
               s # {} /\ Max(s) = k + 1 /\ s \ {Max(s)} = 1 .. k => it[s] \in T[k + 1])
    <3> HIDE DEF T, n, U
    <3> QED
      BY <2>2, <2>3
  <2> HIDE DEF T, n, U
  <2> QED
    BY <1>1, <2>3, <2>4, <2>5, FoldStays
<1> QED
  <2>1. Joined(picked, order) = it[DOMAIN seq]
    BY DEF Joined, FoldLeft, MapThenFoldSet, it
  <2> QED
    BY <1>1, <1>6, <2>1
LEMMA IdsInNodes ==
    ASSUME NEW entries \in Seq(NodeEntry), NEW S
    PROVE  IdsIn(entries, S) \in Seq(Nodes)
<1> DEFINE those == Those(entries, S)
<1>1. those \in Seq(NodeEntry)
  BY ThoseFacts
<1>2. IdsIn(entries, S) = [i \in DOMAIN those |-> those[i].id]
  BY DEF IdsIn
<1> HIDE DEF those
<1>3. PICK n \in Nat : n = Len(those) /\ DOMAIN those = 1 .. n
  BY <1>1
<1>4. \A i \in 1 .. n : those[i].id \in Nodes
  <2>1. \A i \in 1 .. n : those[i] \in NodeEntry
    BY <1>1, <1>3
  <2> QED
    BY <2>1 DEF NodeEntry
<1> QED
  BY <1>2, <1>3, <1>4

LEMMA Closest ==
    ASSUME NEW tab \in [Range(BucketOf) -> Bucket], NEW order \in Seq(Range(BucketOf))
    PROVE  GetClosestNodes(tab, order, MaxClosestNodes) \in Seq(Nodes)
<1> DEFINE picked == [b \in DOMAIN tab |-> ActiveIds(tab[b])]
           all == Joined(picked, order)
           m == IF Len(all) < MaxClosestNodes THEN Len(all) ELSE MaxClosestNodes
<1>1. picked \in [Range(BucketOf) -> Seq(Nodes)]
  <2> SUFFICES ASSUME NEW b \in Range(BucketOf) PROVE ActiveIds(tab[b]) \in Seq(Nodes)
    OBVIOUS
  <2>1. tab[b].nodes \in Seq(NodeEntry)
    BY DEF Bucket
  <2> QED
    BY <2>1, IdsInNodes DEF ActiveIds
<1> HIDE DEF picked
<1>2. all \in Seq(Nodes)
  BY <1>1, NamedInOrder
<1>3. GetClosestNodes(tab, order, MaxClosestNodes) = SubSeq(all, 1, m)
  BY DEF GetClosestNodes, picked
<1> HIDE DEF all
<1>4. m \in Nat /\ m <= Len(all)
  BY <1>2, DhtAssumption DEF DhtAssumption
<1> HIDE DEF m
<1> QED
  BY <1>2, <1>3, <1>4

LEMMA BucketsInOrder == SetToSeq(Range(BucketOf)) \in Seq(Range(BucketOf))
<1> DEFINE B == Range(BucketOf) c == Cardinality(B)
<1>1. IsFiniteSet(B)
  <2>1. BucketOf \in Surjection(Nodes, B)
    BY TableAssumption DEF TableAssumption, Range, Surjection
  <2> HIDE DEF B
  <2> QED
    BY <2>1, DhtAssumption, FS_Surjection DEF DhtAssumption, ExistsSurjection
<1>2. c \in Nat
  BY <1>1, FS_CardinalityType
<1>3. \E f \in [1 .. c -> B] : IsInjective(f)
  <2> HIDE DEF B
  <2>1. PICK f \in Bijection(1 .. c, B) : TRUE
    <3>1. ExistsBijection(1 .. c, B)
      BY <1>1, FS_CardinalityType
    <3> QED
      BY <3>1 DEF ExistsBijection
  <2> QED
    BY <2>1 DEF Bijection, Injection
<1>4. SetToSeq(B) \in [1 .. c -> B]
  BY <1>3 DEF SetToSeq
<1> QED
  BY <1>2, <1>4

LEMMA Inactive ==
    ASSUME NEW tab \in [Range(BucketOf) -> Bucket], NEW aged
    PROVE  GetInactiveNodes(tab, SetToSeq(DOMAIN tab), aged) \in Seq(Nodes)
<1> DEFINE picked == [b \in DOMAIN tab |-> InactiveIds(tab[b], aged)]
<1>1. picked \in [Range(BucketOf) -> Seq(Nodes)]
  <2> SUFFICES ASSUME NEW b \in Range(BucketOf) PROVE InactiveIds(tab[b], aged) \in Seq(Nodes)
    OBVIOUS
  <2>1. tab[b].nodes \in Seq(NodeEntry)
    BY DEF Bucket
  <2> QED
    BY <2>1, IdsInNodes DEF InactiveIds
<1>2. DOMAIN tab = Range(BucketOf)
  OBVIOUS
<1>3. GetInactiveNodes(tab, SetToSeq(DOMAIN tab), aged) = Joined(picked, SetToSeq(Range(BucketOf)))
  BY <1>2 DEF GetInactiveNodes
<1> HIDE DEF picked
<1> QED
  BY <1>1, <1>3, BucketsInOrder, NamedInOrder
-------------------------------------------------------------------------------
(* What a query wants to ask. *)

LEMMA LengthIsNat ==
    ASSUME NEW d \in Nat
    PROVE  Length(d) \in Nat
<1>1. IsFiniteSet(1 .. 8)
  <2>1. 1 \in Int /\ 8 \in Int
    OBVIOUS
  <2> QED
    BY <2>1, FS_Interval
<1>2. IsFiniteSet({k \in 1 .. 8 : 2 ^ k <= d})
  BY <1>1, FS_Subset
<1> QED
  BY <1>2, FS_CardinalityType DEF Length

LEMMA Replaced ==
    ASSUME NEW q \in Queries, NEW used, NEW to \in Wants(used),
           NEW n \in Nodes \ used, n \notin Range(to)
    PROVE  ReplaceFarther(q, to, n) \in Wants(used)
<1> DEFINE far(i) == Length(Distance[q][to[i]])
           farther == {i \in DOMAIN to : ~ CloserToNodeThan(q, to[i], n) /\ far(i) > 0}
           Worst(i) == \A k \in farther : far(i) > far(k) \/ (far(i) = far(k) /\ i <= k)
           put(i) == i \in farther /\ Worst(i)
           new == ReplaceFarther(q, to, n)
<1>1. PICK m \in Nat : m = Len(to) /\ DOMAIN to = 1 .. m /\ to \in Seq(Nodes)
  BY DEF Wants
<1>2. \A i \in 1 .. m : far(i) \in Nat
  <2> SUFFICES ASSUME NEW i \in 1 .. m PROVE far(i) \in Nat
    OBVIOUS
  <2>1. to[i] \in Nodes
    BY <1>1
  <2>2. Distance[q][to[i]] \in Nat
    BY <2>1, DhtAssumption DEF DhtAssumption
  <2> QED
    BY <2>2, LengthIsNat
<1>3. new = [i \in DOMAIN to |-> IF put(i) THEN n ELSE to[i]]
  BY DEF ReplaceFarther
<1> HIDE DEF new
<1>4. farther \subseteq 1 .. m
  BY <1>1
<1>5. ASSUME NEW i \in 1 .. m, NEW j \in 1 .. m, put(i), put(j) PROVE i = j
  <2> HIDE DEF far, farther
  <2>1. far(i) > far(j) \/ (far(i) = far(j) /\ i <= j)
    BY <1>5
  <2>2. far(j) > far(i) \/ (far(j) = far(i) /\ j <= i)
    BY <1>5
  <2>3. PICK a \in Nat : a = far(i)
    BY <1>2
  <2>4. PICK b \in Nat : b = far(j)
    BY <1>2
  <2> QED
    BY <2>1, <2>2, <2>3, <2>4
<1> HIDE DEF put
<1>6. /\ DOMAIN new = 1 .. m
      /\ \A i \in 1 .. m : new[i] = IF put(i) THEN n ELSE to[i]
      /\ new = [i \in 1 .. m |-> new[i]]
  BY <1>1, <1>3
<1>7. \A i \in 1 .. m : to[i] \in Nodes /\ to[i] # n /\ to[i] \notin used
  BY <1>1 DEF Wants, Range
<1>8. \A i \in 1 .. m : new[i] \in Nodes /\ new[i] \notin used
  BY <1>6, <1>7
<1>9. new \in Seq(Nodes) /\ Len(new) = m
  BY <1>1, <1>6, <1>8
<1>10. IsInjective(new)
  <2> SUFFICES ASSUME NEW i \in 1 .. m, NEW j \in 1 .. m, new[i] = new[j] PROVE i = j
    BY <1>6 DEF IsInjective
  <2>1. CASE put(i) /\ put(j)
    BY <1>5, <2>1
  <2>2. CASE ~ put(i) /\ ~ put(j)
    BY <1>1, <1>6, <2>2 DEF Wants, IsInjective
  <2>3. CASE put(i) /\ ~ put(j)
    BY <1>6, <1>7, <2>3
  <2>4. CASE ~ put(i) /\ put(j)
    BY <1>6, <1>7, <2>4
  <2> QED
    BY <2>1, <2>2, <2>3, <2>4
<1>11. Range(new) \cap used = {}
  BY <1>6, <1>8 DEF Range
<1>12. m <= MaxCachedNodes
  BY <1>1 DEF Wants
<1> QED
  BY <1>9, <1>10, <1>11, <1>12 DEF Wants, new

LEMMA MergedOne ==
    ASSUME NEW q \in Queries, NEW used, NEW to \in Wants(used), NEW minDistance, NEW n
    PROVE  MergeNode(q, to, used, minDistance, n) \in Wants(used)
<1> DEFINE new == MergeNode(q, to, used, minDistance, n)
<1>1. CASE new = to
  BY <1>1
<1>2. CASE new # to
  <2>1. n \notin Range(to) /\ n \in Nodes \ used
        /\ new = IF Len(to) < MaxCachedNodes THEN Append(to, n) ELSE ReplaceFarther(q, to, n)
    BY <1>2 DEF MergeNode
  <2> HIDE DEF new
  <2>2. CASE Len(to) < MaxCachedNodes
    <3>1. new = Append(to, n) /\ to \in Seq(Nodes)
      BY <2>1, <2>2 DEF Wants
    <3>5. n \in Nodes /\ n \notin Range(to) /\ IsInjective(to) /\ Range(to) \cap used = {}
      BY <2>1 DEF Wants
    <3>2. new \in Seq(Nodes) /\ Range(new) = Range(to) \cup {n} /\ IsInjective(new)
      <4>1. Range(Append(to, n)) = Range(to) \cup {n} /\ IsInjective(Append(to, n))
        BY <3>5, <3>1, AppendFacts
      <4> QED
        BY <3>5, <3>1, <4>1
    <3>3. Len(new) = Len(to) + 1 /\ Len(to) \in Nat
      BY <2>1, <3>1
    <3>4. Len(new) <= MaxCachedNodes
      BY <2>2, <3>3, DhtAssumption DEF DhtAssumption
    <3> QED
      BY <2>1, <3>5, <3>2, <3>4 DEF Wants, new
  <2>3. CASE ~ (Len(to) < MaxCachedNodes)
    <3>1. ReplaceFarther(q, to, n) \in Wants(used)
      BY <2>1, Replaced
    <3> QED
      BY <2>1, <2>3, <3>1 DEF new
  <2> QED
    BY <2>2, <2>3
<1> QED
  BY <1>1, <1>2

AllMerged(q, base, used, minDistance, nodes) ==
    FoldLeft(LAMBDA to, n : MergeNode(q, to, used, minDistance, n), base, nodes)

LEMMA Merged ==
    ASSUME NEW q \in Queries, NEW used, NEW base \in Wants(used), NEW minDistance,
           NEW nodes \in Seq(Nat)
    PROVE  AllMerged(q, base, used, minDistance, nodes) \in Wants(used)
<1> DEFINE seq == nodes
           n == Len(seq)
           Op(to, x) == MergeNode(q, to, used, minDistance, x)
           U == Wants(used)
           body(f) == [s \in SUBSET (DOMAIN seq) |->
                          IF s = {} THEN base
                          ELSE LET x == Max(s) IN Op(f[s \ {x}], seq[x])]
           it == CHOOSE f : f = body(f)
           R == [x \in U \X (1 .. n) |-> Op(x[1], seq[x[2]])]
<1>1. n \in Nat /\ DOMAIN seq = 1 .. n
  OBVIOUS
<1>2. base \in U
  OBVIOUS
<1>3. R \in [U \X (1 .. n) -> U]
  <2> SUFFICES ASSUME NEW to \in U, NEW i \in 1 .. n PROVE Op(to, seq[i]) \in U
    OBVIOUS
  <2> HIDE DEF seq
  <2> QED
    BY MergedOne
<1>4. it = body(it)
  <2>1. PICK f \in [SUBSET (1 .. n) -> U] : FoldOf(f, base, R, n)
    <3> HIDE DEF R, n, U
    <3> QED
      BY <1>1, <1>2, <1>3, FoldExists
  <2>2. ASSUME NEW s \in SUBSET (1 .. n)
        PROVE  f[s] = IF s = {} THEN base ELSE Op(f[s \ {Max(s)}], seq[Max(s)])
    <3>1. CASE s = {}
      BY <2>1, <3>1 DEF FoldOf
    <3>2. CASE s # {}
      <4>1. Max(s) \in 1 .. n /\ f[s \ {Max(s)}] \in U
        <5>1. Max(s) \in s
          BY <1>1, <3>2, LastPosition
        <5> HIDE DEF U
        <5> QED
          BY <2>1, <5>1
      <4>2. f[s] = R[<<f[s \ {Max(s)}], Max(s)>>]
        BY <2>1, <3>2 DEF FoldOf
      <4> HIDE DEF Op, U
      <4> QED
        BY <3>2, <4>1, <4>2
    <3> QED
      BY <3>1, <3>2
  <2>3. f = body(f)
    <3> HIDE DEF Op
    <3> QED
      BY <1>1, <2>1, <2>2
  <2> HIDE DEF body
  <2> QED
    BY <2>3
<1>5. \A s \in SUBSET (1 .. n) :
         it[s] = IF s = {} THEN base ELSE Op(it[s \ {Max(s)}], seq[Max(s)])
  <2>1. \A s \in SUBSET (1 .. n) : it[s] = body(it)[s]
    <3> HIDE DEF it, body
    <3> QED
      BY <1>4
  <2> HIDE DEF it, Op
  <2> QED
    BY <1>1, <2>1
<1> HIDE DEF it
<1>6. it[1 .. n] \in U
  <2> DEFINE T == [k \in 0 .. n |-> U]
  <2>1. it[{}] \in U
    BY <1>2, <1>5
  <2>2. ASSUME NEW k \in 0 .. n - 1, it[1 .. k] \in U,
               NEW s \in SUBSET (1 .. n), s # {}, Max(s) = k + 1, s \ {Max(s)} = 1 .. k
        PROVE  it[s] \in U
    <3>1. it[s] = Op(it[1 .. k], seq[k + 1])
      <4> HIDE DEF Op
      <4> QED
        BY <1>5, <2>2
    <3>2. k + 1 \in 1 .. n
      BY <1>1
    <3>3. Op(it[1 .. k], seq[k + 1]) = R[<<it[1 .. k], k + 1>>]
      <4> HIDE DEF Op, U
      <4> QED
        BY <2>2, <3>2
    <3> HIDE DEF Op, U, R
    <3> QED
      BY <1>3, <2>2, <3>1, <3>2, <3>3
  <2>3. it[{}] \in T[0] /\ \A k \in 0 .. n - 1 : T[k] = U /\ T[k + 1] = U
    <3> HIDE DEF U
    <3> QED
      BY <1>1, <2>1
  <2>4. T[n] = U
    <3> HIDE DEF U
    <3> QED
      BY <1>1
  <2>5. \A k \in 0 .. n - 1 : it[1 .. k] \in T[k] =>
           (\A s \in SUBSET (1 .. n) :
               s # {} /\ Max(s) = k + 1 /\ s \ {Max(s)} = 1 .. k => it[s] \in T[k + 1])
    <3> HIDE DEF T, n, U
    <3> QED
      BY <2>2, <2>3
  <2> HIDE DEF T, n, U
  <2> QED
    BY <1>1, <2>3, <2>4, <2>5, FoldStays
<1> QED
  <2>1. AllMerged(q, base, used, minDistance, nodes) = it[DOMAIN seq]
    BY DEF AllMerged, FoldLeft, MapThenFoldSet, it
  <2> QED
    BY <1>1, <1>6, <2>1
-------------------------------------------------------------------------------
(* Requests. *)

LEMMA Joins ==
    ASSUME NEW A, NEW old \in Seq(A), NEW new \in Seq(A)
    PROVE  /\ old \o new \in Seq(A)
           /\ Range(old \o new) = Range(old) \cup Range(new)
           /\ IsInjective(old) /\ IsInjective(new) /\ Range(old) \cap Range(new) = {}
                 => IsInjective(old \o new)
<1> DEFINE all == old \o new
<1>1. PICK p \in Nat : p = Len(old) /\ DOMAIN old = 1 .. p
  OBVIOUS
<1>2. PICK c \in Nat : c = Len(new) /\ DOMAIN new = 1 .. c
  OBVIOUS
<1>3. all \in Seq(A) /\ Len(all) = p + c
  <2>1. Len(all) = Len(old) + Len(new)
    OBVIOUS
  <2> QED
    BY <1>1, <1>2, <2>1
<1>4. DOMAIN all = 1 .. p + c
  BY <1>3
<1>5. \A i \in 1 .. p : i \in 1 .. p + c /\ all[i] = old[i]
  BY <1>1, <1>2
<1>6. \A i \in 1 .. p + c : ~ (i <= p) => i - p \in 1 .. c /\ all[i] = new[i - p]
  <2>1. \A i \in 1 .. p + c : ~ (i <= p) => i - p \in 1 .. c
    BY <1>1, <1>2
  <2>2. \A i \in 1 .. p + c : ~ (i <= p) => all[i] = new[i - p]
    BY <1>1, <1>2
  <2> QED
    BY <2>1, <2>2
<1>7. \A i \in 1 .. c : p + i \in 1 .. p + c /\ ~ (p + i <= p) /\ (p + i) - p = i
  BY <1>1, <1>2
<1>8. \A i \in 1 .. p + c : i <= p => i \in 1 .. p
  BY <1>1, <1>2
<1> HIDE DEF all
<1>9. Range(all) = Range(old) \cup Range(new)
  <2>1. ASSUME NEW i \in 1 .. p + c PROVE all[i] \in Range(old) \cup Range(new)
    <3>1. CASE i <= p
      BY <1>1, <1>5, <1>8, <3>1 DEF Range
    <3>2. CASE ~ (i <= p)
      BY <1>2, <1>6, <3>2 DEF Range
    <3> QED
      BY <3>1, <3>2
  <2>2. ASSUME NEW i \in 1 .. p PROVE old[i] \in Range(all)
    BY <1>4, <1>5 DEF Range
  <2>3. ASSUME NEW i \in 1 .. c PROVE new[i] \in Range(all)
    <3>1. p + i \in 1 .. p + c /\ all[p + i] = new[i]
      BY <1>6, <1>7
    <3> QED
      BY <1>4, <3>1 DEF Range
  <2>4. Range(all) \subseteq Range(old) \cup Range(new)
    BY <1>4, <2>1 DEF Range
  <2>5. Range(old) \subseteq Range(all)
    BY <1>1, <2>2 DEF Range
  <2>6. Range(new) \subseteq Range(all)
    BY <1>2, <2>3 DEF Range
  <2> QED
    BY <2>4, <2>5, <2>6
<1>10. ASSUME IsInjective(old), IsInjective(new), Range(old) \cap Range(new) = {}
       PROVE  IsInjective(all)
  <2> SUFFICES ASSUME NEW i \in 1 .. p + c, NEW j \in 1 .. p + c, all[i] = all[j] PROVE i = j
    BY <1>4 DEF IsInjective
  <2>1. CASE i <= p /\ j <= p
    BY <1>1, <1>5, <1>8, <1>10, <2>1 DEF IsInjective
  <2>2. CASE ~ (i <= p) /\ ~ (j <= p)
    <3>1. i - p \in DOMAIN new /\ j - p \in DOMAIN new /\ new[i - p] = new[j - p]
      BY <1>2, <1>6, <2>2
    <3>2. i - p = j - p
      BY <1>10, <3>1 DEF IsInjective
    <3> QED
      BY <1>1, <1>2, <3>2
  <2>3. ASSUME NEW a \in 1 .. p + c, NEW b \in 1 .. p + c, a <= p, ~ (b <= p), all[a] = all[b]
        PROVE  FALSE
    <3>1. all[a] \in Range(old)
      BY <1>1, <1>5, <1>8, <2>3 DEF Range
    <3>2. all[b] \in Range(new)
      BY <1>2, <1>6, <2>3 DEF Range
    <3> QED
      BY <1>10, <2>3, <3>1, <3>2
  <2> QED
    BY <2>1, <2>2, <2>3
<1> QED
  BY <1>3, <1>9, <1>10 DEF all

\* As many elements as positions.
LEMMA AsManyPositions ==
    ASSUME NEW D, IsFiniteSet(D), NEW f, DOMAIN f = D,
           \A i, j \in D : f[i] = f[j] => i = j
    PROVE  IsFiniteSet({f[i] : i \in D}) /\ Cardinality({f[i] : i \in D}) = Cardinality(D)
<1> DEFINE S == {f[i] : i \in D} g == [i \in D |-> f[i]]
<1>1. g \in Bijection(D, S)
  BY DEF Bijection, Injection, Surjection, IsInjective
<1> HIDE DEF S
<1>2. ExistsBijection(D, S)
  BY <1>1 DEF ExistsBijection
<1> QED
  BY <1>2, FS_Bijection DEF S

LEMMA RangeIsFinite ==
    ASSUME NEW A, NEW seq \in Seq(A)
    PROVE  IsFiniteSet(Range(seq)) /\ Range(seq) \subseteq A
<1>1. seq \in Surjection(1 .. Len(seq), Range(seq))
  BY DEF Range, Surjection
<1>2. IsFiniteSet(1 .. Len(seq))
  <2>1. 1 \in Int /\ Len(seq) \in Int
    OBVIOUS
  <2> QED
    BY <2>1, FS_Interval
<1>3. IsFiniteSet(Range(seq))
  BY <1>1, <1>2, FS_Surjection
<1> QED
  BY <1>3 DEF Range

\* More is watched than before.
LEMMA MoreWatched ==
    ASSUME NEW q, NEW asked, NEW few, NEW many, few \subseteq many, IsFiniteSet(many),
           Watched(q, asked, few), \A n : IsFiniteSet(At(asked, n))
    PROVE  Watched(q, asked, many)
<1>1. CASE q \in Searches
  <2> SUFFICES ASSUME NEW n \in Nodes
               PROVE  Cardinality(At(asked, n)) <= Cardinality(At(many, n))
    BY <1>1 DEF Watched
  <2>1. Cardinality(At(asked, n)) <= Cardinality(At(few, n))
    BY <1>1 DEF Watched
  <2>2. At(few, n) \subseteq At(many, n) /\ At(many, n) \subseteq many
    BY DEF At
  <2>3. IsFiniteSet(At(many, n))
    BY <2>2, FS_Subset
  <2>4. IsFiniteSet(At(few, n)) /\ Cardinality(At(few, n)) <= Cardinality(At(many, n))
    BY <2>2, <2>3, FS_Subset
  <2>5. /\ Cardinality(At(few, n)) \in Nat /\ Cardinality(At(many, n)) \in Nat
        /\ Cardinality(At(asked, n)) \in Nat
    BY <2>3, <2>4, FS_CardinalityType
  <2> QED
    BY <2>1, <2>4, <2>5
<1>2. CASE q \notin Searches
  BY <1>2 DEF Watched
<1> QED
  BY <1>1, <1>2
LEMMA CountsAdd ==
    ASSUME NEW X, NEW Y, IsFiniteSet(X), IsFiniteSet(Y), X \cap Y = {}
    PROVE  IsFiniteSet(X \cup Y) /\ Cardinality(X \cup Y) = Cardinality(X) + Cardinality(Y)
<1>1. Cardinality(X \cap Y) = 0
  BY FS_EmptySet
<1>2. Cardinality(X) \in Nat /\ Cardinality(Y) \in Nat
  BY FS_CardinalityType
<1>3. IsFiniteSet(X \cup Y)
      /\ Cardinality(X \cup Y) = Cardinality(X) + Cardinality(Y) - Cardinality(X \cap Y)
  BY FS_Union
<1> QED
  BY <1>1, <1>2, <1>3

AskedOf(nodes, last) == [i \in DOMAIN nodes |-> [node |-> nodes[i], id |-> last + i]]

PendingOf(q, nodes, last, far) ==
    [i \in DOMAIN nodes |-> Request(q, nodes[i], last + i, far[nodes[i]])]

\* Requests asked together and counted by query q alike.
AskedTogether(q, last, many, A, C) ==
    /\ A \in Seq(AskedNode) /\ C \in Seq(PendingRequest)
    /\ IsInjective(A) /\ IsInjective(C)
    /\ \A r \in Range(A) \cup Range(C) : r.id \in last + 1 .. last + many
    /\ \A r \in Range(C) : r.owner = q
    /\ \A r \in Range(A) : \E s \in Range(C) : s.id = r.id /\ s.node = r.node
    /\ \A r, s \in Range(A) : r.id = s.id => r = s
    /\ \A r, s \in Range(C) : r.id = s.id => r = s
    /\ \A n : /\ IsFiniteSet(At(Range(A), n)) /\ IsFiniteSet(At(Range(C), n))
              /\ Cardinality(At(Range(A), n)) = Cardinality(At(Range(C), n))

LEMMA NewRequests ==
    ASSUME NEW q \in Owners, NEW last \in Nat, NEW nodes \in Seq(Nodes), NEW far \in [Nodes -> Nat]
    PROVE  AskedTogether(q, last, Len(nodes), AskedOf(nodes, last), PendingOf(q, nodes, last, far))
<1> DEFINE A == AskedOf(nodes, last) C == PendingOf(q, nodes, last, far)
<1>1. PICK c \in Nat : c = Len(nodes) /\ DOMAIN nodes = 1 .. c
  OBVIOUS
<1>2. DOMAIN A = 1 .. c /\ DOMAIN C = 1 .. c
  BY <1>1 DEF AskedOf, PendingOf
<1>3. ASSUME NEW i \in 1 .. c
      PROVE  /\ A[i] \in AskedNode /\ A[i].node = nodes[i] /\ A[i].id = last + i
             /\ C[i] \in PendingRequest /\ C[i].owner = q /\ C[i].node = nodes[i]
             /\ C[i].id = last + i
  <2> DEFINE n == nodes[i] d == far[n]
             a == [node |-> n, id |-> last + i]
             r == [owner |-> q, node |-> n, id |-> last + i, minDistance |-> d, retries |-> 0]
  <2>1. n \in Nodes /\ d \in Nat /\ last + i \in Nat \ {0}
    BY <1>1
  <2>2. A[i] = a /\ C[i] = r
    BY <1>1 DEF AskedOf, PendingOf, Request
  <2> HIDE DEF n, d, A, C
  <2>3. a \in AskedNode /\ a.node = n /\ a.id = last + i
    BY <2>1 DEF AskedNode
  <2>4. r \in PendingRequest /\ r.owner = q /\ r.node = n /\ r.id = last + i
    BY <2>1 DEF PendingRequest
  <2> HIDE DEF a, r
  <2> QED
    BY <2>2, <2>3, <2>4 DEF n
<1>4. A = [i \in 1 .. c |-> A[i]] /\ C = [i \in 1 .. c |-> C[i]]
  BY <1>1 DEF AskedOf, PendingOf
<1> HIDE DEF A, C
<1>5. A \in Seq(AskedNode) /\ C \in Seq(PendingRequest)
  <2>1. A \in [1 .. c -> AskedNode]
    BY <1>3, <1>4
  <2>2. C \in [1 .. c -> PendingRequest]
    BY <1>3, <1>4
  <2> QED
    BY <2>1, <2>2
<1>6. \A i, j \in 1 .. c : last + i = last + j => i = j
  OBVIOUS
<1>7. ASSUME NEW i \in 1 .. c, NEW j \in 1 .. c PROVE A[i].id = A[j].id => i = j
  <2>1. A[i].id = last + i /\ A[j].id = last + j
    BY <1>3
  <2> QED
    BY <1>6, <2>1
<1>8. ASSUME NEW i \in 1 .. c, NEW j \in 1 .. c PROVE C[i].id = C[j].id => i = j
  <2>1. C[i].id = last + i /\ C[j].id = last + j
    BY <1>3
  <2> QED
    BY <1>6, <2>1
<1>9. IsInjective(A) /\ IsInjective(C)
  BY <1>2, <1>7, <1>8 DEF IsInjective
<1>10. ASSUME NEW r \in Range(A) PROVE \E i \in 1 .. c : r = A[i]
  BY <1>2 DEF Range
<1>11. ASSUME NEW r \in Range(C) PROVE \E i \in 1 .. c : r = C[i]
  BY <1>2 DEF Range
<1>12. \A i \in 1 .. c : last + i \in last + 1 .. last + Len(nodes)
  BY <1>1
<1>13. ASSUME NEW r \in Range(A) PROVE r.id \in last + 1 .. last + Len(nodes)
  BY <1>3, <1>10, <1>12
<1>14. ASSUME NEW r \in Range(C) PROVE r.id \in last + 1 .. last + Len(nodes) /\ r.owner = q
  BY <1>3, <1>11, <1>12
<1>15. ASSUME NEW r \in Range(A) PROVE \E s \in Range(C) : s.id = r.id /\ s.node = r.node
  <2>1. PICK i \in 1 .. c : r = A[i]
    BY <1>10
  <2>2. C[i] \in Range(C) /\ C[i].id = r.id /\ C[i].node = r.node
    BY <1>2, <1>3, <2>1 DEF Range
  <2> QED
    BY <2>2
<1>16. ASSUME NEW r \in Range(A), NEW s \in Range(A), r.id = s.id PROVE r = s
  BY <1>7, <1>10, <1>16
<1>17. ASSUME NEW r \in Range(C), NEW s \in Range(C), r.id = s.id PROVE r = s
  BY <1>8, <1>11, <1>17
<1>18. ASSUME NEW n
       PROVE  /\ IsFiniteSet(At(Range(A), n)) /\ IsFiniteSet(At(Range(C), n))
              /\ Cardinality(At(Range(A), n)) = Cardinality(At(Range(C), n))
  <2> DEFINE D == {i \in 1 .. c : nodes[i] = n} f == [i \in D |-> A[i]] g == [i \in D |-> C[i]]
  <2>1. IsFiniteSet(D)
    <3>1. 1 \in Int /\ c \in Int /\ D \subseteq 1 .. c
      OBVIOUS
    <3>2. IsFiniteSet(1 .. c)
      BY <3>1, FS_Interval
    <3> HIDE DEF D
    <3> QED
      BY <3>1, <3>2, FS_Subset
  <2>2. \A i \in D : i \in 1 .. c
    OBVIOUS
  <2>3. At(Range(A), n) = {f[i] : i \in D}
    <3>1. \A i \in D : f[i] = A[i] /\ A[i] \in Range(A) /\ A[i].node = n
      BY <1>2, <1>3 DEF Range
    <3>2. ASSUME NEW r \in Range(A), r.node = n PROVE \E i \in D : r = A[i]
      <4>1. PICK i \in 1 .. c : r = A[i]
        BY <1>10
      <4>2. i \in D
        BY <1>3, <3>2, <4>1
      <4> QED
        BY <4>1, <4>2
    <3> HIDE DEF D, f
    <3> QED
      BY <3>1, <3>2 DEF At
  <2>4. At(Range(C), n) = {g[i] : i \in D}
    <3>1. \A i \in D : g[i] = C[i] /\ C[i] \in Range(C) /\ C[i].node = n
      BY <1>2, <1>3 DEF Range
    <3>2. ASSUME NEW r \in Range(C), r.node = n PROVE \E i \in D : r = C[i]
      <4>1. PICK i \in 1 .. c : r = C[i]
        BY <1>11
      <4>2. i \in D
        BY <1>3, <3>2, <4>1
      <4> QED
        BY <4>1, <4>2
    <3> HIDE DEF D, g
    <3> QED
      BY <3>1, <3>2 DEF At
  <2> HIDE DEF D
  <2>5. DOMAIN f = D /\ \A i, j \in D : f[i] = f[j] => i = j
    BY <1>7, <2>2
  <2>6. DOMAIN g = D /\ \A i, j \in D : g[i] = g[j] => i = j
    BY <1>8, <2>2
  <2> HIDE DEF f, g
  <2>7. IsFiniteSet({f[i] : i \in D}) /\ Cardinality({f[i] : i \in D}) = Cardinality(D)
    BY <2>1, <2>5, AsManyPositions
  <2>8. IsFiniteSet({g[i] : i \in D}) /\ Cardinality({g[i] : i \in D}) = Cardinality(D)
    BY <2>1, <2>6, AsManyPositions
  <2> QED
    BY <2>3, <2>4, <2>7, <2>8
<1> QED
  BY <1>5, <1>9, <1>13, <1>14, <1>15, <1>16, <1>17, <1>18 DEF A, C, AskedTogether

\* Requests that are both counted and watched.
LEMMA BothMore ==
    ASSUME NEW q, NEW asked, NEW few, NEW A, NEW C,
           \A n : /\ IsFiniteSet(At(asked, n)) /\ IsFiniteSet(At(few, n))
                  /\ IsFiniteSet(At(A, n)) /\ IsFiniteSet(At(C, n)),
           Watched(q, asked, few), Watched(q, A, C), asked \cap A = {}, few \cap C = {}
    PROVE  Watched(q, asked \cup A, few \cup C)
<1>1. CASE q \in Searches
  <2> SUFFICES ASSUME NEW n \in Nodes
               PROVE  Cardinality(At(asked \cup A, n)) <= Cardinality(At(few \cup C, n))
    BY <1>1 DEF Watched
  <2>1. Cardinality(At(asked, n)) <= Cardinality(At(few, n))
        /\ Cardinality(At(A, n)) <= Cardinality(At(C, n))
    BY <1>1 DEF Watched
  <2>2. /\ At(asked \cup A, n) = At(asked, n) \cup At(A, n) /\ At(asked, n) \cap At(A, n) = {}
        /\ At(few \cup C, n) = At(few, n) \cup At(C, n) /\ At(few, n) \cap At(C, n) = {}
    BY DEF At
  <2>3. /\ Cardinality(At(asked \cup A, n)) = Cardinality(At(asked, n)) + Cardinality(At(A, n))
        /\ Cardinality(At(few \cup C, n)) = Cardinality(At(few, n)) + Cardinality(At(C, n))
    BY <2>2, CountsAdd
  <2>4. /\ Cardinality(At(asked, n)) \in Nat /\ Cardinality(At(A, n)) \in Nat
        /\ Cardinality(At(few, n)) \in Nat /\ Cardinality(At(C, n)) \in Nat
    BY FS_CardinalityType
  <2> QED
    BY <2>1, <2>3, <2>4
<1>2. CASE q \notin Searches
  BY <1>2 DEF Watched
<1> QED
  BY <1>1, <1>2

\* A query with other requests.
Asking(s, requests) == [s EXCEPT !.requests = requests]

LEMMA AskingIs ==
    ASSUME NEW s \in QueryState, NEW requests \in Seq(AskedNode)
    PROVE  /\ Asking(s, requests) \in QueryState
           /\ Asking(s, requests).requests = requests
           /\ Asking(s, requests).received = s.received /\ Asking(s, requests).used = s.used
           /\ Asking(s, requests).limit = s.limit /\ Asking(s, requests).found = s.found
BY DEF Asking, QueryState

LEMMA Sent ==
    ASSUME NEW w, NEW rest, NEW twice, Good(w, rest, twice), NEW q \in Owners,
           NEW nodes \in Seq(Nodes), NEW far \in [Nodes -> Nat]
    PROVE  Good(SendRequests(w, q, nodes, far), rest, twice)
<1> DEFINE A == AskedOf(nodes, w.sent) C == PendingOf(q, nodes, w.sent, far)
           s == w.query[q]
           requests == s.requests \o A
           queries == [w.query EXCEPT ![q] = Asking(s, requests)]
           waiting == w.pending \o C
           on == w.packets \cup {<<nodes[i], w.sent + i>> : i \in DOMAIN nodes}
           last == w.sent + Len(nodes)
           all == Range(w.pending) \cup rest
           v == SendRequests(w, q, nodes, far)
<1>1. /\ w \in WorkSet /\ TableGood(w.table, twice) /\ Wishes(w.query)
      /\ Unique(w.pending, rest, w.sent) /\ AllCount(w.query, all, w.sent)
  BY DEF Good
<1>2. /\ w.table \in [Range(BucketOf) -> Bucket] /\ w.query \in [Owners -> QueryState]
      /\ w.peersQueries \in Seq(Searches) /\ w.pending \in Seq(PendingRequest)
      /\ w.packets \subseteq Nodes \X Nat /\ w.sent \in Nat /\ w.reported \in [Searches -> Nat]
  BY <1>1 DEF WorkSet
<1>3. v = [table |-> w.table, query |-> queries, peersQueries |-> w.peersQueries,
           pending |-> waiting, packets |-> on, sent |-> last, reported |-> w.reported]
  <2>1. w = [table |-> w.table, query |-> w.query, peersQueries |-> w.peersQueries,
             pending |-> w.pending, packets |-> w.packets, sent |-> w.sent,
             reported |-> w.reported]
    BY <1>1 DEF WorkSet
  <2>2. v = [w EXCEPT !.query = queries, !.pending = waiting, !.packets = on, !.sent = last]
    BY DEF SendRequests, AskedOf, PendingOf, Asking
  <2> HIDE DEF queries, waiting, on, last, v
  <2> QED
    BY <2>1, <2>2
<1>4. s \in QueryState /\ s.requests \in Seq(AskedNode)
  BY <1>2 DEF QueryState
<1>50. AskedTogether(q, w.sent, Len(nodes), A, C)
  BY <1>2, NewRequests
<1> HIDE DEF A, C
<1>5. /\ A \in Seq(AskedNode) /\ C \in Seq(PendingRequest) /\ IsInjective(A) /\ IsInjective(C)
      /\ \A r \in Range(A) \cup Range(C) : r.id \in w.sent + 1 .. w.sent + Len(nodes)
      /\ \A r \in Range(C) : r.owner = q
      /\ \A r \in Range(A) : \E x \in Range(C) : x.id = r.id /\ x.node = r.node
      /\ \A r, x \in Range(A) : r.id = x.id => r = x
      /\ \A r, x \in Range(C) : r.id = x.id => r = x
      /\ \A n : /\ IsFiniteSet(At(Range(A), n)) /\ IsFiniteSet(At(Range(C), n))
                /\ Cardinality(At(Range(A), n)) = Cardinality(At(Range(C), n))
  BY <1>50 DEF AskedTogether
<1>6. last \in Nat /\ w.sent <= last
      /\ \A k : k \in w.sent + 1 .. w.sent + Len(nodes) => k \in Nat /\ k <= last /\ ~ (k <= w.sent)
  BY <1>2
<1>7. on \subseteq Nodes \X Nat
  <2>1. \A i \in DOMAIN nodes : nodes[i] \in Nodes /\ w.sent + i \in Nat
    BY <1>2
  <2> QED
    BY <1>2, <2>1
<1> HIDE DEF on, last, v
<1>8. /\ requests \in Seq(AskedNode) /\ Range(requests) = Range(s.requests) \cup Range(A)
      /\ IsInjective(s.requests) /\ Range(s.requests) \cap Range(A) = {} => IsInjective(requests)
  BY <1>4, <1>5, Joins
<1>9. /\ waiting \in Seq(PendingRequest) /\ Range(waiting) = Range(w.pending) \cup Range(C)
      /\ IsInjective(w.pending) /\ Range(w.pending) \cap Range(C) = {} => IsInjective(waiting)
  BY <1>2, <1>5, Joins
<1> HIDE DEF s, requests, waiting
<1>10. /\ Asking(s, requests) \in QueryState /\ Asking(s, requests).requests = requests
       /\ Asking(s, requests).received = s.received /\ Asking(s, requests).used = s.used
  BY <1>4, <1>8, AskingIs
<1>11. queries \in [Owners -> QueryState]
       /\ queries[q] = Asking(s, requests) /\ \A p \in Owners : p # q => queries[p] = w.query[p]
  BY <1>2, <1>10
<1> HIDE DEF queries
<1>12. v \in WorkSet
  BY <1>2, <1>3, <1>6, <1>7, <1>9, <1>11 DEF WorkSet
<1>13. Wishes(queries)
  <2> SUFFICES ASSUME NEW p \in Queries
               PROVE  queries[p].received \in Wants(queries[p].used)
    BY DEF Wishes
  <2>1. w.query[p].received \in Wants(w.query[p].used) /\ p \in Owners
    BY <1>1 DEF Wishes, Owners
  <2> QED
    BY <1>10, <1>11, <2>1 DEF s
<1>14. /\ rest \subseteq PendingRequest /\ IsFiniteSet(rest) /\ IsInjective(w.pending)
       /\ Range(w.pending) \cap rest = {}
       /\ \A r \in all : r.id <= w.sent
       /\ \A r, x \in all : r.id = x.id => r = x
  BY <1>1 DEF Unique, Numbered
<1>15. all \cap Range(C) = {}
  BY <1>5, <1>6, <1>14
<1>16. Range(waiting) \cup rest = all \cup Range(C)
  BY <1>9
<1>17. /\ all \subseteq PendingRequest /\ IsFiniteSet(all)
       /\ IsFiniteSet(Range(C)) /\ Range(C) \subseteq PendingRequest
  <2>1. IsFiniteSet(Range(w.pending)) /\ Range(w.pending) \subseteq PendingRequest
    BY <1>2, RangeIsFinite
  <2>2. IsFiniteSet(all)
    BY <1>14, <2>1, FS_Union
  <2> QED
    BY <1>5, <1>14, <2>1, <2>2, RangeIsFinite
<1>18. Numbered(all \cup Range(C), last)
  <2>1. ASSUME NEW r \in all \cup Range(C) PROVE r.id <= last
    <3>1. CASE r \in all
      <4>1. r.id \in Nat /\ r.id <= w.sent
        BY <1>14, <1>17, <3>1 DEF PendingRequest
      <4> QED
        BY <1>2, <1>6, <4>1
    <3>2. CASE r \in Range(C)
      BY <1>5, <1>6, <3>2
    <3> QED
      BY <3>1, <3>2
  <2>2. ASSUME NEW r \in all \cup Range(C), NEW x \in all \cup Range(C), r.id = x.id
        PROVE  r = x
    <3>1. \A a \in all, c \in Range(C) : a.id # c.id
      BY <1>5, <1>6, <1>14
    <3> HIDE DEF all
    <3> QED
      BY <1>5, <1>14, <2>2, <3>1
  <2> QED
    BY <2>1, <2>2 DEF Numbered
<1>19. Unique(waiting, rest, last)
  <2>1. IsInjective(waiting) /\ Range(waiting) \cap rest = {}
    BY <1>9, <1>14, <1>15
  <2> QED
    BY <1>14, <1>16, <1>18, <2>1 DEF Unique
<1>20. ASSUME NEW p \in Owners
       PROVE  Counts(p, queries[p].requests, all \cup Range(C), last)
  <2> DEFINE mine == w.query[p].requests
  <2>1. /\ IsInjective(mine) /\ Numbered(Range(mine), w.sent)
        /\ Watched(p, Range(mine), Of(p, all))
    BY <1>1 DEF AllCount, Counts
  <2>2. mine \in Seq(AskedNode)
    <3>1. w.query[p] \in QueryState
      BY <1>2
    <3> QED
      BY <3>1 DEF QueryState
  <2> HIDE DEF mine
  <2>3. IsFiniteSet(Range(mine)) /\ Range(mine) \subseteq AskedNode
    BY <2>2, RangeIsFinite
  <2>4. ASSUME NEW n PROVE IsFiniteSet(At(Range(mine), n))
    <3>1. At(Range(mine), n) \subseteq Range(mine)
      BY DEF At
    <3> QED
      BY <2>3, <3>1, FS_Subset
  <2>5. \A r \in Range(mine) : r.id \in Nat /\ r.id <= w.sent /\ r.id <= last
    <3>1. \A r \in Range(mine) : r.id \in Nat
      BY <2>3 DEF AskedNode
    <3>2. \A r \in Range(mine) : r.id <= w.sent
      BY <2>1 DEF Numbered
    <3> QED
      BY <1>2, <1>6, <3>1, <3>2
  <2>6. CASE p # q
    <3>1. queries[p].requests = mine
      BY <1>11, <2>6 DEF mine
    <3>2. Of(p, all \cup Range(C)) = Of(p, all)
      BY <1>5, <2>6 DEF Of
    <3>3. Numbered(Range(mine), last)
      BY <2>1, <2>5 DEF Numbered
    <3> QED
      BY <2>1, <3>1, <3>2, <3>3 DEF Counts
  <2>7. CASE p = q
    <3>1. queries[p].requests = requests /\ mine = s.requests
      BY <1>10, <1>11, <2>7 DEF mine, s
    <3>2. Range(mine) \cap Range(A) = {}
      BY <1>5, <1>6, <2>5
    <3>3. IsInjective(requests) /\ Range(requests) = Range(mine) \cup Range(A)
      BY <1>8, <2>1, <3>1, <3>2
    <3>4. Numbered(Range(mine) \cup Range(A), last)
      <4>1. ASSUME NEW r \in Range(mine) \cup Range(A) PROVE r.id <= last
        BY <1>5, <1>6, <2>5
      <4>2. ASSUME NEW r \in Range(mine) \cup Range(A), NEW x \in Range(mine) \cup Range(A),
                   r.id = x.id
            PROVE  r = x
        <5>1. \A a \in Range(mine), c \in Range(A) : a.id # c.id
          BY <1>5, <1>6, <2>5
        <5>2. \A a, c \in Range(mine) : a.id = c.id => a = c
          BY <2>1 DEF Numbered
        <5> QED
          BY <1>5, <4>2, <5>1, <5>2
      <4> QED
        BY <4>1, <4>2 DEF Numbered
    <3>5. Of(p, all \cup Range(C)) = Of(p, all) \cup Range(C)
      BY <1>5, <2>7 DEF Of
    <3>6. Watched(p, Range(A), Range(C))
      <4>1. CASE p \in Searches
        <5>1. ASSUME NEW n \in Nodes
              PROVE  Cardinality(At(Range(A), n)) <= Cardinality(At(Range(C), n))
          <6>1. Cardinality(At(Range(A), n)) = Cardinality(At(Range(C), n))
            BY <1>5
          <6>2. Cardinality(At(Range(C), n)) \in Nat
            BY <1>5, FS_CardinalityType
          <6> QED
            BY <6>1, <6>2
        <5> QED
          BY <4>1, <5>1 DEF Watched
      <4>2. CASE p \notin Searches
        BY <1>5, <4>2 DEF Watched
      <4> QED
        BY <4>1, <4>2
    <3>7. ASSUME NEW n PROVE IsFiniteSet(At(Of(p, all), n))
      <4>1. At(Of(p, all), n) \subseteq all
        BY DEF At, Of
      <4> HIDE DEF all
      <4> QED
        BY <1>17, <4>1, FS_Subset
    <3>8. Of(p, all) \cap Range(C) = {}
      BY <1>15 DEF Of
    <3>9. Watched(p, Range(mine) \cup Range(A), Of(p, all) \cup Range(C))
      <4> HIDE DEF all
      <4> QED
        BY <1>5, <2>1, <2>4, <3>2, <3>6, <3>7, <3>8, BothMore
    <3> QED
      BY <3>1, <3>3, <3>4, <3>5, <3>9 DEF Counts
  <2> QED
    BY <2>6, <2>7
<1>21. AllCount(queries, Range(waiting) \cup rest, last)
  BY <1>16, <1>20 DEF AllCount
<1>22. /\ v.table = w.table /\ v.query = queries /\ v.pending = waiting /\ v.sent = last
  BY <1>3
<1>23. sent \in Nat /\ sent <= v.sent
  <2>1. sent \in Nat /\ sent <= w.sent
    BY DEF Good
  <2> QED
    BY <1>2, <1>6, <1>22, <2>1
<1>24. Good(v, rest, twice)
  BY <1>1, <1>12, <1>13, <1>19, <1>21, <1>22, <1>23 DEF Good
<1> QED
  BY <1>24 DEF v
-------------------------------------------------------------------------------
(* Steps of a callback. *)

\* The state of one query changes and it counts no more requests than before, when
\* what was taken out (rest) is gone but for `few'.
LEMMA QueryChanged ==
    ASSUME NEW w, NEW rest, NEW few, NEW twice, Good(w, rest, twice), few \subseteq rest,
           NEW q \in Owners, NEW s \in QueryState,
           q \in Queries => s.received \in Wants(s.used),
           IsInjective(s.requests), Range(s.requests) \subseteq Range(w.query[q].requests),
           Watched(q, Range(s.requests), Of(q, Range(w.pending) \cup few)),
           \A r \in rest \ few : r.owner = q
    PROVE  Good([w EXCEPT !.query[q] = s], few, twice)
<1> DEFINE queries == [w.query EXCEPT ![q] = s]
           v == [w EXCEPT !.query = queries]
           all == Range(w.pending) \cup rest
           left == Range(w.pending) \cup few
<1>1. /\ w \in WorkSet /\ TableGood(w.table, twice) /\ Wishes(w.query)
      /\ Unique(w.pending, rest, w.sent) /\ AllCount(w.query, all, w.sent)
  BY DEF Good
<1>2. w.query \in [Owners -> QueryState]
  BY <1>1 DEF WorkSet
<1>3. queries \in [Owners -> QueryState]
      /\ queries[q] = s /\ \A p \in Owners : p # q => queries[p] = w.query[p]
  BY <1>2
<1> HIDE DEF queries
<1>4. v \in WorkSet /\ v.table = w.table /\ v.query = queries /\ v.pending = w.pending
      /\ v.sent = w.sent
  BY <1>1, <1>3 DEF WorkSet
<1> HIDE DEF v
<1>5. Wishes(queries)
  BY <1>1, <1>3 DEF Wishes, Owners
<1>6. Unique(w.pending, few, w.sent)
  <2>1. IsFiniteSet(few) /\ few \subseteq PendingRequest /\ Range(w.pending) \cap few = {}
    BY <1>1, FS_Subset DEF Unique
  <2>2. Numbered(left, w.sent)
    BY <1>1 DEF Unique, Numbered
  <2> QED
    BY <1>1, <2>1, <2>2 DEF Unique
<1>7. ASSUME NEW p \in Owners PROVE Counts(p, queries[p].requests, left, w.sent)
  <2>1. Counts(p, w.query[p].requests, all, w.sent)
    BY <1>1 DEF AllCount
  <2>2. CASE p = q
    <3>1. Numbered(Range(s.requests), w.sent)
      BY <2>1, <2>2 DEF Counts, Numbered
    <3> QED
      BY <1>3, <2>2, <3>1 DEF Counts
  <2>3. CASE p # q
    <3>1. Of(p, left) = Of(p, all)
      BY <2>3 DEF Of
    <3>2. queries[p].requests = w.query[p].requests
      BY <1>3, <2>3
    <3> HIDE DEF left, all
    <3> QED
      BY <2>1, <3>1, <3>2 DEF Counts
  <2> QED
    BY <2>2, <2>3
<1>8. AllCount(queries, left, w.sent)
  BY <1>7 DEF AllCount
<1>9. Good(v, few, twice)
  BY <1>1, <1>4, <1>5, <1>6, <1>8 DEF Good
<1> QED
  BY <1>9 DEF v, queries

\* Nothing that the requests of a query depend on changes.
LEMMA OthersChanged ==
    ASSUME NEW w, NEW rest, NEW twice, Good(w, rest, twice), NEW v \in WorkSet,
           TableGood(v.table, twice), v.query = w.query, v.pending = w.pending, v.sent = w.sent
    PROVE  Good(v, rest, twice)
BY DEF Good

\* What a request stands for among those a query counts.
Same(q, asked, r) == IF q \in Searches THEN asked.node = r.node ELSE asked.id = r.id

Forgot(q, asked, left, r) ==
    \/ left = asked /\ \A x \in asked : ~ Same(q, x, r)
    \/ \E x \in asked : Same(q, x, r) /\ left = asked \ {x}

LEMMA Forgets ==
    ASSUME NEW q \in Owners, NEW s \in QueryState, IsInjective(s.requests), NEW r
    PROVE  \E m \in Seq(AskedNode) :
              /\ ForgetRequest(s, q, r) = Asking(s, m) /\ IsInjective(m)
              /\ Range(m) \subseteq Range(s.requests)
              /\ Forgot(q, Range(s.requests), Range(m), r)
<1> DEFINE a == s.requests
           found == {i \in 1 .. Len(a) : Same(q, a[i], r)}
           k == IF found # {} THEN Min(found) ELSE 0
<1>1. a \in Seq(AskedNode) /\ found \in SUBSET Nat
  BY DEF QueryState
<1>2. ForgetRequest(s, q, r) = IF k = 0 THEN s ELSE [s EXCEPT !.requests = RemoveAt(@, k)]
  BY DEF ForgetRequest, SelectInSeq, Same
<1>3. found # {} => Min(found) \in found
  <2> HIDE DEF found
  <2> QED
    BY <1>1, MinExists
<1>4. CASE found = {}
  <2>1. s = Asking(s, a)
    BY DEF Asking, QueryState
  <2>2. \A x \in Range(a) : ~ Same(q, x, r)
    BY <1>1, <1>4 DEF Range
  <2>3. Forgot(q, Range(a), Range(a), r)
    BY <2>2 DEF Forgot
  <2> QED
    BY <1>1, <1>2, <1>4, <2>1, <2>3
<1>5. CASE found # {}
  <2> DEFINE m == RemoveAt(a, k)
  <2>1. k \in 1 .. Len(a) /\ k # 0 /\ Same(q, a[k], r)
    <3>1. k \in found
      <4> HIDE DEF found
      <4> QED
        BY <1>3, <1>5
    <3> HIDE DEF k
    <3> QED
      BY <3>1
  <2>2. ForgetRequest(s, q, r) = Asking(s, m)
    BY <1>2, <2>1 DEF Asking
  <2> HIDE DEF a, k
  <2>3. /\ m \in Seq(AskedNode) /\ IsInjective(m) /\ Range(m) \subseteq Range(a)
        /\ Range(m) = Range(a) \ {a[k]}
    <3>1. IsInjective(a)
      BY DEF a
    <3> QED
      BY <1>1, <2>1, <3>1, RemoveAtFacts
  <2>4. a[k] \in Range(a)
    BY <1>1, <2>1 DEF Range
  <2>5. Forgot(q, Range(a), Range(m), r)
    BY <2>1, <2>3, <2>4 DEF Forgot
  <2> QED
    BY <2>2, <2>3, <2>5 DEF a
<1> QED
  BY <1>4, <1>5

\* A query forgets as many requests as are not waited for any more.
LEMMA StillWatched ==
    ASSUME NEW q, NEW last, NEW asked, asked \subseteq AskedNode, IsFiniteSet(asked),
           Numbered(asked, last), NEW waiting, IsFiniteSet(waiting), NEW r \in waiting,
           Watched(q, asked, waiting), NEW left, Forgot(q, asked, left, r)
    PROVE  Watched(q, left, waiting \ {r})
<1>1. CASE q \in Searches
  <2> SUFFICES ASSUME NEW n \in Nodes
               PROVE  Cardinality(At(left, n)) <= Cardinality(At(waiting \ {r}, n))
    BY <1>1 DEF Watched
  <2>1. At(asked, n) \subseteq asked /\ At(waiting, n) \subseteq waiting
    BY DEF At
  <2>2. /\ IsFiniteSet(At(asked, n)) /\ IsFiniteSet(At(waiting, n))
        /\ Cardinality(At(asked, n)) \in Nat /\ Cardinality(At(waiting, n)) \in Nat
        /\ Cardinality(At(asked, n)) <= Cardinality(At(waiting, n))
    BY <1>1, <2>1, FS_Subset, FS_CardinalityType DEF Watched
  <2>3. CASE r.node # n
    <3>1. At(waiting \ {r}, n) = At(waiting, n) /\ At(left, n) = At(asked, n)
      BY <1>1, <2>3 DEF At, Forgot, Same
    <3> QED
      BY <2>2, <3>1
  <2>4. CASE r.node = n
    <3>1. At(waiting \ {r}, n) = At(waiting, n) \ {r} /\ r \in At(waiting, n)
      BY <2>4 DEF At
    <3>2. Cardinality(At(waiting \ {r}, n)) = Cardinality(At(waiting, n)) - 1
      BY <2>2, <3>1, FS_RemoveElement
    <3>3. CASE left = asked /\ \A x \in asked : ~ Same(q, x, r)
      <4>1. At(left, n) = {}
        BY <1>1, <2>4, <3>3 DEF At, Same
      <4>2. Cardinality(At(left, n)) = 0
        BY <4>1, FS_EmptySet
      <4>3. Cardinality(At(waiting, n)) # 0
        BY <2>2, <3>1, FS_EmptySet
      <4> QED
        BY <2>2, <3>2, <4>2, <4>3
    <3>4. ASSUME NEW x \in asked, Same(q, x, r), left = asked \ {x}
          PROVE  Cardinality(At(left, n)) <= Cardinality(At(waiting \ {r}, n))
      <4>1. At(left, n) = At(asked, n) \ {x} /\ x \in At(asked, n)
        BY <1>1, <2>4, <3>4 DEF At, Same
      <4>2. Cardinality(At(left, n)) = Cardinality(At(asked, n)) - 1
        BY <2>2, <4>1, FS_RemoveElement
      <4> QED
        BY <2>2, <3>2, <4>2
    <3> QED
      BY <3>3, <3>4 DEF Forgot
  <2> QED
    BY <2>3, <2>4
<1>2. CASE q \notin Searches
  <2> SUFFICES ASSUME NEW x \in left
               PROVE  \E y \in waiting \ {r} : y.id = x.id /\ y.node = x.node
    BY <1>2 DEF Watched
  <2>1. x \in asked /\ x.id # r.id
    BY <1>2 DEF Forgot, Same, Numbered
  <2>2. PICK y \in waiting : y.id = x.id /\ y.node = x.node
    BY <1>2, <2>1 DEF Watched
  <2> QED
    BY <2>1, <2>2
<1> QED
  BY <1>1, <1>2
\* A request that is answered or given up is forgotten, whether it stays to wait or not.
LEMMA Forgotten ==
    ASSUME NEW w, NEW rest, NEW twice, Good(w, rest, twice), NEW r \in rest
    PROVE  LET v == [w EXCEPT !.query[r.owner] = ForgetRequest(@, r.owner, r)] IN
           Good(v, rest \ {r}, twice) /\ Good(v, rest, twice)
<1> DEFINE q == r.owner
           s == w.query[q]
           asked == Range(s.requests)
           all == Range(w.pending) \cup rest
           v == [w EXCEPT !.query[q] = ForgetRequest(s, q, r)]
<1>1. /\ w \in WorkSet /\ Wishes(w.query)
      /\ Unique(w.pending, rest, w.sent) /\ AllCount(w.query, all, w.sent)
  BY DEF Good
<1>2. /\ rest \subseteq PendingRequest /\ IsFiniteSet(rest) /\ Range(w.pending) \cap rest = {}
  BY <1>1 DEF Unique
<1>3. q \in Owners /\ s \in QueryState /\ w.pending \in Seq(PendingRequest)
  BY <1>1, <1>2 DEF WorkSet, PendingRequest
<1>4. s.requests \in Seq(AskedNode)
  BY <1>3 DEF QueryState
<1>5. IsInjective(s.requests) /\ Numbered(asked, w.sent) /\ Watched(q, asked, Of(q, all))
  BY <1>1, <1>3 DEF AllCount, Counts
<1>6. IsFiniteSet(asked) /\ asked \subseteq AskedNode
  BY <1>4, RangeIsFinite
<1>7. PICK m \in Seq(AskedNode) :
         /\ ForgetRequest(s, q, r) = Asking(s, m) /\ IsInjective(m)
         /\ Range(m) \subseteq asked /\ Forgot(q, asked, Range(m), r)
  BY <1>3, <1>5, Forgets
<1>8. /\ Asking(s, m) \in QueryState /\ Asking(s, m).requests = m
      /\ Asking(s, m).received = s.received /\ Asking(s, m).used = s.used
  BY <1>3, <1>7, AskingIs
<1>9. q \in Queries => s.received \in Wants(s.used)
  BY <1>1 DEF Wishes
<1>10. IsFiniteSet(all) /\ IsFiniteSet(Of(q, all))
  <2>1. IsFiniteSet(Range(w.pending))
    BY <1>3, RangeIsFinite
  <2>2. IsFiniteSet(all)
    BY <1>2, <2>1, FS_Union
  <2>3. Of(q, all) \subseteq all
    BY DEF Of
  <2> QED
    BY <2>2, <2>3, FS_Subset
<1>11. r \in Of(q, all) /\ Of(q, Range(w.pending) \cup (rest \ {r})) = Of(q, all) \ {r}
  BY <1>2 DEF Of
<1> HIDE DEF asked, all
<1>12. Watched(q, Range(m), Of(q, Range(w.pending) \cup (rest \ {r})))
  <2>1. Watched(q, Range(m), Of(q, all) \ {r})
    <3> HIDE DEF q
    <3> QED
      BY <1>5, <1>6, <1>7, <1>10, <1>11, StillWatched
  <2> QED
    BY <1>11, <2>1
<1>13. Watched(q, Range(m), Of(q, Range(w.pending) \cup rest))
  <2>1. ASSUME NEW n PROVE IsFiniteSet(At(Range(m), n))
    <3>1. IsFiniteSet(Range(m)) /\ At(Range(m), n) \subseteq Range(m)
      BY <1>7, RangeIsFinite DEF At
    <3> QED
      BY <3>1, FS_Subset
  <2>2. Of(q, all) \ {r} \subseteq Of(q, all)
    OBVIOUS
  <2>3. Watched(q, Range(m), Of(q, all) \ {r})
    BY <1>11, <1>12
  <2>4. Watched(q, Range(m), Of(q, all))
    BY <1>10, <2>1, <2>2, <2>3, MoreWatched
  <2> QED
    BY <2>4 DEF all
<1> DEFINE t == Asking(s, m) one == rest \ {r}
<1>14. v = [w EXCEPT !.query[q] = t]
  BY <1>7
<1>15. /\ t \in QueryState /\ (q \in Queries => t.received \in Wants(t.used))
       /\ IsInjective(t.requests) /\ Range(t.requests) \subseteq Range(w.query[q].requests)
       /\ Watched(q, Range(t.requests), Of(q, Range(w.pending) \cup one))
       /\ Watched(q, Range(t.requests), Of(q, Range(w.pending) \cup rest))
  BY <1>7, <1>8, <1>9, <1>12, <1>13 DEF asked
<1>16. one \subseteq rest /\ (\A x \in rest \ one : x.owner = q)
       /\ rest \subseteq rest /\ (\A x \in rest \ rest : x.owner = q)
  OBVIOUS
<1> HIDE DEF t, one, s, v
<1>17. Good([w EXCEPT !.query[q] = t], one, twice)
  <2> HIDE DEF q
  <2> QED
    BY <1>3, <1>15, <1>16, QueryChanged
<1>18. Good([w EXCEPT !.query[q] = t], rest, twice)
  <2> HIDE DEF q
  <2> QED
    BY <1>3, <1>15, <1>16, QueryChanged
<1> QED
  BY <1>14, <1>17, <1>18 DEF one, v, s

\* The state of a query changes, and not what it counts.
LEMMA QueryTouched ==
    ASSUME NEW w, NEW rest, NEW twice, Good(w, rest, twice), NEW q \in Owners,
           NEW s \in QueryState, s.requests = w.query[q].requests,
           q \in Queries => s.received \in Wants(s.used)
    PROVE  Good([w EXCEPT !.query[q] = s], rest, twice)
<1>1. IsInjective(s.requests) /\ Watched(q, Range(s.requests), Of(q, Range(w.pending) \cup rest))
  BY DEF Good, AllCount, Counts
<1>2. /\ rest \subseteq rest /\ Range(s.requests) \subseteq Range(w.query[q].requests)
      /\ \A r \in rest \ rest : r.owner = q
  OBVIOUS
<1> QED
  BY <1>1, <1>2, QueryChanged

LEMMA SentNext ==
    ASSUME NEW w, NEW rest, NEW twice, Good(w, rest, twice), NEW q \in Queries
    PROVE  Good(SendNext(w, q), rest, twice)
<1> DEFINE s == w.query[q]
           a == s.received
           room == s.limit - Len(s.requests)
           n == IF room < 0 \/ (q \in Searches /\ s.found >= MaxReturnedValues) THEN 0
                ELSE Min({room, Len(a)})
           nodes == SubSeq(a, 1, n)
           later == SubSeq(a, n + 1, Len(a))
           t == [s EXCEPT !.used = s.used \cup Range(nodes), !.received = later]
           far == [x \in Nodes |-> Length(Distance[q][x])]
<1>1. q \in Owners /\ s \in QueryState /\ a \in Wants(s.used)
  BY DEF Good, WorkSet, Wishes, Owners
<1>2. /\ s.requests \in Seq(AskedNode) /\ a \in Seq(Nodes) /\ s.used \in SUBSET Nodes
      /\ s.limit \in Nat
  BY <1>1 DEF QueryState
<1>3. SendNext(w, q) = SendRequests([w EXCEPT !.query[q] = t], q, nodes, far)
  BY DEF SendNext
<1>4. PICK c \in Nat : c = Len(a) /\ DOMAIN a = 1 .. c
  BY <1>2
<1>5. room \in Int
  <2>1. Len(s.requests) \in Nat
    BY <1>2
  <2> QED
    BY <1>2, <2>1
<1> HIDE DEF room
<1>6. n \in 0 .. c
  <2>1. CASE room < 0 \/ (q \in Searches /\ s.found >= MaxReturnedValues)
    BY <1>4, <2>1
  <2>2. CASE ~ (room < 0 \/ (q \in Searches /\ s.found >= MaxReturnedValues))
    <3>1. {room, c} \in SUBSET Nat /\ {room, c} # {}
      BY <1>4, <1>5, <2>2
    <3>2. \E k \in {room, c} : \A m \in {room, c} : k <= m
      BY <3>1, SmallestIn
    <3>3. Min({room, c}) \in {room, c} /\ Min({room, c}) <= c
      BY <3>2 DEF Min
    <3>4. n = Min({room, c})
      BY <1>4, <2>2
    <3> QED
      BY <3>1, <3>3, <3>4
  <2> QED
    BY <2>1, <2>2
<1> HIDE DEF n, s
<1>7. /\ nodes \in Seq(Nodes) /\ Len(nodes) = n /\ DOMAIN nodes = 1 .. n
      /\ \A i \in 1 .. n : nodes[i] = a[i]
  BY <1>2, <1>4, <1>6
<1>8. /\ later \in Seq(Nodes) /\ Len(later) = c - n /\ DOMAIN later = 1 .. c - n
      /\ \A i \in 1 .. c - n : later[i] = a[n + i]
  BY <1>2, <1>4, <1>6
<1>9. IsInjective(a) /\ c <= MaxCachedNodes /\ Range(a) \cap s.used = {}
  BY <1>1, <1>4 DEF Wants
<1>10. \A i, j \in 1 .. c : a[i] = a[j] => i = j
  BY <1>4, <1>9 DEF IsInjective
<1> HIDE DEF nodes, later
<1>11. Range(nodes) \subseteq Nodes
  BY <1>7, RangeIsFinite
<1>12. later \in Wants(s.used \cup Range(nodes))
  <2>1. \A i \in 1 .. c - n : n + i \in 1 .. c /\ n + i \notin 1 .. n
    BY <1>6
  <2>2. \A i, j \in 1 .. c - n : n + i = n + j => i = j
    BY <1>6
  <2>3. IsInjective(later)
    BY <1>8, <1>10, <2>1, <2>2 DEF IsInjective
  <2>4. ASSUME NEW i \in 1 .. c - n PROVE later[i] \notin s.used \cup Range(nodes)
    <3>1. later[i] = a[n + i] /\ n + i \in 1 .. c /\ n + i \notin 1 .. n
      BY <1>8, <2>1
    <3>2. a[n + i] \notin s.used
      BY <1>4, <1>9, <3>1 DEF Range
    <3>3. \A j \in 1 .. n : nodes[j] # a[n + i]
      BY <1>6, <1>7, <1>10, <3>1
    <3> QED
      BY <1>7, <3>1, <3>2, <3>3 DEF Range
  <2>5. Range(later) \cap (s.used \cup Range(nodes)) = {}
    BY <1>8, <2>4 DEF Range
  <2>6. Len(later) <= MaxCachedNodes
    BY <1>6, <1>8, <1>9, DhtAssumption
  <2> QED
    BY <1>8, <2>3, <2>5, <2>6 DEF Wants
<1>13. t \in QueryState /\ t.requests = s.requests /\ t.received = later
       /\ t.used = s.used \cup Range(nodes)
  BY <1>1, <1>2, <1>8, <1>11 DEF QueryState
<1>14. far \in [Nodes -> Nat]
  BY LengthIsNat, DhtAssumption
<1> HIDE DEF t, far
<1>15. Good([w EXCEPT !.query[q] = t], rest, twice)
  BY <1>1, <1>12, <1>13, QueryTouched DEF s
<1> QED
  BY <1>1, <1>3, <1>7, <1>14, <1>15, Sent

LEMMA TableChanged ==
    ASSUME NEW w, NEW rest, NEW twice, Good(w, rest, twice), NEW tab, TableGood(tab, twice)
    PROVE  Good([w EXCEPT !.table = tab], rest, twice)
<1> DEFINE v == [w EXCEPT !.table = tab]
<1>1. w \in WorkSet /\ tab \in [Range(BucketOf) -> Bucket]
  BY DEF Good, TableGood
<1>2. v \in WorkSet /\ v.table = tab /\ v.query = w.query /\ v.pending = w.pending
      /\ v.sent = w.sent
  BY <1>1 DEF WorkSet
<1> HIDE DEF v
<1>3. Good(v, rest, twice)
  BY <1>2, OthersChanged
<1> QED
  BY <1>3 DEF v

LEMMA PeersFinished ==
    ASSUME NEW w, NEW rest, NEW twice, Good(w, rest, twice), NEW q
    PROVE  Good(FindingPeersFinished(w, q), rest, twice)
<1> DEFINE a == w.peersQueries
           found == {i \in 1 .. Len(a) : Hash[a[i]] = Hash[q]}
           k == IF found # {} THEN Min(found) ELSE 0
           v == [w EXCEPT !.peersQueries = RemoveAt(a, k), !.reported[a[k]] = @ + 1]
<1>1. FindingPeersFinished(w, q) = IF k = 0 THEN w ELSE v
  BY DEF FindingPeersFinished, SelectInSeq
<1>2. w \in WorkSet /\ TableGood(w.table, twice)
  BY DEF Good
<1>3. a \in Seq(Searches) /\ w.reported \in [Searches -> Nat] /\ found \in SUBSET Nat
  BY <1>2 DEF WorkSet
<1>4. CASE k = 0
  BY <1>1, <1>4
<1>5. CASE k # 0
  <2>1. k \in 1 .. Len(a)
    <3>1. found # {}
      BY <1>5
    <3>2. Min(found) \in found
      <4> HIDE DEF found
      <4> QED
        BY <1>3, <3>1, MinExists
    <3> QED
      BY <3>1, <3>2
  <2> DEFINE b == RemoveAt(a, k) told == [w.reported EXCEPT ![a[k]] = @ + 1]
  <2>2. v = [w EXCEPT !.peersQueries = b, !.reported = told]
    OBVIOUS
  <2> HIDE DEF a, k
  <2>3. b \in Seq(Searches)
    BY <1>3, <2>1, RemoveAtFacts
  <2>4. a[k] \in Searches /\ told \in [Searches -> Nat]
    BY <1>3, <2>1
  <2> HIDE DEF b, told, v
  <2>5. v \in WorkSet /\ v.table = w.table /\ v.query = w.query /\ v.pending = w.pending
        /\ v.sent = w.sent
    BY <1>2, <2>2, <2>3, <2>4 DEF WorkSet
  <2>6. Good(v, rest, twice)
    BY <1>2, <2>5, OthersChanged
  <2> QED
    BY <1>1, <1>5, <2>6
<1> QED
  BY <1>4, <1>5
LEMMA AnswerTaken ==
    ASSUME NEW w, NEW rest, NEW twice \in BOOLEAN, Good(w, rest, twice), NEW q \in Queries,
           NEW r \in PendingRequest
    PROVE  Good(Answered(w, q, r), rest, twice)
<1> DEFINE response == IF q \in Searches THEN ParseGetPeersResponse(r.node)
                       ELSE ParseFindNodeResponse(r.node)
           o == w.query[q]
           s == [o EXCEPT !.found = @ + response.values]
           merged == AllMerged(q, s.received, s.used, r.minDistance, response.nodes)
           t == MergeClosestNodes(q, s, response.nodes, r.minDistance)
           v == [w EXCEPT !.query[q] = t]
           tab == NodeResponded(w.table, r.node)
<1>1. /\ q \in Owners /\ o \in QueryState /\ o.received \in Wants(o.used)
      /\ TableGood(w.table, twice) /\ w \in WorkSet
  BY DEF Good, WorkSet, Wishes, Owners
<1>2. r.node \in Nodes
  BY DEF PendingRequest
<1>3. response.values \in Nat /\ response.nodes \in Seq(Nat)
  BY <1>2, DhtAssumption DEF ParseGetPeersResponse, ParseFindNodeResponse
<1> HIDE DEF response, o
<1>4. s \in QueryState /\ s.received = o.received /\ s.used = o.used /\ s.requests = o.requests
  BY <1>1, <1>3 DEF QueryState
<1>5. t = [s EXCEPT !.received = merged]
  BY DEF MergeClosestNodes, AllMerged
<1> HIDE DEF s, t
<1>6. merged \in Wants(s.used)
  <2>1. s.received \in Wants(s.used) /\ response.nodes \in Seq(Nat)
    BY <1>1, <1>3, <1>4
  <2> QED
    BY <2>1, Merged
<1> HIDE DEF merged
<1>7. t \in QueryState /\ t.received = merged /\ t.used = s.used /\ t.requests = s.requests
  BY <1>4, <1>5, <1>6 DEF QueryState, Wants
<1>8. Good(v, rest, twice)
  BY <1>1, <1>4, <1>6, <1>7, QueryTouched DEF o
<1>9. TableGood(tab, twice)
  BY <1>1, <1>2, Responded
<1> HIDE DEF tab
<1>10. Good([v EXCEPT !.table = tab], rest, twice)
  <2> HIDE DEF v
  <2> QED
    BY <1>8, <1>9, TableChanged
<1>11. CASE r.node \in plan.renamed
  <2>1. Answered(w, q, r) = w
    BY <1>11 DEF Answered
  <2> QED
    BY <2>1
<1>12. CASE r.node \notin plan.renamed
  <2>1. Answered(w, q, r) = [w EXCEPT !.query[q] = t, !.table = tab]
    BY <1>12 DEF Answered, t, s, o, response, tab
  <2>2. Answered(w, q, r) = [v EXCEPT !.table = tab]
    BY <2>1
  <2> QED
    BY <1>10, <2>2
<1> QED
  BY <1>11, <1>12

LEMMA QueryTold ==
    ASSUME NEW w, NEW rest, NEW twice \in BOOLEAN, Good(w, rest, twice), NEW q \in Queries,
           NEW r \in rest, r.owner = q, NEW id, NEW old
    PROVE  /\ Good(OnQueryResponse(w, q, r, id, old), rest \ {r}, twice)
           /\ Good(OnQueryResponse(w, q, r, id, old), rest, twice)
<1> DEFINE heard == IF id = r.id THEN Answered(w, q, r)
                    ELSE IF id = 0 THEN [w EXCEPT !.table = NodeNotResponded(@, r.node, old)]
                    ELSE w
           left == [heard EXCEPT !.query[q] = ForgetRequest(@, q, r)]
           next == SendNext(left, q)
           v == OnQueryResponse(w, q, r, id, old)
           few == rest \ {r}
<1>1. TableGood(w.table, twice) /\ rest \subseteq PendingRequest
  BY DEF Good, Unique
<1>2. r \in PendingRequest /\ r.node \in Nodes
  BY <1>1 DEF PendingRequest
<1>3. Good(heard, rest, twice)
  <2>1. CASE id = r.id
    BY <1>2, <2>1, AnswerTaken
  <2>2. CASE id # r.id /\ id = 0
    <3>1. TableGood(NodeNotResponded(w.table, r.node, old), twice)
      BY <1>1, <1>2, NotResponded
    <3> QED
      BY <2>2, <3>1, TableChanged
  <2>3. CASE id # r.id /\ id # 0
    BY <2>3
  <2> QED
    BY <2>1, <2>2, <2>3
<1>4. v = IF q \in Searches /\ next.query[q].requests = <<>>
          THEN FindingPeersFinished(next, q) ELSE next
  BY DEF OnQueryResponse
<1> HIDE DEF heard, v
<1>5. Good(left, few, twice) /\ Good(left, rest, twice)
  BY <1>3, Forgotten
<1> HIDE DEF left, few
<1>6. Good(next, few, twice) /\ Good(next, rest, twice)
  BY <1>5, SentNext
<1> HIDE DEF next
<1>7. Good(FindingPeersFinished(next, q), few, twice)
      /\ Good(FindingPeersFinished(next, q), rest, twice)
  BY <1>6, PeersFinished
<1>8. Good(v, few, twice) /\ Good(v, rest, twice)
  BY <1>4, <1>6, <1>7
<1> QED
  BY <1>8 DEF v, few

LEMMA PingTold ==
    ASSUME NEW w, NEW rest, NEW twice \in BOOLEAN, Good(w, rest, twice), NEW p \in Pings,
           NEW r \in rest, r.owner = p, NEW id, NEW old
    PROVE  /\ Good(OnPingResponse(w, p, r, id, old), rest \ {r}, twice)
           /\ Good(OnPingResponse(w, p, r, id, old), rest, twice)
<1> DEFINE heard == IF id = r.id /\ r.node \notin plan.renamed
                    THEN [w EXCEPT !.table = NodeResponded(@, r.node)]
                    ELSE IF id = 0 THEN [w EXCEPT !.table = NodeNotResponded(@, r.node, old)]
                    ELSE w
           later == w.query[p].received
           next == [heard EXCEPT !.query[p] = ForgetRequest(@, p, r)]
           s == next.query[p]
           t == [s EXCEPT !.received = Front(@)]
           more == [next EXCEPT !.query[p] = t]
           far == [n \in Nodes |-> 0]
           v == OnPingResponse(w, p, r, id, old)
           few == rest \ {r}
<1>1. TableGood(w.table, twice) /\ rest \subseteq PendingRequest /\ w \in WorkSet
  BY DEF Good, Unique
<1>2. r \in PendingRequest /\ r.node \in Nodes /\ p \in Owners /\ p \notin Queries
  BY <1>1, DhtAssumption DEF PendingRequest, Owners
<1>3. later \in Seq(Nodes)
  <2>1. w.query[p] \in QueryState
    BY <1>1, <1>2 DEF WorkSet
  <2> QED
    BY <2>1 DEF QueryState
<1>4. Good(heard, rest, twice)
  <2>1. CASE id = r.id /\ r.node \notin plan.renamed
    <3>1. TableGood(NodeResponded(w.table, r.node), twice)
      BY <1>1, <1>2, Responded
    <3> QED
      BY <2>1, <3>1, TableChanged
  <2>2. CASE ~ (id = r.id /\ r.node \notin plan.renamed) /\ id = 0
    <3>1. TableGood(NodeNotResponded(w.table, r.node, old), twice)
      BY <1>1, <1>2, NotResponded
    <3> QED
      BY <2>2, <3>1, TableChanged
  <2>3. CASE ~ (id = r.id /\ r.node \notin plan.renamed) /\ id # 0
    BY <2>3
  <2> QED
    BY <2>1, <2>2, <2>3
<1>5. v = IF later = <<>> THEN next
          ELSE SendRequests([next EXCEPT !.query[p].received = Front(@)], p, <<Last(later)>>, far)
  BY DEF OnPingResponse
<1>6. [next EXCEPT !.query[p].received = Front(@)] = more
  OBVIOUS
<1> HIDE DEF heard, v
<1>7. Good(next, few, twice) /\ Good(next, rest, twice)
  BY <1>4, Forgotten
<1> HIDE DEF next, few
<1>8. s \in QueryState
  BY <1>2, <1>7 DEF Good, WorkSet
<1> HIDE DEF s
<1>9. t \in QueryState /\ t.requests = s.requests
  <2>1. s.received \in Seq(Nodes)
    BY <1>8 DEF QueryState
  <2>2. Front(s.received) \in Seq(Nodes)
    BY <2>1 DEF Front
  <2> QED
    BY <1>8, <2>2 DEF QueryState
<1> HIDE DEF t
<1>10. Good(more, few, twice) /\ Good(more, rest, twice)
  BY <1>2, <1>7, <1>9, QueryTouched DEF s
<1> HIDE DEF more
<1>11. CASE later = <<>>
  BY <1>5, <1>7, <1>11 DEF v, few
<1>12. CASE later # <<>>
  <2> DEFINE nodes == <<Last(later)>>
  <2>1. nodes \in Seq(Nodes)
    BY <1>3, <1>12 DEF Last
  <2>2. far \in [Nodes -> Nat]
    OBVIOUS
  <2> HIDE DEF nodes, far
  <2>3. Good(SendRequests(more, p, nodes, far), few, twice)
        /\ Good(SendRequests(more, p, nodes, far), rest, twice)
    BY <1>2, <1>10, <2>1, <2>2, Sent
  <2>4. v = SendRequests(more, p, nodes, far)
    BY <1>5, <1>6, <1>12 DEF nodes
  <2> QED
    BY <2>3, <2>4 DEF v, few
<1> QED
  BY <1>11, <1>12

LEMMA Told ==
    ASSUME NEW w, NEW rest, NEW twice \in BOOLEAN, Good(w, rest, twice), NEW r \in rest,
           NEW id, NEW old
    PROVE  /\ Good(OnResponse(w, r, id, old), rest \ {r}, twice)
           /\ Good(OnResponse(w, r, id, old), rest, twice)
<1>1. r.owner \in Owners
  BY DEF Good, Unique, PendingRequest
<1>2. CASE r.owner \in Pings
  BY <1>2, PingTold DEF OnResponse
<1>3. CASE r.owner \notin Pings
  <2>1. r.owner \in Queries
    BY <1>1, <1>3 DEF Owners
  <2> QED
    BY <1>3, <2>1, QueryTold DEF OnResponse
<1> QED
  BY <1>2, <1>3
-------------------------------------------------------------------------------
(* A packet: the requests to its sender are taken out and tried in turn. *)

\* What is pending moves between the queue and what is taken out.
LEMMA QueueChanged ==
    ASSUME NEW w, NEW rest, NEW twice, Good(w, rest, twice), NEW few, IsFiniteSet(few),
           NEW queue \in Seq(PendingRequest), IsInjective(queue), Range(queue) \cap few = {},
           Range(queue) \cup few = Range(w.pending) \cup rest
    PROVE  Good([w EXCEPT !.pending = queue], few, twice)
<1> DEFINE v == [w EXCEPT !.pending = queue]
<1>1. /\ w \in WorkSet /\ TableGood(w.table, twice) /\ Wishes(w.query)
      /\ Unique(w.pending, rest, w.sent) /\ sent \in Nat /\ sent <= w.sent
      /\ AllCount(w.query, Range(w.pending) \cup rest, w.sent)
  BY DEF Good
<1>2. v \in WorkSet /\ v.table = w.table /\ v.query = w.query /\ v.pending = queue
      /\ v.sent = w.sent
  BY <1>1 DEF WorkSet
<1> HIDE DEF v
<1>3. Range(w.pending) \subseteq PendingRequest
  <2>1. w.pending \in Seq(PendingRequest)
    BY <1>1 DEF WorkSet
  <2> QED
    BY <2>1, RangeIsFinite
<1>4. few \subseteq PendingRequest
  BY <1>1, <1>3 DEF Unique
<1>5. Unique(queue, few, w.sent)
  BY <1>1, <1>4 DEF Unique
<1>6. Good(v, few, twice)
  BY <1>1, <1>2, <1>5 DEF Good
<1> QED
  BY <1>6 DEF v

LEMMA PutBack ==
    ASSUME NEW w, NEW rest, NEW twice, Good(w, rest, twice), NEW r \in rest
    PROVE  Good([w EXCEPT !.pending = Append(@, r)], rest \ {r}, twice)
<1> DEFINE queue == Append(w.pending, r) few == rest \ {r}
<1>1. /\ w.pending \in Seq(PendingRequest) /\ r \in PendingRequest /\ IsInjective(w.pending)
      /\ IsFiniteSet(rest) /\ Range(w.pending) \cap rest = {}
  BY DEF Good, WorkSet, Unique
<1>2. /\ queue \in Seq(PendingRequest) /\ Range(queue) = Range(w.pending) \cup {r}
      /\ IsInjective(queue)
  BY <1>1, AppendFacts
<1>3. IsFiniteSet(few) /\ Range(queue) \cap few = {}
      /\ Range(queue) \cup few = Range(w.pending) \cup rest
  BY <1>1, <1>2, FS_Subset
<1> HIDE DEF queue, few
<1>4. Good([w EXCEPT !.pending = queue], few, twice)
  BY <1>2, <1>3, QueueChanged
<1> QED
  BY <1>4 DEF queue, few

LEMMA TakenOut ==
    ASSUME NEW w, NEW twice, Good(w, {}, twice), NEW tried \in SUBSET Range(w.pending)
    PROVE  Good([w EXCEPT !.pending = Those(@, Range(@) \ tried)], tried, twice)
<1> DEFINE queue == Those(w.pending, Range(w.pending) \ tried)
<1>1. w.pending \in Seq(PendingRequest) /\ IsInjective(w.pending)
  BY DEF Good, WorkSet, Unique
<1>2. /\ queue \in Seq(PendingRequest) /\ IsInjective(queue)
      /\ Range(queue) = Range(w.pending) \cap (Range(w.pending) \ tried)
  BY <1>1, ThoseFacts
<1>3. IsFiniteSet(tried) /\ Range(queue) \cap tried = {}
      /\ Range(queue) \cup tried = Range(w.pending) \cup {}
  BY <1>1, <1>2, RangeIsFinite, FS_Subset
<1> HIDE DEF queue
<1>4. Good([w EXCEPT !.pending = queue], tried, twice)
  BY <1>2, <1>3, QueueChanged
<1> QED
  BY <1>4 DEF queue

LEMMA TakenAt ==
    ASSUME NEW w, NEW twice, Good(w, {}, twice), NEW i \in 1 .. Len(w.pending)
    PROVE  Good([w EXCEPT !.pending = RemoveAt(@, i)], {w.pending[i]}, twice)
<1> DEFINE queue == RemoveAt(w.pending, i) few == {w.pending[i]}
<1>1. w.pending \in Seq(PendingRequest) /\ IsInjective(w.pending)
  BY DEF Good, WorkSet, Unique
<1>2. /\ queue \in Seq(PendingRequest) /\ IsInjective(queue)
      /\ Range(queue) = Range(w.pending) \ few
  BY <1>1, RemoveAtFacts
<1>3. few \subseteq Range(w.pending)
  BY <1>1 DEF Range
<1>4. IsFiniteSet(few) /\ Range(queue) \cap few = {}
      /\ Range(queue) \cup few = Range(w.pending) \cup {}
  BY <1>2, <1>3, FS_Singleton
<1> HIDE DEF queue, few
<1>5. Good([w EXCEPT !.pending = queue], few, twice)
  BY <1>2, <1>4, QueueChanged
<1> QED
  BY <1>5 DEF queue, few

\* One request tries the packet.
TryNext(acc, r, id) ==
    IF acc.handled THEN [acc EXCEPT !.w.pending = Append(@, r)]
    ELSE LET v == OnResponse(acc.w, r, id, FALSE)
         IN IF Handled(r, id) THEN [w |-> v, handled |-> TRUE]
            ELSE [w |-> [v EXCEPT !.pending = Append(@, r)], handled |-> FALSE]

Tried == [w : WorkSet, handled : BOOLEAN]

LEMMA TriedOne ==
    ASSUME NEW acc \in Tried, NEW rest, NEW twice \in BOOLEAN, Good(acc.w, rest, twice),
           NEW r \in rest, NEW id
    PROVE  TryNext(acc, r, id) \in Tried /\ Good(TryNext(acc, r, id).w, rest \ {r}, twice)
<1> DEFINE w == acc.w few == rest \ {r}
           v == OnResponse(w, r, id, FALSE)
           held == [w EXCEPT !.pending = Append(@, r)]
           back == [v EXCEPT !.pending = Append(@, r)]
           next == TryNext(acc, r, id)
<1>1. acc = [w |-> w, handled |-> acc.handled] /\ acc.handled \in BOOLEAN
  BY DEF Tried
<1>2. next = IF acc.handled THEN [w |-> held, handled |-> TRUE]
             ELSE IF Handled(r, id) THEN [w |-> v, handled |-> TRUE]
             ELSE [w |-> back, handled |-> FALSE]
  <2>1. CASE acc.handled
    <3>1. next = [acc EXCEPT !.w.pending = Append(@, r)]
      BY <2>1 DEF TryNext
    <3>2. next = [acc EXCEPT !.w = held]
      BY <3>1
    <3>3. acc.handled = TRUE
      BY <1>1, <2>1
    <3> DEFINE o == acc.handled
    <3> HIDE DEF held, next, w, o
    <3>4. acc = [w |-> w, handled |-> o] /\ o = TRUE
      BY <1>1, <3>3 DEF o
    <3>5. next = [w |-> held, handled |-> o]
      BY <3>2, <3>4
    <3> QED
      BY <2>1, <3>4, <3>5
  <2>2. CASE ~ acc.handled
    BY <2>2 DEF TryNext
  <2> QED
    BY <2>1, <2>2
<1>3. Good(held, few, twice)
  BY PutBack
<1>4. Good(v, few, twice) /\ Good(v, rest, twice)
  BY Told
<1> HIDE DEF v
<1>5. Good(back, few, twice)
  BY <1>4, PutBack
<1> HIDE DEF held, back, few, next, w
<1>6. /\ held \in WorkSet /\ v \in WorkSet /\ back \in WorkSet
  BY <1>3, <1>4, <1>5 DEF Good
<1>7. PICK u \in {held, v, back}, h \in BOOLEAN : next = [w |-> u, handled |-> h]
  BY <1>2
<1>8. next \in Tried /\ next.w = u
  BY <1>6, <1>7 DEF Tried
<1>9. Good(u, few, twice)
  BY <1>3, <1>4, <1>5
<1> QED
  BY <1>8, <1>9 DEF few, next

LEMMA PacketTaken ==
    ASSUME NEW w, NEW twice \in BOOLEAN, Good(w, {}, twice),
           NEW tried \in SUBSET Range(w.pending), NEW id
    PROVE  Good(OnUdpReceive(w, tried, id), {}, twice)
<1> DEFINE seq == Those(w.pending, tried)
           n == Len(seq)
           out == [w EXCEPT !.pending = Those(@, Range(@) \ tried)]
           base == [w |-> out, handled |-> FALSE]
           Op(acc, r) == TryNext(acc, r, id)
           U == Tried
           R == [x \in U \X (1 .. n) |->
                    IF Op(x[1], seq[x[2]]) \in U THEN Op(x[1], seq[x[2]]) ELSE x[1]]
           body(f) == [s \in SUBSET (DOMAIN seq) |->
                          IF s = {} THEN base
                          ELSE LET x == Max(s) IN Op(f[s \ {x}], seq[x])]
           it == CHOOSE f : f = body(f)
           Rest(s) == {seq[i] : i \in (1 .. n) \ s}
           T == [s \in SUBSET (1 .. n) |-> {x \in U : Good(x.w, Rest(s), twice)}]
<1>1. w \in WorkSet /\ w.pending \in Seq(PendingRequest) /\ IsInjective(w.pending)
  BY DEF Good, WorkSet, Unique
<1>2. /\ seq \in Seq(PendingRequest) /\ IsInjective(seq) /\ Range(seq) = tried
      /\ tried \in SUBSET Range(w.pending)
  <2>1. Range(seq) = Range(w.pending) \cap tried
    BY <1>1, ThoseFacts
  <2> QED
    BY <1>1, <2>1, ThoseFacts
<1>3. Good(out, tried, twice)
  BY <1>2, TakenOut
<1> HIDE DEF out
<1>4. base \in U /\ base.w = out
  BY <1>3 DEF Good, Tried
<1> HIDE DEF seq, base
<1>5. n \in Nat /\ DOMAIN seq = 1 .. n /\ \A i, j \in 1 .. n : seq[i] = seq[j] => i = j
  BY <1>2 DEF IsInjective
<1>6. R \in [U \X (1 .. n) -> U]
  <2> HIDE DEF Op, U
  <2> QED
    OBVIOUS
<1>7. Rest({}) = tried /\ Rest(1 .. n) = {}
  BY <1>2, <1>5 DEF Range
<1>8. ASSUME NEW s \in SUBSET (1 .. n), NEW m \in s
      PROVE  /\ s \ {m} \in SUBSET (1 .. n) /\ seq[m] \in Rest(s \ {m})
             /\ Rest(s \ {m}) \ {seq[m]} = Rest(s)
  <2>1. m \in 1 .. n /\ m \in (1 .. n) \ (s \ {m}) /\ (1 .. n) \ (s \ {m}) = ((1 .. n) \ s) \cup {m}
    OBVIOUS
  <2>2. \A i \in (1 .. n) \ s : seq[i] # seq[m]
    BY <1>5, <2>1
  <2> HIDE DEF n
  <2> QED
    BY <2>1, <2>2
<1> HIDE DEF Rest, n
\* One more request tries it, whichever have tried before.
<1>9. ASSUME NEW s \in SUBSET (1 .. n), NEW m \in s, NEW x \in T[s \ {m}]
      PROVE  Op(x, seq[m]) \in U /\ Op(x, seq[m]) \in T[s]
  <2>1. x \in U /\ Good(x.w, Rest(s \ {m}), twice)
    BY <1>8
  <2>2. Op(x, seq[m]) \in U /\ Good(Op(x, seq[m]).w, Rest(s \ {m}) \ {seq[m]}, twice)
    <3> DEFINE r == seq[m] few == Rest(s \ {m})
    <3>1. x \in Tried /\ Good(x.w, few, twice) /\ r \in few
      BY <1>8, <2>1
    <3> HIDE DEF r, few
    <3>2. TryNext(x, r, id) \in Tried /\ Good(TryNext(x, r, id).w, few \ {r}, twice)
      BY <3>1, TriedOne
    <3> QED
      BY <3>2 DEF r, few
  <2> HIDE DEF Op, U
  <2> QED
    BY <1>8, <2>2
<1>10. PICK f \in [SUBSET (1 .. n) -> U] : FoldOf(f, base, R, n)
  <2> HIDE DEF R, U
  <2> QED
    BY <1>4, <1>5, <1>6, FoldExists
<1>11. base \in T[{}]
  <2>1. {} \in SUBSET (1 .. n) /\ Good(base.w, Rest({}), twice)
    BY <1>3, <1>4, <1>7
  <2> HIDE DEF U
  <2> QED
    BY <1>4, <2>1
<1>12. ASSUME NEW s \in SUBSET (1 .. n), s # {}
       PROVE  Max(s) \in s /\ f[s] = R[<<f[s \ {Max(s)}], Max(s)>>]
              /\ f[s \ {Max(s)}] \in U /\ Max(s) \in 1 .. n
  <2>1. Max(s) \in s
    BY <1>5, <1>12, LastPosition
  <2> HIDE DEF R, U
  <2> QED
    BY <1>10, <1>12, <2>1 DEF FoldOf
<1>13. \A s \in SUBSET (1 .. n) : f[s] \in T[s]
  <2>1. f[{}] \in T[{}]
    <3>1. f[{}] = base
      <4> HIDE DEF R, U
      <4> QED
        BY <1>10 DEF FoldOf
    <3> HIDE DEF T
    <3> QED
      BY <1>11, <3>1
  <2>2. ASSUME NEW s \in SUBSET (1 .. n), s # {}, f[s \ {Max(s)}] \in T[s \ {Max(s)}]
        PROVE  f[s] \in T[s]
    <3> DEFINE m == Max(s) x == f[s \ {m}]
    <3>1. m \in s /\ f[s] = R[<<x, m>>] /\ x \in U /\ m \in 1 .. n /\ x \in T[s \ {m}]
      BY <1>12, <2>2
    <3> HIDE DEF m, x
    <3>2. Op(x, seq[m]) \in U /\ Op(x, seq[m]) \in T[s]
      <4> HIDE DEF T, U, Op
      <4> QED
        BY <1>9, <3>1
    <3>3. R[<<x, m>>] = Op(x, seq[m])
      <4> HIDE DEF U, Op
      <4> QED
        BY <3>1, <3>2
    <3> HIDE DEF T, R, Op
    <3> QED
      BY <3>1, <3>2, <3>3
  <2> HIDE DEF T
  <2> QED
    BY <1>5, <2>1, <2>2, FoldStaysAt
<1>14. ASSUME NEW s \in SUBSET (1 .. n)
       PROVE  f[s] = IF s = {} THEN base ELSE Op(f[s \ {Max(s)}], seq[Max(s)])
  <2>1. CASE s = {}
    <3> HIDE DEF R, U
    <3> QED
      BY <1>10, <2>1 DEF FoldOf
  <2>2. CASE s # {}
    <3> DEFINE m == Max(s) x == f[s \ {m}]
    <3>1. m \in s /\ f[s] = R[<<x, m>>] /\ x \in U /\ m \in 1 .. n
      BY <1>12, <2>2
    <3>2. s \ {m} \in SUBSET (1 .. n)
      OBVIOUS
    <3>3. x \in T[s \ {m}]
      <4> HIDE DEF T, m
      <4> QED
        BY <1>13, <3>2 DEF x
    <3>4. Op(x, seq[m]) \in U
      <4> HIDE DEF T, U, Op, m, x
      <4> QED
        BY <1>9, <3>1, <3>3
    <3>5. f[s] = Op(x, seq[m])
      <4> HIDE DEF U, Op, m, x, T
      <4> QED
        BY <3>1, <3>4
    <3> HIDE DEF Op
    <3> QED
      BY <2>2, <3>5
  <2> QED
    BY <2>1, <2>2
<1>15. f = body(f)
  <2> HIDE DEF Op
  <2> QED
    BY <1>5, <1>10, <1>14
<1>16. it = body(it)
  <2> HIDE DEF body
  <2> QED
    BY <1>15
<1>17. \A s \in SUBSET (1 .. n) :
          it[s] = IF s = {} THEN base ELSE Op(it[s \ {Max(s)}], seq[Max(s)])
  <2>1. \A s \in SUBSET (1 .. n) : it[s] = body(it)[s]
    <3> HIDE DEF it, body
    <3> QED
      BY <1>16
  <2> HIDE DEF it, Op
  <2> QED
    BY <1>5, <2>1
<1> HIDE DEF it
<1>18. \A s \in SUBSET (1 .. n) : it[s] \in T[s]
  <2>1. it[{}] \in T[{}]
    <3> HIDE DEF T, Op
    <3> QED
      BY <1>11, <1>17
  <2>2. ASSUME NEW s \in SUBSET (1 .. n), s # {}, it[s \ {Max(s)}] \in T[s \ {Max(s)}]
        PROVE  it[s] \in T[s]
    <3> DEFINE m == Max(s) x == it[s \ {m}]
    <3>1. m \in s /\ x \in T[s \ {m}]
      BY <1>12, <2>2
    <3>2. it[s] = Op(x, seq[m])
      <4> HIDE DEF T, Op
      <4> QED
        BY <1>17, <2>2
    <3> HIDE DEF m, x, T, Op, U
    <3>3. Op(x, seq[m]) \in T[s]
      BY <1>9, <3>1
    <3> QED
      BY <3>2, <3>3 DEF m, x
  <2> HIDE DEF T
  <2> QED
    BY <1>5, <2>1, <2>2, FoldStaysAt
<1>19. Good(it[1 .. n].w, {}, twice)
  <2>1. it[1 .. n] \in T[1 .. n]
    <3> HIDE DEF T
    <3> QED
      BY <1>18
  <2>2. Good(it[1 .. n].w, Rest(1 .. n), twice)
    <3> HIDE DEF U
    <3> QED
      BY <2>1
  <2> QED
    BY <1>7, <2>2
<1>20. OnUdpReceive(w, tried, id) = it[DOMAIN seq].w
  BY DEF OnUdpReceive, FoldLeft, MapThenFoldSet, it, TryNext, seq, base, out
<1> QED
  BY <1>5, <1>19, <1>20
-------------------------------------------------------------------------------
(* Actions. *)

\* A callback leaves what it has worked on.
LEMMA Applied ==
    ASSUME NEW v, NEW twice, Good(v, {}, twice), Apply(v)
    PROVE  /\ Good(Work, {}, twice)'
           /\ sent \in Nat /\ sent' \in Nat /\ sent <= sent' /\ pending' = v.pending
           /\ \A r \in Range(v.pending) : r.id \in 1 .. sent'
<1>1. /\ v \in WorkSet /\ TableGood(v.table, twice) /\ Wishes(v.query)
      /\ Unique(v.pending, {}, v.sent) /\ AllCount(v.query, Range(v.pending) \cup {}, v.sent)
      /\ sent \in Nat /\ sent <= v.sent
  BY DEF Good
<1>2. /\ table' = v.table /\ query' = v.query /\ peersQueries' = v.peersQueries
      /\ pending' = v.pending /\ packets' = v.packets /\ sent' = v.sent /\ reported' = v.reported
  BY DEF Apply
<1>3. Work' = v
  BY <1>1, <1>2 DEF Work, WorkSet
<1>4. Work' \in WorkSet /\ sent' \in Nat /\ sent' <= (Work').sent
  BY <1>1, <1>2, <1>3 DEF WorkSet
<1>5. Good(Work, {}, twice)'
  BY <1>1, <1>3, <1>4 DEF Good
<1>6. ASSUME NEW r \in Range(v.pending) PROVE r.id \in 1 .. sent'
  <2>1. v.pending \in Seq(PendingRequest) /\ v.sent \in Nat
    BY <1>1 DEF WorkSet
  <2>2. r \in PendingRequest
    BY <2>1, RangeIsFinite
  <2>3. r.id \in Nat \ {0} /\ r.id <= v.sent
    BY <1>1, <2>2 DEF Unique, Numbered, PendingRequest
  <2> QED
    BY <1>2, <2>1, <2>3
<1> QED
  BY <1>1, <1>2, <1>4, <1>5, <1>6

PlanSet == [start : SUBSET Owners, abandon : SUBSET Searches, restart : BOOLEAN,
            restarted : BOOLEAN, stray : BOOLEAN, losses : Nat, early : Nat,
            aged : BOOLEAN, renamed : SUBSET Nodes, ticks : Nat, requests : [Nodes -> Nat]]

\* The queries, the table and the requests fit together between two callbacks, and
\* the table is loaded again once.
WorkInv ==
    /\ Good(Work, {}, plan.restarted)
    /\ timing \cup deaf \subseteq 1 .. sent
    /\ plan \in PlanSet /\ (plan.restarted => ~ plan.restart)

\* Most steps leave the timers and the plan alone.
LEMMA AppliedOnly ==
    ASSUME WorkInv, NEW v, Good(v, {}, plan.restarted), Apply(v), plan' = plan,
           timing' = timing, deaf' = deaf
    PROVE  WorkInv'
<1>0. PICK twice : twice = plan.restarted
  OBVIOUS
<1>1. Good(v, {}, twice)
  BY <1>0
<1>2. Good(Work, {}, twice)' /\ sent \in Nat /\ sent' \in Nat /\ sent <= sent'
  BY <1>1, Applied
<1>3. timing' \cup deaf' \subseteq 1 .. sent'
  BY <1>2 DEF WorkInv
<1> QED
  BY <1>0, <1>2, <1>3 DEF WorkInv
\* What the invariant says of the variables a callback works on.
LEMMA WorkHas ==
    ASSUME WorkInv
    PROVE  /\ Good(Work, {}, plan.restarted) /\ plan.restarted \in BOOLEAN
           /\ Work.table = table /\ Work.query = query /\ Work.pending = pending
           /\ Work.peersQueries = peersQueries /\ Work.packets = packets /\ Work.sent = sent
           /\ Work.reported = reported
           /\ TableGood(table, plan.restarted) /\ table \in [Range(BucketOf) -> Bucket]
           /\ query \in [Owners -> QueryState] /\ peersQueries \in Seq(Searches)
           /\ pending \in Seq(PendingRequest) /\ packets \subseteq Nodes \X Nat /\ sent \in Nat
           /\ Wishes(query)
<1>1. /\ Work.table = table /\ Work.query = query /\ Work.pending = pending
      /\ Work.peersQueries = peersQueries /\ Work.packets = packets /\ Work.sent = sent
      /\ Work.reported = reported
  BY DEF Work
<1>2. Work \in WorkSet /\ Good(Work, {}, plan.restarted) /\ TableGood(Work.table, plan.restarted)
      /\ Wishes(Work.query)
  BY DEF WorkInv, Good
<1>3. plan.restarted \in BOOLEAN
  BY DEF WorkInv, PlanSet
<1>4. /\ Work.table \in [Range(BucketOf) -> Bucket]
      /\ Work.query \in [Owners -> QueryState] /\ Work.peersQueries \in Seq(Searches)
      /\ Work.pending \in Seq(PendingRequest) /\ Work.packets \subseteq Nodes \X Nat
      /\ Work.sent \in Nat
  BY <1>2 DEF WorkSet
<1> QED
  BY <1>1, <1>2, <1>3, <1>4

\* A query starts.
LEMMA Started ==
    ASSUME NEW w, NEW twice, Good(w, {}, twice), NEW q \in Owners
    PROVE  Good([w EXCEPT !.query[q].started = TRUE], {}, twice)
<1> DEFINE o == w.query[q] s == [o EXCEPT !.started = TRUE]
<1>1. o \in QueryState /\ (q \in Queries => o.received \in Wants(o.used))
  BY DEF Good, WorkSet, Wishes
<1> HIDE DEF o
<1>2. s \in QueryState /\ s.requests = o.requests /\ s.received = o.received /\ s.used = o.used
  BY <1>1 DEF QueryState
<1>3. [w EXCEPT !.query[q].started = TRUE] = [w EXCEPT !.query[q] = s]
  BY DEF o
<1> HIDE DEF s
<1>4. Good([w EXCEPT !.query[q] = s], {}, twice)
  BY <1>1, <1>2, QueryTouched DEF o
<1> QED
  BY <1>3, <1>4

\* Other searches, or other packets.
LEMMA SearchesChanged ==
    ASSUME NEW w, NEW rest, NEW twice, Good(w, rest, twice), NEW queue \in Seq(Searches)
    PROVE  Good([w EXCEPT !.peersQueries = queue], rest, twice)
<1> DEFINE v == [w EXCEPT !.peersQueries = queue]
<1>1. w \in WorkSet /\ TableGood(w.table, twice)
  BY DEF Good
<1>2. v \in WorkSet /\ v.table = w.table /\ v.query = w.query /\ v.pending = w.pending
      /\ v.sent = w.sent
  BY <1>1 DEF WorkSet
<1> HIDE DEF v
<1>3. Good(v, rest, twice)
  BY <1>1, <1>2, OthersChanged
<1> QED
  BY <1>3 DEF v

LEMMA PacketsChanged ==
    ASSUME NEW w, NEW rest, NEW twice, Good(w, rest, twice), NEW on \in SUBSET (Nodes \X Nat)
    PROVE  Good([w EXCEPT !.packets = on], rest, twice)
<1> DEFINE v == [w EXCEPT !.packets = on]
<1>1. w \in WorkSet /\ TableGood(w.table, twice)
  BY DEF Good
<1>2. v \in WorkSet /\ v.table = w.table /\ v.query = w.query /\ v.pending = w.pending
      /\ v.sent = w.sent
  BY <1>1 DEF WorkSet
<1> HIDE DEF v
<1>3. Good(v, rest, twice)
  BY <1>1, <1>2, OthersChanged
<1> QED
  BY <1>3 DEF v

LEMMA NodesStarted ==
    ASSUME NEW w, NEW twice, Good(w, {}, twice), NEW q \in Owners, NEW nodes \in Seq(Nodes)
    PROVE  Good(StartNodes(w, q, nodes), {}, twice)
<1> DEFINE far == [n \in Nodes |-> 160]
<1>1. far \in [Nodes -> Nat]
  OBVIOUS
<1>2. StartNodes(w, q, nodes) = SendRequests(w, q, nodes, far)
  BY DEF StartNodes
<1> HIDE DEF far
<1> QED
  BY <1>1, <1>2, Sent

LEMMA SearchStarts ==
    ASSUME WorkInv, NEW q \in Searches, FindPeers(q)
    PROVE  WorkInv'
<1> DEFINE nodes == GetClosestNodes(table, BucketOrder[q], MaxClosestNodes)
           started == [Work EXCEPT !.query[q].started = TRUE]
           queue == Append(peersQueries, q)
           asked == [Work EXCEPT !.query[q].started = TRUE, !.peersQueries = Append(@, q)]
           v == IF nodes = <<>> THEN FindingPeersFinished(asked, q)
                ELSE StartNodes(asked, q, nodes)
           twice == plan.restarted
<1>1. Apply(v) /\ plan' = plan /\ timing' = timing /\ deaf' = deaf
  BY DEF FindPeers
<1>2. Good(Work, {}, twice) /\ Work.peersQueries = peersQueries /\ peersQueries \in Seq(Searches)
      /\ table \in [Range(BucketOf) -> Bucket]
  BY WorkHas
<1>3. q \in Owners /\ q \in Queries /\ BucketOrder[q] \in Seq(Range(BucketOf))
  BY DhtAssumption DEF Owners, Queries
<1>4. nodes \in Seq(Nodes)
  BY <1>2, <1>3, Closest
<1> HIDE DEF twice, nodes
<1>5. Good(started, {}, twice)
  BY <1>2, <1>3, Started
<1>6. asked = [started EXCEPT !.peersQueries = queue]
  BY <1>2
<1>7. queue \in Seq(Searches)
  BY <1>2
<1> HIDE DEF started, queue, asked
<1>8. Good(asked, {}, twice)
  BY <1>5, <1>6, <1>7, SearchesChanged
<1>9. Good(v, {}, twice)
  BY <1>3, <1>4, <1>8, PeersFinished, NodesStarted
<1> HIDE DEF v
<1> QED
  BY <1>1, <1>9, AppliedOnly DEF twice

LEMMA FindStarts ==
    ASSUME WorkInv, NEW q \in Finds, FindNode(q)
    PROVE  WorkInv'
<1> DEFINE nodes == GetClosestNodes(table, BucketOrder[q], MaxClosestNodes)
           started == [Work EXCEPT !.query[q].started = TRUE]
           v == StartNodes(started, q, nodes)
           twice == plan.restarted
<1>1. Apply(v) /\ plan' = plan /\ timing' = timing /\ deaf' = deaf
  BY DEF FindNode
<1>2. Good(Work, {}, twice) /\ table \in [Range(BucketOf) -> Bucket]
  BY WorkHas
<1>3. q \in Owners /\ q \in Queries /\ BucketOrder[q] \in Seq(Range(BucketOf))
  BY DhtAssumption DEF Owners, Queries
<1>4. nodes \in Seq(Nodes)
  BY <1>2, <1>3, Closest
<1> HIDE DEF twice, nodes
<1>5. Good(started, {}, twice)
  BY <1>2, <1>3, Started
<1> HIDE DEF started
<1>6. Good(v, {}, twice)
  BY <1>3, <1>4, <1>5, NodesStarted
<1> HIDE DEF v
<1> QED
  BY <1>1, <1>6, AppliedOnly DEF twice

LEMMA PingStarts ==
    ASSUME WorkInv, NEW p \in Pings, RefreshTable(p)
    PROVE  WorkInv'
<1> DEFINE twice == plan.restarted
<1>0. plan.aged \in BOOLEAN
  BY DEF WorkInv, PlanSet
<1>1. PICK aged \in BOOLEAN :
         LET nodes == GetInactiveNodes(table, SetToSeq(DOMAIN table), aged)
             n == Min({MaxSimultaneousRequests, Len(nodes)})
         IN /\ Apply(StartNodes([Work EXCEPT !.query[p] =
                                   [query[p] EXCEPT !.started = TRUE,
                                                    !.received = SubSeq(nodes, n + 1, Len(nodes))]],
                                p, SubSeq(nodes, 1, n)))
            /\ plan' = plan /\ timing' = timing /\ deaf' = deaf
  BY <1>0 DEF RefreshTable
<1> DEFINE nodes == GetInactiveNodes(table, SetToSeq(DOMAIN table), aged)
           n == Min({MaxSimultaneousRequests, Len(nodes)})
           first == SubSeq(nodes, 1, n)
           later == SubSeq(nodes, n + 1, Len(nodes))
           o == query[p]
           s == [o EXCEPT !.started = TRUE, !.received = later]
           asked == [Work EXCEPT !.query[p] = s]
           v == StartNodes(asked, p, first)
<1>2. Apply(v) /\ plan' = plan /\ timing' = timing /\ deaf' = deaf
  BY <1>1
<1>3. Good(Work, {}, twice) /\ Work.query = query /\ query \in [Owners -> QueryState]
      /\ table \in [Range(BucketOf) -> Bucket]
  BY WorkHas
<1>4. nodes \in Seq(Nodes)
  BY <1>3, Inactive
<1>5. n \in Nat /\ n <= Len(nodes)
  <2>1. PICK c \in Nat : c = Len(nodes)
    BY <1>4
  <2>2. {MaxSimultaneousRequests, c} \in SUBSET Nat /\ {MaxSimultaneousRequests, c} # {}
    BY <2>1, DhtAssumption
  <2>3. \E k \in {MaxSimultaneousRequests, c} : \A m \in {MaxSimultaneousRequests, c} : k <= m
    BY <2>2, SmallestIn
  <2>4. /\ Min({MaxSimultaneousRequests, c}) \in {MaxSimultaneousRequests, c}
        /\ Min({MaxSimultaneousRequests, c}) <= c
    BY <2>3 DEF Min
  <2> QED
    BY <2>1, <2>2, <2>4
<1> HIDE DEF n, nodes
<1>6. first \in Seq(Nodes) /\ later \in Seq(Nodes)
  <2>1. \A i \in 1 .. Len(nodes) : nodes[i] \in Nodes
    BY <1>4
  <2> QED
    BY <1>4, <1>5, <2>1
<1>7. p \in Owners /\ p \notin Queries /\ o \in QueryState
  BY <1>3, DhtAssumption DEF Owners
<1> HIDE DEF first, later, o
<1>8. s \in QueryState /\ s.requests = o.requests
  BY <1>6, <1>7 DEF QueryState
<1> HIDE DEF s, twice
<1>9. Good(asked, {}, twice)
  BY <1>3, <1>7, <1>8, QueryTouched DEF o
<1> HIDE DEF asked
<1>10. Good(v, {}, twice)
  BY <1>6, <1>7, <1>9, NodesStarted
<1> HIDE DEF v
<1> QED
  BY <1>2, <1>10, AppliedOnly DEF twice

LEMMA SearchForgotten ==
    ASSUME WorkInv, NEW q \in Searches, StopFindingPeers(q)
    PROVE  WorkInv'
<1> DEFINE found == {i \in 1 .. Len(peersQueries) : peersQueries[i] = q}
           k == IF found # {} THEN Min(found) ELSE 0
           queue == RemoveAt(peersQueries, k)
           v == [Work EXCEPT !.peersQueries = queue]
           twice == plan.restarted
<1>1. /\ q \in Range(peersQueries) /\ peersQueries' = queue
      /\ table' = table /\ query' = query /\ pending' = pending /\ packets' = packets
      /\ sent' = sent /\ reported' = reported /\ plan' = plan /\ timing' = timing /\ deaf' = deaf
  BY DEF StopFindingPeers, SelectInSeq
<1>2. Good(Work, {}, twice) /\ peersQueries \in Seq(Searches)
  BY WorkHas
<1>3. k \in 1 .. Len(peersQueries)
  <2>1. found \in SUBSET Nat /\ found # {}
    BY <1>1, <1>2 DEF Range
  <2>2. Min(found) \in found
    <3> HIDE DEF found
    <3> QED
      BY <2>1, MinExists
  <2> QED
    BY <2>1, <2>2
<1> HIDE DEF k
<1>4. queue \in Seq(Searches)
  BY <1>2, <1>3, RemoveAtFacts
<1> HIDE DEF queue, twice
<1>5. Good(v, {}, twice)
  BY <1>2, <1>4, SearchesChanged
<1>6. Apply(v)
  BY <1>1 DEF Apply, Work
<1> HIDE DEF v
<1> QED
  BY <1>1, <1>5, <1>6, AppliedOnly DEF twice
\* Steps that concern the timers or the plan, too.
LEMMA AppliedMore ==
    ASSUME WorkInv, NEW v, Good(v, {}, plan.restarted), Apply(v), plan' \in PlanSet,
           plan'.restarted = plan.restarted, plan'.restart = plan.restart,
           timing' \subseteq timing \cup (1 .. sent),
           deaf' \subseteq deaf \cup {r.id : r \in Range(v.pending)}
    PROVE  WorkInv'
<1>1. PICK twice : twice = plan.restarted
  OBVIOUS
<1>2. Good(v, {}, twice)
  BY <1>1
<1>3. /\ Good(Work, {}, twice)' /\ sent \in Nat /\ sent' \in Nat /\ sent <= sent'
      /\ \A r \in Range(v.pending) : r.id \in 1 .. sent'
  BY <1>2, Applied
<1>4. 1 .. sent \subseteq 1 .. sent'
  BY <1>3
<1>5. timing' \cup deaf' \subseteq 1 .. sent'
  <2>1. timing \cup deaf \subseteq 1 .. sent
    BY DEF WorkInv
  <2> QED
    BY <1>3, <1>4, <2>1
<1>6. plan'.restarted => ~ plan'.restart
  BY DEF WorkInv
<1> QED
  BY <1>1, <1>3, <1>5, <1>6 DEF WorkInv

\* The plan changes in what is left of it.
LEMMA PlanSpent ==
    ASSUME NEW old \in PlanSet, NEW k \in Nat, NEW n \in Nodes
    PROVE  /\ [old EXCEPT !.losses = k] \in PlanSet
           /\ [old EXCEPT !.losses = k].restarted = old.restarted
           /\ [old EXCEPT !.losses = k].restart = old.restart
           /\ [old EXCEPT !.early = k] \in PlanSet
           /\ [old EXCEPT !.early = k].restarted = old.restarted
           /\ [old EXCEPT !.early = k].restart = old.restart
           /\ [old EXCEPT !.requests[n] = k] \in PlanSet
           /\ [old EXCEPT !.requests[n] = k].restarted = old.restarted
           /\ [old EXCEPT !.requests[n] = k].restart = old.restart
<1>1. [old.requests EXCEPT ![n] = k] \in [Nodes -> Nat]
  BY DEF PlanSet
<1>2. [old EXCEPT !.losses = k] \in PlanSet /\ [old EXCEPT !.losses = k].restarted = old.restarted
      /\ [old EXCEPT !.losses = k].restart = old.restart
  BY DEF PlanSet
<1>3. [old EXCEPT !.early = k] \in PlanSet /\ [old EXCEPT !.early = k].restarted = old.restarted
      /\ [old EXCEPT !.early = k].restart = old.restart
  BY DEF PlanSet
<1> DEFINE new == [old EXCEPT !.requests[n] = k] left == [old.requests EXCEPT ![n] = k]
<1>4. new = [old EXCEPT !.requests = left]
  OBVIOUS
<1> HIDE DEF new, left
<1>5. new \in PlanSet /\ new.restarted = old.restarted /\ new.restart = old.restart
  BY <1>1, <1>4 DEF PlanSet, left
<1> QED
  BY <1>2, <1>3, <1>5 DEF new

LEMMA PacketComes ==
    ASSUME WorkInv, NEW packet \in packets, Receive(packet)
    PROVE  WorkInv'
<1>0. PICK direct \in BOOLEAN :
         LET w == OnUdpReceive([Work EXCEPT !.packets = @ \ {packet}],
                               ToTry(pending, packet, direct), packet[2])
         IN /\ Apply(w) /\ plan' = plan /\ timing' = timing
            /\ deaf' \subseteq deaf \cup {r.id : r \in Range(w.pending)}
  BY DEF Receive
<1> DEFINE w == [Work EXCEPT !.packets = @ \ {packet}]
           tried == ToTry(pending, packet, direct)
           v == OnUdpReceive(w, tried, packet[2])
           ids == {r.id : r \in Range(v.pending)}
           twice == plan.restarted
<1>1. Apply(v) /\ plan' = plan /\ timing' = timing
  BY <1>0
<1>2. deaf' \subseteq deaf \cup ids
  BY <1>0
<1>3. Good(Work, {}, twice) /\ twice \in BOOLEAN /\ Work.packets = packets
      /\ packets \subseteq Nodes \X Nat
  BY WorkHas
<1> DEFINE on == packets \ {packet}
<1>4. on \in SUBSET (Nodes \X Nat) /\ w = [Work EXCEPT !.packets = on]
  BY <1>3
<1>8. tried \in SUBSET Range(w.pending)
  BY DEF ToTry, Work
<1> HIDE DEF on, w, twice, tried
<1>5. Good(w, {}, twice)
  BY <1>3, <1>4, PacketsChanged
<1>6. Good(v, {}, twice)
  BY <1>3, <1>5, <1>8, PacketTaken
<1> HIDE DEF v
<1>7. plan' \in PlanSet /\ plan'.restarted = plan.restarted /\ plan'.restart = plan.restart
      /\ timing' \subseteq timing \cup (1 .. sent)
  BY <1>1 DEF WorkInv
<1> QED
  BY <1>1, <1>2, <1>6, <1>7, AppliedMore DEF twice

LEMMA PacketLost ==
    ASSUME WorkInv, NEW packet \in packets, Lose(packet)
    PROVE  WorkInv'
<1> DEFINE on == packets \ {packet}
           v == [Work EXCEPT !.packets = on]
           twice == plan.restarted
<1>1. /\ plan.losses > 0 /\ plan' = [plan EXCEPT !.losses = @ - 1]
      /\ packets' = on /\ table' = table /\ query' = query /\ peersQueries' = peersQueries
      /\ pending' = pending /\ timing' = timing /\ deaf' = deaf /\ sent' = sent
      /\ reported' = reported
  BY DEF Lose
<1>2. Good(Work, {}, twice) /\ packets \subseteq Nodes \X Nat
  BY WorkHas
<1>3. Apply(v)
  BY <1>1 DEF Apply, Work
<1>4. on \in SUBSET (Nodes \X Nat)
  BY <1>2
<1> HIDE DEF on, twice
<1>5. Good(v, {}, twice)
  BY <1>2, <1>4, PacketsChanged
<1>6. PICK k \in Nat : k = plan.losses - 1
  BY <1>1 DEF WorkInv, PlanSet
<1>7. packet[1] \in Nodes
  BY <1>2
<1>8. plan \in PlanSet /\ plan' = [plan EXCEPT !.losses = k]
  BY <1>1, <1>6 DEF WorkInv
<1>9. plan' \in PlanSet /\ plan'.restarted = plan.restarted /\ plan'.restart = plan.restart
  BY <1>7, <1>8, PlanSpent
<1> HIDE DEF v
<1>10. timing' \subseteq timing \cup (1 .. sent)
       /\ deaf' \subseteq deaf \cup {r.id : r \in Range(v.pending)}
  BY <1>1
<1> QED
  BY <1>3, <1>5, <1>9, <1>10, AppliedMore DEF twice

LEMMA TimePasses == WorkInv /\ Tick => WorkInv'
<1> SUFFICES ASSUME WorkInv, Tick PROVE WorkInv'
  OBVIOUS
<1>1. /\ plan.ticks > 0 /\ plan' = [plan EXCEPT !.ticks = @ - 1]
      /\ packets' = packets /\ table' = table /\ query' = query /\ peersQueries' = peersQueries
      /\ pending' = pending /\ timing' = timing /\ deaf' = deaf /\ sent' = sent
      /\ reported' = reported
  BY DEF Tick
<1>2. Good(Work, {}, plan.restarted)
  BY WorkHas
<1>3. Apply(Work)
  BY <1>1 DEF Apply, Work
<1>4. plan \in PlanSet
  BY DEF WorkInv
<1>5. PICK k \in Nat : k = plan.ticks - 1
  BY <1>1, <1>4 DEF PlanSet
<1>6. plan' = [plan EXCEPT !.ticks = k]
  BY <1>1, <1>5
<1>7. plan' \in PlanSet /\ plan'.restarted = plan.restarted /\ plan'.restart = plan.restart
  BY <1>4, <1>6 DEF PlanSet
<1>8. timing' \subseteq timing \cup (1 .. sent)
      /\ deaf' \subseteq deaf \cup {r.id : r \in Range(Work.pending)}
  BY <1>1
<1> QED
  BY <1>2, <1>3, <1>7, <1>8, AppliedMore

LEMMA TimeoutFound ==
    ASSUME WorkInv, NEW id \in 1 .. sent, FindTimeout(id)
    PROVE  WorkInv'
<1>1. /\ timing' = timing \cup {id} /\ deaf' = deaf /\ table' = table /\ query' = query
      /\ peersQueries' = peersQueries /\ pending' = pending /\ packets' = packets
      /\ sent' = sent /\ reported' = reported
  BY DEF FindTimeout
<1>2. Good(Work, {}, plan.restarted) /\ sent \in Nat /\ pending \in Seq(PendingRequest)
  BY WorkHas
<1>3. Apply(Work)
  BY <1>1 DEF Apply, Work
<1>4. plan' \in PlanSet /\ plan'.restarted = plan.restarted /\ plan'.restart = plan.restart
  <2>1. plan \in PlanSet
    BY DEF WorkInv
  <2>2. CASE plan' = plan
    BY <2>1, <2>2
  <2>3. CASE plan.early > 0 /\ plan' = [plan EXCEPT !.early = @ - 1]
    <3>1. PICK k \in Nat : k = plan.early - 1
      BY <2>1, <2>3 DEF PlanSet
    <3>2. PICK r \in Range(pending) : r.id = id
      BY DEF FindTimeout
    <3>3. r.node \in Nodes
      <4>1. r \in PendingRequest
        BY <1>2, RangeIsFinite
      <4> QED
        BY <4>1 DEF PendingRequest
    <3>4. plan' = [plan EXCEPT !.early = k]
      BY <2>3, <3>1
    <3> QED
      BY <2>1, <3>3, <3>4, PlanSpent
  <2> QED
    BY <2>2, <2>3 DEF FindTimeout
<1>5. timing' \subseteq timing \cup (1 .. sent)
      /\ deaf' \subseteq deaf \cup {r.id : r \in Range(Work.pending)}
  BY <1>1
<1> QED
  BY <1>2, <1>3, <1>4, <1>5, AppliedMore

LEMMA RemoteHeard ==
    ASSUME WorkInv, NEW n \in Nodes, NEW request \in RemoteRequests, HandlePacket(n, request)
    PROVE  WorkInv'
<1> DEFINE tab == NodeResponded(table, n)
           v == [Work EXCEPT !.table = tab]
           twice == plan.restarted
<1>1. /\ plan.requests[n] > 0 /\ plan' = [plan EXCEPT !.requests[n] = @ - 1]
      /\ table' = tab /\ query' = query /\ peersQueries' = peersQueries
      /\ pending' = pending /\ timing' = timing /\ deaf' = deaf /\ packets' = packets
      /\ sent' = sent /\ reported' = reported
  BY DEF HandlePacket
<1>2. Good(Work, {}, twice) /\ TableGood(table, twice) /\ twice \in BOOLEAN
  BY WorkHas
<1>3. Apply(v)
  BY <1>1 DEF Apply, Work
<1> HIDE DEF twice
<1>4. TableGood(tab, twice)
  BY <1>2, Responded
<1> HIDE DEF tab
<1>5. Good(v, {}, twice)
  BY <1>2, <1>4, TableChanged
<1>6. plan \in PlanSet
  BY DEF WorkInv
<1>7. PICK k \in Nat : k = plan.requests[n] - 1
  BY <1>1, <1>6 DEF PlanSet
<1>8. plan' = [plan EXCEPT !.requests[n] = k]
  BY <1>1, <1>7
<1>9. plan' \in PlanSet /\ plan'.restarted = plan.restarted /\ plan'.restart = plan.restart
  BY <1>6, <1>8, PlanSpent
<1> HIDE DEF v
<1>10. timing' \subseteq timing \cup (1 .. sent)
       /\ deaf' \subseteq deaf \cup {r.id : r \in Range(v.pending)}
  BY <1>1
<1> QED
  BY <1>3, <1>5, <1>9, <1>10, AppliedMore DEF twice
\* The same request, sent once more, is waited for as before.
LEMMA WatchedAgain ==
    ASSUME NEW q, NEW asked, NEW old, IsFiniteSet(old), Watched(q, asked, old),
           NEW r \in old, NEW again, again \notin old, again.node = r.node, again.id = r.id
    PROVE  Watched(q, asked, (old \ {r}) \cup {again})
<1> DEFINE new == (old \ {r}) \cup {again}
<1>1. CASE q \in Searches
  <2> SUFFICES ASSUME NEW n \in Nodes
               PROVE  Cardinality(At(asked, n)) <= Cardinality(At(new, n))
    BY <1>1 DEF Watched
  <2>1. Cardinality(At(asked, n)) <= Cardinality(At(old, n))
    BY <1>1 DEF Watched
  <2>2. CASE r.node # n
    <3>1. At(new, n) = At(old, n)
      BY <2>2 DEF At
    <3> QED
      BY <2>1, <3>1
  <2>3. CASE r.node = n
    <3> DEFINE X == At(old, n) Y == X \ {r}
    <3>1. X \subseteq old /\ r \in X /\ again \notin Y /\ At(new, n) = Y \cup {again}
      BY <2>3 DEF At
    <3> HIDE DEF X
    <3>2. IsFiniteSet(X) /\ IsFiniteSet(Y) /\ Cardinality(X) \in Nat
      BY <3>1, FS_Subset, FS_CardinalityType
    <3>3. Cardinality(Y) = Cardinality(X) - 1
      BY <3>1, <3>2, FS_RemoveElement
    <3> HIDE DEF Y
    <3>4. Cardinality(Y \cup {again}) = Cardinality(Y) + 1
      BY <3>1, <3>2, FS_AddElement
    <3>5. Cardinality(At(new, n)) = Cardinality(X)
      <4> HIDE DEF new
      <4> QED
        BY <3>1, <3>2, <3>3, <3>4
    <3> QED
      BY <2>1, <3>5 DEF X
  <2> QED
    BY <2>2, <2>3
<1>2. CASE q \notin Searches
  <2> SUFFICES ASSUME NEW x \in asked PROVE \E y \in new : y.id = x.id /\ y.node = x.node
    BY <1>2 DEF Watched
  <2>1. PICK y \in old : y.id = x.id /\ y.node = x.node
    BY <1>2 DEF Watched
  <2> QED
    BY <2>1
<1> QED
  BY <1>1, <1>2

LEMMA SentAgain ==
    ASSUME NEW w, NEW twice, Good(w, {}, twice), NEW i \in 1 .. Len(w.pending),
           w.pending[i].retries = 0
    PROVE  Good([w EXCEPT !.pending[i].retries = 1], {}, twice)
<1> DEFINE a == w.pending
           r == a[i]
           again == [owner |-> r.owner, node |-> r.node, id |-> r.id,
                     minDistance |-> r.minDistance, retries |-> 1]
           queue == [a EXCEPT ![i] = again]
           v == [w EXCEPT !.pending = queue]
<1>1. /\ w \in WorkSet /\ TableGood(w.table, twice) /\ Wishes(w.query)
      /\ Unique(a, {}, w.sent) /\ sent \in Nat /\ sent <= w.sent
      /\ AllCount(w.query, Range(a) \cup {}, w.sent)
  BY DEF Good
<1>2. a \in Seq(PendingRequest) /\ IsInjective(a) /\ Numbered(Range(a) \cup {}, w.sent)
  BY <1>1 DEF WorkSet, Unique
<1>3. r \in PendingRequest /\ r \in Range(a)
  BY <1>2 DEF Range
<1>4. again \in PendingRequest /\ again = [r EXCEPT !.retries = 1] /\ again.owner = r.owner
      /\ again.node = r.node /\ again.id = r.id /\ again.retries # r.retries
  <2>1. r.retries = 0
    OBVIOUS
  <2> HIDE DEF r
  <2> QED
    BY <1>3, <2>1 DEF PendingRequest
<1>5. [w EXCEPT !.pending[i].retries = 1] = v
  <2>1. [w EXCEPT !.pending[i].retries = 1]
           = [w EXCEPT !.pending = [a EXCEPT ![i] = [r EXCEPT !.retries = 1]]]
    OBVIOUS
  <2> HIDE DEF again, r
  <2> QED
    BY <1>4, <2>1
<1> HIDE DEF again
<1>6. again \notin Range(a)
  BY <1>2, <1>3, <1>4 DEF Numbered
<1>7. PICK c \in Nat : c = Len(a) /\ DOMAIN a = 1 .. c
  BY <1>2
<1>8. /\ queue \in Seq(PendingRequest) /\ DOMAIN queue = 1 .. c /\ queue[i] = again
      /\ \A k \in 1 .. c : k # i => queue[k] = a[k]
  BY <1>2, <1>4, <1>7
<1>9. \A j, k \in 1 .. c : a[j] = a[k] => j = k
  BY <1>2, <1>7 DEF IsInjective
<1>10. \A k \in 1 .. c : a[k] \in Range(a) /\ a[k] # again
  BY <1>6, <1>7 DEF Range
<1> HIDE DEF queue
<1>11. IsInjective(queue)
  <2> SUFFICES ASSUME NEW j \in 1 .. c, NEW k \in 1 .. c, queue[j] = queue[k] PROVE j = k
    BY <1>8 DEF IsInjective
  <2> QED
    BY <1>8, <1>9, <1>10
<1>12. Range(queue) = (Range(a) \ {r}) \cup {again}
  <2>1. i \in 1 .. c /\ Range(a) = {a[k] : k \in 1 .. c} /\ Range(queue) = {queue[k] : k \in 1 .. c}
    BY <1>7, <1>8 DEF Range
  <2>2. \A k \in 1 .. c : k # i => a[k] # r
    BY <1>9, <2>1
  <2> HIDE DEF a
  <2> QED
    BY <1>8, <2>1, <2>2 DEF r
<1>13. v \in WorkSet /\ v.table = w.table /\ v.query = w.query /\ v.pending = queue
       /\ v.sent = w.sent
  BY <1>1, <1>8 DEF WorkSet
<1> HIDE DEF v, r
<1>14. Unique(queue, {}, w.sent)
  <2>1. again.id <= w.sent
    BY <1>2, <1>3, <1>4 DEF Numbered
  <2>2. Numbered(Range(queue) \cup {}, w.sent)
    BY <1>2, <1>3, <1>4, <1>12, <2>1 DEF Numbered
  <2> QED
    BY <1>11, <2>2, FS_EmptySet DEF Unique
<1>15. IsFiniteSet(Range(a))
  BY <1>2, RangeIsFinite
<1>16. ASSUME NEW q \in Owners PROVE Counts(q, w.query[q].requests, Range(queue) \cup {}, w.sent)
  <2> DEFINE requests == w.query[q].requests old == Of(q, Range(a) \cup {})
  <2>1. IsInjective(requests) /\ Numbered(Range(requests), w.sent)
        /\ Watched(q, Range(requests), old)
    BY <1>1 DEF AllCount, Counts
  <2>2. CASE r.owner # q
    <3>1. Of(q, Range(queue) \cup {}) = old
      BY <1>4, <1>12, <2>2 DEF Of
    <3> QED
      BY <2>1, <3>1 DEF Counts
  <2>3. CASE r.owner = q
    <3>1. Of(q, Range(queue) \cup {}) = (old \ {r}) \cup {again} /\ r \in old /\ again \notin old
      BY <1>3, <1>4, <1>6, <1>12, <2>3 DEF Of
    <3>2. old \subseteq Range(a)
      BY DEF Of
    <3> HIDE DEF old, requests
    <3>3. IsFiniteSet(old)
      BY <1>15, <3>2, FS_Subset
    <3>4. Watched(q, Range(requests), (old \ {r}) \cup {again})
      BY <1>4, <2>1, <3>1, <3>3, WatchedAgain
    <3> QED
      BY <2>1, <3>1, <3>4 DEF Counts, requests
  <2> QED
    BY <2>2, <2>3
<1>17. AllCount(w.query, Range(queue) \cup {}, w.sent)
  BY <1>16 DEF AllCount
<1>18. Good(v, {}, twice)
  BY <1>1, <1>13, <1>14, <1>17 DEF Good
<1> QED
  BY <1>5, <1>18

LEMMA TimeoutChecked ==
    ASSUME WorkInv, NEW id \in 1 .. sent, CheckTimeout(id)
    PROVE  WorkInv'
<1> DEFINE found == {i \in 1 .. Len(pending) : pending[i].id = id}
           k == IF found # {} THEN Min(found) ELSE 0
           r == pending[k]
           again == [Work EXCEPT !.pending[k].retries = 1]
           sentAgain == [Work EXCEPT !.pending[k].retries = 1, !.packets = @ \cup {<<r.node, id>>}]
           out == [Work EXCEPT !.pending = RemoveAt(@, k)]
           twice == plan.restarted
<1>1. /\ timing' = timing \ {id} /\ deaf' = deaf /\ plan' = plan
      /\ \/ k = 0 /\ Apply(Work)
         \/ k # 0 /\ r.retries = 0 /\ Apply(sentAgain)
         \/ /\ k # 0 /\ r.retries > 0
            /\ \E old \in BOOLEAN : Apply(OnResponse(out, r, 0, old))
  BY DEF CheckTimeout, SelectInSeq
<1>2. /\ Good(Work, {}, twice) /\ twice \in BOOLEAN /\ Work.pending = pending /\ sent \in Nat
      /\ pending \in Seq(PendingRequest) /\ Work.packets = packets /\ packets \subseteq Nodes \X Nat
  BY WorkHas
<1>3. k # 0 => k \in 1 .. Len(pending) /\ pending[k].id = id
  <2>1. found \in SUBSET Nat
    BY <1>2
  <2>2. found # {} => Min(found) \in found
    <3> HIDE DEF found
    <3> QED
      BY <2>1, MinExists
  <2> QED
    BY <2>2
<1> HIDE DEF k, twice
\* Whatever was done leaves what fits together.
<1>4. SUFFICES ASSUME NEW v, Good(v, {}, twice), Apply(v) PROVE WorkInv'
  <2>1. \E v : Good(v, {}, twice) /\ Apply(v)
    <3>1. CASE k = 0 /\ Apply(Work)
      BY <1>2, <3>1
    <3>2. CASE k # 0 /\ r.retries = 0 /\ Apply(sentAgain)
      <4> DEFINE on == packets \cup {<<r.node, id>>}
      <4>1. Good(again, {}, twice)
        BY <1>2, <1>3, <3>2, SentAgain
      <4>2. r \in PendingRequest
        BY <1>2, <1>3, <3>2
      <4>3. on \in SUBSET (Nodes \X Nat)
        <5>1. r.node \in Nodes /\ id \in Nat
          BY <1>2, <4>2 DEF PendingRequest
        <5> HIDE DEF r
        <5> QED
          BY <1>2, <5>1
      <4>4. sentAgain = [again EXCEPT !.packets = on]
        BY <1>2
      <4> HIDE DEF again, on, sentAgain
      <4>5. Good(sentAgain, {}, twice)
        BY <4>1, <4>3, <4>4, PacketsChanged
      <4> QED
        BY <3>2, <4>5
    <3>3. ASSUME NEW old \in BOOLEAN, k # 0, Apply(OnResponse(out, r, 0, old))
          PROVE  \E v : Good(v, {}, twice) /\ Apply(v)
      <4> DEFINE v == OnResponse(out, r, 0, old)
      <4>1. Good(out, {r}, twice)
        BY <1>2, <1>3, <3>3, TakenAt
      <4> HIDE DEF out, r
      <4>2. Good(v, {r} \ {r}, twice)
        BY <1>2, <4>1, Told
      <4>3. {r} \ {r} = {}
        OBVIOUS
      <4> HIDE DEF v
      <4>4. Good(v, {}, twice)
        BY <4>2, <4>3
      <4> QED
        BY <3>3, <4>4 DEF v
    <3> HIDE DEF sentAgain, out, r
    <3> QED
      BY <1>1, <3>1, <3>2, <3>3
  <2> QED
    BY <1>4, <2>1
<1>5. plan' \in PlanSet /\ plan'.restarted = plan.restarted /\ plan'.restart = plan.restart
  BY <1>1 DEF WorkInv
<1>6. timing' \subseteq timing \cup (1 .. sent)
      /\ deaf' \subseteq deaf \cup {x.id : x \in Range(v.pending)}
  BY <1>1
<1> QED
  BY <1>4, <1>5, <1>6, AppliedMore DEF twice

LEMMA NotSent ==
    ASSUME WorkInv, NEW packet \in packets, SendFails(packet)
    PROVE  WorkInv'
<1> DEFINE found == {i \in 1 .. Len(pending) : pending[i].id = packet[2]}
           k == IF found # {} THEN Min(found) ELSE 0
           r == pending[k]
           on == packets \ {packet}
           off == [Work EXCEPT !.packets = on]
           out == [off EXCEPT !.pending = RemoveAt(@, k)]
           twice == plan.restarted
<1>1. PICK old \in BOOLEAN :
         /\ k # 0 /\ plan.losses > 0 /\ plan' = [plan EXCEPT !.losses = @ - 1]
         /\ timing' = timing /\ deaf' = deaf \ {packet[2]}
         /\ Apply(OnResponse([Work EXCEPT !.packets = @ \ {packet}, !.pending = RemoveAt(@, k)],
                             r, 0, old))
  BY DEF SendFails, SelectInSeq
<1>2. /\ Good(Work, {}, twice) /\ twice \in BOOLEAN /\ Work.pending = pending
      /\ pending \in Seq(PendingRequest) /\ Work.packets = packets /\ packets \subseteq Nodes \X Nat
  BY WorkHas
<1>3. k \in 1 .. Len(pending)
  <2>1. found \in SUBSET Nat /\ found # {}
    BY <1>1, <1>2
  <2>2. Min(found) \in found
    <3> HIDE DEF found
    <3> QED
      BY <2>1, MinExists
  <2> QED
    BY <2>1, <2>2
<1> HIDE DEF k, twice
<1>4. on \in SUBSET (Nodes \X Nat) /\ packet[1] \in Nodes
  BY <1>2
<1>5. [Work EXCEPT !.packets = @ \ {packet}, !.pending = RemoveAt(@, k)] = out
  BY <1>2 DEF Work
<1>6. off.pending = pending
  BY DEF Work
<1> HIDE DEF on
<1>7. Good(off, {}, twice)
  BY <1>2, <1>4, PacketsChanged
<1> HIDE DEF off
<1>8. Good(out, {r}, twice)
  BY <1>3, <1>6, <1>7, TakenAt
<1> DEFINE v == OnResponse(out, r, 0, old)
<1>9. Apply(v)
  BY <1>1, <1>5
<1> HIDE DEF out, r
<1>10. Good(v, {r} \ {r}, twice)
  BY <1>2, <1>8, Told
<1>11. {r} \ {r} = {}
  OBVIOUS
<1> HIDE DEF v
<1>12. Good(v, {}, twice)
  BY <1>10, <1>11
<1>13. plan \in PlanSet
  BY DEF WorkInv
<1>14. PICK c \in Nat : c = plan.losses - 1
  BY <1>1, <1>13 DEF PlanSet
<1>15. plan' = [plan EXCEPT !.losses = c]
  BY <1>1, <1>14
<1>16. plan' \in PlanSet /\ plan'.restarted = plan.restarted /\ plan'.restart = plan.restart
  BY <1>4, <1>13, <1>15, PlanSpent
<1>17. timing' \subseteq timing \cup (1 .. sent)
       /\ deaf' \subseteq deaf \cup {x.id : x \in Range(v.pending)}
  BY <1>1
<1> QED
  BY <1>9, <1>12, <1>16, <1>17, AppliedMore DEF twice

\* No query counts a request and nothing waits.
LEMMA NothingAsked ==
    ASSUME NEW queries \in [Owners -> QueryState], NEW last \in Nat,
           \A q \in Owners : queries[q].requests = <<>> /\ queries[q].received = <<>>
    PROVE  Unique(<<>>, {}, last) /\ AllCount(queries, Range(<<>>) \cup {}, last) /\ Wishes(queries)
<1>1. Range(<<>>) = {} /\ IsInjective(<<>>) /\ <<>> \in Seq(Nodes) /\ Len(<<>>) = 0
  BY DEF Range, IsInjective
<1>2. Numbered({}, last) /\ IsFiniteSet({}) /\ Cardinality({}) = 0
  BY FS_EmptySet DEF Numbered
<1>3. Unique(<<>>, {}, last)
  BY <1>1, <1>2 DEF Unique
<1>4. ASSUME NEW q \in Owners PROVE Counts(q, queries[q].requests, Range(<<>>) \cup {}, last)
  <2>1. \A n : At({}, n) = {}
    BY DEF At
  <2>2. Of(q, {}) = {}
    BY DEF Of
  <2>3. Watched(q, {}, {})
    <3>1. \A n : Cardinality(At({}, n)) = 0
      BY <1>2, <2>1, Zenon
    <3>2. ASSUME NEW n PROVE Cardinality(At({}, n)) <= Cardinality(At({}, n))
      <4>1. Cardinality(At({}, n)) = 0
        BY <3>1
      <4> QED
        BY <4>1
    <3> QED
      BY <3>2 DEF Watched
  <2> QED
    BY <1>1, <1>2, <2>2, <2>3 DEF Counts
<1>5. ASSUME NEW q \in Queries PROVE queries[q].received \in Wants(queries[q].used)
  <2>1. queries[q].received = <<>>
    BY DEF Owners
  <2>2. <<>> \in Wants(queries[q].used)
    BY <1>1, DhtAssumption DEF Wants
  <2> QED
    BY <2>1, <2>2
<1> QED
  BY <1>3, <1>4, <1>5 DEF AllCount, Wishes

LEMMA NewQueryIs ==
    ASSUME NEW b \in BOOLEAN
    PROVE  /\ [NewQuery EXCEPT !.started = b] \in QueryState
           /\ [NewQuery EXCEPT !.started = b].requests = <<>>
           /\ [NewQuery EXCEPT !.started = b].received = <<>>
           /\ NewQuery \in QueryState /\ NewQuery.requests = <<>> /\ NewQuery.received = <<>>
<1>1. NewQuery \in QueryState /\ NewQuery.requests = <<>> /\ NewQuery.received = <<>>
  BY DhtAssumption DEF NewQuery, QueryState
<1> DEFINE s == [NewQuery EXCEPT !.started = b]
<1>2. s \in QueryState /\ s.requests = NewQuery.requests /\ s.received = NewQuery.received
  BY <1>1 DEF QueryState
<1> QED
  BY <1>1, <1>2

LEMMA WorkInit == Init => WorkInv
<1> SUFFICES ASSUME Init PROVE WorkInv
  OBVIOUS
<1>1. /\ query = [q \in Owners |-> NewQuery] /\ peersQueries = <<>> /\ pending = <<>>
      /\ timing = {} /\ deaf = {} /\ packets = {} /\ sent = 0
      /\ reported = [q \in Searches |-> 0] /\ plan \in Plans
  BY DEF Init
<1>2. TableGood(table, FALSE) /\ table \in [Range(BucketOf) -> Bucket]
  <2>1. TableGood(table, FALSE)
    BY TableLoaded DEF Init
  <2> QED
    BY <2>1 DEF TableGood
<1>3. query \in [Owners -> QueryState]
      /\ \A q \in Owners : query[q].requests = <<>> /\ query[q].received = <<>>
  BY <1>1, NewQueryIs
<1>4. plan \in PlanSet /\ plan.restarted = FALSE
  BY <1>1, DhtAssumption DEF PlanSet
<1>5. Unique(<<>>, {}, 0) /\ AllCount(query, Range(<<>>) \cup {}, 0) /\ Wishes(query)
  BY <1>3, NothingAsked
<1>6. /\ Work \in WorkSet /\ Work.table = table /\ Work.query = query /\ Work.pending = <<>>
      /\ Work.sent = 0
  BY <1>1, <1>2, <1>3 DEF Work, WorkSet
<1>7. Good(Work, {}, FALSE)
  <2>1. TableGood(Work.table, FALSE) /\ Wishes(Work.query)
    BY <1>2, <1>5, <1>6
  <2>2. Unique(Work.pending, {}, Work.sent)
        /\ AllCount(Work.query, Range(Work.pending) \cup {}, Work.sent)
    BY <1>5, <1>6
  <2>3. sent \in Nat /\ sent <= Work.sent
    BY <1>1, <1>6
  <2> QED
    BY <1>6, <2>1, <2>2, <2>3 DEF Good
<1> QED
  BY <1>1, <1>4, <1>7 DEF WorkInv

LEMMA QueriesRestart == WorkInv /\ Restart => WorkInv'
<1> SUFFICES ASSUME WorkInv, Restart PROVE WorkInv'
  OBVIOUS
<1>1. /\ plan.restart /\ plan' = [plan EXCEPT !.restart = FALSE, !.restarted = TRUE]
      /\ query' = [q \in Owners |-> [NewQuery EXCEPT !.started = query[q].started]]
      /\ peersQueries' = <<>> /\ pending' = <<>> /\ deaf' = {} /\ table' = Reload(table)
      /\ timing' = timing /\ packets' = packets /\ sent' = sent /\ reported' = reported
  BY DEF Restart
<1>2. plan \in PlanSet /\ ~ plan.restarted
  BY <1>1 DEF WorkInv
<1>3. /\ TableGood(table, plan.restarted) /\ plan.restarted \in BOOLEAN
      /\ query \in [Owners -> QueryState] /\ packets \subseteq Nodes \X Nat /\ sent \in Nat
      /\ Work \in WorkSet /\ Work.reported = reported
  BY WorkHas DEF Good
<1>4. TableGood(table', TRUE) /\ table' \in [Range(BucketOf) -> Bucket]
  <2>1. plan.restarted = FALSE
    BY <1>2, <1>3
  <2>2. TableGood(table, FALSE)
    BY <1>3, <2>1
  <2>3. TableGood(Reload(table), TRUE)
    BY <2>2, Reloaded
  <2> QED
    BY <1>1, <2>3 DEF TableGood
<1>5. query' \in [Owners -> QueryState]
      /\ \A q \in Owners : query'[q].requests = <<>> /\ query'[q].received = <<>>
  <2>1. ASSUME NEW q \in Owners
        PROVE  /\ [NewQuery EXCEPT !.started = query[q].started] \in QueryState
               /\ [NewQuery EXCEPT !.started = query[q].started].requests = <<>>
               /\ [NewQuery EXCEPT !.started = query[q].started].received = <<>>
    <3>1. query[q].started \in BOOLEAN
      BY <1>3 DEF QueryState
    <3> QED
      BY <3>1, NewQueryIs
  <2> QED
    BY <1>1, <2>1
<1>6. plan' \in PlanSet /\ plan'.restarted = TRUE /\ plan'.restart = FALSE
  BY <1>1, <1>2 DEF PlanSet
<1>7. Unique(<<>>, {}, sent) /\ AllCount(query', Range(<<>>) \cup {}, sent) /\ Wishes(query')
  BY <1>3, <1>5, NothingAsked
<1>8. reported \in [Searches -> Nat]
  BY <1>3 DEF WorkSet
<1>9. /\ Work' \in WorkSet /\ (Work').table = table' /\ (Work').query = query'
      /\ (Work').pending = <<>> /\ (Work').sent = sent
  BY <1>1, <1>3, <1>4, <1>5, <1>8 DEF Work, WorkSet
<1>10. Good(Work, {}, TRUE)'
  <2> DEFINE w == Work'
  <2>1. TableGood(w.table, TRUE) /\ Wishes(w.query)
    BY <1>4, <1>7, <1>9
  <2>2. Unique(w.pending, {}, w.sent) /\ AllCount(w.query, Range(w.pending) \cup {}, w.sent)
    BY <1>7, <1>9
  <2>3. sent' \in Nat /\ sent' <= w.sent
    BY <1>1, <1>3, <1>9
  <2>4. w \in WorkSet
    BY <1>9
  <2> QED
    BY <2>1, <2>2, <2>3, <2>4 DEF Good
<1>11. Good(Work, {}, plan.restarted)'
  BY <1>6, <1>10
<1>12. timing' \cup deaf' \subseteq 1 .. sent'
  BY <1>1 DEF WorkInv
<1> QED
  BY <1>6, <1>11, <1>12 DEF WorkInv

LEMMA WorkNext == WorkInv /\ [Next]_vars => WorkInv'
<1> SUFFICES ASSUME WorkInv, [Next]_vars PROVE WorkInv'
  OBVIOUS
<1>1. CASE UNCHANGED vars
  BY <1>1 DEF WorkInv, vars, answering, Work, Good
<1>2. ASSUME NEW q \in Searches, FindPeers(q) \/ StopFindingPeers(q) PROVE WorkInv'
  BY <1>2, SearchStarts, SearchForgotten
<1>3. ASSUME NEW q \in Finds, FindNode(q) PROVE WorkInv'
  BY <1>3, FindStarts
<1>4. ASSUME NEW p \in Pings, RefreshTable(p) PROVE WorkInv'
  BY <1>4, PingStarts
<1>5. ASSUME NEW packet \in packets, Receive(packet) \/ Lose(packet) \/ SendFails(packet)
      PROVE  WorkInv'
  BY <1>5, PacketComes, PacketLost, NotSent
<1>6. ASSUME NEW id \in 1 .. sent, FindTimeout(id) \/ CheckTimeout(id) PROVE WorkInv'
  BY <1>6, TimeoutFound, TimeoutChecked
<1>7. ASSUME NEW n \in Nodes, NEW request \in RemoteRequests, HandlePacket(n, request)
      PROVE  WorkInv'
  BY <1>7, RemoteHeard
<1>8. CASE Restart
  BY <1>8, QueriesRestart
<1>9. CASE Tick
  BY <1>9, TimePasses
<1> QED
  BY <1>1, <1>2, <1>3, <1>4, <1>5, <1>6, <1>7, <1>8, <1>9 DEF Next

\* A node is known in one place of its bucket, twice after the table was loaded
\* again, and waits only for a place in a full bucket: NodeResponded,
\* NodeNotResponded and load keep it so for any order of answers and timeouts.
THEOREM TableStaysConsistent == Spec => []TableConsistent
<1>1. WorkInv => TableConsistent
  <2> SUFFICES ASSUME WorkInv PROVE TableConsistent
    OBVIOUS
  <2>1. PICK twice \in BOOLEAN : twice = plan.restarted
    BY WorkHas
  <2>2. TableGood(table, twice)
    BY <2>1, WorkHas
  <2>3. ASSUME NEW b \in DOMAIN table
        PROVE  LET all == table[b].nodes \o table[b].cache IN
               /\ \A n \in Nodes :
                     Cardinality({i \in DOMAIN all : all[i].id = n}) <= IF twice THEN 2 ELSE 1
               /\ table[b].cache # <<>> => Len(table[b].nodes) >= MaxBucketNodesCount
               /\ Len(table[b].cache) <= MaxBucketCacheSize
    BY <2>2, TableEnough
  <2> QED
    BY <2>1, <2>3 DEF TableConsistent
<1> QED
  BY <1>1, WorkInit, WorkNext, PTL DEF Spec

\* As many elements at a node as positions that name it.
LEMMA PositionsAt ==
    ASSUME NEW A, NEW seq \in Seq(A), IsInjective(seq), NEW n
    PROVE  /\ Cardinality({i \in DOMAIN seq : seq[i].node = n}) = Cardinality(At(Range(seq), n))
           /\ IsFiniteSet(At(Range(seq), n))
<1> DEFINE D == {i \in DOMAIN seq : seq[i].node = n} f == [i \in D |-> seq[i]]
<1>1. PICK c \in Nat : c = Len(seq) /\ DOMAIN seq = 1 .. c
  OBVIOUS
<1>2. IsFiniteSet(D) /\ D \subseteq DOMAIN seq
  <2>1. 1 \in Int /\ c \in Int /\ D \subseteq 1 .. c
    BY <1>1
  <2>2. IsFiniteSet(1 .. c)
    BY <2>1, FS_Interval
  <2> HIDE DEF D
  <2> QED
    BY <1>1, <2>1, <2>2, FS_Subset
<1>3. At(Range(seq), n) = {f[i] : i \in D}
  BY DEF At, Range
<1> HIDE DEF D
<1>4. DOMAIN f = D /\ \A i, j \in D : f[i] = f[j] => i = j
  BY <1>2 DEF IsInjective
<1> HIDE DEF f
<1>5. IsFiniteSet({f[i] : i \in D}) /\ Cardinality({f[i] : i \in D}) = Cardinality(D)
  BY <1>2, <1>4, AsManyPositions
<1> QED
  BY <1>3, <1>5 DEF D

\* Whatever the query, it counts at most as many requests to a node as are waited for.
LEMMA WatchedMany ==
    ASSUME NEW q, NEW last, NEW asked, Numbered(asked, last), NEW waiting, IsFiniteSet(waiting),
           Watched(q, asked, waiting), NEW n \in Nodes
    PROVE  Cardinality(At(asked, n)) <= Cardinality(At(waiting, n))
<1>1. CASE q \in Searches
  BY <1>1 DEF Watched
<1>2. CASE q \notin Searches
  <2> DEFINE X == At(asked, n) Y == At(waiting, n)
             f == [r \in X |-> CHOOSE s \in Y : s.id = r.id]
  <2>1. IsFiniteSet(Y)
    <3>1. Y \subseteq waiting
      BY DEF At
    <3> QED
      BY <3>1, FS_Subset
  <2>2. ASSUME NEW r \in X PROVE f[r] \in Y /\ f[r].id = r.id
    <3>1. \E s \in Y : s.id = r.id
      BY <1>2 DEF Watched, At
    <3> HIDE DEF X, Y
    <3> QED
      BY <3>1
  <2>3. \A r, s \in X : r.id = s.id => r = s
    BY DEF At, Numbered
  <2>4. f \in [X -> Y] /\ DOMAIN f = X
    <3> HIDE DEF X, Y
    <3>1. f = [r \in X |-> f[r]]
      OBVIOUS
    <3> HIDE DEF f
    <3> QED
      BY <2>2, <3>1
  <2> HIDE DEF f, X, Y
  <2>5. f \in Injection(X, Y)
    BY <2>2, <2>3, <2>4 DEF Injection, IsInjective
  <2>6. Cardinality(X) <= Cardinality(Y)
    BY <2>1, <2>5, FS_Injection
  <2> QED
    BY <2>6 DEF X, Y
<1> QED
  BY <1>1, <1>2

\* A query never waits for a request that UdpAsyncComm has stopped to wait for:
\* an answer to the wrong request, an early timeout or one that is checked twice
\* included.
THEOREM RequestsStayPending == Spec => []RequestsPending
<1>1. WorkInv => RequestsPending
  <2> SUFFICES ASSUME WorkInv PROVE RequestsPending
    OBVIOUS
  <2>1. /\ query \in [Owners -> QueryState] /\ peersQueries \in Seq(Searches)
        /\ pending \in Seq(PendingRequest) /\ Wishes(query)
        /\ Work.pending = pending /\ Work.query = query /\ Work.sent = sent
        /\ Good(Work, {}, plan.restarted)
    BY WorkHas
  <2>2. /\ IsInjective(pending) /\ AllCount(query, Range(pending) \cup {}, sent)
    BY <2>1 DEF Good, Unique
  <2>3. IsFiniteSet(Range(pending)) /\ Range(pending) \subseteq PendingRequest
    BY <2>1, RangeIsFinite
  <2>4. TypeOK
    <3>1. ASSUME NEW q \in Queries
          PROVE  LET s == query[q] IN
                 /\ Len(s.received) <= MaxCachedNodes /\ IsInjective(s.received)
                 /\ Range(s.received) \subseteq Nodes \ s.used /\ s.used \subseteq Nodes
      <4> DEFINE s == query[q]
      <4>1. s \in QueryState /\ s.received \in Wants(s.used)
        BY <2>1 DEF Wishes, Owners
      <4> HIDE DEF s
      <4>2. s.received \in Seq(Nodes) /\ s.used \subseteq Nodes
        BY <4>1 DEF QueryState
      <4>3. Range(s.received) \subseteq Nodes
        BY <4>2, RangeIsFinite
      <4>4. /\ Len(s.received) <= MaxCachedNodes /\ IsInjective(s.received)
            /\ Range(s.received) \subseteq Nodes \ s.used /\ s.used \subseteq Nodes
        BY <4>1, <4>2, <4>3 DEF Wants
      <4> QED
        BY <4>4 DEF s
    <3>2. Range(peersQueries) \subseteq Searches
      BY <2>1, RangeIsFinite
    <3>3. \A r \in Range(pending) : r.owner \in Owners /\ r.node \in Nodes /\ r.retries \in 0 .. 1
      BY <2>3 DEF PendingRequest
    <3> QED
      BY <3>1, <3>2, <3>3 DEF TypeOK, WorkInv
  <2>5. ASSUME NEW q \in Owners, NEW n \in Nodes
        PROVE  Cardinality({i \in DOMAIN query[q].requests : query[q].requests[i].node = n})
                 <= Cardinality({i \in DOMAIN pending :
                                    pending[i].owner = q /\ pending[i].node = n})
    <3> DEFINE a == query[q].requests
               D == {i \in DOMAIN pending : pending[i].owner = q /\ pending[i].node = n}
               f == [i \in D |-> pending[i]]
               mine == Of(q, Range(pending) \cup {})
    <3>1. a \in Seq(AskedNode)
      <4>1. query[q] \in QueryState
        BY <2>1
      <4> QED
        BY <4>1 DEF QueryState
    <3>2. IsInjective(a) /\ Numbered(Range(a), sent) /\ Watched(q, Range(a), mine)
      BY <2>2 DEF AllCount, Counts
    <3>3. IsFiniteSet(mine)
      <4>1. mine \subseteq Range(pending)
        BY DEF Of
      <4> QED
        BY <2>3, <4>1, FS_Subset
    <3>4. At(mine, n) = {f[i] : i \in D}
      BY DEF At, Of, Range
    <3>5. IsFiniteSet(D) /\ D \subseteq DOMAIN pending
      <4>1. PICK c \in Nat : c = Len(pending) /\ DOMAIN pending = 1 .. c
        BY <2>1
      <4>2. 1 \in Int /\ c \in Int /\ D \subseteq 1 .. c
        BY <4>1
      <4>3. IsFiniteSet(1 .. c)
        BY <4>2, FS_Interval
      <4> HIDE DEF D
      <4> QED
        BY <4>1, <4>2, <4>3, FS_Subset
    <3> HIDE DEF D, mine, a
    <3>6. DOMAIN f = D /\ \A i, j \in D : f[i] = f[j] => i = j
      BY <2>2, <3>5 DEF IsInjective
    <3> HIDE DEF f
    <3>7. Cardinality({f[i] : i \in D}) = Cardinality(D)
      BY <3>5, <3>6, AsManyPositions
    <3>8. Cardinality(At(Range(a), n)) <= Cardinality(At(mine, n))
      BY <3>2, <3>3, WatchedMany
    <3>9. Cardinality({i \in DOMAIN a : a[i].node = n}) = Cardinality(At(Range(a), n))
      BY <3>1, <3>2, PositionsAt
    <3> QED
      BY <3>4, <3>7, <3>8, <3>9 DEF a, D
  <2> QED
    BY <2>4, <2>5 DEF RequestsPending
<1> QED
  BY <1>1, WorkInit, WorkNext, PTL DEF Spec
===============================================================================
