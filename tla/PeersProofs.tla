------------------------------ MODULE PeersProofs ------------------------------
(***************************************************************************)
(* For any addresses, any limit of connections and any number of calls, at  *)
(* any time and on any thread: what is active is at the place of its own    *)
(* address, no peer is left aside while there is room, the transfer keeps   *)
(* no connection whose last callback has run, unless a message entered it   *)
(* when a stop had ended the listening, and the DHT source waits for no     *)
(* search that nobody makes.                                                *)
(*                                                                          *)
(* And for any list of trackers: a stopped torrent arms none of their       *)
(* timers, and each of a started one has a next step.                       *)
(***************************************************************************)
EXTENDS Peers, Trackers, ListTheorems, FiniteSetTheorems, SequenceTheorems, TLAPS

PeerType ==
    [address : Addresses \cup {"in"}, flags : BOOLEAN, unwanted : BOOLEAN,
     state : {"Disconnected", "Connecting", "Connected"},
     tried : {"never", "lately", "before"}]
CommType ==
    [address : Addresses \cup {"in"}, kind : {"own", "manual", "punch", "remote"},
     phase : {"opening", "established"}, closing : BOOLEAN,
     step : {"none", "message", "entering", "punchable", "removed", "tell closed",
             "last call", "gone"},
     late : BOOLEAN, exchanged : SUBSET Addresses]
DhtType ==
    [state : {"Clear", "Connected", "Announcing"}, thread : {"none", "checked", "finding"},
     searching : BOOLEAN]

\* What the others rest on: the tables and their types.
Tables ==
    /\ known \in Seq(PeerType) /\ comms \in Seq(CommType)
    /\ active \subseteq [comm : DOMAIN comms, idx : 0 .. Len(known) - 1]
    /\ IsFiniteSet(active)
    /\ connectIdx \in 0 .. Len(known)

Flags ==
    /\ connecting \in BOOLEAN /\ running \in BOOLEAN /\ transferring \in BOOLEAN
    /\ listener \in BOOLEAN
    /\ control \in {"idle", "listening", "running", "started", "stop finding", "stopping"}
                       \cup Clearing
    /\ control \in {"closed", "clearing"} => ~ running
    /\ heard \subseteq DOMAIN comms /\ due \in Nat
    /\ asking \in BOOLEAN /\ rendezvous \subseteq Addresses
    /\ dht \in DhtType

\* Every active connection is at the place of its address; a place is taken
\* exactly when one is there, never two; and no connection is there twice.
Indexes ==
    /\ \A a \in active : known[a.idx + 1].address = comms[a.comm].address
    /\ \A i \in DOMAIN known :
          known[i].state # "Disconnected" <=> \E a \in active : a.idx = i - 1
    /\ \A a, b \in active : a.idx = b.idx \/ a.comm = b.comm => a = b

GoingOn == {"none", "message", "entering"}

NotEnded(set, list) == \A a \in set : list[a.comm].step \in GoingOn

\* What is active has not ended; without a listener the transfer has only peers that
\* entered without one, but for the moment until stop() clears it.
Alive ==
    /\ NotEnded(active, comms)
    /\ ~ listener /\ control \notin Clearing => \A c \in heard : comms[c].late
    /\ HeardIsAlive

\* A peer of the list that was never tried and may be.
Left(list) ==
    \E i \in DOMAIN list : /\ list[i].state = "Disconnected" /\ ~ list[i].unwanted
                          /\ list[i].tried = "never"

\* There is room, and nobody is about to call connectNext.
NobodyCalls ==
    /\ CanConnect /\ control \in {"idle", "started"} /\ ~ asking /\ due = 0
    /\ \A c \in DOMAIN comms : comms[c].step \notin {"punchable", "removed"}

PeersInv == Tables /\ Flags /\ Indexes /\ Alive /\ NoPeerForgotten /\ DhtSearches

-------------------------------------------------------------------------------
(* Sequences. *)

\* A function on the places of a sequence is a sequence as long.
LEMMA MapIsSeq ==
    ASSUME NEW S, NEW n \in Nat, NEW f \in [1 .. n -> S]
    PROVE  f \in Seq(S) /\ Len(f) = n /\ DOMAIN f = 1 .. n
<1>1. f \in Seq(S)
  BY SeqDef
<1> QED  BY <1>1, LenProperties

\* What is put in the middle of a sequence: the start stays, the rest moves up.
LEMMA InsertIs ==
    ASSUME NEW S, NEW s \in Seq(S), NEW t \in Seq(S), NEW k \in 0 .. Len(s)
    PROVE  LET new == SubSeq(s, 1, k) \o t \o SubSeq(s, k + 1, Len(s))
           IN /\ new \in Seq(S) /\ Len(new) = Len(s) + Len(t)
              /\ \A i \in 1 .. k : new[i] = s[i]
              /\ \A i \in 1 .. Len(t) : new[k + i] = t[i]
              /\ \A i \in k + 1 .. Len(s) : new[i + Len(t)] = s[i]
<1> DEFINE a == SubSeq(s, 1, k)
           c == SubSeq(s, k + 1, Len(s))
<1>0. Len(s) \in Nat /\ Len(t) \in Nat /\ \A i \in 1 .. Len(s) : s[i] \in S
  BY ElementOfSeq, LenProperties
<1>1. a \in Seq(S) /\ Len(a) = k /\ \A i \in 1 .. k : a[i] = s[i]
  <2>1. /\ a \in Seq(S) /\ Len(a) = (IF 1 <= k THEN k - 1 + 1 ELSE 0)
        /\ \A i \in 1 .. k - 1 + 1 : a[i] = s[1 + i - 1]
    BY <1>0, SubSeqProperties
  <2> HIDE DEF a
  <2> QED  BY <2>1
<1>2. c \in Seq(S) /\ Len(c) = Len(s) - k /\ \A i \in 1 .. Len(s) - k : c[i] = s[k + i]
  <2>1. /\ c \in Seq(S) /\ Len(c) = (IF k + 1 <= Len(s) THEN Len(s) - (k + 1) + 1 ELSE 0)
        /\ \A i \in 1 .. Len(s) - (k + 1) + 1 : c[i] = s[(k + 1) + i - 1]
    <3>1. k + 1 \in Int /\ Len(s) \in Int /\ \A i \in k + 1 .. Len(s) : s[i] \in S
      BY <1>0
    <3> QED  BY <3>1, SubSeqProperties
  <2> HIDE DEF c
  <2> QED  BY <1>0, <2>1
<1> HIDE DEF a, c
<1> DEFINE q == a \o t
           new == q \o c
<1>3. /\ q \in Seq(S) /\ Len(q) = k + Len(t)
      /\ \A i \in 1 .. k + Len(t) : q[i] = IF i <= k THEN a[i] ELSE t[i - k]
  BY <1>1, ConcatProperties
<1> HIDE DEF q
<1>4. /\ new \in Seq(S) /\ Len(new) = Len(q) + Len(c)
      /\ \A i \in 1 .. Len(q) + Len(c) : new[i] = IF i <= Len(q) THEN q[i] ELSE c[i - Len(q)]
  BY <1>2, <1>3, ConcatProperties
<1> HIDE DEF new
<1> DEFINE n == Len(t)
           m == Len(s)
<1>5. /\ n \in Nat /\ m \in Nat /\ k \in Nat /\ k <= m /\ Len(q) = k + n /\ Len(c) = m - k
      /\ Len(q) + Len(c) = m + n
  BY <1>0, <1>2, <1>3
<1>6. ASSUME NEW i \in 1 .. k PROVE new[i] = s[i]
  <2>1. i \in 1 .. m + n /\ i <= k + n /\ i \in 1 .. k + n /\ i <= k
    BY <1>5
  <2>2. new[i] = q[i]
    BY <1>4, <1>5, <2>1
  <2>3. q[i] = a[i]
    BY <1>3, <2>1
  <2> QED  BY <1>1, <2>2, <2>3
<1>7. ASSUME NEW i \in 1 .. n PROVE new[k + i] = t[i]
  <2>1. /\ k + i \in 1 .. m + n
        /\ k + i <= k + n
        /\ k + i \in 1 .. k + n
        /\ ~ (k + i <= k)
        /\ (k + i) - k = i
    BY <1>5
  <2>2. new[k + i] = q[k + i]
    BY <1>4, <1>5, <2>1
  <2> QED  BY <1>3, <2>1, <2>2
<1>8. ASSUME NEW i \in k + 1 .. m PROVE new[i + n] = s[i]
  <2>1. i + n \in 1 .. m + n /\ ~ (i + n <= k + n) /\ (i + n) - (k + n) = i - k
    BY <1>5
  <2>2. new[i + n] = c[i - k]
    BY <1>4, <1>5, <2>1
  <2>3. i - k \in 1 .. m - k /\ k + (i - k) = i
    BY <1>5
  <2> QED  BY <1>2, <2>2, <2>3
<1> QED  BY <1>4, <1>5, <1>6, <1>7, <1>8 DEF new, q, a, c

\* What is added at the end of a sequence.
LEMMA ConcatIs ==
    ASSUME NEW S, NEW s \in Seq(S), NEW t \in Seq(S)
    PROVE  LET new == s \o t
           IN /\ new \in Seq(S) /\ Len(new) = Len(s) + Len(t)
              /\ DOMAIN new = 1 .. Len(s) + Len(t)
              /\ \A i \in 1 .. Len(s) : new[i] = s[i]
              /\ \A i \in 1 .. Len(t) : new[Len(s) + i] = t[i]
<1> DEFINE new == s \o t
<1>0. Len(s) \in Nat /\ Len(t) \in Nat
  BY LenProperties
<1>1. /\ new \in Seq(S) /\ Len(new) = Len(s) + Len(t)
      /\ \A i \in 1 .. Len(s) + Len(t) : new[i] = IF i <= Len(s) THEN s[i] ELSE t[i - Len(s)]
  BY ConcatProperties
<1> HIDE DEF new
<1>2. DOMAIN new = 1 .. Len(new)
  BY <1>1, LenProperties
<1>3. ASSUME NEW i \in 1 .. Len(s) PROVE new[i] = s[i]
  BY <1>0, <1>1
<1>4. ASSUME NEW i \in 1 .. Len(t) PROVE new[Len(s) + i] = t[i]
  <2>1. /\ Len(s) + i \in 1 .. Len(s) + Len(t) /\ ~ (Len(s) + i <= Len(s))
        /\ (Len(s) + i) - Len(s) = i
    BY <1>0
  <2> QED  BY <1>1, <2>1
<1> QED  BY <1>1, <1>2, <1>3, <1>4 DEF new

LEMMA ExtendIs ==
    ASSUME NEW S, NEW s \in Seq(S), NEW n \in Nat, NEW t \in [1 .. n -> S]
    PROVE  LET new == s \o t
           IN /\ new \in Seq(S) /\ Len(new) = Len(s) + n /\ DOMAIN new = 1 .. Len(s) + n
              /\ \A i \in 1 .. Len(s) : new[i] = s[i]
              /\ \A i \in 1 .. n : new[Len(s) + i] = t[i]
<1>1. t \in Seq(S)
  BY MapIsSeq
<1>2. Len(t) = n
  BY MapIsSeq
<1> DEFINE new == s \o t
<1>3. /\ new \in Seq(S) /\ Len(new) = Len(s) + Len(t)
      /\ DOMAIN new = 1 .. Len(s) + Len(t)
      /\ \A i \in 1 .. Len(s) : new[i] = s[i]
      /\ \A i \in 1 .. Len(t) : new[Len(s) + i] = t[i]
  BY <1>1, ConcatIs
<1> HIDE DEF new
<1>4. /\ new \in Seq(S) /\ Len(new) = Len(s) + n /\ DOMAIN new = 1 .. Len(s) + n
      /\ \A i \in 1 .. Len(s) : new[i] = s[i]
      /\ \A i \in 1 .. n : new[Len(s) + i] = t[i]
  BY <1>2, <1>3
<1> QED  BY <1>4 DEF new

LEMMA MoreComms ==
    ASSUME NEW s \in Seq(CommType), NEW n \in Nat, NEW t \in [1 .. n -> CommType]
    PROVE  /\ s \o t \in Seq(CommType) /\ Len(s \o t) = Len(s) + n
           /\ DOMAIN (s \o t) = 1 .. Len(s) + n
           /\ \A i \in 1 .. Len(s) : (s \o t)[i] = s[i]
           /\ \A i \in 1 .. n : (s \o t)[Len(s) + i] = t[i]
BY ExtendIs

-------------------------------------------------------------------------------
(* connectNext() *)

\* What connectNext() takes: different places, in number n.
LEMMA ChosenDiffer ==
    ASSUME Tables, NEW n \in Nat, NEW chosen \in [1 .. n -> Wanted], IsChosen(chosen),
           NEW i \in 1 .. n, NEW j \in 1 .. n, chosen[i] = chosen[j]
    PROVE  i = j
<1>1. chosen[i] \in 0 .. Len(known) - 1 /\ Len(known) \in Nat /\ connectIdx \in Nat
  BY LenProperties DEF Wanted, Tables
<1>2. Turn(chosen[i]) \in Int
  BY <1>1 DEF Turn
<1>3. ~ (i < j) /\ ~ (j < i)
  BY <1>2 DEF IsChosen
<1> QED  BY <1>3

\* Connections numbered after the first m, at the places f.
NewAt(n, m, f) == {[comm |-> m + i, idx |-> f[i]] : i \in 1 .. n}

LEMMA Numbered ==
    ASSUME NEW n \in Nat, NEW m \in Nat, NEW f
    PROVE  /\ IsFiniteSet(NewAt(n, m, f)) /\ Cardinality(NewAt(n, m, f)) = n
<1> DEFINE new == NewAt(n, m, f)
           g == [i \in 1 .. n |-> [comm |-> m + i, idx |-> f[i]]]
<1>1. g \in [1 .. n -> new] /\ \A x \in new : \E i \in 1 .. n : g[i] = x
  BY DEF NewAt
<1>2. \A i, j \in 1 .. n : g[i] = g[j] => i = j
  <2> TAKE i, j \in 1 .. n
  <2>1. g[i].comm = m + i /\ g[j].comm = m + j
    OBVIOUS
  <2> QED  BY <2>1
<1> HIDE DEF new, g
<1>3. g \in Bijection(1 .. n, new)
  BY <1>1, <1>2 DEF Bijection, Injection, Surjection, IsInjective
<1>4. IsFiniteSet(1 .. n) /\ Cardinality(1 .. n) = n
  BY FS_Interval
<1> QED  BY <1>3, <1>4, FS_Bijection DEF ExistsBijection, new

\* No connection is made or changes its address.
SameAddresses(list, old) ==
    /\ list \in Seq(CommType) /\ DOMAIN list = DOMAIN old
    /\ \A c \in DOMAIN old : list[c].address = old[c].address

\* connectNext(), where base is comms after its caller's own step.
LEMMA ConnectNextKeeps ==
    ASSUME Tables, Indexes, NEW base, SameAddresses(base, comms),
           NotEnded(active, base),
           CallConnectNext(base)
    PROVE  /\ Tables' /\ Indexes'
           /\ Len(comms) <= Len(comms')
           /\ \A c \in DOMAIN comms : comms'[c] = base[c]
           /\ \A c \in DOMAIN comms' \ DOMAIN comms : comms'[c].step = "none"
           /\ NotEnded(active', comms')
           /\ CanConnect' => \A p \in ToSet(known') :
                 ~ (p.state = "Disconnected" /\ ~ p.unwanted /\ p.tried = "never")
<1>0. /\ Len(known) \in Nat /\ DOMAIN known = 1 .. Len(known)
      /\ Len(comms) \in Nat /\ DOMAIN comms = 1 .. Len(comms)
      /\ \A i \in 1 .. Len(known) : known[i] \in PeerType
      /\ Cardinality(active) \in Nat /\ MaxConnections \in Nat
  BY LenProperties, ElementOfSeq, FS_CardinalityType, PeersAssumption
     DEF Tables
<1>30. base \in Seq(CommType)
  BY DEF SameAddresses
<1>31. Len(base) = Len(comms) /\ Len(base) \in Nat
  BY <1>0, <1>30, LenProperties DEF SameAddresses
<1>32. \A c \in 1 .. Len(comms) : base[c] \in CommType /\ base[c].address = comms[c].address
  BY <1>0, <1>30, <1>31, ElementOfSeq DEF SameAddresses
<1>1. Room \in Nat
  BY <1>0 DEF Room, CanConnect
<1> DEFINE Takes(n, chosen) ==
         /\ IsChosen(chosen)
         /\ known' = Try(known, ToSet(chosen))
         /\ comms' = base \o [i \in 1 .. n |-> Comm(Peer(chosen[i]).address, "own")]
         /\ active' = active \cup {[comm |-> Len(comms) + i, idx |-> chosen[i]] : i \in 1 .. n}
         /\ connectIdx' = IF n > 0 /\ n = Room THEN (chosen[n] + 1) % Len(known) ELSE connectIdx
<1>20. PICK n \in 0 .. Room : \E chosen \in [1 .. n -> Wanted] : Takes(n, chosen)
  BY DEF CallConnectNext
<1>2. PICK chosen \in [1 .. n -> Wanted] : Takes(n, chosen)
  BY <1>20
<1>3. n \in Nat /\ DOMAIN chosen = 1 .. n
  BY <1>1
<1> DEFINE new == NewAt(n, Len(comms), chosen)
           added == [i \in 1 .. n |-> Comm(Peer(chosen[i]).address, "own")]
           taken == ToSet(chosen)
<1>4. \A i \in 1 .. n : /\ chosen[i] \in 0 .. Len(known) - 1
                       /\ known[chosen[i] + 1].state = "Disconnected"
  BY DEF Wanted, Connectable, Peer
<1>5. taken = {chosen[i] : i \in 1 .. n}
  BY <1>3 DEF ToSet
<1>6. /\ known' \in Seq(PeerType) /\ Len(known') = Len(known) /\ DOMAIN known' = DOMAIN known
      /\ \A i \in DOMAIN known :
            /\ known'[i].address = known[i].address /\ known'[i].unwanted = known[i].unwanted
            /\ known'[i].state = IF i - 1 \in taken THEN "Connecting" ELSE known[i].state
            /\ known'[i].tried = IF i - 1 \in taken THEN "lately" ELSE known[i].tried
  <2>1. ASSUME NEW i \in DOMAIN known
        PROVE  LET new_ == [known[i] EXCEPT !.state = "Connecting", !.tried = "lately"]
               IN /\ new_ \in PeerType /\ new_.address = known[i].address
                  /\ new_.unwanted = known[i].unwanted
                  /\ new_.state = "Connecting" /\ new_.tried = "lately"
    BY <1>0 DEF PeerType
  <2>2. known' = [i \in DOMAIN known |->
            IF i - 1 \in taken THEN [known[i] EXCEPT !.state = "Connecting", !.tried = "lately"]
            ELSE known[i]]
    BY <1>2 DEF Try
  <2>3. known' \in [1 .. Len(known) -> PeerType]
    BY <1>0, <2>1, <2>2
  <2>4. /\ known' \in Seq(PeerType)
        /\ Len(known') = Len(known)
        /\ DOMAIN known' = DOMAIN known
    BY <1>0, <2>3, MapIsSeq
  <2> QED  BY <2>1, <2>2, <2>4
<1>7. /\ added \in [1 .. n -> CommType]
      /\ \A i \in 1 .. n : /\ added[i].step = "none"
                           /\ added[i].address = known[chosen[i] + 1].address
  <2>1. ASSUME NEW i \in 1 .. n
        PROVE  /\ added[i] \in CommType /\ added[i].step = "none"
               /\ added[i].address = known[chosen[i] + 1].address
    <3>1. known[chosen[i] + 1].address \in Addresses \cup {"in"}
      <4>1. chosen[i] + 1 \in 1 .. Len(known)
        BY <1>0, <1>4
      <4> QED  BY <1>0, <4>1 DEF PeerType
    <3> QED  BY <3>1 DEF Comm, CommType, Peer
  <2> QED  BY <2>1
<1> HIDE DEF added, taken
<1>8. /\ comms' \in Seq(CommType) /\ Len(comms') = Len(comms) + n
      /\ DOMAIN comms' = 1 .. Len(comms) + n
      /\ \A c \in DOMAIN comms : comms'[c] = base[c]
      /\ \A i \in 1 .. n : comms'[Len(comms) + i] = added[i]
  <2>1. comms' = base \o added
    BY <1>2 DEF added
  <2>2. added \in [1 .. n -> CommType]
    BY <1>7
  <2>3. /\ base \o added \in Seq(CommType) /\ Len(base \o added) = Len(base) + n
        /\ DOMAIN (base \o added) = 1 .. Len(base) + n
        /\ \A c \in 1 .. Len(base) : (base \o added)[c] = base[c]
        /\ \A c \in 1 .. n : (base \o added)[Len(base) + c] = added[c]
    <3>1. n \in Nat
      BY <1>3
    <3> QED  BY <1>30, <2>2, <3>1, MoreComms
  <2> QED  BY <1>0, <1>31, <2>1, <2>3
<1>9. IsFiniteSet(new) /\ Cardinality(new) = n /\ active' = active \cup new
  <2>1. active' = active \cup new
    BY <1>2 DEF NewAt
  <2> QED  BY <1>0, <1>3, <2>1, Numbered
<1>10. /\ \A a \in active : a.comm \in 1 .. Len(comms) /\ a.idx \in 0 .. Len(known) - 1
       /\ \A a \in new : \E i \in 1 .. n : a.comm = Len(comms) + i /\ a.idx = chosen[i]
       /\ new \subseteq [comm : DOMAIN comms', idx : 0 .. Len(known') - 1]
  <2>1. \A i \in 1 .. n : Len(comms) + i \in DOMAIN comms' /\ chosen[i] \in 0 .. Len(known') - 1
    BY <1>0, <1>3, <1>4, <1>6, <1>8
  <2>2. new \subseteq [comm : DOMAIN comms', idx : 0 .. Len(known') - 1]
    <3>1. ASSUME NEW i \in 1 .. n
          PROVE  [comm |-> Len(comms) + i, idx |-> chosen[i]]
                    \in [comm : DOMAIN comms', idx : 0 .. Len(known') - 1]
      BY <2>1
    <3> QED  BY <3>1 DEF NewAt
  <2>3. \A a \in active : a.comm \in 1 .. Len(comms) /\ a.idx \in 0 .. Len(known) - 1
    BY <1>0 DEF Tables
  <2>4. \A a \in new : \E i \in 1 .. n : a.comm = Len(comms) + i /\ a.idx = chosen[i]
    <3> TAKE a \in new
    <3>1. PICK i \in 1 .. n : a = [comm |-> Len(comms) + i, idx |-> chosen[i]]
      BY DEF NewAt
    <3> QED  BY <3>1
  <2> QED  BY <2>2, <2>3, <2>4
<1>11. /\ active \cap new = {} /\ IsFiniteSet(active')
       /\ Cardinality(active') = Cardinality(active) + n
  <2>1. active \cap new = {}
    BY <1>0, <1>3, <1>10
  <2> HIDE DEF new
  <2>2. /\ IsFiniteSet(active \cup new)
        /\ Cardinality(active \cup new)
              = Cardinality(active) + Cardinality(new) - Cardinality({})
    BY <1>9, <2>1, FS_Union DEF Tables
  <2> QED  BY <1>0, <1>3, <1>9, <2>1, <2>2, FS_EmptySet
<1>12. Tables'
  <2>1. active' \subseteq [comm : DOMAIN comms', idx : 0 .. Len(known') - 1]
    <3>1. active \subseteq [comm : DOMAIN comms', idx : 0 .. Len(known') - 1]
      BY <1>0, <1>3, <1>6, <1>8 DEF Tables
    <3> QED  BY <1>9, <1>10, <3>1
  <2>2. connectIdx' \in 0 .. Len(known')
    <3>1. CASE n > 0
      <4>1. chosen[n] + 1 \in Nat /\ Len(known) > 0
        BY <1>0, <1>3, <1>4, <3>1
      <4>2. (chosen[n] + 1) % Len(known) \in 0 .. Len(known) - 1
        BY <1>0, <4>1
      <4> QED  BY <1>0, <1>2, <1>6, <4>2 DEF Tables
    <3>2. CASE ~ (n > 0)
      BY <1>2, <1>6, <3>2 DEF Tables
    <3> QED  BY <3>1, <3>2
  <2> QED  BY <1>6, <1>8, <1>11, <2>1, <2>2 DEF Tables
<1>13. Indexes'
  <2>1. ASSUME NEW a \in active' PROVE known'[a.idx + 1].address = comms'[a.comm].address
    <3>1. CASE a \in active
      <4>1. a.idx + 1 \in DOMAIN known
        BY <1>0, <1>10, <3>1
      <4>2. a.comm \in DOMAIN comms
        BY <1>0, <1>10, <3>1
      <4>3. /\ known'[a.idx + 1].address = known[a.idx + 1].address
            /\ comms'[a.comm].address = comms[a.comm].address
        <5>1. comms'[a.comm].address = comms[a.comm].address
          BY <1>0, <1>8, <1>32, <4>2
        <5> QED  BY <1>6, <4>1, <5>1
      <4>4. known[a.idx + 1].address = comms[a.comm].address
        BY <3>1 DEF Indexes
      <4> QED  BY <4>3, <4>4
    <3>2. CASE a \in new
      <4>1. PICK i \in 1 .. n : a.comm = Len(comms) + i /\ a.idx = chosen[i]
        BY <1>10, <3>2
      <4>2. a.idx + 1 \in DOMAIN known
        BY <1>0, <1>4, <4>1
      <4> QED  BY <1>6, <1>7, <1>8, <4>1, <4>2
    <3> QED  BY <1>9, <3>1, <3>2
  <2>2. ASSUME NEW i \in DOMAIN known
        PROVE  known'[i].state # "Disconnected" <=> \E a \in active' : a.idx = i - 1
    <3>1. CASE i - 1 \in taken
      <4>1. PICK j \in 1 .. n : chosen[j] = i - 1
        BY <1>5, <3>1
      <4>2. [comm |-> Len(comms) + j, idx |-> chosen[j]] \in active'
        BY <1>9 DEF NewAt
      <4> QED  BY <1>6, <3>1, <4>1, <4>2
    <3>2. CASE i - 1 \notin taken
      <4>1. \A a \in new : a.idx # i - 1
        BY <1>5, <1>10, <3>2
      <4> QED  BY <1>6, <1>9, <3>2, <4>1 DEF Indexes
    <3> QED  BY <3>1, <3>2
  <2>3. ASSUME NEW a \in active', NEW b \in active', a.idx = b.idx \/ a.comm = b.comm
        PROVE  a = b
    <3>1. CASE a \in active /\ b \in active
      BY <2>3, <3>1 DEF Indexes
    <3>2. ASSUME NEW x \in active, NEW y \in new PROVE x.idx # y.idx /\ x.comm # y.comm
      <4>1. PICK i \in 1 .. n : y.comm = Len(comms) + i /\ y.idx = chosen[i]
        BY <1>10
      <4>2. x.idx + 1 \in DOMAIN known /\ x.idx = (x.idx + 1) - 1
        BY <1>0, <1>10
      <4>3. known[x.idx + 1].state # "Disconnected"
        BY <4>2 DEF Indexes
      <4>4. x.idx # y.idx
        BY <1>4, <4>1, <4>3
      <4>5. x.comm # y.comm
        BY <1>0, <1>10, <4>1
      <4> QED  BY <4>4, <4>5
    <3>3. CASE a \in new /\ b \in new
      <4>1. PICK i \in 1 .. n : a = [comm |-> Len(comms) + i, idx |-> chosen[i]]
        BY <3>3 DEF NewAt
      <4>2. PICK j \in 1 .. n : b = [comm |-> Len(comms) + j, idx |-> chosen[j]]
        BY <3>3 DEF NewAt
      <4>3. chosen[i] = chosen[j] \/ Len(comms) + i = Len(comms) + j
        BY <2>3, <4>1, <4>2
      <4>4. i = j
        <5>1. chosen[i] = chosen[j]
          BY <1>0, <4>3
        <5> QED  BY <1>2, <1>3, <5>1, ChosenDiffer
      <4> QED  BY <4>1, <4>2, <4>4
    <3> QED  BY <1>9, <2>3, <3>1, <3>2, <3>3
  <2> QED  BY <1>6, <2>1, <2>2, <2>3 DEF Indexes
<1>14. NotEnded(active', comms')
  <2>1. ASSUME NEW a \in active PROVE comms'[a.comm].step \in GoingOn
    BY <1>0, <1>8, <1>10 DEF NotEnded
  <2>2. ASSUME NEW a \in new PROVE comms'[a.comm].step \in GoingOn
    <3>1. PICK i \in 1 .. n : a.comm = Len(comms) + i
      BY <1>10
    <3>2. comms'[Len(comms) + i].step = "none"
      BY <1>7, <1>8
    <3> QED  BY <3>1, <3>2 DEF GoingOn
  <2> QED  BY <1>9, <2>1, <2>2 DEF NotEnded
<1>15. ASSUME CanConnect', NEW p \in ToSet(known'),
              p.state = "Disconnected", ~ p.unwanted, p.tried = "never"
       PROVE  FALSE
  <2>1. UNCHANGED <<connecting, running>>
    BY DEF CallConnectNext
  <2>2. CanConnect /\ n < Room
    <3>1. Cardinality(active) + n < MaxConnections /\ connecting /\ running
      BY <1>11, <1>15, <2>1 DEF CanConnect, Stopped
    <3>2. CanConnect
      BY <1>0, <1>3, <3>1 DEF CanConnect, Stopped
    <3> QED  BY <1>0, <1>3, <3>1, <3>2 DEF Room
  <2>3. PICK i \in DOMAIN known : p = known'[i]
    BY <1>6, <1>15 DEF ToSet
  <2>4. i - 1 \notin taken
    BY <1>6, <1>15, <2>3
  <2>5. i - 1 \in Wanted
    <3>1. i - 1 \in 0 .. Len(known) - 1 /\ (i - 1) + 1 = i
      BY <1>0
    <3> QED  BY <1>6, <1>15, <2>3, <2>4, <3>1 DEF Wanted, Connectable, Peer
  <2>6. Len(chosen) = n
    BY <1>3, MapIsSeq
  <2> QED  BY <1>1, <1>2, <1>3, <2>2, <2>4, <2>5, <2>6 DEF IsChosen, taken
<1>16. \A c \in DOMAIN comms' \ DOMAIN comms : comms'[c].step = "none"
  <2>1. ASSUME NEW c \in DOMAIN comms', c \notin DOMAIN comms PROVE comms'[c].step = "none"
    <3>1. c - Len(comms) \in 1 .. n /\ Len(comms) + (c - Len(comms)) = c
      BY <1>0, <1>3, <1>8, <2>1
    <3> QED  BY <1>7, <1>8, <3>1
  <2> QED  BY <2>1
<1> QED  BY <1>0, <1>3, <1>8, <1>12, <1>13, <1>14, <1>15, <1>16

-------------------------------------------------------------------------------
(* New addresses *)

\* What is kept of every place of a list but the flags.
SamePeers(list, old) ==
    /\ list \in Seq(PeerType) /\ Len(list) = Len(old) /\ DOMAIN list = DOMAIN old
    /\ \A i \in DOMAIN old :
          /\ list[i].address = old[i].address /\ list[i].state = old[i].state
          /\ list[i].unwanted = old[i].unwanted /\ list[i].tried = old[i].tried

LEMMA FlaggedIs ==
    ASSUME Tables, NEW P, NEW flagged,
           flagged = [i \in DOMAIN known |->
                         IF i \in P THEN [known[i] EXCEPT !.flags = TRUE] ELSE known[i]]
    PROVE  SamePeers(flagged, known)
<1>0. /\ Len(known) \in Nat /\ DOMAIN known = 1 .. Len(known)
      /\ \A i \in 1 .. Len(known) : known[i] \in PeerType
  BY LenProperties, ElementOfSeq DEF Tables
<1>1. ASSUME NEW i \in DOMAIN known
      PROVE  LET new == [known[i] EXCEPT !.flags = TRUE]
             IN /\ new \in PeerType
                /\ new.address = known[i].address /\ new.state = known[i].state
                /\ new.unwanted = known[i].unwanted /\ new.tried = known[i].tried
  BY <1>0 DEF PeerType
<1>2. flagged \in [1 .. Len(known) -> PeerType]
  BY <1>0, <1>1
<1>3. /\ flagged \in Seq(PeerType)
      /\ Len(flagged) = Len(known)
      /\ DOMAIN flagged = DOMAIN known
  BY <1>0, <1>2, MapIsSeq
<1> QED  BY <1>1, <1>3 DEF SamePeers

\* Connections and the places of the list moved up with them: those from k on, by n.
Up(idx, k, n) == IF idx >= k THEN idx + n ELSE idx

LEMMA MovedIs ==
    ASSUME Tables, NEW n \in Nat
    PROVE  /\ IsFiniteSet(Moved(n))
           /\ \A a \in active : [comm |-> a.comm, idx |-> Up(a.idx, connectIdx, n)] \in Moved(n)
           /\ \A b \in Moved(n) : \E a \in active :
                 b = [comm |-> a.comm, idx |-> Up(a.idx, connectIdx, n)]
<1> DEFINE m(a) == [comm |-> a.comm, idx |-> Up(a.idx, connectIdx, n)]
           f == [a \in active |-> m(a)]
<1>1. ASSUME NEW a \in active
      PROVE  [a EXCEPT !.idx = IF @ >= connectIdx THEN @ + n ELSE @] = m(a)
  <2>1. a = [comm |-> a.comm, idx |-> a.idx]
    BY DEF Tables
  <2> QED  BY <2>1 DEF Up
<1>2. Moved(n) = {m(a) : a \in active}
  <2>1. {[a EXCEPT !.idx = IF @ >= connectIdx THEN @ + n ELSE @] : a \in active}
           = {m(a) : a \in active}
    <3> HIDE DEF m
    <3> QED  BY <1>1, Zenon
  <2> QED  BY <2>1 DEF Moved
<1>3. f \in Surjection(active, Moved(n))
  BY <1>2 DEF Surjection
<1>4. IsFiniteSet(Moved(n))
  <2> HIDE DEF f
  <2> QED  BY <1>3, FS_Surjection DEF Tables
<1> QED  BY <1>2, <1>4

LEMMA UpdateKeeps ==
    ASSUME Tables, Indexes, due \in Nat, NEW list \in Lists, NEW source, NEW flags \in BOOLEAN,
           UpdateKnownPeers(list, source, flags), SameAddresses(comms', comms)
    PROVE  /\ Tables' /\ Indexes'
           /\ \A b \in active' : \E a \in active : b.comm = a.comm
           /\ \/ due' = due + 1
              \/ SamePeers(known', known) /\ active' = active /\ due' = due
<1>0. /\ Len(known) \in Nat /\ DOMAIN known = 1 .. Len(known) /\ connectIdx \in 0 .. Len(known)
      /\ \A a \in active : a.comm \in DOMAIN comms /\ a.idx \in 0 .. Len(known) - 1
  BY LenProperties DEF Tables
<1>9. /\ comms' \in Seq(CommType) /\ DOMAIN comms' = DOMAIN comms
      /\ \A c \in DOMAIN comms : comms'[c].address = comms[c].address
  BY DEF SameAddresses
<1> DEFINE marked == {i \in DOMAIN known :
                        /\ flags /\ i - 1 \in FirstOf(known[i].address)
                        /\ known[i].address \in ToSet(list)}
           flagged ==
               [i \in DOMAIN known |->
                   IF flags /\ i - 1 \in FirstOf(known[i].address)
                      /\ known[i].address \in ToSet(list)
                   THEN [known[i] EXCEPT !.flags = TRUE] ELSE known[i]]
           Added(new) == [i \in DOMAIN new |-> KnownPeer(new[i], "Disconnected", flags)]
<1>1. PICK new \in Lists \cup {<<>>} :
         \/ known' = flagged /\ UNCHANGED <<active, connectIdx, due>>
         \/ /\ due' = due + 1
            /\ \/ /\ known' = SubSeq(flagged, 1, connectIdx) \o Added(new)
                             \o SubSeq(flagged, connectIdx + 1, Len(known))
                  /\ active' = Moved(Len(new))
                  /\ UNCHANGED connectIdx
               \/ /\ connectIdx' = IF connectIdx = 0 THEN Len(known) ELSE connectIdx
                  /\ known' = flagged \o Added(new)
                  /\ UNCHANGED active
  BY DEF UpdateKnownPeers
<1>2. SamePeers(flagged, known)
  <2>1. flagged = [i \in DOMAIN known |->
                      IF i \in marked THEN [known[i] EXCEPT !.flags = TRUE] ELSE known[i]]
    OBVIOUS
  <2> HIDE DEF flagged, marked
  <2> QED  BY <2>1, FlaggedIs
<1> DEFINE n == Len(new)
           added == Added(new)
<1>3. n \in Nat /\ DOMAIN new = 1 .. n /\ \A i \in 1 .. n : new[i] \in Addresses
  BY DEF Lists
<1>4. added \in [1 .. n -> PeerType] /\ \A i \in 1 .. n : added[i].state = "Disconnected"
  BY <1>3 DEF KnownPeer, PeerType
<1> HIDE DEF flagged, marked, added, n
<1>5. /\ flagged \in Seq(PeerType) /\ Len(flagged) = Len(known) /\ DOMAIN flagged = DOMAIN known
      /\ \A i \in DOMAIN known :
            flagged[i].address = known[i].address /\ flagged[i].state = known[i].state
  BY <1>2 DEF SamePeers
<1>6. CASE known' = flagged /\ UNCHANGED <<active, connectIdx, due>>
  <2>1. Tables'
    BY <1>0, <1>5, <1>6, <1>9 DEF Tables
  <2>2. Indexes'
    <3>1. ASSUME NEW a \in active PROVE known'[a.idx + 1].address = comms'[a.comm].address
      <4>1. a.idx + 1 \in DOMAIN known
        BY <1>0
      <4> QED  BY <1>0, <1>5, <1>6, <1>9, <4>1 DEF Indexes
    <3>2. \A i \in DOMAIN known' :
             known'[i].state # "Disconnected" <=> \E a \in active : a.idx = i - 1
      BY <1>5, <1>6 DEF Indexes
    <3> QED  BY <1>6, <3>1, <3>2 DEF Indexes
  <2> QED  BY <1>2, <1>6, <2>1, <2>2
<1>7. CASE /\ due' = due + 1
           /\ connectIdx' = IF connectIdx = 0 THEN Len(known) ELSE connectIdx
           /\ known' = flagged \o added
           /\ UNCHANGED active
  <2>1. /\ known' \in Seq(PeerType) /\ Len(known') = Len(known) + n
        /\ DOMAIN known' = 1 .. Len(known) + n
        /\ \A i \in 1 .. Len(known) : known'[i] = flagged[i]
        /\ \A i \in 1 .. n : known'[Len(known) + i] = added[i]
    <3> DEFINE l == flagged \o added
    <3>1. added \in Seq(PeerType) /\ Len(added) = n
      BY <1>3, <1>4, MapIsSeq
    <3>3. /\ l \in Seq(PeerType) /\ Len(l) = Len(flagged) + Len(added)
          /\ DOMAIN l = 1 .. Len(flagged) + Len(added)
          /\ \A i \in 1 .. Len(flagged) : l[i] = flagged[i]
          /\ \A i \in 1 .. Len(added) : l[Len(flagged) + i] = added[i]
      <4>1. flagged \in Seq(PeerType)
        BY <1>5
      <4>2. added \in Seq(PeerType)
        BY <3>1
      <4> QED  BY <4>1, <4>2, ConcatIs
    <3> HIDE DEF l
    <3>2. known' = l
      BY <1>7 DEF l
    <3> QED  BY <1>5, <3>1, <3>2, <3>3
  <2>2. Tables'
    BY <1>0, <1>3, <1>7, <1>9, <2>1 DEF Tables
  <2>3. ASSUME NEW i \in DOMAIN known'
        PROVE  known'[i].state # "Disconnected" <=> \E a \in active : a.idx = i - 1
    <3>1. CASE i \in 1 .. Len(known)
      BY <1>0, <1>5, <2>1, <3>1 DEF Indexes
    <3>2. CASE i \notin 1 .. Len(known)
      <4>1. i - Len(known) \in 1 .. n /\ Len(known) + (i - Len(known)) = i
        BY <1>0, <1>3, <2>1, <3>2
      <4>2. known'[i].state = "Disconnected"
        BY <1>4, <2>1, <4>1
      <4>3. ~ \E a \in active : a.idx = i - 1
        BY <1>0, <1>3, <2>1, <3>2
      <4> QED  BY <4>2, <4>3
    <3> QED  BY <3>1, <3>2
  <2>4. ASSUME NEW a \in active PROVE known'[a.idx + 1].address = comms'[a.comm].address
    <3>1. a.idx + 1 \in 1 .. Len(known)
      BY <1>0
    <3>2. known'[a.idx + 1].address = known[a.idx + 1].address
      BY <1>0, <1>5, <2>1, <3>1
    <3> QED  BY <1>0, <1>9, <3>2 DEF Indexes
  <2> QED  BY <1>7, <2>2, <2>3, <2>4 DEF Indexes
<1>8. CASE /\ due' = due + 1
           /\ known' = SubSeq(flagged, 1, connectIdx) \o added
                          \o SubSeq(flagged, connectIdx + 1, Len(known))
           /\ active' = Moved(n)
           /\ UNCHANGED connectIdx
  <2> DEFINE k == connectIdx
             m == Len(known)
             At(a) == [comm |-> a.comm, idx |-> Up(a.idx, k, n)]
  <2>1. added \in Seq(PeerType) /\ Len(added) = n
    BY <1>3, <1>4, MapIsSeq
  <2>2. /\ known' \in Seq(PeerType) /\ Len(known') = m + n
        /\ \A i \in 1 .. k : known'[i] = flagged[i]
        /\ \A i \in 1 .. n : known'[k + i] = added[i]
        /\ \A i \in k + 1 .. m : known'[i + n] = flagged[i]
    <3> DEFINE l == SubSeq(flagged, 1, k) \o added \o SubSeq(flagged, k + 1, Len(flagged))
    <3>1. /\ l \in Seq(PeerType) /\ Len(l) = Len(flagged) + Len(added)
          /\ \A i \in 1 .. k : l[i] = flagged[i]
          /\ \A i \in 1 .. Len(added) : l[k + i] = added[i]
          /\ \A i \in k + 1 .. Len(flagged) : l[i + Len(added)] = flagged[i]
      <4>1. /\ flagged \in Seq(PeerType)
            /\ k \in 0 .. Len(flagged)
            /\ added \in Seq(PeerType)
        BY <1>0, <1>5, <2>1
      <4> QED  BY <4>1, InsertIs
    <3>2. known' = l
      BY <1>5, <1>8
    <3> HIDE DEF l
    <3> QED  BY <1>5, <2>1, <3>1, <3>2
  <2>3. DOMAIN known' = 1 .. m + n
    BY <2>2, LenProperties
  <2>4. /\ IsFiniteSet(active') /\ \A a \in active : At(a) \in active'
        /\ \A b \in active' : \E a \in active : b = At(a)
    BY <1>3, <1>8, MovedIs
  <2>5. ASSUME NEW a \in active
        PROVE  /\ At(a).comm = a.comm /\ At(a).idx = Up(a.idx, k, n)
               /\ Up(a.idx, k, n) \in 0 .. m + n - 1
               /\ At(a) \in [comm : DOMAIN comms', idx : 0 .. Len(known') - 1]
    <3>1. Up(a.idx, k, n) \in 0 .. m + n - 1
      BY <1>0, <1>3 DEF Up
    <3>2. a.comm \in DOMAIN comms' /\ Up(a.idx, k, n) \in 0 .. Len(known') - 1
      <4>1. a.comm \in DOMAIN comms'
        BY <1>0, <1>9
      <4>2. 0 .. m + n - 1 = 0 .. Len(known') - 1
        <5>1. Len(known') = m + n
          BY <2>2
        <5> QED  BY <1>0, <1>3, <5>1
      <4> QED  BY <3>1, <4>1, <4>2
    <3> QED  BY <3>1, <3>2
  <2>6. \A i \in 1 .. m : known'[Up(i - 1, k, n) + 1] = flagged[i]
    <3> TAKE i \in 1 .. m
    <3>1. CASE i - 1 >= k
      <4>1. i \in k + 1 .. m /\ Up(i - 1, k, n) + 1 = i + n
        BY <1>0, <1>3, <3>1 DEF Up
      <4> QED  BY <2>2, <4>1
    <3>2. CASE ~ (i - 1 >= k)
      <4>1. i \in 1 .. k /\ Up(i - 1, k, n) + 1 = i
        BY <1>0, <3>2 DEF Up
      <4> QED  BY <2>2, <4>1
    <3> QED  BY <3>1, <3>2
  <2>7. Tables'
    <3>1. active' \subseteq [comm : DOMAIN comms', idx : 0 .. Len(known') - 1]
      BY <2>4, <2>5
    <3>2. connectIdx' \in 0 .. Len(known')
      <4>1. k \in 0 .. m + n
        BY <1>0, <1>3
      <4> QED  BY <1>8, <2>2, <4>1
    <3> QED  BY <1>9, <2>2, <2>4, <3>1, <3>2 DEF Tables
  <2>8. ASSUME NEW b \in active' PROVE known'[b.idx + 1].address = comms'[b.comm].address
    <3>1. PICK a \in active : b = At(a)
      BY <2>4
    <3>2. a.idx + 1 \in 1 .. m /\ (a.idx + 1) - 1 = a.idx
      BY <1>0
    <3>3. known'[b.idx + 1] = flagged[a.idx + 1]
      BY <2>5, <2>6, <3>1, <3>2
    <3> QED  BY <1>0, <1>5, <1>9, <2>5, <3>1, <3>2, <3>3 DEF Indexes
  <2>9. ASSUME NEW i \in DOMAIN known'
        PROVE  known'[i].state # "Disconnected" <=> \E b \in active' : b.idx = i - 1
    <3>1. CASE i \in k + 1 .. k + n
      <4>1. i - k \in 1 .. n /\ k + (i - k) = i
        BY <1>0, <1>3, <3>1
      <4>2. known'[i].state = "Disconnected"
        BY <1>4, <2>2, <4>1
      <4>3. ASSUME NEW b \in active' PROVE b.idx # i - 1
        <5>1. PICK a \in active : b = At(a)
          BY <2>4
        <5> QED  BY <1>0, <1>3, <2>5, <3>1, <5>1 DEF Up
      <4> QED  BY <4>2, <4>3
    <3>2. CASE i \notin k + 1 .. k + n
      <4>1. PICK j \in 1 .. m : Up(j - 1, k, n) + 1 = i
        <5>1. CASE i <= k
          <6>1. i \in 1 .. m /\ Up(i - 1, k, n) + 1 = i
            BY <1>0, <2>3, <5>1 DEF Up
          <6> QED  BY <6>1
        <5>2. CASE ~ (i <= k)
          <6>1. i - n \in 1 .. m /\ Up((i - n) - 1, k, n) + 1 = i
            BY <1>0, <1>3, <2>3, <3>2, <5>2 DEF Up
          <6> QED  BY <6>1
        <5> QED  BY <5>1, <5>2
      <4>2. known'[i].state # "Disconnected" <=> \E a \in active : a.idx = j - 1
        BY <1>0, <1>5, <2>6, <4>1 DEF Indexes
      <4>3. ASSUME NEW a \in active PROVE Up(a.idx, k, n) = i - 1 <=> a.idx = j - 1
        <5>1. i \in Nat /\ k \in Nat /\ a.idx \in Nat
          BY <1>0, <2>3
        <5>2. j \in Nat /\ n \in Nat /\ Up(j - 1, k, n) = i - 1
          <6>1. Up(j - 1, k, n) \in Int
            BY <1>0, <1>3 DEF Up
          <6> QED  BY <1>0, <1>3, <4>1, <5>1, <6>1
        <5> QED  BY <5>1, <5>2 DEF Up
      <4> QED  BY <2>4, <2>5, <4>2, <4>3
    <3> QED  BY <3>1, <3>2
  <2>10. ASSUME NEW b \in active', NEW c \in active', b.idx = c.idx \/ b.comm = c.comm
         PROVE  b = c
    <3>1. PICK a \in active : b = At(a)
      BY <2>4
    <3>2. PICK d \in active : c = At(d)
      BY <2>4
    <3>3. Up(a.idx, k, n) = Up(d.idx, k, n) => a.idx = d.idx
      BY <1>0, <1>3 DEF Up
    <3>4. a = d
      BY <2>5, <2>10, <3>1, <3>2, <3>3 DEF Indexes
    <3> QED  BY <3>1, <3>2, <3>4
  <2>11. \A b \in active' : \E a \in active : b.comm = a.comm
    BY <2>4, <2>5
  <2> QED  BY <1>8, <2>7, <2>8, <2>9, <2>10, <2>11 DEF Indexes
<1> QED  BY <1>1, <1>6, <1>7, <1>8 DEF n, added

-------------------------------------------------------------------------------
(* connect() and add() *)

LEMMA PlaceIs ==
    ASSUME NEW m \in Nat, NEW i \in 0 .. m - 1
    PROVE  i \in 0 .. m /\ i \in Nat /\ i + 1 \in 1 .. m
OBVIOUS

LEMMA Longer ==
    ASSUME NEW m \in Nat, NEW n \in Nat, NEW k, 1 .. n = 1 .. m \cup {k}
    PROVE  m <= n
<1>1. m = 0 \/ m \in 1 .. n
  OBVIOUS
<1> QED  BY <1>1

\* One more connection, at a place where none is.
LEMMA AddedKeeps ==
    ASSUME Tables, Indexes, NEW idx \in 0 .. Len(known), NEW cm \in CommType,
           known' \in Seq(PeerType), DOMAIN known' = DOMAIN known \cup {idx + 1},
           \A i \in DOMAIN known : i # idx + 1 => known'[i] = known[i],
           known'[idx + 1].address = cm.address, known'[idx + 1].state # "Disconnected",
           \A a \in active : a.idx # idx,
           comms' = Append(comms, cm), connectIdx' = connectIdx,
           active' = active \cup {[comm |-> Len(comms) + 1, idx |-> idx]}
    PROVE  /\ Tables' /\ Indexes'
           /\ DOMAIN comms' = DOMAIN comms \cup {Len(comms) + 1}
           /\ \A c \in DOMAIN comms : comms'[c] = comms[c]
           /\ comms'[Len(comms) + 1] = cm
<1>0. /\ Len(known) \in Nat /\ DOMAIN known = 1 .. Len(known)
      /\ Len(comms) \in Nat /\ DOMAIN comms = 1 .. Len(comms)
      /\ connectIdx \in 0 .. Len(known)
      /\ \A a \in active : a.comm \in 1 .. Len(comms) /\ a.idx \in 0 .. Len(known) - 1
  BY LenProperties DEF Tables
<1> DEFINE n == Len(comms) + 1
           new == [comm |-> n, idx |-> idx]
<1>1. /\ comms' \in Seq(CommType) /\ DOMAIN comms' = 1 .. n /\ comms'[n] = cm
      /\ \A c \in DOMAIN comms : comms'[c] = comms[c]
  <2>1. /\ Append(comms, cm) \in Seq(CommType) /\ Len(Append(comms, cm)) = Len(comms) + 1
        /\ \A c \in 1 .. Len(comms) : Append(comms, cm)[c] = comms[c]
        /\ Append(comms, cm)[Len(comms) + 1] = cm
    BY AppendProperties DEF Tables
  <2>2. DOMAIN comms' = 1 .. Len(comms')
    BY <2>1, LenProperties
  <2> QED  BY <1>0, <2>1, <2>2
<1>2. /\ Len(known') \in Nat
      /\ DOMAIN known' = 1 .. Len(known')
      /\ Len(known) <= Len(known')
  <2>1. Len(known') \in Nat /\ DOMAIN known' = 1 .. Len(known')
    BY LenProperties
  <2>2. 1 .. Len(known') = 1 .. Len(known) \cup {idx + 1}
    BY <1>0, <2>1
  <2> QED  BY <1>0, <2>1, <2>2, Longer
<1>3. IsFiniteSet(active')
  BY FS_AddElement DEF Tables
<1>4. /\ new.comm = n /\ new.idx = idx /\ active' = active \cup {new}
      /\ \A a \in active : a.comm # n /\ a.idx # idx
  BY <1>0
<1> HIDE DEF new
<1>5. Tables'
  <2>1. active \subseteq [comm : DOMAIN comms', idx : 0 .. Len(known') - 1]
    <3>1. /\ DOMAIN comms \subseteq DOMAIN comms'
          /\ 0 .. Len(known) - 1 \subseteq 0 .. Len(known') - 1
      BY <1>0, <1>1, <1>2
    <3> QED  BY <3>1 DEF Tables
  <2>2. new \in [comm : DOMAIN comms', idx : 0 .. Len(known') - 1]
    <3>1. n \in DOMAIN comms' /\ idx \in 0 .. Len(known') - 1
      <4>1. idx + 1 \in 1 .. Len(known')
        BY <1>2
      <4> QED  BY <1>0, <1>1, <1>2, <4>1
    <3> QED  BY <3>1 DEF new
  <2>3. connectIdx' \in 0 .. Len(known')
    BY <1>0, <1>2
  <2> QED  BY <1>1, <1>3, <1>4, <2>1, <2>2, <2>3 DEF Tables
<1>6. Indexes'
  <2>1. ASSUME NEW a \in active' PROVE known'[a.idx + 1].address = comms'[a.comm].address
    <3>1. CASE a \in active
      <4>1. a.idx + 1 \in DOMAIN known /\ a.idx + 1 # idx + 1 /\ a.comm \in DOMAIN comms
        BY <1>0, <1>4, <3>1
      <4>2. known'[a.idx + 1] = known[a.idx + 1] /\ comms'[a.comm] = comms[a.comm]
        BY <1>1, <4>1
      <4> QED  BY <3>1, <4>2 DEF Indexes
    <3>2. CASE a = new
      BY <1>1, <1>4, <3>2
    <3> QED  BY <1>4, <3>1, <3>2
  <2>2. ASSUME NEW i \in DOMAIN known'
        PROVE  known'[i].state # "Disconnected" <=> \E a \in active' : a.idx = i - 1
    <3>1. CASE i = idx + 1
      <4>1. new \in active' /\ new.idx = i - 1
        BY <1>4, <3>1
      <4> QED  BY <3>1, <4>1
    <3>2. CASE i # idx + 1
      <4>1. i \in DOMAIN known /\ new.idx # i - 1
        BY <1>0, <1>4, <3>2
      <4>2. known[i].state # "Disconnected" <=> \E a \in active : a.idx = i - 1
        BY <4>1 DEF Indexes
      <4> QED  BY <1>4, <3>2, <4>1, <4>2
    <3> QED  BY <3>1, <3>2
  <2>3. ASSUME NEW a \in active', NEW b \in active', a.idx = b.idx \/ a.comm = b.comm
        PROVE  a = b
    BY <1>4, <2>3 DEF Indexes
  <2> QED  BY <2>1, <2>2, <2>3 DEF Indexes
<1>7. DOMAIN comms' = DOMAIN comms \cup {n}
  BY <1>0, <1>1
<1> QED  BY <1>1, <1>5, <1>6, <1>7

\* One more connection that has not ended, the others as they were.
OneMore ==
    \E c : /\ DOMAIN comms' = DOMAIN comms \cup {c} /\ c \notin DOMAIN comms
           /\ comms'[c].step = "none"
           /\ \A d \in DOMAIN comms : comms'[d] = comms[d]
           /\ \A a \in active' \ active : a.comm = c
           /\ active \subseteq active'

LEMMA ConnectKeeps ==
    ASSUME Tables, Indexes, NEW address \in Addresses,
           NEW kind \in {"manual", "punch"}, Connect(address, kind)
    PROVE  Tables' /\ Indexes' /\ (Left(known') => Left(known)) /\ OneMore
<1>0. /\ Len(known) \in Nat /\ DOMAIN known = 1 .. Len(known)
      /\ Len(comms) \in Nat /\ DOMAIN comms = 1 .. Len(comms)
      /\ \A i \in 1 .. Len(known) : known[i] \in PeerType
      /\ \A a \in active : a.comm \in 1 .. Len(comms) /\ a.idx \in 0 .. Len(known) - 1
  BY LenProperties, ElementOfSeq DEF Tables
<1> DEFINE cm == Comm(address, kind)
           List(idx) == IF idx = Len(known)
                        THEN Append(known, KnownPeer(address, "Disconnected", FALSE)) ELSE known
<1>1. PICK idx \in (IF Knows(address) THEN FirstOf(address) ELSE {Len(known)}) :
         /\ known' = Try(List(idx), {idx})
         /\ comms' = Append(comms, cm)
         /\ active' = active \cup {[comm |-> Len(comms) + 1, idx |-> idx]}
  BY DEF Connect
<1> DEFINE list == List(idx)
           new == KnownPeer(address, "Disconnected", FALSE)
<1>2. /\ idx \in 0 .. Len(known) /\ idx \in Nat
      /\ idx # Len(known) => known[idx + 1].address = address /\ idx + 1 \in 1 .. Len(known)
  <2>1. CASE Knows(address)
    <3>1. idx \in 0 .. Len(known) - 1 /\ known[idx + 1].address = address
      BY <1>1, <2>1 DEF FirstOf, Peer
    <3>2. idx \in 0 .. Len(known) /\ idx \in Nat /\ idx + 1 \in 1 .. Len(known)
      BY <1>0, <3>1, PlaceIs
    <3> QED  BY <3>1, <3>2
  <2>2. CASE ~ Knows(address)
    <3>1. idx = Len(known)
      BY <1>1, <2>2
    <3> QED  BY <1>0, <3>1
  <2> QED  BY <2>1, <2>2
<1>3. new \in PeerType /\ new.address = address
  BY DEF KnownPeer, PeerType
<1>4. cm \in CommType /\ cm.address = address /\ cm.step = "none"
  BY DEF Comm, CommType
<1>5. /\ list \in Seq(PeerType) /\ DOMAIN list = DOMAIN known \cup {idx + 1}
      /\ list[idx + 1].address = address
      /\ \A i \in DOMAIN known : list[i] = known[i]
  <2>1. CASE idx = Len(known)
    <3> HIDE DEF new
    <3>1. /\ Append(known, new) \in Seq(PeerType) /\ Len(Append(known, new)) = Len(known) + 1
          /\ \A i \in 1 .. Len(known) : Append(known, new)[i] = known[i]
          /\ Append(known, new)[Len(known) + 1] = new
      BY <1>3, AppendProperties DEF Tables
    <3>2. DOMAIN Append(known, new) = 1 .. Len(known) + 1
      BY <3>1, LenProperties
    <3>3. list = Append(known, new)
      BY <2>1 DEF new
    <3> HIDE DEF list
    <3> QED  BY <1>0, <1>3, <2>1, <3>1, <3>2, <3>3
  <2>2. CASE idx # Len(known)
    <3>0. list = known
      BY <2>2
    <3>1. idx + 1 \in DOMAIN known /\ list = known
      BY <1>0, <1>2, <2>2, <3>0
    <3> HIDE DEF list
    <3> QED  BY <1>2, <2>2, <3>1 DEF Tables
  <2> QED  BY <2>1, <2>2
<1> HIDE DEF list, new, cm
<1>6. /\ known' \in Seq(PeerType) /\ DOMAIN known' = DOMAIN list
      /\ known'[idx + 1].address = address /\ known'[idx + 1].state = "Connecting"
      /\ known'[idx + 1].tried = "lately"
      /\ \A i \in DOMAIN known : i # idx + 1 => known'[i] = known[i]
  <2>0. /\ Len(list) \in Nat /\ DOMAIN list = 1 .. Len(list)
        /\ \A i \in 1 .. Len(list) : list[i] \in PeerType
    BY <1>5, LenProperties, ElementOfSeq
  <2>1. ASSUME NEW i \in DOMAIN list
        PROVE  LET tried == [list[i] EXCEPT !.state = "Connecting", !.tried = "lately"]
               IN /\ tried \in PeerType /\ tried.address = list[i].address
                  /\ tried.state = "Connecting" /\ tried.tried = "lately"
    BY <2>0 DEF PeerType
  <2>2. known' = [i \in DOMAIN list |->
            IF i - 1 \in {idx} THEN [list[i] EXCEPT !.state = "Connecting", !.tried = "lately"]
            ELSE list[i]]
    BY <1>1 DEF Try, list
  <2>3. known' \in [1 .. Len(list) -> PeerType]
    BY <2>0, <2>1, <2>2
  <2>4. known' \in Seq(PeerType) /\ DOMAIN known' = DOMAIN list
    BY <2>0, <2>3, MapIsSeq
  <2>5. idx + 1 \in DOMAIN list /\ (idx + 1) - 1 = idx
    BY <1>2, <1>5
  <2>6. ASSUME NEW i \in DOMAIN known, i # idx + 1 PROVE i - 1 # idx
    <3>1. i \in Nat
      BY <1>0
    <3> QED  BY <1>2, <2>6, <3>1
  <2> QED  BY <1>5, <2>1, <2>2, <2>4, <2>5, <2>6
<1>7. \A a \in active : a.idx # idx
  <2> TAKE a \in active
  <2>1. ~ \E b \in active : comms[b.comm].address = address
    BY DEF Connect
  <2>2. known[a.idx + 1].address # address
    BY <2>1 DEF Indexes
  <2>3. a.idx # Len(known)
    BY <1>0
  <2> QED  BY <1>2, <2>2, <2>3
<1>8. /\ Tables' /\ Indexes'
      /\ DOMAIN comms' = DOMAIN comms \cup {Len(comms) + 1}
      /\ \A c \in DOMAIN comms : comms'[c] = comms[c]
      /\ comms'[Len(comms) + 1] = cm
  <2>1. connectIdx' = connectIdx
    BY DEF Connect
  <2> QED  BY <1>1, <1>2, <1>4, <1>5, <1>6, <1>7, <2>1, AddedKeeps
<1>9. Left(known') => Left(known)
  <2>1. \A i \in DOMAIN known' : known'[i].tried = "never" =>
           i \in DOMAIN known /\ known'[i] = known[i]
    BY <1>5, <1>6
  <2> QED  BY <2>1 DEF Left
<1>10. OneMore
  <2>1. Len(comms) + 1 \notin DOMAIN comms
    BY <1>0
  <2>2. \A a \in active' \ active : a.comm = Len(comms) + 1
    BY <1>1
  <2> QED  BY <1>1, <1>4, <1>8, <2>1, <2>2 DEF OneMore
<1> QED  BY <1>8, <1>9, <1>10

LEMMA AddKeeps ==
    ASSUME Tables, Indexes, Add
    PROVE  Tables' /\ Indexes' /\ (Left(known') => Left(known)) /\ OneMore
<1>0. /\ Len(known) \in Nat /\ DOMAIN known = 1 .. Len(known)
      /\ Len(comms) \in Nat /\ DOMAIN comms = 1 .. Len(comms)
      /\ \A a \in active : a.comm \in 1 .. Len(comms) /\ a.idx \in 0 .. Len(known) - 1
  BY LenProperties DEF Tables
<1> DEFINE cm == Comm("in", "remote")
           new == KnownPeer("in", "Connected", FALSE)
<1>1. /\ known' = Append(known, new) /\ comms' = Append(comms, cm) /\ connectIdx' = connectIdx
      /\ active' = active \cup {[comm |-> Len(comms) + 1, idx |-> Len(known)]}
  BY DEF Add
<1>2. new \in PeerType /\ new.address = "in" /\ new.state = "Connected"
  BY DEF KnownPeer, PeerType
<1>3. cm \in CommType /\ cm.address = "in" /\ cm.step = "none"
  BY DEF Comm, CommType
<1> HIDE DEF cm, new
<1>4. /\ known' \in Seq(PeerType) /\ DOMAIN known' = DOMAIN known \cup {Len(known) + 1}
      /\ known'[Len(known) + 1] = new /\ \A i \in DOMAIN known : known'[i] = known[i]
  <2>1. /\ Append(known, new) \in Seq(PeerType) /\ Len(Append(known, new)) = Len(known) + 1
        /\ \A i \in 1 .. Len(known) : Append(known, new)[i] = known[i]
        /\ Append(known, new)[Len(known) + 1] = new
    BY <1>2, AppendProperties DEF Tables
  <2>2. DOMAIN Append(known, new) = 1 .. Len(known) + 1
    BY <2>1, LenProperties
  <2> QED  BY <1>0, <1>1, <2>1, <2>2
<1>5. /\ Tables' /\ Indexes'
      /\ DOMAIN comms' = DOMAIN comms \cup {Len(comms) + 1}
      /\ \A c \in DOMAIN comms : comms'[c] = comms[c]
      /\ comms'[Len(comms) + 1] = cm
  <2>1. Len(known) \in 0 .. Len(known) /\ \A a \in active : a.idx # Len(known)
    BY <1>0
  <2> QED  BY <1>1, <1>2, <1>3, <1>4, <2>1, AddedKeeps
<1>6. Left(known') => Left(known)
  <2>1. \A i \in DOMAIN known' : known'[i].state = "Disconnected" =>
           i \in DOMAIN known /\ known'[i] = known[i]
    BY <1>2, <1>4
  <2> QED  BY <2>1 DEF Left
<1>7. OneMore
  <2>1. Len(comms) + 1 \notin DOMAIN comms
    BY <1>0
  <2>2. \A a \in active' \ active : a.comm = Len(comms) + 1
    BY <1>1
  <2> QED  BY <1>1, <1>3, <1>5, <2>1, <2>2 DEF OneMore
<1> QED  BY <1>5, <1>6, <1>7

-------------------------------------------------------------------------------
(* What one step of a callback does. *)

LEMMA StillTold ==
    ASSUME NoPeerForgotten, Left(known') => Left(known), NobodyCalls' => NobodyCalls
    PROVE  NoPeerForgotten'
BY DEF NoPeerForgotten, Left, NobodyCalls, ToSet

LEMMA NobodyIsLeft ==
    ASSUME NobodyCalls' => ~ Left(known')
    PROVE  NoPeerForgotten'
BY DEF NoPeerForgotten, Left, NobodyCalls, ToSet

LEMMA ListsKept ==
    ASSUME Tables, Indexes, UNCHANGED <<known, active, connectIdx>>,
           SameAddresses(comms', comms)
    PROVE  Tables' /\ Indexes'
<1>1. \A a \in active : a.comm \in DOMAIN comms
  BY DEF Tables
<1> QED  BY <1>1 DEF Tables, Indexes, SameAddresses

LEMMA CommReplaced ==
    ASSUME Tables, NEW c \in DOMAIN comms, NEW new \in CommType,
           new.address = comms[c].address, comms' = [comms EXCEPT ![c] = new]
    PROVE  /\ SameAddresses(comms', comms) /\ comms'[c] = new
           /\ \A d \in DOMAIN comms : d # c => comms'[d] = comms[d]
<1>1. comms \in Seq(CommType) /\ DOMAIN comms = 1 .. Len(comms) /\ Len(comms) \in Nat
  BY LenProperties DEF Tables
<1>2. comms' \in Seq(CommType) /\ DOMAIN comms' = DOMAIN comms
  <2>1. \A d \in 1 .. Len(comms) : comms[d] \in CommType
    BY <1>1, ElementOfSeq
  <2>2. comms' \in [1 .. Len(comms) -> CommType]
    BY <1>1, <2>1
  <2> QED  BY <1>1, <2>2, MapIsSeq
<1> QED  BY <1>2 DEF SameAddresses

\* One connection gets another step, and keeps its address and how it entered.
Stepped(c, to) ==
    /\ SameAddresses(comms', comms)
    /\ comms'[c].step = to /\ comms'[c].late = comms[c].late
    /\ \A d \in DOMAIN comms : d # c => comms'[d] = comms[d]

LEMMA CommSet ==
    ASSUME Tables, NEW c \in DOMAIN comms, NEW new \in CommType,
           new.address = comms[c].address, new.late = comms[c].late,
           comms' = [comms EXCEPT ![c] = new]
    PROVE  Stepped(c, new.step)
BY CommReplaced DEF Stepped

LEMMA StepOfIs ==
    ASSUME Tables, NEW c \in DOMAIN comms, NEW from, NEW to,
           to \in {"none", "message", "entering", "punchable", "removed", "tell closed",
                   "last call", "gone"},
           StepOf(c, from, to)
    PROVE  Stepped(c, to) /\ comms[c].step = from
<1> DEFINE new == [comms[c] EXCEPT !.step = to]
<1>1. comms[c] \in CommType
  BY ElementOfSeq, LenProperties DEF Tables
<1>2. /\ new \in CommType /\ new.address = comms[c].address /\ new.step = to
      /\ new.late = comms[c].late
  BY <1>1 DEF CommType
<1>3. comms' = [comms EXCEPT ![c] = new]
  BY DEF StepOf
<1> HIDE DEF new
<1> QED  BY <1>2, <1>3, CommSet DEF StepOf

\* A connection that is not active, or goes on as active, takes its step.
LEMMA SteppedKeeps ==
    ASSUME Alive, Tables, NEW c \in DOMAIN comms, NEW to, Stepped(c, to),
           active' \subseteq active,
           to \in GoingOn \/ \A a \in active' : a.comm # c
    PROVE  NotEnded(active', comms')
BY DEF Alive, NotEnded, Stepped, Tables

\* Some places of the list hold other peers of the same address.
LEMMA RestatedIs ==
    ASSUME Tables, NEW P, NEW new,
           \A i \in DOMAIN known : new[i] \in PeerType /\ new[i].address = known[i].address,
           known' = [i \in DOMAIN known |-> IF i \in P THEN new[i] ELSE known[i]]
    PROVE  /\ known' \in Seq(PeerType) /\ Len(known') = Len(known) /\ DOMAIN known' = DOMAIN known
           /\ \A i \in DOMAIN known : known'[i].address = known[i].address
<1>0. /\ Len(known) \in Nat /\ DOMAIN known = 1 .. Len(known)
      /\ \A i \in 1 .. Len(known) : known[i] \in PeerType
  BY LenProperties, ElementOfSeq DEF Tables
<1>2. known' \in [1 .. Len(known) -> PeerType]
  BY <1>0
<1>3. /\ known' \in Seq(PeerType)
      /\ Len(known') = Len(known)
      /\ DOMAIN known' = DOMAIN known
  BY <1>0, <1>2, MapIsSeq
<1> QED  BY <1>3

LEMMA PeersHaveType ==
    ASSUME Tables
    PROVE  \A i \in DOMAIN known : known[i] \in PeerType
BY LenProperties, ElementOfSeq DEF Tables

-------------------------------------------------------------------------------
(* Each action keeps the invariant. *)

LEMMA HandshakeKeeps ==
    ASSUME PeersInv, NEW c \in DOMAIN comms, HandshakeFinished(c)
    PROVE  PeersInv'
<1> USE DEF PeersInv
<1> DEFINE P == {i \in DOMAIN known : \E a \in ActiveOf(c) : a.idx = i - 1}
<1>1. comms[c] \in CommType
  BY ElementOfSeq, LenProperties DEF Tables
<1>2. Stepped(c, "none") /\ comms[c].step = "none"
  <2> DEFINE new == [comms[c] EXCEPT !.phase = "established", !.step = "none"]
  <2>1. /\ new \in CommType /\ new.address = comms[c].address /\ new.step = "none"
        /\ new.late = comms[c].late
    BY <1>1 DEF CommType
  <2>2. comms' = [comms EXCEPT ![c] = new]
    BY DEF HandshakeFinished
  <2> HIDE DEF new
  <2>3. Stepped(c, "none")
    BY <2>1, <2>2, CommSet
  <2> QED  BY <2>3 DEF HandshakeFinished
<1>3. /\ known' \in Seq(PeerType) /\ Len(known') = Len(known) /\ DOMAIN known' = DOMAIN known
      /\ \A i \in DOMAIN known :
            /\ known'[i].address = known[i].address /\ known'[i].unwanted = known[i].unwanted
            /\ known'[i].state = IF i \in P THEN "Connected" ELSE known[i].state
            /\ known'[i].tried = known[i].tried
  <2> DEFINE new == [i \in DOMAIN known |-> [known[i] EXCEPT !.state = "Connected"]]
  <2>1. ASSUME NEW i \in DOMAIN known
        PROVE  /\ new[i] \in PeerType /\ new[i].address = known[i].address
               /\ new[i].unwanted = known[i].unwanted /\ new[i].tried = known[i].tried
               /\ new[i].state = "Connected"
    <3>1. known[i] \in PeerType
      BY PeersHaveType
    <3> QED  BY <3>1 DEF PeerType
  <2>2. known' = [i \in DOMAIN known |-> IF i \in P THEN new[i] ELSE known[i]]
    BY DEF HandshakeFinished
  <2> HIDE DEF P, new
  <2>3. /\ known' \in Seq(PeerType) /\ Len(known') = Len(known) /\ DOMAIN known' = DOMAIN known
        /\ \A i \in DOMAIN known : known'[i].address = known[i].address
    <3>1. \A i \in DOMAIN known : new[i] \in PeerType /\ new[i].address = known[i].address
      BY <2>1
    <3>2. Tables
      OBVIOUS
    <3> HIDE DEF PeersInv
    <3> QED  BY <2>2, <3>1, <3>2, RestatedIs
  <2> QED  BY <2>1, <2>2, <2>3
<1>4. \A i \in P : known[i].state # "Disconnected" /\ \E a \in active : a.idx = i - 1
  BY DEF ActiveOf, Indexes
<1> HIDE DEF P
<1>5. UNCHANGED <<active, connectIdx, connecting, running, transferring, control, listener,
                  heard, due, asking, dht, rendezvous, plan>>
  BY DEF HandshakeFinished
<1>6. Tables'
  BY <1>2, <1>3, <1>5 DEF Tables, Stepped, SameAddresses
<1>7. Indexes'
  <2>1. \A a \in active : known'[a.idx + 1].address = comms'[a.comm].address
    <3> TAKE a \in active
    <3>1. a.idx + 1 \in DOMAIN known /\ a.comm \in DOMAIN comms
      BY LenProperties DEF Tables
    <3> QED  BY <1>2, <1>3, <3>1 DEF Indexes, Stepped, SameAddresses
  <2>2. ASSUME NEW i \in DOMAIN known'
        PROVE  known'[i].state # "Disconnected" <=> \E a \in active' : a.idx = i - 1
    BY <1>3, <1>4, <1>5 DEF Indexes
  <2> QED  BY <1>5, <2>1, <2>2 DEF Indexes
<1>8. Alive'
  <2>1. NotEnded(active', comms')
    BY <1>2, <1>5, SteppedKeeps DEF GoingOn
  <2> QED  BY <1>2, <1>5, <2>1 DEF Alive, HeardIsAlive, Stepped, Flags
<1>9. NoPeerForgotten'
  <2>1. Left(known') => Left(known)
    BY <1>3, <1>4 DEF Left
  <2>2. NobodyCalls' => NobodyCalls
    <3> QED
      BY <1>2, <1>5
         DEF NobodyCalls, CanConnect, Stopped, Stepped, SameAddresses
  <2> QED  BY <2>1, <2>2, StillTold
<1> QED
  BY <1>2, <1>5, <1>6, <1>7, <1>8, <1>9
     DEF Flags, DhtSearches, Stepped, SameAddresses

\* A step of a callback that touches no list and ends no call of connectNext.
LEMMA CallbackKeeps ==
    ASSUME PeersInv, NEW c \in DOMAIN comms, NEW to, Stepped(c, to),
           to \in GoingOn \/ comms[c].step \notin GoingOn,
           comms[c].step # "removed", comms[c].step = "punchable" => to = "removed",
           UNCHANGED <<known, active, connectIdx, connecting, running, transferring, control,
                       listener, due, asking, dht>>,
           heard' \subseteq heard,
           to = "gone" => ~ listener \/ c \notin heard',
           rendezvous' \subseteq Addresses
    PROVE  PeersInv'
<1> USE DEF PeersInv
<1>1. Tables' /\ Indexes'
  BY ListsKept DEF Stepped
<1>2. Alive'
  <2>1. NotEnded(active', comms')
    <3>1. to \in GoingOn \/ \A a \in active : a.comm # c
      BY DEF Alive, NotEnded
    <3> QED  BY <3>1, SteppedKeeps
  <2>2. heard \subseteq DOMAIN comms
    BY DEF Flags
  <2>3. \A d \in heard : comms'[d].late = comms[d].late
    BY <2>2 DEF Stepped
  <2>4. HeardIsAlive'
    BY <2>2, <2>3 DEF Alive, HeardIsAlive, Stepped
  <2> QED  BY <2>1, <2>3, <2>4 DEF Alive
<1>3. NoPeerForgotten'
  <2>1. NobodyCalls' => NobodyCalls
    BY DEF NobodyCalls, CanConnect, Stopped, Stepped, SameAddresses
  <2> QED  BY <2>1, StillTold
<1> QED  BY <1>1, <1>2, <1>3 DEF Flags, DhtSearches, Stepped, SameAddresses

LEMMA MessageKeeps ==
    ASSUME PeersInv, NEW c \in DOMAIN comms, LoadListener(c) \/ TestTimer(c)
    PROVE  PeersInv'
<1>1. PICK to \in {"none", "message", "entering"} : \E from \in {"none", "message"} :
         StepOf(c, from, to)
  BY DEF LoadListener, TestTimer
<1>2. PICK from \in {"none", "message"} : StepOf(c, from, to)
  BY <1>1
<1>3. Stepped(c, to) /\ comms[c].step = from
  BY <1>2, StepOfIs DEF PeersInv
<1>4. /\ UNCHANGED <<known, active, connectIdx, connecting, running, transferring, control,
                     listener, due, asking, dht>>
      /\ heard' \subseteq heard /\ rendezvous' \subseteq Addresses
  BY DEF LoadListener, TestTimer, PeersInv, Flags
<1> QED  BY <1>3, <1>4, CallbackKeeps DEF GoingOn

LEMMA EnterPeerKeeps ==
    ASSUME PeersInv, NEW c \in DOMAIN comms, EnterPeer(c)
    PROVE  PeersInv'
<1> USE DEF PeersInv
<1> DEFINE new == [comms[c] EXCEPT !.step = "none", !.late = ~ listener]
<1>1. /\ new \in CommType /\ new.address = comms[c].address
      /\ new.step = "none" /\ new.late = ~ listener
  <2>1. comms[c] \in CommType
    BY ElementOfSeq, LenProperties DEF Tables
  <2> QED  BY <2>1 DEF CommType
<1>2. comms' = [comms EXCEPT ![c] = new] /\ comms[c].step = "entering"
  BY DEF EnterPeer
<1> HIDE DEF new
<1>3. /\ SameAddresses(comms', comms) /\ comms'[c] = new
      /\ \A d \in DOMAIN comms : d # c => comms'[d] = comms[d]
  BY <1>1, <1>2, CommReplaced
<1>4. /\ UNCHANGED <<known, active, connectIdx, connecting, running, transferring, control,
                     listener, due, asking, dht, rendezvous>>
      /\ heard' = heard \cup {c}
  BY DEF EnterPeer
<1>5. Tables' /\ Indexes'
  BY <1>3, <1>4, ListsKept
<1>6. Alive'
  <2>1. NotEnded(active', comms')
    BY <1>1, <1>3, <1>4 DEF Alive, NotEnded, Tables, GoingOn
  <2>2. HeardIsAlive'
    BY <1>1, <1>3, <1>4 DEF Alive, HeardIsAlive, Flags
  <2>3. ASSUME ~ listener, control \notin Clearing, NEW d \in heard'
        PROVE  comms'[d].late
    BY <1>1, <1>3, <1>4, <2>3 DEF Alive, Flags
  <2> QED  BY <1>4, <2>1, <2>2, <2>3 DEF Alive
<1>7. NoPeerForgotten'
  <2>1. NobodyCalls' => NobodyCalls
    BY <1>2, <1>3, <1>4 DEF NobodyCalls, CanConnect, Stopped, SameAddresses
  <2> QED  BY <1>4, <2>1, StillTold
<1> QED  BY <1>3, <1>4, <1>5, <1>6, <1>7 DEF Flags, DhtSearches, SameAddresses

LEMMA HolepunchKeeps ==
    ASSUME PeersInv, NEW c \in DOMAIN comms, EvaluatePossibleHolepunch(c)
    PROVE  PeersInv'
<1>1. Stepped(c, "removed") /\ comms[c].step = "punchable"
  BY StepOfIs DEF EvaluatePossibleHolepunch, PeersInv
<1>2. UNCHANGED <<known, active, connectIdx, connecting, running, transferring, control,
                  listener, heard, due, asking, dht>>
  BY DEF EvaluatePossibleHolepunch
<1>3. rendezvous' \subseteq Addresses
  <2>1. \A n \in active : comms[n.comm] \in CommType
    BY ElementOfSeq, LenProperties DEF PeersInv, Tables
  <2>2. \A n \in active : comms[n.comm].exchanged \subseteq Addresses
    BY <2>1 DEF CommType
  <2> QED  BY <2>2 DEF EvaluatePossibleHolepunch, PeersInv, Flags
<1> QED  BY <1>1, <1>2, <1>3, CallbackKeeps DEF GoingOn

LEMMA LastListenerKeeps ==
    ASSUME PeersInv, NEW c \in DOMAIN comms, LoadLastListener(c)
    PROVE  PeersInv'
<1> DEFINE to == IF listener THEN "last call" ELSE "gone"
<1>1. Stepped(c, to) /\ comms[c].step = "tell closed"
  BY StepOfIs DEF LoadLastListener, PeersInv
<1>2. UNCHANGED <<known, active, connectIdx, connecting, running, transferring, control,
                  listener, heard, due, asking, dht, rendezvous>>
  BY DEF LoadLastListener
<1>3. rendezvous' \subseteq Addresses /\ (to = "gone" => ~ listener)
  BY <1>2 DEF PeersInv, Flags
<1> HIDE DEF to
<1> QED  BY <1>1, <1>2, <1>3, CallbackKeeps DEF GoingOn

LEMMA TellClosedKeeps ==
    ASSUME PeersInv, NEW c \in DOMAIN comms, TellClosed(c)
    PROVE  PeersInv'
<1>1. Stepped(c, "gone") /\ comms[c].step = "last call"
  BY StepOfIs DEF TellClosed, PeersInv
<1>2. UNCHANGED <<known, active, connectIdx, connecting, running, transferring, control,
                  listener, due, asking, dht, rendezvous>>
  BY DEF TellClosed
<1>3. heard' = heard \ {c} /\ rendezvous' \subseteq Addresses
  BY <1>2 DEF TellClosed, PeersInv, Flags
<1> QED  BY <1>1, <1>2, <1>3, CallbackKeeps DEF GoingOn

LEMMA RemovePeerKeeps ==
    ASSUME PeersInv, NEW c \in DOMAIN comms, RemovePeer(c)
    PROVE  PeersInv'
<1> USE DEF PeersInv
<1> DEFINE P == {i \in DOMAIN known : \E a \in ActiveOf(c) : a.idx = i - 1}
           to == IF Punchable(c) THEN "punchable" ELSE "removed"
<1>1. Stepped(c, to) /\ comms[c].step = "none"
  BY StepOfIs DEF RemovePeer
<1>11. to \in {"punchable", "removed"}
  OBVIOUS
<1> HIDE DEF to
<1>2. /\ known' \in Seq(PeerType) /\ Len(known') = Len(known) /\ DOMAIN known' = DOMAIN known
      /\ \A i \in DOMAIN known :
            /\ known'[i].address = known[i].address
            /\ known'[i].state = IF i \in P THEN "Disconnected" ELSE known[i].state
  <2> DEFINE new == [i \in DOMAIN known |->
                        [known[i] EXCEPT !.state = "Disconnected", !.tried = "lately"]]
  <2>1. ASSUME NEW i \in DOMAIN known
        PROVE  /\ new[i] \in PeerType /\ new[i].address = known[i].address
               /\ new[i].state = "Disconnected"
    <3>1. known[i] \in PeerType
      BY PeersHaveType
    <3> QED  BY <3>1 DEF PeerType
  <2>2. known' = [i \in DOMAIN known |-> IF i \in P THEN new[i] ELSE known[i]]
    BY DEF RemovePeer, ClosedEntries
  <2> HIDE DEF P, new
  <2>3. /\ known' \in Seq(PeerType) /\ Len(known') = Len(known) /\ DOMAIN known' = DOMAIN known
        /\ \A i \in DOMAIN known : known'[i].address = known[i].address
    <3>1. \A i \in DOMAIN known : new[i] \in PeerType /\ new[i].address = known[i].address
      BY <2>1
    <3>2. Tables
      OBVIOUS
    <3> HIDE DEF PeersInv
    <3> QED  BY <2>2, <3>1, <3>2, RestatedIs
  <2> QED  BY <2>1, <2>2, <2>3
<1>3. /\ active' = {a \in active : a.comm # c}
      /\ UNCHANGED <<connectIdx, connecting, running, transferring, control, listener, heard,
                     due, asking, dht, rendezvous, plan>>
  BY DEF RemovePeer, ActiveOf
<1>4. \A i \in DOMAIN known : i \in P <=> \E a \in active : a.comm = c /\ a.idx = i - 1
  BY DEF ActiveOf
<1> HIDE DEF P
<1>5. Tables'
  <2>1. IsFiniteSet(active')
    BY <1>3, FS_Subset DEF Tables
  <2> QED  BY <1>1, <1>2, <1>3, <2>1 DEF Tables, Stepped, SameAddresses
<1>6. Indexes'
  <2>1. \A a \in active' : known'[a.idx + 1].address = comms'[a.comm].address
    <3> TAKE a \in active'
    <3>1. a \in active /\ a.idx + 1 \in DOMAIN known /\ a.comm \in DOMAIN comms
      BY <1>3, LenProperties DEF Tables
    <3> QED  BY <1>1, <1>2, <3>1 DEF Indexes, Stepped, SameAddresses
  <2>2. ASSUME NEW i \in DOMAIN known'
        PROVE  known'[i].state # "Disconnected" <=> \E a \in active' : a.idx = i - 1
    <3>1. known[i].state # "Disconnected" <=> \E a \in active : a.idx = i - 1
      BY <1>2 DEF Indexes
    <3>2. \A a, b \in active : a.idx = b.idx => a = b
      BY DEF Indexes
    <3>3. CASE i \in P
      <4>1. PICK a \in active : a.comm = c /\ a.idx = i - 1
        BY <1>2, <1>4, <3>3
      <4> QED  BY <1>2, <1>3, <3>2, <3>3, <4>1
    <3>4. CASE i \notin P
      <4>1. \A a \in active : a.idx = i - 1 => a.comm # c
        BY <1>2, <1>4, <3>4
      <4> QED  BY <1>2, <1>3, <3>1, <3>4, <4>1
    <3> QED  BY <3>3, <3>4
  <2> QED  BY <1>3, <2>1, <2>2 DEF Indexes
<1>7. Alive'
  <2>1. NotEnded(active', comms')
    BY <1>1, <1>3, SteppedKeeps
  <2>2. HeardIsAlive'
    BY <1>1, <1>3, <1>11 DEF Alive, HeardIsAlive, Stepped, Flags
  <2>3. \A d \in heard : comms'[d].late = comms[d].late
    BY <1>1 DEF Stepped, Flags
  <2> QED  BY <1>3, <2>1, <2>2, <2>3 DEF Alive
<1>8. NoPeerForgotten'
  <2>1. ~ NobodyCalls'
    BY <1>1, <1>11 DEF NobodyCalls, Stepped, SameAddresses
  <2> QED  BY <2>1, NobodyIsLeft
<1> QED
  BY <1>1, <1>3, <1>5, <1>6, <1>7, <1>8
     DEF Flags, DhtSearches, Stepped, SameAddresses

LEMMA ThenConnectNextKeeps ==
    ASSUME PeersInv, NEW c \in DOMAIN comms, ThenConnectNext(c)
    PROVE  PeersInv'
<1> USE DEF PeersInv
<1> DEFINE base == [comms EXCEPT ![c].step = "tell closed"]
<1>0. comms \in Seq(CommType) /\ DOMAIN comms = 1 .. Len(comms) /\ Len(comms) \in Nat
  BY LenProperties DEF Tables
<1>1. /\ base \in Seq(CommType) /\ Len(base) = Len(comms) /\ DOMAIN base = DOMAIN comms
      /\ \A d \in DOMAIN comms : /\ base[d].address = comms[d].address
                                 /\ base[d].late = comms[d].late
                                 /\ base[d].step = IF d = c THEN "tell closed" ELSE comms[d].step
  <2>1. \A d \in DOMAIN comms : comms[d] \in CommType
    BY <1>0, ElementOfSeq
  <2>2. ASSUME NEW d \in DOMAIN comms
        PROVE  /\ base[d] \in CommType /\ base[d].address = comms[d].address
               /\ base[d].late = comms[d].late
               /\ base[d].step = IF d = c THEN "tell closed" ELSE comms[d].step
    BY <2>1 DEF CommType
  <2>3. base \in [1 .. Len(comms) -> CommType]
    BY <1>0, <2>2
  <2>4. base \in Seq(CommType) /\ Len(base) = Len(comms) /\ DOMAIN base = DOMAIN comms
    <3> HIDE DEF base
    <3> QED  BY <1>0, <2>3, MapIsSeq
  <2> QED  BY <2>2, <2>4
<1>2. comms[c].step = "removed" /\ CallConnectNext(base) /\ due' = due
  BY DEF ThenConnectNext
<1> HIDE DEF base
<1>3. NotEnded(active, base)
  <2>1. \A a \in active : a.comm \in DOMAIN comms /\ comms[a.comm].step \in GoingOn
    BY DEF Alive, NotEnded, Tables
  <2> QED  BY <1>1, <1>2, <2>1 DEF NotEnded, GoingOn
<1>4. /\ Tables' /\ Indexes'
      /\ \A d \in DOMAIN comms : comms'[d] = base[d]
      /\ NotEnded(active', comms')
      /\ CanConnect' => \A p \in ToSet(known') :
            ~ (p.state = "Disconnected" /\ ~ p.unwanted /\ p.tried = "never")
      /\ Len(comms) <= Len(comms')
  <2>1. SameAddresses(base, comms)
    BY <1>1 DEF SameAddresses
  <2>2. CallConnectNext(base)
    BY <1>2
  <2> QED  BY <1>3, <2>1, <2>2, ConnectNextKeeps
<1>5. UNCHANGED <<connecting, running, transferring, control, listener, heard, asking, dht,
                  rendezvous, plan>>
  BY <1>2 DEF CallConnectNext
<1>6. Alive'
  <2>1. HeardIsAlive'
    <3> SUFFICES ASSUME control \notin Clearing, NEW d \in heard, comms'[d].step = "gone"
                 PROVE  comms'[d].late
      BY <1>5 DEF HeardIsAlive
    <3>1. d \in DOMAIN comms
      BY DEF Flags
    <3>2. base[d].step = "gone"
      BY <1>4, <3>1
    <3>3. comms[d].late
      BY <1>1, <3>1, <3>2 DEF Alive, HeardIsAlive
    <3> QED  BY <1>1, <1>4, <3>1, <3>3
  <2>2. \A d \in heard : comms'[d].late = comms[d].late
    BY <1>1, <1>4 DEF Flags
  <2> QED  BY <1>4, <1>5, <2>1, <2>2 DEF Alive
<1>7. NoPeerForgotten'
  BY <1>4 DEF NoPeerForgotten
<1>8. heard' \subseteq DOMAIN comms'
  <2>1. DOMAIN comms' = 1 .. Len(comms') /\ Len(comms') \in Nat
    BY <1>4, LenProperties DEF Tables
  <2>2. Len(comms) <= Len(comms')
    BY <1>4
  <2>3. DOMAIN comms \subseteq DOMAIN comms'
    BY <1>0, <2>1, <2>2
  <2> QED  BY <1>5, <2>3 DEF Flags
<1> QED  BY <1>2, <1>4, <1>5, <1>6, <1>7, <1>8 DEF Flags, DhtSearches

LEMMA ConnectNextStepKeeps ==
    ASSUME PeersInv, ConnectNext
    PROVE  PeersInv'
<1> USE DEF PeersInv
<1>0. comms \in Seq(CommType) /\ DOMAIN comms = 1 .. Len(comms) /\ Len(comms) \in Nat
  BY LenProperties DEF Tables
<1>1. due \in Nat /\ due > 0 /\ due' = due - 1 /\ CallConnectNext(comms)
  BY DEF ConnectNext, Flags
<1>2. NotEnded(active, comms)
  BY DEF Alive
<1>4. /\ Tables' /\ Indexes'
      /\ \A d \in DOMAIN comms : comms'[d] = comms[d]
      /\ NotEnded(active', comms')
      /\ CanConnect' => \A p \in ToSet(known') :
            ~ (p.state = "Disconnected" /\ ~ p.unwanted /\ p.tried = "never")
      /\ Len(comms) <= Len(comms')
  <2>1. SameAddresses(comms, comms)
    BY DEF Tables, SameAddresses
  <2>2. CallConnectNext(comms)
    BY <1>1
  <2> QED  BY <1>2, <2>1, <2>2, ConnectNextKeeps
<1>5. UNCHANGED <<connecting, running, transferring, control, listener, heard, asking, dht,
                  rendezvous, plan>>
  BY <1>1 DEF CallConnectNext
<1>6. Alive'
  <2>1. HeardIsAlive'
    BY <1>4, <1>5 DEF HeardIsAlive, Alive, Flags
  <2>2. \A d \in heard : comms'[d].late = comms[d].late
    BY <1>4 DEF Flags
  <2> QED  BY <1>4, <1>5, <2>1, <2>2 DEF Alive
<1>7. NoPeerForgotten'
  BY <1>4 DEF NoPeerForgotten
<1>8. heard' \subseteq DOMAIN comms'
  <2>1. DOMAIN comms' = 1 .. Len(comms') /\ Len(comms') \in Nat
    BY <1>4, LenProperties DEF Tables
  <2>2. Len(comms) <= Len(comms')
    BY <1>4
  <2>3. DOMAIN comms \subseteq DOMAIN comms'
    BY <1>0, <2>1, <2>2
  <2> QED  BY <1>5, <2>3 DEF Flags
<1>9. due' \in Nat
  BY <1>1
<1> QED  BY <1>4, <1>5, <1>6, <1>7, <1>8, <1>9 DEF Flags, DhtSearches

\* New addresses, whoever found them.
LEMMA FoundKeeps ==
    ASSUME PeersInv, NEW list \in Lists, NEW source, NEW flags \in BOOLEAN,
           UpdateKnownPeers(list, source, flags), SameAddresses(comms', comms),
           \A c \in DOMAIN comms :
              comms'[c].step = comms[c].step /\ comms'[c].late = comms[c].late,
           UNCHANGED <<connecting, running, transferring, control, listener, heard, asking,
                       dht, rendezvous>>
    PROVE  PeersInv'
<1> USE DEF PeersInv
<1>1. /\ Tables' /\ Indexes'
      /\ \A b \in active' : \E a \in active : b.comm = a.comm
      /\ \/ due' = due + 1
         \/ SamePeers(known', known) /\ active' = active /\ due' = due
  <2>1. due \in Nat
    BY DEF Flags
  <2> QED  BY <2>1, UpdateKeeps
<1>2. Alive'
  <2>1. NotEnded(active', comms')
    BY <1>1 DEF Alive, NotEnded, Tables
  <2>2. HeardIsAlive'
    BY DEF HeardIsAlive, Alive, Flags
  <2>3. \A d \in heard : comms'[d].late = comms[d].late
    BY DEF Flags
  <2> QED  BY <2>1, <2>2, <2>3 DEF Alive
<1>3. due \in Nat /\ due' \in Nat /\ (due' = 0 => due' = due)
  <2>1. due \in Nat
    BY DEF Flags
  <2>2. due' = due + 1 \/ due' = due
    BY <1>1
  <2> QED  BY <2>1, <2>2
<1>4. NoPeerForgotten'
  <2>1. CASE due' = due + 1
    <3>1. ~ NobodyCalls'
      BY <1>3, <2>1 DEF NobodyCalls
    <3> QED  BY <3>1, NobodyIsLeft
  <2>2. CASE SamePeers(known', known) /\ active' = active /\ due' = due
    <3>1. Left(known') => Left(known)
      BY <2>2 DEF Left, SamePeers
    <3>2. NobodyCalls' => NobodyCalls
      BY <2>2 DEF NobodyCalls, CanConnect, Stopped, SameAddresses
    <3> QED  BY <3>1, <3>2, StillTold
  <2> QED  BY <1>1, <2>1, <2>2
<1> QED  BY <1>1, <1>2, <1>3, <1>4 DEF Flags, DhtSearches, SameAddresses

LEMMA CommsAreTheSame ==
    ASSUME Tables
    PROVE  SameAddresses(comms, comms)
BY DEF SameAddresses, Tables

LEMMA PexKeeps ==
    ASSUME PeersInv, NEW c \in DOMAIN comms, PexFoundPeers(c)
    PROVE  PeersInv'
<1>1. PICK list \in Lists : UpdateKnownPeers(list, "Pex", TRUE) /\ comms' = Exchanged(c, list)
  BY DEF PexFoundPeers
<1>2. UNCHANGED <<connecting, running, transferring, control, listener, heard, asking, dht,
                  rendezvous>>
  BY DEF PexFoundPeers
<1>3. Tables
  BY DEF PeersInv
<1> DEFINE new == [comms[c] EXCEPT !.exchanged = @ \cup ToSet(list)]
<1>4. /\ new \in CommType /\ new.address = comms[c].address /\ new.step = comms[c].step
      /\ new.late = comms[c].late
  <2>1. comms[c] \in CommType
    BY <1>3, ElementOfSeq, LenProperties DEF Tables
  <2>2. ToSet(list) \subseteq Addresses
    BY DEF Lists, ToSet
  <2> QED  BY <2>1, <2>2 DEF CommType
<1>5. comms' = [comms EXCEPT ![c] = new]
  BY <1>1 DEF Exchanged
<1> HIDE DEF new
<1>6. Stepped(c, new.step)
  BY <1>3, <1>4, <1>5, CommSet
<1>7. \A d \in DOMAIN comms :
         comms'[d].step = comms[d].step /\ comms'[d].late = comms[d].late
  BY <1>4, <1>6 DEF Stepped
<1>8. SameAddresses(comms', comms)
  BY <1>6 DEF Stepped
<1> QED  BY <1>1, <1>2, <1>7, <1>8, FoundKeeps

LEMMA OthersFoundKeep ==
    ASSUME PeersInv, TrackerFoundPeers \/ DhtFoundPeers
    PROVE  PeersInv'
<1>1. /\ \E list \in Lists : \E source : UpdateKnownPeers(list, source, FALSE)
      /\ UNCHANGED <<comms, connecting, running, transferring, control, listener, heard,
                     asking, dht, rendezvous>>
  BY DEF TrackerFoundPeers, DhtFoundPeers
<1>2. PICK list \in Lists : \E source : UpdateKnownPeers(list, source, FALSE)
  BY <1>1
<1>3. PICK source : UpdateKnownPeers(list, source, FALSE)
  BY <1>2
<1>4. SameAddresses(comms', comms)
  BY <1>1, CommsAreTheSame DEF PeersInv
<1>5. \A c \in DOMAIN comms :
         comms'[c].step = comms[c].step /\ comms'[c].late = comms[c].late
  BY <1>1
<1> QED  BY <1>1, <1>3, <1>4, <1>5, FoundKeeps

\* One connection more.
LEMMA MoreKeeps ==
    ASSUME PeersInv, Tables', Indexes', Left(known') => Left(known), OneMore,
           UNCHANGED <<connecting, running, transferring, control, listener, heard, due,
                       asking, dht>>,
           rendezvous' \subseteq rendezvous
    PROVE  PeersInv'
<1> USE DEF PeersInv
<1>1. PICK c : /\ DOMAIN comms' = DOMAIN comms \cup {c} /\ c \notin DOMAIN comms
               /\ comms'[c].step = "none"
               /\ \A d \in DOMAIN comms : comms'[d] = comms[d]
               /\ \A a \in active' \ active : a.comm = c
               /\ active \subseteq active'
  BY DEF OneMore
<1>2. Alive'
  <2>1. NotEnded(active', comms')
    BY <1>1 DEF Alive, NotEnded, Tables, GoingOn
  <2>2. HeardIsAlive'
    BY <1>1 DEF Alive, HeardIsAlive, Flags
  <2>3. \A d \in heard : comms'[d].late = comms[d].late
    BY <1>1 DEF Flags
  <2> QED  BY <2>1, <2>2, <2>3 DEF Alive
<1>3. NoPeerForgotten'
  <2>1. /\ Cardinality(active) <= Cardinality(active')
        /\ Cardinality(active) \in Nat /\ Cardinality(active') \in Nat /\ MaxConnections \in Nat
    BY <1>1, FS_Subset, FS_CardinalityType, PeersAssumption DEF Tables
  <2>2. Cardinality(active') < MaxConnections => Cardinality(active) < MaxConnections
    BY <2>1
  <2>3. NobodyCalls' => NobodyCalls
    BY <1>1, <2>2 DEF NobodyCalls, CanConnect, Stopped
  <2> QED  BY <2>3, StillTold
<1> QED  BY <1>1, <1>2, <1>3 DEF Flags, DhtSearches

LEMMA MoreConnectionsKeep ==
    ASSUME PeersInv, ManualConnect \/ HolepunchConnect \/ Add
    PROVE  PeersInv'
<1> USE DEF PeersInv
<1>1. CASE ManualConnect
  <2>1. PICK a \in Addresses : Connect(a, "manual")
    BY <1>1 DEF ManualConnect
  <2>2. Tables' /\ Indexes' /\ (Left(known') => Left(known)) /\ OneMore
    BY <2>1, ConnectKeeps
  <2> QED  BY <1>1, <2>1, <2>2, MoreKeeps DEF ManualConnect, Connect
<1>2. CASE HolepunchConnect
  <2>1. PICK a \in Addresses : Connect(a, "punch")
    BY <1>2 DEF HolepunchConnect, Flags
  <2>2. Tables' /\ Indexes' /\ (Left(known') => Left(known)) /\ OneMore
    BY <2>1, ConnectKeeps
  <2>3. rendezvous' \subseteq rendezvous
    BY <1>2 DEF HolepunchConnect
  <2> QED  BY <2>1, <2>2, <2>3, MoreKeeps DEF Connect
<1>3. CASE Add
  <2>1. Tables' /\ Indexes' /\ (Left(known') => Left(known)) /\ OneMore
    BY <1>3, AddKeeps
  <2> QED  BY <1>3, <2>1, MoreKeeps DEF Add
<1> QED  BY <1>1, <1>2, <1>3

LEMMA DisconnectKeeps ==
    ASSUME PeersInv, NEW c \in DOMAIN comms, NEW unwanted \in BOOLEAN, Disconnect(c, unwanted)
    PROVE  PeersInv'
<1> USE DEF PeersInv
<1>1. Stepped(c, comms[c].step)
  <2> DEFINE new == [comms[c] EXCEPT !.closing = TRUE]
  <2>1. /\ new \in CommType /\ new.address = comms[c].address /\ new.step = comms[c].step
        /\ new.late = comms[c].late
    <3>1. comms[c] \in CommType
      BY ElementOfSeq, LenProperties DEF Tables
    <3> QED  BY <3>1 DEF CommType
  <2>2. comms' = [comms EXCEPT ![c] = new]
    BY DEF Disconnect
  <2> HIDE DEF new
  <2> QED  BY <2>1, <2>2, CommSet
<1>2. UNCHANGED <<active, connectIdx, connecting, running, transferring, control, listener,
                  heard, due, asking, dht, rendezvous>>
  BY DEF Disconnect
<1>3. /\ known' \in Seq(PeerType) /\ Len(known') = Len(known) /\ DOMAIN known' = DOMAIN known
      /\ \A i \in DOMAIN known :
            /\ known'[i].address = known[i].address /\ known'[i].state = known[i].state
            /\ known'[i].tried = known[i].tried
            /\ known[i].unwanted => known'[i].unwanted
  <2>1. PICK a \in ActiveOf(c) :
           known' = IF unwanted THEN [known EXCEPT ![a.idx + 1].unwanted = TRUE] ELSE known
    BY DEF Disconnect
  <2>2. CASE unwanted
    <3> DEFINE P == {a.idx + 1}
               new == [i \in DOMAIN known |-> [known[i] EXCEPT !.unwanted = TRUE]]
    <3>1. ASSUME NEW i \in DOMAIN known
          PROVE  /\ new[i] \in PeerType /\ new[i].address = known[i].address
                 /\ new[i].state = known[i].state /\ new[i].tried = known[i].tried
                 /\ new[i].unwanted
      <4>1. known[i] \in PeerType
        BY PeersHaveType
      <4> QED  BY <4>1 DEF PeerType
    <3>2. known' = [i \in DOMAIN known |-> IF i \in P THEN new[i] ELSE known[i]]
      BY <2>1, <2>2 DEF Tables
    <3> HIDE DEF P, new
    <3>3. /\ known' \in Seq(PeerType) /\ Len(known') = Len(known) /\ DOMAIN known' = DOMAIN known
          /\ \A i \in DOMAIN known : known'[i].address = known[i].address
      <4>1. \A i \in DOMAIN known : new[i] \in PeerType /\ new[i].address = known[i].address
        BY <3>1
      <4>2. Tables
        OBVIOUS
      <4> HIDE DEF PeersInv
      <4> QED  BY <3>2, <4>1, <4>2, RestatedIs
    <3> QED  BY <3>1, <3>2, <3>3
  <2>3. CASE ~ unwanted
    BY <2>1, <2>3 DEF Tables
  <2> QED  BY <2>2, <2>3
<1>4. Tables'
  BY <1>1, <1>2, <1>3 DEF Tables, Stepped, SameAddresses
<1>5. Indexes'
  <2>1. \A a \in active : known'[a.idx + 1].address = comms'[a.comm].address
    <3> TAKE a \in active
    <3>1. a.idx + 1 \in DOMAIN known /\ a.comm \in DOMAIN comms
      BY LenProperties DEF Tables
    <3> QED  BY <1>1, <1>3, <3>1 DEF Indexes, Stepped, SameAddresses
  <2> QED  BY <1>2, <1>3, <2>1 DEF Indexes
<1>6. \A d \in DOMAIN comms :
         comms'[d].step = comms[d].step /\ comms'[d].late = comms[d].late
  BY <1>1 DEF Stepped
<1>7. Alive'
  <2>1. NotEnded(active', comms')
    BY <1>2, <1>6 DEF Alive, NotEnded, Tables
  <2>2. HeardIsAlive'
    BY <1>2, <1>6 DEF HeardIsAlive, Alive, Flags
  <2>3. \A d \in heard : comms'[d].late = comms[d].late
    BY <1>6 DEF Flags
  <2> QED  BY <1>2, <2>1, <2>2, <2>3 DEF Alive
<1>8. NoPeerForgotten'
  <2>1. Left(known') => Left(known)
    BY <1>3 DEF Left
  <2>2. NobodyCalls' => NobodyCalls
    BY <1>1, <1>2, <1>6
       DEF NobodyCalls, CanConnect, Stopped, Stepped, SameAddresses
  <2> QED  BY <2>1, <2>2, StillTold
<1> QED
  BY <1>1, <1>2, <1>4, <1>5, <1>7, <1>8
     DEF Flags, DhtSearches, Stepped, SameAddresses

LEMMA LaterKeeps ==
    ASSUME PeersInv, Later
    PROVE  PeersInv'
<1> USE DEF PeersInv
<1> DEFINE P == {i \in DOMAIN known : known[i].tried = "lately"}
<1>1. /\ known' \in Seq(PeerType) /\ Len(known') = Len(known) /\ DOMAIN known' = DOMAIN known
      /\ \A i \in DOMAIN known :
            /\ known'[i].address = known[i].address /\ known'[i].state = known[i].state
            /\ known'[i].unwanted = known[i].unwanted
            /\ known'[i].tried = "never" => known[i].tried = "never"
  <2> DEFINE new == [i \in DOMAIN known |-> [known[i] EXCEPT !.tried = "before"]]
  <2>1. ASSUME NEW i \in DOMAIN known
        PROVE  /\ new[i] \in PeerType /\ new[i].address = known[i].address
               /\ new[i].state = known[i].state /\ new[i].unwanted = known[i].unwanted
               /\ new[i].tried = "before"
    <3>1. known[i] \in PeerType
      BY PeersHaveType
    <3> QED  BY <3>1 DEF PeerType
  <2>2. known' = [i \in DOMAIN known |-> IF i \in P THEN new[i] ELSE known[i]]
    BY DEF Later
  <2> HIDE DEF P, new
  <2>3. /\ known' \in Seq(PeerType) /\ Len(known') = Len(known) /\ DOMAIN known' = DOMAIN known
        /\ \A i \in DOMAIN known : known'[i].address = known[i].address
    <3>1. \A i \in DOMAIN known : new[i] \in PeerType /\ new[i].address = known[i].address
      BY <2>1
    <3>2. Tables
      OBVIOUS
    <3> HIDE DEF PeersInv
    <3> QED  BY <2>2, <3>1, <3>2, RestatedIs
  <2> QED  BY <2>1, <2>2, <2>3
<1> HIDE DEF P
<1>2. UNCHANGED <<active, comms, connectIdx, connecting, running, transferring, control,
                  listener, heard, due, asking, dht, rendezvous>>
  BY DEF Later
<1>3. Tables'
  BY <1>1, <1>2 DEF Tables
<1>4. Indexes'
  <2>1. \A a \in active : a.idx + 1 \in DOMAIN known
    BY LenProperties DEF Tables
  <2> QED  BY <1>1, <1>2, <2>1 DEF Indexes
<1>5. Alive'
  BY <1>2 DEF Alive, NotEnded, HeardIsAlive
<1>6. NoPeerForgotten'
  <2>1. Left(known') => Left(known)
    BY <1>1 DEF Left
  <2>2. NobodyCalls' => NobodyCalls
    BY <1>2 DEF NobodyCalls, CanConnect, Stopped
  <2> QED  BY <2>1, <2>2, StillTold
<1> QED  BY <1>2, <1>3, <1>4, <1>5, <1>6 DEF Flags, DhtSearches

LEMMA StopConnectionsKeeps ==
    ASSUME PeersInv, StopConnections
    PROVE  PeersInv'
<1> USE DEF PeersInv
<1> DEFINE P == {i \in DOMAIN known : \E a \in active : a.idx = i - 1}
<1>1. /\ known' \in Seq(PeerType) /\ Len(known') = Len(known) /\ DOMAIN known' = DOMAIN known
      /\ \A i \in DOMAIN known :
            known'[i].state = IF i \in P THEN "Disconnected" ELSE known[i].state
  <2> DEFINE new == [i \in DOMAIN known |-> [known[i] EXCEPT !.state = "Disconnected"]]
  <2>1. ASSUME NEW i \in DOMAIN known
        PROVE  /\ new[i] \in PeerType /\ new[i].address = known[i].address
               /\ new[i].state = "Disconnected"
    <3>1. known[i] \in PeerType
      BY PeersHaveType
    <3> QED  BY <3>1 DEF PeerType
  <2>2. known' = [i \in DOMAIN known |-> IF i \in P THEN new[i] ELSE known[i]]
    BY DEF StopConnections
  <2> HIDE DEF P, new
  <2>3. /\ known' \in Seq(PeerType) /\ Len(known') = Len(known) /\ DOMAIN known' = DOMAIN known
        /\ \A i \in DOMAIN known : known'[i].address = known[i].address
    <3>1. \A i \in DOMAIN known : new[i] \in PeerType /\ new[i].address = known[i].address
      BY <2>1
    <3>2. Tables
      OBVIOUS
    <3> HIDE DEF PeersInv
    <3> QED  BY <2>2, <3>1, <3>2, RestatedIs
  <2> QED  BY <2>1, <2>2, <2>3
<1>2. /\ active' = {} /\ connecting' = FALSE /\ listener' = FALSE /\ control' = "closing"
      /\ control = "stopping" /\ heard' \subseteq heard
      /\ UNCHANGED <<connectIdx, running, transferring, due, asking, dht, rendezvous>>
  BY DEF StopConnections
<1>3. comms' \in Seq(CommType) /\ DOMAIN comms' = DOMAIN comms
  <2>1. DOMAIN comms = 1 .. Len(comms) /\ Len(comms) \in Nat
    BY LenProperties DEF Tables
  <2>2. ASSUME NEW c \in DOMAIN comms
        PROVE  /\ [comms[c] EXCEPT !.closing = TRUE] \in CommType /\ comms[c] \in CommType
    <3>1. comms[c] \in CommType
      BY <2>1, ElementOfSeq DEF Tables
    <3> QED  BY <3>1 DEF CommType
  <2>3. comms' \in [1 .. Len(comms) -> CommType]
    BY <2>1, <2>2 DEF StopConnections
  <2> QED  BY <2>1, <2>3, MapIsSeq
<1>4. Tables'
  BY <1>1, <1>2, <1>3, FS_EmptySet DEF Tables
<1>5. Indexes'
  <2>1. \A i \in DOMAIN known : known'[i].state = "Disconnected"
    BY <1>1 DEF Indexes
  <2> QED  BY <1>1, <1>2, <2>1 DEF Indexes
<1>6. Alive'
  BY <1>2 DEF Alive, NotEnded, HeardIsAlive, Clearing
<1>7. NoPeerForgotten'
  <2>1. ~ NobodyCalls'
    BY <1>2 DEF NobodyCalls
  <2> QED  BY <2>1, NobodyIsLeft
<1> QED  BY <1>2, <1>3, <1>4, <1>5, <1>6, <1>7 DEF Flags, DhtSearches, Clearing

\* The steps that touch neither a connection nor the list of peers.
LEMMA NobodyMoves ==
    ASSUME PeersInv, UNCHANGED <<known, active, comms, connectIdx>>
    PROVE  Tables' /\ Indexes' /\ NotEnded(active', comms') /\ (Left(known') => Left(known))
BY DEF PeersInv, Tables, Indexes, Alive, NotEnded, Left

LEMMA StartKeeps ==
    ASSUME PeersInv, StartListening \/ StartTimer \/ StartPosts \/ StartTransfer
    PROVE  PeersInv'
<1> USE DEF PeersInv
<1>0. /\ Tables' /\ Indexes' /\ NotEnded(active', comms') /\ (Left(known') => Left(known))
      /\ UNCHANGED <<active, comms, connecting, heard, asking, rendezvous>>
      /\ transferring' \in BOOLEAN
  BY NobodyMoves DEF StartListening, StartTimer, StartPosts, StartTransfer, Flags
<1>1. CASE StartListening
  <2>1. /\ control = "idle" /\ control' = "listening" /\ listener' = TRUE
        /\ UNCHANGED <<running, due, dht>>
    BY <1>1 DEF StartListening
  <2>2. Alive'
    BY <1>0, <2>1 DEF Alive, HeardIsAlive, Clearing
  <2>3. ~ NobodyCalls'
    BY <2>1 DEF NobodyCalls
  <2> QED  BY <1>0, <2>1, <2>2, <2>3, NobodyIsLeft DEF Flags, DhtSearches
<1>2. CASE StartTimer
  <2>1. /\ control = "listening" /\ control' = "running" /\ running' = TRUE
        /\ dht' = IF dht.state = "Clear" THEN [dht EXCEPT !.state = "Connected"] ELSE dht
        /\ UNCHANGED <<listener, due>>
    BY <1>2 DEF StartTimer
  <2>2. Alive'
    BY <1>0, <2>1 DEF Alive, HeardIsAlive, Clearing
  <2>3. ~ NobodyCalls'
    BY <2>1 DEF NobodyCalls
  <2>4. dht' \in DhtType /\ DhtSearches'
    BY <2>1 DEF Flags, DhtType, DhtSearches
  <2> QED  BY <1>0, <2>1, <2>2, <2>3, <2>4, NobodyIsLeft DEF Flags
<1>3. CASE StartPosts
  <2>1. /\ control = "running" /\ control' = "started"
        /\ due' = IF connecting THEN due + 1 ELSE due
        /\ UNCHANGED <<running, listener, dht>>
    BY <1>3 DEF StartPosts
  <2>2. Alive'
    BY <1>0, <2>1 DEF Alive, HeardIsAlive, Clearing
  <2>3. due' \in Nat /\ (connecting => due' # 0)
    <3>1. due \in Nat
      BY DEF Flags
    <3> QED  BY <2>1, <3>1
  <2>4. ~ NobodyCalls'
    BY <1>0, <2>3 DEF NobodyCalls, CanConnect
  <2> QED  BY <1>0, <2>1, <2>2, <2>3, <2>4, NobodyIsLeft DEF Flags, DhtSearches
<1>4. CASE StartTransfer
  <2>1. /\ control = "started" /\ control' = "idle"
        /\ UNCHANGED <<running, listener, due, dht>>
    BY <1>4 DEF StartTransfer
  <2>2. Alive'
    BY <1>0, <2>1 DEF Alive, HeardIsAlive, Clearing
  <2>3. NobodyCalls' => NobodyCalls
    BY <1>0, <2>1 DEF NobodyCalls, CanConnect, Stopped
  <2> QED  BY <1>0, <2>1, <2>2, <2>3, StillTold DEF Flags, DhtSearches
<1> QED  BY <1>1, <1>2, <1>3, <1>4

LEMMA StopKeeps ==
    ASSUME PeersInv, StopFinding \/ StopDht \/ StopTimer \/ StopTransfer \/ ClearTransfer
    PROVE  PeersInv'
<1> USE DEF PeersInv
<1>0. /\ Tables' /\ Indexes' /\ NotEnded(active', comms') /\ (Left(known') => Left(known))
      /\ UNCHANGED <<active, comms, connecting, asking, rendezvous, listener, due>>
      /\ transferring' \in BOOLEAN
  BY NobodyMoves DEF StopFinding, StopDht, StopTimer, StopTransfer, ClearTransfer, Flags
<1>1. CASE StopFinding
  <2>1. /\ control = "idle" /\ control' = "stop finding"
        /\ dht' = [dht EXCEPT !.searching = FALSE]
        /\ UNCHANGED <<running, heard>>
    BY <1>1 DEF StopFinding
  <2>2. Alive'
    BY <1>0, <2>1 DEF Alive, HeardIsAlive, Clearing
  <2>3. ~ NobodyCalls'
    BY <2>1 DEF NobodyCalls
  <2>4. dht' \in DhtType
    BY <2>1 DEF Flags, DhtType
  <2> QED  BY <1>0, <2>1, <2>2, <2>3, <2>4, NobodyIsLeft DEF Flags, DhtSearches
<1>2. CASE StopDht
  <2>1. /\ control = "stop finding" /\ control' = "stopping"
        /\ dht' = [dht EXCEPT !.state = "Clear"]
        /\ UNCHANGED <<running, heard>>
    BY <1>2 DEF StopDht
  <2>2. Alive'
    BY <1>0, <2>1 DEF Alive, HeardIsAlive, Clearing
  <2>3. ~ NobodyCalls'
    BY <2>1 DEF NobodyCalls
  <2>4. dht' \in DhtType /\ DhtSearches'
    BY <2>1 DEF Flags, DhtType, DhtSearches
  <2> QED  BY <1>0, <2>1, <2>2, <2>3, <2>4, NobodyIsLeft DEF Flags
<1>3. CASE StopTimer \/ StopTransfer
  <2>1. /\ control' \in {"closed", "clearing"} /\ control \in Clearing
        /\ running' = FALSE /\ UNCHANGED <<heard, dht>>
    BY <1>3 DEF StopTimer, StopTransfer, Clearing, Flags
  <2>2. Alive'
    BY <1>0, <2>1 DEF Alive, HeardIsAlive, Clearing
  <2>3. ~ NobodyCalls'
    BY <2>1 DEF NobodyCalls
  <2>4. DhtSearches'
    BY <2>1 DEF DhtSearches, Clearing
  <2> QED  BY <1>0, <2>1, <2>2, <2>3, <2>4, NobodyIsLeft DEF Flags, Clearing
<1>4. CASE ClearTransfer
  <2>1. /\ control = "clearing" /\ control' = "idle" /\ heard' = {}
        /\ UNCHANGED <<running, dht>>
    BY <1>4 DEF ClearTransfer
  <2>2. Alive'
    BY <1>0, <2>1 DEF Alive, HeardIsAlive
  <2>3. ~ NobodyCalls'
    BY <2>1 DEF NobodyCalls, CanConnect, Stopped, Flags
  <2> QED  BY <1>0, <2>1, <2>2, <2>3, NobodyIsLeft DEF Flags, DhtSearches
<1> QED  BY <1>1, <1>2, <1>3, <1>4

LEMMA SwitchKeeps ==
    ASSUME PeersInv, StartConnecting \/ StartConnectingPosts \/ StopConnecting
    PROVE  PeersInv'
<1> USE DEF PeersInv
<1>0. /\ Tables' /\ Indexes' /\ NotEnded(active', comms') /\ (Left(known') => Left(known))
      /\ UNCHANGED <<comms, running, transferring, control, listener, heard, dht, rendezvous>>
  BY NobodyMoves DEF StartConnecting, StartConnectingPosts, StopConnecting
<1>1. Alive' /\ DhtSearches'
  BY <1>0 DEF Alive, HeardIsAlive, DhtSearches
<1>2. due \in Nat /\ asking \in BOOLEAN /\ connecting \in BOOLEAN
  BY DEF Flags
<1>3. due' \in Nat /\ asking' \in BOOLEAN /\ connecting' \in BOOLEAN
  <2>1. due' = due + 1 \/ due' = due
    BY DEF StartConnecting, StartConnectingPosts, StopConnecting
  <2>2. due' \in Nat
    BY <1>2, <2>1
  <2>3. asking' \in BOOLEAN /\ connecting' \in BOOLEAN
    BY <1>2 DEF StartConnecting, StartConnectingPosts, StopConnecting
  <2> QED  BY <2>2, <2>3
<1>4. ~ NobodyCalls'
  <2>1. CASE StartConnecting
    BY <2>1 DEF StartConnecting, NobodyCalls
  <2>2. CASE StartConnectingPosts
    <3>1. Stopped \/ due' = due + 1
      BY <2>2 DEF StartConnectingPosts
    <3>2. Stopped \/ due' # 0
      BY <1>2, <3>1
    <3> QED  BY <1>0, <3>2 DEF NobodyCalls, CanConnect, Stopped
  <2>3. CASE StopConnecting
    BY <2>3 DEF StopConnecting, NobodyCalls, CanConnect
  <2> QED  BY <2>1, <2>2, <2>3
<1> QED  BY <1>0, <1>1, <1>3, <1>4, NobodyIsLeft DEF Flags

LEMMA DhtKeeps ==
    ASSUME PeersInv, DhtUpdate \/ FindPeers \/ CallFindPeers \/ DhtFindingPeersFinished
    PROVE  PeersInv'
<1> USE DEF PeersInv
<1>0. /\ Tables' /\ Indexes' /\ NotEnded(active', comms') /\ (Left(known') => Left(known))
      /\ UNCHANGED <<active, comms, connecting, running, transferring, control, listener,
                     heard, due, asking, rendezvous>>
  BY NobodyMoves
     DEF DhtUpdate, FindPeers, CallFindPeers, DhtFindingPeersFinished
<1>1. Alive'
  BY <1>0 DEF Alive, HeardIsAlive
<1>2. NoPeerForgotten'
  <2>1. NobodyCalls' => NobodyCalls
    BY <1>0 DEF NobodyCalls, CanConnect, Stopped
  <2> QED  BY <1>0, <2>1, StillTold
<1>3. dht \in DhtType
  BY DEF Flags
<1>4. dht' \in DhtType /\ DhtSearches'
  <2>1. CASE DhtUpdate
    BY <1>0, <1>3, <2>1 DEF DhtUpdate, DhtType, DhtSearches
  <2>2. CASE FindPeers
    BY <1>0, <1>3, <2>2 DEF FindPeers, DhtType, DhtSearches
  <2>3. CASE CallFindPeers
    BY <1>0, <1>3, <2>3 DEF CallFindPeers, DhtType, DhtSearches
  <2>4. CASE DhtFindingPeersFinished
    BY <1>0, <1>3, <2>4 DEF DhtFindingPeersFinished, DhtType, DhtSearches
  <2> QED  BY <2>1, <2>2, <2>3, <2>4
<1> QED  BY <1>0, <1>1, <1>2, <1>4 DEF Flags

-------------------------------------------------------------------------------
(* The invariant, and what follows from it. *)

LEMMA PeersInvInit == Init => PeersInv
<1> SUFFICES ASSUME Init PROVE PeersInv
  OBVIOUS
<1>1. Tables
  <2>1. /\ <<>> \in Seq(PeerType)
        /\ <<>> \in Seq(CommType)
        /\ Len(<<>>) = 0
        /\ DOMAIN <<>> = {}
    BY EmptySeq
  <2> QED  BY <2>1, FS_EmptySet DEF Init, Tables
<1>2. Flags /\ Alive /\ DhtSearches
  BY DEF Init, Flags, Alive, NotEnded, HeardIsAlive, DhtSearches, DhtType
<1>3. Indexes /\ NoPeerForgotten
  BY DEF Init, Indexes, NoPeerForgotten, CanConnect
<1> QED  BY <1>1, <1>2, <1>3 DEF PeersInv

LEMMA PeersInvNext == PeersInv /\ [Next]_vars => PeersInv'
<1> SUFFICES ASSUME PeersInv, [Next]_vars PROVE PeersInv'
  OBVIOUS
<1>1. ASSUME NEW c \in DOMAIN comms, Callback(c) PROVE PeersInv'
  BY <1>1, HandshakeKeeps, PexKeeps, MessageKeeps, EnterPeerKeeps, RemovePeerKeeps,
     HolepunchKeeps, ThenConnectNextKeeps, LastListenerKeeps, TellClosedKeeps,
     DisconnectKeeps DEF Callback
<1>2. CASE ConnectNext
  BY <1>2, ConnectNextStepKeeps
<1>3. CASE TrackerFoundPeers \/ DhtFoundPeers
  BY <1>3, OthersFoundKeep
<1>4. CASE ManualConnect \/ HolepunchConnect \/ Add
  BY <1>4, MoreConnectionsKeep
<1>5. CASE StartListening \/ StartTimer \/ StartPosts \/ StartTransfer
  BY <1>5, StartKeeps
<1>6. CASE StopFinding \/ StopDht \/ StopTimer \/ StopTransfer \/ ClearTransfer
  BY <1>6, StopKeeps
<1>7. CASE StopConnections
  BY <1>7, StopConnectionsKeeps
<1>8. CASE StartConnecting \/ StartConnectingPosts \/ StopConnecting
  BY <1>8, SwitchKeeps
<1>9. CASE DhtUpdate \/ FindPeers \/ CallFindPeers \/ DhtFindingPeersFinished
  BY <1>9, DhtKeeps
<1>10. CASE Later
  BY <1>10, LaterKeeps
<1>11. CASE UNCHANGED vars
  BY <1>11
     DEF vars, PeersInv, Tables, Flags, Indexes, Alive, NotEnded, HeardIsAlive,
        NoPeerForgotten, CanConnect, Stopped, DhtSearches
<1> QED
  BY <1>1, <1>2, <1>3, <1>4, <1>5, <1>6, <1>7, <1>8, <1>9, <1>10, <1>11
     DEF Next

LEMMA PeersInvAlways == Spec => []PeersInv
BY PeersInvInit, PeersInvNext, PTL DEF Spec

\* Where one connection at most is at a place, there is one or none.
LEMMA IndexesCount ==
    ASSUME PeersInv
    PROVE  ActiveIndexes
<1> USE DEF PeersInv
<1>1. \A i \in DOMAIN known : known[i] \in PeerType
  BY PeersHaveType
<1>2. \A c \in DOMAIN comms : comms[c] \in CommType
  BY ElementOfSeq, LenProperties DEF Tables
<1>3. connectIdx \in Nat
  BY LenProperties DEF Tables
<1>4. TypeOK
  BY <1>2, <1>3 DEF TypeOK, Tables, Flags, PeerType, CommType, DhtType
<1>5. ASSUME NEW i \in DOMAIN known
      PROVE  (known[i].state # "Disconnected") <=> Cardinality({a \in active : a.idx = i - 1}) = 1
  <2> DEFINE here == {a \in active : a.idx = i - 1}
  <2>1. known[i].state # "Disconnected" <=> here # {}
    BY DEF Indexes
  <2>2. \A a, b \in here : a = b
    BY DEF Indexes
  <2> HIDE DEF here
  <2>3. here # {} => Cardinality(here) = 1
    <3>1. ASSUME here # {} PROVE \E a : here = {a}
      BY <2>2, <3>1
    <3> QED  BY <3>1, FS_Singleton
  <2>4. here = {} => Cardinality(here) = 0
    BY FS_EmptySet
  <2> QED  BY <2>1, <2>3, <2>4 DEF here
<1> QED  BY <1>4, <1>5 DEF ActiveIndexes, Indexes, Peer

\* Addresses inserted below them, ends and starts of connections on any thread: an
\* active connection keeps the index of its own entry of knownPeers, and an entry is
\* connecting or connected exactly when one active connection holds it.
THEOREM IndexesHold == Spec => []ActiveIndexes
BY PeersInvAlways, IndexesCount, PTL

\* While the torrent wants peers and has room, one it never tried waits for a call of
\* connectNext that is posted or about to be made.
THEOREM NobodyIsForgotten == Spec => []NoPeerForgotten
<1>1. PeersInv => NoPeerForgotten
  BY DEF PeersInv
<1> QED  BY <1>1, PeersInvAlways, PTL

\* Whatever start() and stop() do between the steps of a connection's messages and of
\* its end, the transfer keeps none whose last callback has run, but for one that a
\* message entered when stop() had ended the listening.
THEOREM HeardStaysAlive == Spec => []HeardIsAlive
<1>1. PeersInv => HeardIsAlive
  BY DEF PeersInv, Alive
<1> QED  BY <1>1, PeersInvAlways, PTL

\* A DhtSource that waits for a search has one, or its thread is about to start one.
THEOREM DhtWaitsForSearch == Spec => []DhtSearches
<1>1. PeersInv => DhtSearches
  BY DEF PeersInv
<1> QED  BY <1>1, PeersInvAlways, PTL

--------------------------------------------------------------------------------
(* Trackers: what each leads to next. *)

\* What the model says of one tracker, whatever its messages are.
CommFields ==
    {"kind", "no", "lastAnnounce", "state", "last", "connection", "pending", "callback", "socket",
     "buffer", "posted", "packets", "stream", "stray", "dropped"}
TrackerFields ==
    {"protocol", "host", "port", "httpFallback", "httpFallbackUsed", "timer", "comm", "made",
     "tasks", "reached"}

EntryType == [action : {"connect", "announce"}, retries : Nat, armed : BOOLEAN]

WriterCalls == {"write", "rewrite", "close"}

\* Requests are of UDP; streams given up or read are of HTTP; a stream that is
\* left is asked or has answered.
CommShape(c) ==
    /\ DOMAIN c = CommFields
    /\ c.kind \in {"none", "udp", "http", "https"} /\ c.no \in Nat
    /\ c.kind # "none" <=> c.no # 0
    /\ c.state \in {"Clear", "Initialized", "Offline", "Alive", "Connecting",
                    "Connected", "Announcing", "Announced"}
    /\ c.socket \in {"closed", "reading", "deaf"} /\ c.stream \in {"none", "live", "dead"}
    /\ c.pending \in Seq(EntryType) /\ (c.kind # "udp" => c.pending = <<>>)
    /\ \A call \in DOMAIN c.posted : call.call \in WriterCalls
    /\ c.stray \in Nat /\ c.dropped \in Nat
    /\ c.kind # "http" => c.stray = 0 /\ c.dropped = 0
    /\ c.stream # "none" => c.kind \in {"http", "https"} /\ c.state \in {"Announcing", "Announced"}

\* Posted calls name trackers that were made.
TrackerShape(t) ==
    /\ DOMAIN t = TrackerFields /\ CommShape(t.comm)
    /\ t.protocol \in Protocols /\ t.timer \in {"none", "idle", "set"}
    /\ HasComm(t) <=> t.timer # "none"
    /\ t.made \in Nat /\ t.comm.no <= t.made
    /\ IsABag(t.tasks)
    /\ DOMAIN t.tasks \subseteq {"fail", "announce", "restart"} \X (0 .. t.made)
    /\ t.httpFallback /\ t.protocol # "udp" => t.httpFallbackUsed

\* The calls that the tracker of now has posted, and its requests and timer: one
\* leads to the next, so there is one of them, and one more for each refresh.
HowMany(x, bag) == IF x \in DOMAIN bag THEN bag[x] ELSE 0
Copies(t, call) == HowMany(<<call, t.comm.no>>, t.tasks)
Timers(t) == IF t.timer = "set" THEN 1 ELSE 0
Tokens(t) == Len(t.comm.pending) + Timers(t) + Copies(t, "fail") + Copies(t, "announce")

\* What wakes a tracker; a call posted by one that was replaced does not.
Wakes(task, t) == task[1] = "restart" \/ (HasComm(t) /\ task[2] = t.comm.no)
Awake(t) ==
    \/ t.protocol = "other" \/ t.timer = "set" \/ t.comm.stream = "live" \/ Asleep(t)
    \/ \E task \in DOMAIN t.tasks : Wakes(task, t)
    \/ \E entry \in Range(t.comm.pending) : entry.armed

PlanType ==
    [uris : Seq(Uri), imports : Seq(Uri), starts : Nat, stops : Nat, refreshes : {0, 1},
     losses : Nat, early : Nat, refusals : Nat, failures : Nat, partial : Nat]

\* What holds of a tracker with so many refreshes left.
Kept(t, refreshes, on, calls) ==
    /\ TrackerShape(t)
    /\ t.comm.kind = "udp" => Tokens(t) + refreshes <= 2
    /\ ~ on => t.timer # "set"
    /\ on /\ calls = 0 => Awake(t)

\* What the theorems about trackers rest on.
TrackersInv ==
    /\ started \in BOOLEAN /\ startAll \in Nat /\ trackerPlan \in PlanType
    /\ trackers \in Seq(Range(trackers))
    /\ \A i \in DOMAIN trackers : Kept(trackers[i], trackerPlan.refreshes, started, startAll)

-------------------------------------------------------------------------------
(* Bags of posted calls. *)

LEMMA BagAddFacts ==
    ASSUME NEW b, IsABag(b), NEW x
    PROVE  /\ IsABag(Plus(b, x)) /\ DOMAIN Plus(b, x) = DOMAIN b \cup {x}
           /\ HowMany(x, Plus(b, x)) = HowMany(x, b) + 1
           /\ \A y : y # x => HowMany(y, Plus(b, x)) = HowMany(y, b)
           /\ \A y : HowMany(y, b) \in Nat
<1>1. b \in [DOMAIN b -> {n \in Nat : n > 0}]
  BY DEF IsABag
<1>2. CASE x \in DOMAIN b
  BY <1>1, <1>2 DEF Plus, (+), SetToBag, HowMany, IsABag
<1>3. CASE x \notin DOMAIN b
  BY <1>1, <1>3 DEF Plus, (+), SetToBag, HowMany, IsABag
<1> QED
  BY <1>2, <1>3

LEMMA BagDomains ==
    \A b, x : /\ DOMAIN Plus(b, x) = DOMAIN b \cup {x}
              /\ DOMAIN Minus(b, x) \subseteq DOMAIN b
BY DEF Plus, Minus, (+), (-), SetToBag

LEMMA BagRemoveFacts ==
    ASSUME NEW b, IsABag(b), NEW x \in DOMAIN b
    PROVE  /\ IsABag(Minus(b, x)) /\ DOMAIN Minus(b, x) \subseteq DOMAIN b
           /\ DOMAIN b \ {x} \subseteq DOMAIN Minus(b, x)
           /\ HowMany(x, Minus(b, x)) = HowMany(x, b) - 1 /\ HowMany(x, b) > 0
           /\ \A y : y # x => HowMany(y, Minus(b, x)) = HowMany(y, b)
           /\ \A y : HowMany(y, b) \in Nat
<1>1. b \in [DOMAIN b -> {n \in Nat : n > 0}]
  BY DEF IsABag
<1>2. CASE b[x] = 1
  BY <1>1, <1>2 DEF Minus, (-), SetToBag, HowMany, IsABag
<1>3. CASE b[x] # 1
  BY <1>1, <1>3 DEF Minus, (-), SetToBag, HowMany, IsABag
<1> QED
  BY <1>2, <1>3

LEMMA NoTasks == IsABag(EmptyBag) /\ DOMAIN EmptyBag = {}
BY DEF EmptyBag, SetToBag, IsABag

-------------------------------------------------------------------------------
(* What one tracker does to itself. *)

LEMMA FieldsOf ==
    ASSUME NEW t, TrackerShape(t)
    PROVE  /\ \A c : LET u == [t EXCEPT !.comm = c]
                     IN  /\ DOMAIN u = TrackerFields /\ u.comm = c
                         /\ u.protocol = t.protocol /\ u.timer = t.timer /\ u.made = t.made
                         /\ u.tasks = t.tasks /\ u.httpFallback = t.httpFallback
                         /\ u.httpFallbackUsed = t.httpFallbackUsed
           /\ HasComm(t) <=> t.comm.no # 0
BY DEF TrackerShape, TrackerFields, HasComm, CommShape

LEMMA TokensTyped ==
    ASSUME NEW t, TrackerShape(t)
    PROVE  /\ Tokens(t) \in Nat /\ Len(t.comm.pending) \in Nat
           /\ Copies(t, "fail") \in Nat /\ Copies(t, "announce") \in Nat /\ Timers(t) \in Nat
<1>1. \A y : HowMany(y, t.tasks) \in Nat
  BY DEF HowMany, TrackerShape, IsABag
<1>2. Copies(t, "fail") \in Nat /\ Copies(t, "announce") \in Nat /\ Timers(t) \in Nat
  BY <1>1 DEF Copies, Timers
<1>3. Len(t.comm.pending) \in Nat
  BY DEF TrackerShape, CommShape
<1>4. \A i, j, k, l \in Nat : i + j + k + l \in Nat
  OBVIOUS
<1>5. Tokens(t) \in Nat
  BY <1>2, <1>3, <1>4 DEF Tokens
<1> QED
  BY <1>2, <1>3, <1>5

\* A tracker keeps its shape, and its calls, with another state of its requests.
LEMMA WithComm ==
    ASSUME NEW t, TrackerShape(t), NEW c, CommShape(c), c.kind = t.comm.kind, c.no = t.comm.no
    PROVE  LET u == [t EXCEPT !.comm = c]
           IN  /\ TrackerShape(u) /\ u.comm = c
               /\ u.protocol = t.protocol /\ u.timer = t.timer /\ u.made = t.made
               /\ u.tasks = t.tasks
               /\ Tokens(u) + Len(t.comm.pending) = Tokens(t) + Len(c.pending)
<1> DEFINE u == [t EXCEPT !.comm = c]
<1>1. /\ DOMAIN u = TrackerFields /\ u.comm = c
      /\ u.protocol = t.protocol /\ u.timer = t.timer /\ u.made = t.made
      /\ u.tasks = t.tasks /\ u.httpFallback = t.httpFallback
      /\ u.httpFallbackUsed = t.httpFallbackUsed
  BY FieldsOf
<1> HIDE DEF u
<1>2. TrackerShape(u)
  BY <1>1 DEF TrackerShape, HasComm
<1>3. Tokens(u) + Len(t.comm.pending) = Tokens(t) + Len(c.pending)
  <2>1. /\ Copies(u, "fail") = Copies(t, "fail") /\ Copies(u, "announce") = Copies(t, "announce")
        /\ Timers(u) = Timers(t)
    BY <1>1 DEF Copies, Timers
  <2>2. Copies(t, "fail") \in Nat /\ Copies(t, "announce") \in Nat /\ Timers(t) \in Nat
    BY TokensTyped
  <2>3. Len(t.comm.pending) \in Nat /\ Len(c.pending) \in Nat
    BY DEF TrackerShape, CommShape
  <2> QED
    BY <1>1, <2>1, <2>2, <2>3 DEF Tokens
<1> QED
  BY <1>1, <1>2, <1>3 DEF u

LEMMA ArmedAwake ==
    ASSUME NEW t, TrackerShape(t), NEW e \in DOMAIN t.comm.pending, t.comm.pending[e].armed
    PROVE  Awake(t)
BY DEF Awake, Range

LEMMA UdpAnnounceFacts ==
    ASSUME NEW t, TrackerShape(t), t.comm.kind = "udp"
    PROVE  LET u == UdpAnnounce(t)
           IN  /\ TrackerShape(u) /\ Awake(u) /\ Tokens(u) = Tokens(t) + 1
               /\ u.comm.kind = t.comm.kind /\ u.comm.no = t.comm.no
               /\ u.protocol = t.protocol /\ u.timer = t.timer /\ u.made = t.made
               /\ u.tasks = t.tasks
               /\ \E a \in {"connect", "announce"} : u.comm.pending = Append(t.comm.pending, Entry(a))
<1> DEFINE a == IF t.comm.state \in {"Clear", "Offline", "Connecting"} THEN "connect" ELSE "announce"
           m == [action |-> a, id |-> NewId(t.comm)]
           u == UdpAnnounce(t)
           s == IF a = "connect" THEN "Connecting" ELSE "Announcing"
           p == Plus(t.comm.posted, [call |-> "write", message |-> m])
           c == [t.comm EXCEPT !.state = s, !.last = m, !.callback = TRUE,
                               !.pending = Append(t.comm.pending, Entry(a)), !.posted = p]
<1>1. DOMAIN t = TrackerFields /\ DOMAIN t.comm = CommFields
  BY DEF TrackerShape, CommShape
<1>2. a \in {"connect", "announce"} /\ s \in {"Connecting", "Announcing"}
  OBVIOUS
<1> HIDE DEF a
<1>3. u = UdpSend(t, a)
  BY DEF UdpAnnounce, a
<1>4. u = [t EXCEPT !.comm = c]
  <2> HIDE DEF m, u
  <2> QED
    BY <1>1, <1>3 DEF UdpSend, PostUdp, TrackerFields, CommFields, m
<1>5. \A call \in DOMAIN p : call.call \in WriterCalls
  <2>1. DOMAIN p = DOMAIN t.comm.posted \cup {[call |-> "write", message |-> m]}
    BY BagDomains
  <2>2. \A call \in DOMAIN t.comm.posted : call.call \in WriterCalls
    BY DEF TrackerShape, CommShape
  <2>3. [call |-> "write", message |-> m].call \in WriterCalls
    BY DEF WriterCalls
  <2> HIDE DEF m, p
  <2> QED
    BY <2>1, <2>2, <2>3
<1> HIDE DEF u, m, p, s
<1>6. /\ DOMAIN c = CommFields /\ c.kind = t.comm.kind /\ c.no = t.comm.no /\ c.state = s
      /\ c.socket = t.comm.socket /\ c.stream = t.comm.stream /\ c.stray = t.comm.stray
      /\ c.dropped = t.comm.dropped /\ c.pending = Append(t.comm.pending, Entry(a))
      /\ c.posted = p
  BY <1>1 DEF CommFields
<1> HIDE DEF c
<1>7. t.comm.pending \in Seq(EntryType) /\ Entry(a) \in EntryType /\ Entry(a).armed
  BY <1>2 DEF TrackerShape, CommShape, Entry, EntryType
<1>8. /\ c.pending \in Seq(EntryType) /\ Len(c.pending) = Len(t.comm.pending) + 1
      /\ c.pending[Len(c.pending)] = Entry(a) /\ Len(c.pending) \in DOMAIN c.pending
  BY <1>6, <1>7
<1>9. CommShape(c)
  BY <1>2, <1>6, <1>8, <1>5 DEF TrackerShape, CommShape
<1>10. /\ TrackerShape(u) /\ u.comm = c
      /\ u.protocol = t.protocol /\ u.timer = t.timer /\ u.made = t.made
      /\ u.tasks = t.tasks
      /\ Tokens(u) + Len(t.comm.pending) = Tokens(t) + Len(c.pending)
  BY <1>4, <1>6, <1>9, WithComm
<1>11. Awake(u)
  BY <1>7, <1>8, <1>10, ArmedAwake
<1>12. Tokens(u) = Tokens(t) + 1
  <2>1. Tokens(t) \in Int /\ Tokens(u) \in Int /\ Len(t.comm.pending) \in Nat
    BY <1>7, <1>10, TokensTyped
  <2>2. Tokens(u) + Len(t.comm.pending) = Tokens(t) + (Len(t.comm.pending) + 1)
    BY <1>8, <1>10
  <2>3. \A x, y \in Int, n \in Nat : x + n = y + (n + 1) => x = y + 1
    OBVIOUS
  <2> QED
    BY <2>1, <2>2, <2>3
<1> QED
  BY <1>2, <1>6, <1>10, <1>11, <1>12 DEF u

\* What is asked, and what wakes it, stays when nothing else of its comm changes.
LEMMA WithOther ==
    ASSUME NEW t, TrackerShape(t), NEW c, CommShape(c), c.kind = t.comm.kind, c.no = t.comm.no,
           c.pending = t.comm.pending, c.stream = t.comm.stream
    PROVE  LET u == [t EXCEPT !.comm = c]
           IN  /\ TrackerShape(u) /\ u.comm = c
               /\ u.protocol = t.protocol /\ u.timer = t.timer /\ u.made = t.made
               /\ u.tasks = t.tasks
               /\ Tokens(u) = Tokens(t) /\ (Awake(t) => Awake(u))
<1> DEFINE u == [t EXCEPT !.comm = c]
<1>1. /\ TrackerShape(u) /\ u.comm = c
      /\ u.protocol = t.protocol /\ u.timer = t.timer /\ u.made = t.made
      /\ u.tasks = t.tasks
      /\ Tokens(u) + Len(t.comm.pending) = Tokens(t) + Len(c.pending)
  BY WithComm
<1> HIDE DEF u
<1>2. Tokens(u) = Tokens(t)
  <2>1. Tokens(u) \in Nat /\ Tokens(t) \in Nat /\ Len(c.pending) \in Nat
    BY <1>1, TokensTyped
  <2>2. Tokens(u) + Len(c.pending) = Tokens(t) + Len(c.pending)
    BY <1>1
  <2> QED
    BY <2>1, <2>2
<1>3. Awake(t) => Awake(u)
  BY <1>1 DEF Awake, Asleep, Wakes, HasComm
<1> QED
  BY <1>1, <1>2, <1>3 DEF u

LEMMA PostUdpFacts ==
    ASSUME NEW t, TrackerShape(t), NEW call, call.call \in WriterCalls
    PROVE  LET u == PostUdp(t, call)
           IN  /\ TrackerShape(u) /\ u.comm.kind = t.comm.kind /\ u.comm.no = t.comm.no
               /\ u.protocol = t.protocol /\ u.timer = t.timer /\ u.made = t.made
               /\ u.tasks = t.tasks /\ u.comm.pending = t.comm.pending
               /\ Tokens(u) = Tokens(t) /\ (Awake(t) => Awake(u))
<1> DEFINE p == Plus(t.comm.posted, call)
           c == [t.comm EXCEPT !.posted = p]
<1>1. DOMAIN t = TrackerFields /\ DOMAIN t.comm = CommFields
  BY DEF TrackerShape, CommShape
<1>2. PostUdp(t, call) = [t EXCEPT !.comm = c]
  BY <1>1 DEF PostUdp, TrackerFields, CommFields
<1>3. \A x \in DOMAIN p : x.call \in WriterCalls
  <2>1. DOMAIN p = DOMAIN t.comm.posted \cup {call}
    BY BagDomains
  <2> QED
    BY <2>1 DEF TrackerShape, CommShape
<1> HIDE DEF p
<1>4. CommShape(c) /\ c.kind = t.comm.kind /\ c.no = t.comm.no
      /\ c.pending = t.comm.pending /\ c.stream = t.comm.stream
  BY <1>1, <1>3 DEF CommShape, CommFields, TrackerShape
<1> HIDE DEF c
<1> QED
  BY <1>2, <1>4, WithOther

States == {"Clear", "Initialized", "Offline", "Alive", "Connecting", "Connected",
           "Announcing", "Announced"}

\* A request of UDP in another state.
LEMMA WithState ==
    ASSUME NEW t, TrackerShape(t), t.comm.kind = "udp", NEW s \in States
    PROVE  LET u == [t EXCEPT !.comm.state = s]
           IN  /\ TrackerShape(u) /\ u.comm = [t.comm EXCEPT !.state = s]
               /\ u.comm.kind = t.comm.kind /\ u.comm.no = t.comm.no
               /\ u.protocol = t.protocol /\ u.timer = t.timer /\ u.made = t.made
               /\ u.tasks = t.tasks /\ u.comm.pending = t.comm.pending
               /\ Tokens(u) = Tokens(t) /\ (Awake(t) => Awake(u))
<1> DEFINE c == [t.comm EXCEPT !.state = s]
<1>1. DOMAIN t = TrackerFields /\ DOMAIN t.comm = CommFields
  BY DEF TrackerShape, CommShape
<1>2. [t EXCEPT !.comm.state = s] = [t EXCEPT !.comm = c]
  BY <1>1 DEF TrackerFields, CommFields
<1>3. CommShape(c) /\ c.kind = t.comm.kind /\ c.no = t.comm.no
      /\ c.pending = t.comm.pending /\ c.stream = t.comm.stream
  BY <1>1 DEF CommShape, CommFields, TrackerShape, States
<1>4. /\ TrackerShape([t EXCEPT !.comm = c]) /\ [t EXCEPT !.comm = c].comm = c
      /\ [t EXCEPT !.comm = c].protocol = t.protocol /\ [t EXCEPT !.comm = c].timer = t.timer
      /\ [t EXCEPT !.comm = c].made = t.made /\ [t EXCEPT !.comm = c].tasks = t.tasks
      /\ Tokens([t EXCEPT !.comm = c]) = Tokens(t)
      /\ (Awake(t) => Awake([t EXCEPT !.comm = c]))
  <2> HIDE DEF c
  <2> QED
    BY <1>3, WithOther
<1> DEFINE u == [t EXCEPT !.comm.state = s]
<1>5. /\ TrackerShape(u) /\ u.comm = c /\ u.protocol = t.protocol /\ u.timer = t.timer
      /\ u.made = t.made /\ u.tasks = t.tasks /\ Tokens(u) = Tokens(t) /\ (Awake(t) => Awake(u))
  <2> HIDE DEF c, u
  <2>1. u = [t EXCEPT !.comm = c]
    BY <1>2 DEF u
  <2> QED
    BY <1>4, <2>1
<1> HIDE DEF u
<1> QED
  BY <1>3, <1>5 DEF u

\* A call that is posted wakes the tracker.
LEMMA PostFacts ==
    ASSUME NEW t, TrackerShape(t), HasComm(t), NEW task \in {"fail", "announce", "restart"}
    PROVE  LET u == Post(t, task)
           IN  /\ TrackerShape(u) /\ Awake(u) /\ u.comm = t.comm
               /\ u.protocol = t.protocol /\ u.timer = t.timer /\ u.made = t.made
               /\ Tokens(u) = IF task = "restart" THEN Tokens(t) ELSE Tokens(t) + 1
<1> DEFINE b == Plus(t.tasks, <<task, t.comm.no>>)
           u == Post(t, task)
<1>1. /\ IsABag(b) /\ DOMAIN b = DOMAIN t.tasks \cup {<<task, t.comm.no>>}
      /\ HowMany(<<task, t.comm.no>>, b) = HowMany(<<task, t.comm.no>>, t.tasks) + 1
      /\ \A y : y # <<task, t.comm.no>> => HowMany(y, b) = HowMany(y, t.tasks)
      /\ \A y : HowMany(y, t.tasks) \in Nat
  BY BagAddFacts DEF TrackerShape
<1>2. u = [t EXCEPT !.tasks = b]
  BY DEF Post
<1> HIDE DEF b, u
<1>3. /\ DOMAIN u = TrackerFields /\ u.comm = t.comm /\ u.tasks = b
      /\ u.protocol = t.protocol /\ u.timer = t.timer /\ u.made = t.made
      /\ u.httpFallback = t.httpFallback /\ u.httpFallbackUsed = t.httpFallbackUsed
  BY <1>2 DEF TrackerShape, TrackerFields
<1>4. t.comm.no \in 0 .. t.made
  BY DEF TrackerShape, CommShape
<1>5. TrackerShape(u)
  BY <1>1, <1>3, <1>4 DEF TrackerShape, HasComm
<1>6. Awake(u)
  BY <1>1, <1>3 DEF Awake, Wakes, HasComm
<1>7. Tokens(u) = IF task = "restart" THEN Tokens(t) ELSE Tokens(t) + 1
  <2>1. Timers(u) = Timers(t) /\ Len(u.comm.pending) = Len(t.comm.pending)
    BY <1>3 DEF Timers
  <2>2. /\ Copies(u, "fail") = IF task = "fail" THEN Copies(t, "fail") + 1 ELSE Copies(t, "fail")
        /\ Copies(u, "announce") = IF task = "announce" THEN Copies(t, "announce") + 1
                                   ELSE Copies(t, "announce")
    BY <1>1, <1>3 DEF Copies
  <2>3. \A i, j, k, l \in Nat :
           /\ i + j + (k + 1) + l = (i + j + k + l) + 1
           /\ i + j + k + (l + 1) = (i + j + k + l) + 1
    OBVIOUS
  <2>4. Copies(t, "fail") \in Nat /\ Copies(t, "announce") \in Nat /\ Timers(t) \in Nat
        /\ Len(t.comm.pending) \in Nat
    BY TokensTyped
  <2>5. CASE task = "fail"
    <3>1. Tokens(u) = Len(t.comm.pending) + Timers(t) + (Copies(t, "fail") + 1) + Copies(t, "announce")
      BY <2>1, <2>2, <2>5 DEF Tokens
    <3>2. PICK i \in Nat : i = Len(t.comm.pending) + Timers(t)
      BY <2>4
    <3>3. Tokens(u) = i + (Copies(t, "fail") + 1) + Copies(t, "announce")
      BY <3>1, <3>2
    <3>4. Tokens(t) = i + Copies(t, "fail") + Copies(t, "announce")
      BY <3>2 DEF Tokens
    <3> QED
      BY <2>4, <2>5, <3>3, <3>4
  <2>6. CASE task = "announce"
    <3>1. Tokens(u) = Len(t.comm.pending) + Timers(t) + Copies(t, "fail") + (Copies(t, "announce") + 1)
      BY <2>1, <2>2, <2>6 DEF Tokens
    <3> QED
      BY <2>3, <2>4, <2>6, <3>1 DEF Tokens
  <2>7. CASE task = "restart"
    BY <2>1, <2>2, <2>3, <2>4, <2>7 DEF Tokens
  <2> QED
    BY <2>5, <2>6, <2>7
<1> QED
  BY <1>3, <1>5, <1>6, <1>7 DEF u

LEMMA UdpFailFacts ==
    ASSUME NEW t, TrackerShape(t), t.comm.kind = "udp"
    PROVE  LET u == UdpFail(t)
           IN  /\ TrackerShape(u) /\ Awake(u) /\ Tokens(u) = Tokens(t) + 1
               /\ u.comm.kind = t.comm.kind /\ u.comm.no = t.comm.no
               /\ u.comm.pending = t.comm.pending
               /\ u.protocol = t.protocol /\ u.timer = t.timer /\ u.made = t.made
<1> DEFINE s == CASE t.comm.state \in {"Clear", "Offline", "Connecting"} -> "Offline"
                  [] t.comm.state = "Announced" -> "Announced"
                  [] OTHER -> "Connected"
           v == [t EXCEPT !.comm.state = s]
<1>1. s \in States
  BY DEF States
<1>2. UdpFail(t) = Post(v, "fail")
  <2>1. DOMAIN t = TrackerFields /\ DOMAIN t.comm = CommFields
    BY DEF TrackerShape, CommShape
  <2> QED
    BY <2>1 DEF UdpFail, TrackerFields, CommFields
<1> HIDE DEF s
<1>3. /\ TrackerShape(v) /\ v.comm.kind = "udp" /\ v.comm.no = t.comm.no
      /\ v.comm.pending = t.comm.pending /\ Tokens(v) = Tokens(t)
      /\ v.protocol = t.protocol /\ v.timer = t.timer /\ v.made = t.made
  BY <1>1, WithState
<1> HIDE DEF v
<1>4. HasComm(v)
  BY <1>3 DEF HasComm
<1> QED
  BY <1>2, <1>3, <1>4, PostFacts

LEMMA AnnouncedFacts ==
    ASSUME NEW t, TrackerShape(t), HasComm(t)
    PROVE  LET u == Announced(t)
           IN  /\ TrackerShape(u) /\ Awake(u)
               /\ u.comm.kind = t.comm.kind /\ u.comm.no = t.comm.no
               /\ u.comm.pending = t.comm.pending
               /\ u.protocol = t.protocol /\ u.timer = t.timer /\ u.made = t.made
               /\ Tokens(u) = Tokens(t) + 1
<1> DEFINE c == [t.comm EXCEPT !.state = "Announced", !.lastAnnounce = TRUE]
           v == [t EXCEPT !.comm = c]
<1>1. DOMAIN t = TrackerFields /\ DOMAIN t.comm = CommFields
  BY DEF TrackerShape, CommShape
<1>2. Announced(t) = Post(v, "announce")
  BY <1>1 DEF Announced, TrackerFields, CommFields
<1>3. CommShape(c) /\ c.kind = t.comm.kind /\ c.no = t.comm.no
      /\ c.pending = t.comm.pending /\ c.stream = t.comm.stream
  BY <1>1 DEF CommShape, CommFields, TrackerShape
<1> HIDE DEF c
<1>4. /\ TrackerShape(v) /\ v.comm = c
      /\ v.protocol = t.protocol /\ v.timer = t.timer /\ v.made = t.made
      /\ Tokens(v) = Tokens(t)
  BY <1>3, WithOther
<1> HIDE DEF v
<1>5. HasComm(v)
  BY <1>3, <1>4 DEF HasComm
<1> QED
  BY <1>2, <1>3, <1>4, <1>5, PostFacts

\* A stream that fails before its answer posts the failure.
LEMMA StreamFailFacts ==
    ASSUME NEW t, TrackerShape(t), t.comm.kind \in {"http", "https"}, t.comm.stream = "none"
    PROVE  LET u == StreamFail(t)
           IN  /\ TrackerShape(u) /\ u.comm.kind = t.comm.kind /\ u.timer = t.timer
               /\ (Awake(t) => Awake(u)) /\ (t.comm.state = "Announcing" => Awake(u))
<1> DEFINE s == IF t.comm.lastAnnounce THEN "Alive" ELSE "Offline"
           c == [t.comm EXCEPT !.state = s]
           v == [t EXCEPT !.comm = c]
<1>1. DOMAIN t = TrackerFields /\ DOMAIN t.comm = CommFields
  BY DEF TrackerShape, CommShape
<1>2. StreamFail(t) = IF t.comm.state # "Announcing" THEN t ELSE Post(v, "fail")
  BY <1>1 DEF StreamFail, TrackerFields, CommFields
<1>3. s \in {"Alive", "Offline"}
  OBVIOUS
<1> HIDE DEF s
<1>4. CommShape(c) /\ c.kind = t.comm.kind /\ c.no = t.comm.no
      /\ c.pending = t.comm.pending /\ c.stream = t.comm.stream
  BY <1>1, <1>3 DEF CommShape, CommFields, TrackerShape
<1> HIDE DEF c
<1>5. TrackerShape(v) /\ v.comm = c /\ v.timer = t.timer
  BY <1>4, WithOther
<1> HIDE DEF v
<1>6. HasComm(v)
  BY <1>4, <1>5 DEF HasComm
<1>7. /\ TrackerShape(Post(v, "fail")) /\ Awake(Post(v, "fail")) /\ Post(v, "fail").comm = c
      /\ Post(v, "fail").timer = t.timer
  BY <1>5, <1>6, PostFacts
<1> QED
  BY <1>2, <1>4, <1>7

LEMMA HttpFailFacts ==
    ASSUME NEW t, TrackerShape(t), t.comm.kind = "http"
    PROVE  LET u == HttpFail(t)
           IN  /\ TrackerShape(u) /\ u.comm.kind = t.comm.kind /\ u.timer = t.timer
               /\ (t.comm.stream = "none" /\ Awake(t) => Awake(u))
               /\ (t.comm.state = "Announcing" => Awake(u))
<1> DEFINE k == t.comm.stray + (IF t.comm.stream = "live" THEN 1 ELSE 0)
           c == [t.comm EXCEPT !.stream = "none", !.stray = k]
           v == [t EXCEPT !.comm = c]
<1>1. DOMAIN t = TrackerFields /\ DOMAIN t.comm = CommFields
  BY DEF TrackerShape, CommShape
<1>2. HttpFail(t) = StreamFail(v)
  BY <1>1 DEF HttpFail, TrackerFields, CommFields
<1>3. k \in Nat
  BY DEF TrackerShape, CommShape
<1> HIDE DEF k
<1>4. CommShape(c) /\ c.kind = t.comm.kind /\ c.no = t.comm.no /\ c.stream = "none"
      /\ c.pending = t.comm.pending /\ c.state = t.comm.state
  BY <1>1, <1>3 DEF CommShape, CommFields, TrackerShape
<1> HIDE DEF c
<1>5. TrackerShape(v) /\ v.comm = c /\ v.timer = t.timer
  BY <1>4, WithComm
<1>6. t.comm.stream = "none" /\ Awake(t) => Awake(v)
  <2> HIDE DEF v
  <2>1. t.comm.stream = "none" => (Awake(t) => Awake([t EXCEPT !.comm = c]))
    BY <1>4, WithOther
  <2> QED
    BY <2>1 DEF v
<1> HIDE DEF v
<1> QED
  BY <1>2, <1>4, <1>5, <1>6, StreamFailFacts

LEMMA AnnounceFacts ==
    ASSUME NEW t, TrackerShape(t), HasComm(t)
    PROVE  LET u == Announce(t)
           IN  /\ TrackerShape(u) /\ Awake(u)
               /\ u.comm.kind = t.comm.kind /\ u.comm.no = t.comm.no
               /\ u.protocol = t.protocol /\ u.timer = t.timer /\ u.made = t.made
               /\ u.tasks = t.tasks
               /\ (t.comm.kind = "udp" => Tokens(u) = Tokens(t) + 1)
<1>1. t.comm.kind \in {"udp", "http", "https"}
  BY DEF HasComm, TrackerShape, CommShape
<1>2. CASE t.comm.kind = "udp"
  <2>1. Announce(t) = UdpAnnounce(t)
    BY <1>2 DEF Announce
  <2> QED
    BY <1>2, <2>1, UdpAnnounceFacts
<1>3. CASE t.comm.kind \in {"http", "https"}
  <2> DEFINE s == IF t.comm.kind = "http" /\ t.comm.stream = "dead" THEN "dead" ELSE "live"
             c == [t.comm EXCEPT !.state = "Announcing", !.stream = s]
             u == Announce(t)
  <2>1. DOMAIN t = TrackerFields /\ DOMAIN t.comm = CommFields
    BY DEF TrackerShape, CommShape
  <2>2. u = [t EXCEPT !.comm = c]
    <3>1. CASE t.comm.kind = "http"
      BY <2>1, <3>1 DEF Announce, HttpAnnounce, TrackerFields, CommFields
    <3>2. CASE t.comm.kind = "https"
      BY <2>1, <3>2 DEF Announce, HttpsAnnounce, TrackerFields, CommFields
    <3> QED
      BY <1>3, <3>1, <3>2
  <2>3. s \in {"live", "dead"} /\ (s = "dead" => t.comm.kind = "http")
    OBVIOUS
  <2> HIDE DEF s, u
  <2>4. CommShape(c) /\ c.kind = t.comm.kind /\ c.no = t.comm.no /\ c.stream = s
    BY <1>3, <2>1, <2>3 DEF CommShape, CommFields, TrackerShape
  <2> HIDE DEF c
  <2>5. /\ TrackerShape(u) /\ u.comm = c
        /\ u.protocol = t.protocol /\ u.timer = t.timer /\ u.made = t.made
        /\ u.tasks = t.tasks
    BY <2>2, <2>4, WithComm
  <2>6. Awake(u)
    BY <1>3, <2>3, <2>4, <2>5 DEF Awake, Asleep
  <2> QED
    BY <1>3, <2>4, <2>5, <2>6 DEF u
<1> QED
  BY <1>1, <1>2, <1>3

\* A tracker that is made has nothing but its first request.
LEMMA StartTrackerFacts ==
    ASSUME NEW t, TrackerShape(t)
    PROVE  LET u == StartTracker(t)
           IN  /\ TrackerShape(u) /\ Awake(u)
               /\ \/ u = t /\ t.protocol = "other"
                  \/ u.timer # "set" /\ (u.comm.kind = "udp" => Tokens(u) = 1)
<1>1. CASE t.protocol = "other"
  BY <1>1 DEF StartTracker, Awake
<1>2. CASE t.protocol # "other"
  <2> DEFINE c == NewComm(t.protocol, t.made + 1)
             v == [t EXCEPT !.comm = c, !.made = t.made + 1, !.timer = "idle"]
  <2>1. DOMAIN t = TrackerFields
    BY DEF TrackerShape
  <2>2. StartTracker(t) = Announce(v)
    BY <1>2, <2>1 DEF StartTracker, TrackerFields
  <2>3. t.protocol \in {"udp", "http", "https"} /\ t.made \in Nat
    BY <1>2 DEF TrackerShape, Protocols
  <2>4. CommShape(c) /\ c.kind = t.protocol /\ c.no = t.made + 1 /\ c.pending = <<>>
    BY <2>3, NoTasks DEF NewComm, CommShape, CommFields
  <2> HIDE DEF c
  <2>5. /\ DOMAIN v = TrackerFields /\ v.comm = c /\ v.made = t.made + 1 /\ v.timer = "idle"
        /\ v.protocol = t.protocol /\ v.tasks = t.tasks /\ v.httpFallback = t.httpFallback
        /\ v.httpFallbackUsed = t.httpFallbackUsed
    BY <2>1 DEF TrackerFields
  <2> HIDE DEF v
  <2>6. TrackerShape(v) /\ HasComm(v)
    <3>1. HasComm(v)
      BY <2>3, <2>4, <2>5 DEF HasComm
    <3>2. 0 .. t.made \subseteq 0 .. v.made
      BY <2>3, <2>5
    <3> QED
      BY <2>3, <2>4, <2>5, <3>1, <3>2 DEF TrackerShape
  <2>7. Tokens(v) = 0
    <3>1. t.made + 1 \notin 0 .. t.made
      BY <2>3
    <3>2. Copies(v, "fail") = 0 /\ Copies(v, "announce") = 0
      BY <2>4, <2>5, <3>1 DEF Copies, HowMany, TrackerShape
    <3>3. Timers(v) = 0 /\ Len(v.comm.pending) = 0
      BY <2>4, <2>5 DEF Timers
    <3> QED
      BY <3>2, <3>3 DEF Tokens
  <2>8. /\ TrackerShape(Announce(v)) /\ Awake(Announce(v))
        /\ Announce(v).comm.kind = v.comm.kind /\ Announce(v).timer = "idle"
        /\ (v.comm.kind = "udp" => Tokens(Announce(v)) = 0 + 1)
    BY <2>5, <2>6, <2>7, AnnounceFacts
  <2> QED
    BY <2>2, <2>8
<1> QED
  BY <1>1, <1>2

\* The positions of a list of at most two.
LEMMA FewPositions ==
    ASSUME NEW n \in 0 .. 2, NEW s \in SUBSET (1 .. n), s # {}
    PROVE  \/ n >= 1 /\ s = {1} /\ Max(s) = 1 /\ s \ {Max(s)} = {}
           \/ n = 2 /\ s = {2} /\ Max(s) = 2 /\ s \ {Max(s)} = {}
           \/ n = 2 /\ s = {1, 2} /\ Max(s) = 2 /\ s \ {Max(s)} = {1}
<1>1. Max(s) \in s /\ \A i \in s : i <= Max(s)
  BY LastPosition
<1>2. n = 0 \/ n = 1 \/ n = 2
  OBVIOUS
<1>3. s \subseteq {1, 2} /\ (n = 1 => s \subseteq {1}) /\ n # 0
  <2>1. 1 .. 0 = {} /\ 1 .. 1 = {1} /\ 1 .. 2 = {1, 2}
    OBVIOUS
  <2> QED
    BY <1>2, <2>1
<1>4. s = {1} \/ s = {2} \/ s = {1, 2}
  BY <1>3
<1> HIDE DEF Max
<1> QED
  BY <1>1, <1>2, <1>3, <1>4


\* A request that fails, and its writer closed.
Fails(t) == PostUdp(UdpFail(t), Close)

LEMMA FailedFacts ==
    ASSUME NEW t, TrackerShape(t), t.comm.kind = "udp"
    PROVE  LET u == Fails(t)
           IN  /\ TrackerShape(u) /\ Awake(u) /\ Tokens(u) = Tokens(t) + 1
               /\ u.comm.kind = "udp" /\ u.timer = t.timer
<1> DEFINE v == UdpFail(t)
<1>1. TrackerShape(v) /\ Awake(v) /\ Tokens(v) = Tokens(t) + 1 /\ v.comm.kind = "udp"
      /\ v.timer = t.timer
  BY UdpFailFacts
<1> HIDE DEF v
<1>2. Fails(t) = PostUdp(v, Close)
  BY DEF Fails, v
<1>3. Close.call \in WriterCalls
  BY DEF Close, WriterCalls
<1> QED
  BY <1>1, <1>2, <1>3, PostUdpFacts

\* The tracker without its requests.
LEMMA Emptied ==
    ASSUME NEW t, TrackerShape(t)
    PROVE  LET u == [t EXCEPT !.comm.pending = <<>>]
           IN  /\ TrackerShape(u) /\ u.comm = [t.comm EXCEPT !.pending = <<>>]
               /\ u.comm.kind = t.comm.kind /\ u.comm.no = t.comm.no /\ u.timer = t.timer
               /\ u.comm.pending = <<>> /\ u.comm.last = t.comm.last /\ u.comm.stream = t.comm.stream
               /\ u.tasks = t.tasks /\ u.protocol = t.protocol
               /\ Tokens(u) + Len(t.comm.pending) = Tokens(t)
               /\ (t.comm.pending = <<>> /\ Awake(t) => Awake(u))
<1> DEFINE c == [t.comm EXCEPT !.pending = <<>>]
           u == [t EXCEPT !.comm = c]
<1>1. DOMAIN t = TrackerFields /\ DOMAIN t.comm = CommFields
  BY DEF TrackerShape, CommShape
<1>2. [t EXCEPT !.comm.pending = <<>>] = u
  BY <1>1 DEF TrackerFields, CommFields
<1>3. CommShape(c) /\ c.kind = t.comm.kind /\ c.no = t.comm.no /\ c.stream = t.comm.stream
      /\ c.pending = <<>> /\ c.last = t.comm.last
  BY <1>1 DEF CommShape, CommFields, TrackerShape
<1>4. c = [t.comm EXCEPT !.pending = <<>>]
  OBVIOUS
<1> HIDE DEF c
<1>5. /\ TrackerShape(u) /\ u.comm = c
      /\ u.protocol = t.protocol /\ u.timer = t.timer /\ u.made = t.made /\ u.tasks = t.tasks
      /\ Tokens(u) + Len(t.comm.pending) = Tokens(t) + Len(c.pending)
  BY <1>3, WithComm
<1>6. t.comm.pending = <<>> /\ Awake(t) => Awake(u)
  BY <1>3, WithOther
<1> HIDE DEF u
<1>7. Tokens(u) + Len(t.comm.pending) = Tokens(t)
  <2>1. Len(c.pending) = 0 /\ Tokens(t) \in Nat
    BY <1>3, TokensTyped
  <2> QED
    BY <1>5, <2>1
<1> QED
  BY <1>2, <1>3, <1>4, <1>5, <1>6, <1>7

LEMMA PendingTyped ==
    ASSUME NEW t, TrackerShape(t)
    PROVE  /\ Len(t.comm.pending) \in Nat /\ DOMAIN t.comm.pending = 1 .. Len(t.comm.pending)
           /\ Len(t.comm.pending) <= 2 => Len(t.comm.pending) \in 0 .. 2
           /\ Len(t.comm.pending) = 0 <=> t.comm.pending = <<>>
           /\ \A i \in DOMAIN t.comm.pending : t.comm.pending[i] \in EntryType
<1>1. PICK p \in Seq(EntryType) : p = t.comm.pending
  BY DEF TrackerShape, CommShape
<1>2. Len(p) \in Nat /\ DOMAIN p = 1 .. Len(p)
  OBVIOUS
<1>3. Len(p) <= 2 => Len(p) \in 0 .. 2
  BY <1>2
<1>4. Len(p) = 0 <=> p = <<>>
  OBVIOUS
<1>5. \A i \in DOMAIN p : p[i] \in EntryType
  OBVIOUS
<1> QED
  BY <1>1, <1>2, <1>3, <1>4, <1>5

LEMMA UdpCloseIs ==
    ASSUME NEW t, TrackerShape(t), Len(t.comm.pending) <= 2
    PROVE  UdpClose(t) = LET b == [t EXCEPT !.comm.pending = <<>>]
                         IN  IF Len(t.comm.pending) = 0 THEN b
                             ELSE IF Len(t.comm.pending) = 1 THEN Fails(b) ELSE Fails(Fails(b))
<1> DEFINE b == [t EXCEPT !.comm.pending = <<>>]
           from == t.comm.pending
           n == Len(from)
           body(f) == [s \in SUBSET (DOMAIN from) |->
                          IF s = {} THEN b
                          ELSE LET x == Max(s) IN Fails(f[s \ {x}])]
           it == CHOOSE f : f = body(f)
<1>1. n \in 0 .. 2 /\ DOMAIN from = 1 .. n
  BY PendingTyped
<1>2. UdpClose(t) = it[DOMAIN from]
  BY DEF UdpClose, FoldLeft, MapThenFoldSet, Fails
<1>3. it = body(it)
  <2> DEFINE b1 == Fails(b)
             b2 == Fails(b1)
             f == [s \in SUBSET (1 .. n) |->
                      IF s = {} THEN b ELSE IF s = {1} THEN b1 ELSE IF s = {2} THEN b1 ELSE b2]
  <2>1. \A s \in SUBSET (1 .. n) : f[s] = IF s = {} THEN b ELSE Fails(f[s \ {Max(s)}])
    <3> SUFFICES ASSUME NEW s \in SUBSET (1 .. n)
                 PROVE  f[s] = IF s = {} THEN b ELSE Fails(f[s \ {Max(s)}])
      OBVIOUS
    <3>1. {} \in SUBSET (1 .. n)
      OBVIOUS
    <3>2. f[{}] = b
      BY <3>1
    <3> HIDE DEF b, n
    <3>3. n \in 0 .. 2
      BY <1>1
    <3>4. CASE s = {1} /\ s \ {Max(s)} = {}
      <4>1. f[s] = b1
        BY <3>4
      <4> HIDE DEF f
      <4> QED
        BY <3>2, <3>4, <4>1
    <3>5. CASE s = {2} /\ s \ {Max(s)} = {}
      <4>1. f[s] = b1
        BY <3>5
      <4> HIDE DEF f
      <4> QED
        BY <3>2, <3>5, <4>1
    <3>6. CASE n = 2 /\ s = {1, 2} /\ s \ {Max(s)} = {1}
      <4>1. {1} \in SUBSET (1 .. n)
        BY <3>6
      <4>2. f[s] = b2 /\ f[{1}] = b1
        BY <3>6, <4>1
      <4> HIDE DEF f
      <4> QED
        BY <3>6, <4>2
    <3> HIDE DEF f
    <3> QED
      BY <3>2, <3>3, <3>4, <3>5, <3>6, FewPositions
  <2>2. f = [s \in SUBSET (1 .. n) |-> f[s]]
    OBVIOUS
  <2> HIDE DEF f
  <2>3. f = body(f)
    BY <1>1, <2>1, <2>2
  <2> HIDE DEF body
  <2> QED
    BY <2>3
<1> HIDE DEF it
<1>4. \A s \in SUBSET (1 .. n) : it[s] = IF s = {} THEN b ELSE Fails(it[s \ {Max(s)}])
  <2>1. \A s \in SUBSET (1 .. n) : body(it)[s] = IF s = {} THEN b ELSE Fails(it[s \ {Max(s)}])
    BY <1>1
  <2> HIDE DEF body
  <2> QED
    BY <1>3, <2>1
<1> HIDE DEF b, n, body, from
<1>5. it[{}] = b
  <2>1. {} \in SUBSET (1 .. n)
    OBVIOUS
  <2> QED
    BY <1>4, <2>1
<1>6. n = 0 => it[1 .. n] = b
  <2>1. 1 .. 0 = {}
    OBVIOUS
  <2> QED
    BY <1>5, <2>1
<1>7. n >= 1 => it[{1}] = Fails(b)
  <2>1. n >= 1 => {1} \in SUBSET (1 .. n) /\ {1} # {}
    BY <1>1
  <2>2. Max({1}) = 1 /\ {1} \ {1} = {}
    BY DEF Max
  <2> QED
    BY <1>4, <1>5, <2>1, <2>2
<1>8. n = 2 => it[{1, 2}] = Fails(Fails(b))
  <2>1. n = 2 => {1, 2} \in SUBSET (1 .. n) /\ {1, 2} # {}
    BY <1>1
  <2>2. Max({1, 2}) = 2
    <3>1. {1, 2} \in SUBSET (1 .. 2)
      OBVIOUS
    <3>2. Max({1, 2}) \in {1, 2} /\ \A i \in {1, 2} : i <= Max({1, 2})
      BY <3>1, LastPosition
    <3> HIDE DEF Max
    <3> QED
      BY <3>2
  <2>3. {1, 2} \ {2} = {1}
    OBVIOUS
  <2> HIDE DEF Max
  <2> QED
    <3> SUFFICES ASSUME n = 2 PROVE it[{1, 2}] = Fails(Fails(b))
      OBVIOUS
    <3>1. it[{1, 2}] = Fails(it[{1, 2} \ {2}])
      BY <1>4, <2>1, <2>2
    <3>2. it[{1}] = Fails(b)
      BY <1>7
    <3> QED
      BY <2>3, <3>1, <3>2
<1>9. 1 .. 1 = {1} /\ 1 .. 2 = {1, 2}
  OBVIOUS
<1> QED
  BY <1>1, <1>2, <1>6, <1>7, <1>8, <1>9 DEF b, from, n

\* What a step of a tracker keeps.
Turns(t, u) ==
    /\ TrackerShape(u) /\ u.comm.kind = t.comm.kind
    /\ u.comm.kind = "udp" => Tokens(u) <= Tokens(t)
    /\ Awake(t) => Awake(u)
    /\ u.timer = "set" => t.timer = "set"

LEMMA UdpCloseTurns ==
    ASSUME NEW t, TrackerShape(t), t.comm.kind = "udp", Len(t.comm.pending) <= 2
    PROVE  Turns(t, UdpClose(t)) /\ (t.comm.pending # <<>> => Awake(UdpClose(t)))
<1> DEFINE b == [t EXCEPT !.comm.pending = <<>>]
           n == Len(t.comm.pending)
<1>1. /\ TrackerShape(b) /\ b.comm.kind = t.comm.kind /\ b.timer = t.timer
      /\ Tokens(b) + n = Tokens(t) /\ (t.comm.pending = <<>> /\ Awake(t) => Awake(b))
  BY Emptied
<1>2. n \in 0 .. 2 /\ (n = 0 <=> t.comm.pending = <<>>)
  BY PendingTyped
<1>3. UdpClose(t) = IF n = 0 THEN b ELSE IF n = 1 THEN Fails(b) ELSE Fails(Fails(b))
  BY UdpCloseIs
<1>4. Tokens(b) \in Nat /\ Tokens(t) \in Nat
  BY <1>1, TokensTyped
<1> HIDE DEF b, n
<1>5. CASE n = 0
  BY <1>1, <1>2, <1>3, <1>4, <1>5 DEF Turns
<1>6. /\ TrackerShape(Fails(b)) /\ Awake(Fails(b)) /\ Tokens(Fails(b)) = Tokens(b) + 1
      /\ Fails(b).comm.kind = "udp" /\ Fails(b).timer = t.timer
  BY <1>1, FailedFacts
<1>7. CASE n = 1
  BY <1>1, <1>2, <1>3, <1>4, <1>6, <1>7 DEF Turns
<1>8. CASE n = 2
  <2>1. /\ TrackerShape(Fails(Fails(b))) /\ Awake(Fails(Fails(b)))
        /\ Tokens(Fails(Fails(b))) = Tokens(b) + 1 + 1
        /\ Fails(Fails(b)).comm.kind = "udp" /\ Fails(Fails(b)).timer = t.timer
    BY <1>6, FailedFacts
  <2> QED
    BY <1>1, <1>2, <1>3, <1>4, <1>8, <2>1 DEF Turns
<1> QED
  BY <1>2, <1>5, <1>7, <1>8

LEMMA RespondFacts ==
    ASSUME NEW t, TrackerShape(t), t.comm.kind = "udp", NEW entry, NEW packet, NEW good
    PROVE  LET u == Respond(t, entry, packet, good)
           IN  /\ TrackerShape(u) /\ Awake(u) /\ Tokens(u) = Tokens(t) + 1
               /\ u.comm.kind = "udp" /\ u.timer = t.timer
<1> DEFINE u == Respond(t, entry, packet, good)
<1>1. CASE ~ good
  <2>1. u = UdpFail(t)
    BY <1>1 DEF Respond
  <2> QED
    BY <2>1, UdpFailFacts
<1>2. CASE good /\ entry.action = "connect"
  <2> DEFINE k == IF packet.action = "connect" THEN "good" ELSE "bad"
             c == [t.comm EXCEPT !.state = "Connected", !.connection = k]
             v == [t EXCEPT !.comm = c]
  <2>1. DOMAIN t = TrackerFields /\ DOMAIN t.comm = CommFields
    BY DEF TrackerShape, CommShape
  <2> HIDE DEF k
  <2>2. [t EXCEPT !.comm.state = "Connected", !.comm.connection = k] = v
    BY <2>1 DEF TrackerFields, CommFields
  <2>3. u = UdpAnnounce(v)
    BY <1>2, <2>2 DEF Respond, ConnectAnswer, k
  <2>4. CommShape(c) /\ c.kind = t.comm.kind /\ c.no = t.comm.no
        /\ c.pending = t.comm.pending /\ c.stream = t.comm.stream
    BY <2>1 DEF CommShape, CommFields, TrackerShape
  <2> HIDE DEF c
  <2>5. TrackerShape(v) /\ v.comm = c /\ v.timer = t.timer /\ Tokens(v) = Tokens(t)
    BY <2>4, WithOther
  <2> HIDE DEF v
  <2>6. v.comm.kind = "udp"
    BY <2>4, <2>5
  <2>7. /\ TrackerShape(UdpAnnounce(v)) /\ Awake(UdpAnnounce(v))
        /\ Tokens(UdpAnnounce(v)) = Tokens(v) + 1 /\ UdpAnnounce(v).timer = v.timer
        /\ UdpAnnounce(v).comm.kind = v.comm.kind
    BY <2>5, <2>6, UdpAnnounceFacts
  <2> HIDE DEF u
  <2>8. TrackerShape(u) /\ Awake(u) /\ Tokens(u) = Tokens(t) + 1
        /\ u.comm.kind = "udp" /\ u.timer = t.timer
    BY <2>3, <2>5, <2>6, <2>7
  <2> QED
    BY <2>8 DEF u
<1>3. CASE good /\ entry.action # "connect"
  <2>1. u = Announced(t)
    BY <1>3 DEF Respond
  <2>2. HasComm(t)
    BY DEF HasComm
  <2> QED
    BY <2>1, <2>2, AnnouncedFacts
<1> QED
  BY <1>1, <1>2, <1>3

LEMMA WithEntry ==
    ASSUME NEW t, TrackerShape(t), t.comm.kind = "udp", NEW entry \in EntryType
    PROVE  LET u == [t EXCEPT !.comm.pending = Append(t.comm.pending, entry)]
           IN  /\ TrackerShape(u) /\ u.comm.kind = "udp" /\ u.timer = t.timer
               /\ Tokens(u) = Tokens(t) + 1 /\ (Awake(t) \/ entry.armed => Awake(u))
<1> DEFINE c == [t.comm EXCEPT !.pending = Append(t.comm.pending, entry)]
           u == [t EXCEPT !.comm = c]
<1>1. DOMAIN t = TrackerFields /\ DOMAIN t.comm = CommFields
  BY DEF TrackerShape, CommShape
<1>2. [t EXCEPT !.comm.pending = Append(t.comm.pending, entry)] = u
  BY <1>1 DEF TrackerFields, CommFields
<1>3. t.comm.pending \in Seq(EntryType)
  BY DEF TrackerShape, CommShape
<1>4. /\ Append(t.comm.pending, entry) \in Seq(EntryType)
      /\ Range(Append(t.comm.pending, entry)) = Range(t.comm.pending) \cup {entry}
  BY <1>3, AppendFacts
<1>5. Len(Append(t.comm.pending, entry)) = Len(t.comm.pending) + 1 /\ Len(t.comm.pending) \in Nat
  BY <1>3
<1>6. CommShape(c) /\ c.kind = "udp" /\ c.no = t.comm.no /\ c.stream = t.comm.stream
      /\ c.pending = Append(t.comm.pending, entry)
  BY <1>1, <1>4 DEF CommShape, CommFields, TrackerShape
<1> HIDE DEF c
<1>7. /\ TrackerShape(u) /\ u.comm = c
      /\ u.protocol = t.protocol /\ u.timer = t.timer /\ u.tasks = t.tasks
      /\ Tokens(u) + Len(t.comm.pending) = Tokens(t) + Len(c.pending)
  BY <1>6, WithComm
<1> HIDE DEF u
<1>8. Awake(t) \/ entry.armed => Awake(u)
  BY <1>4, <1>6, <1>7 DEF Awake, Asleep, Wakes, HasComm
<1>9. Tokens(u) = Tokens(t) + 1
  <2>1. Tokens(u) \in Nat /\ Tokens(t) \in Nat
    BY <1>7, TokensTyped
  <2>2. Len(c.pending) = Len(t.comm.pending) + 1
    BY <1>5, <1>6
  <2>3. Tokens(u) + Len(t.comm.pending) = Tokens(t) + (Len(t.comm.pending) + 1)
    BY <1>7, <2>2
  <2> QED
    BY <1>5, <2>1, <2>3
<1> QED
  BY <1>2, <1>6, <1>7, <1>8, <1>9

\* An answer offered to one request of the list.
Offered(acc, entry, packet, good) ==
    IF ~ acc.handled /\ Taken(acc.t, packet)
    THEN [handled |-> TRUE, t |-> PostUdp(Respond(acc.t, entry, packet, good), Close)]
    ELSE [acc EXCEPT !.t.comm.pending = Append(@, entry)]

LEMMA OfferedFacts ==
    ASSUME NEW acc, DOMAIN acc = {"handled", "t"}, TrackerShape(acc.t), acc.t.comm.kind = "udp",
           NEW entry \in EntryType, NEW packet, NEW good
    PROVE  LET u == Offered(acc, entry, packet, good)
           IN  /\ DOMAIN u = {"handled", "t"} /\ TrackerShape(u.t)
               /\ u.t.comm.kind = "udp" /\ u.t.timer = acc.t.timer
               /\ Tokens(u.t) = Tokens(acc.t) + 1
               /\ (Awake(acc.t) \/ entry.armed => Awake(u.t))
<1> DEFINE u == Offered(acc, entry, packet, good)
<1>1. CASE ~ acc.handled /\ Taken(acc.t, packet)
  <2> DEFINE v == Respond(acc.t, entry, packet, good)
             w == PostUdp(v, Close)
  <2>1. u = [handled |-> TRUE, t |-> w]
    BY <1>1 DEF Offered
  <2>2. /\ TrackerShape(v) /\ Awake(v) /\ Tokens(v) = Tokens(acc.t) + 1
        /\ v.comm.kind = "udp" /\ v.timer = acc.t.timer
    BY RespondFacts
  <2> HIDE DEF v
  <2>3. /\ TrackerShape(w) /\ Awake(w) /\ Tokens(w) = Tokens(acc.t) + 1
        /\ w.comm.kind = "udp" /\ w.timer = acc.t.timer
    <3>1. Close.call \in WriterCalls
      BY DEF Close, WriterCalls
    <3> QED
      BY <2>2, <3>1, PostUdpFacts
  <2> HIDE DEF w
  <2> QED
    BY <2>1, <2>3
<1>2. CASE ~ (~ acc.handled /\ Taken(acc.t, packet))
  <2> DEFINE w == [acc.t EXCEPT !.comm.pending = Append(acc.t.comm.pending, entry)]
  <2>1. DOMAIN acc.t = TrackerFields /\ DOMAIN acc.t.comm = CommFields
    BY DEF TrackerShape, CommShape
  <2>2. u = [acc EXCEPT !.t = w]
    BY <1>2, <2>1 DEF Offered, TrackerFields, CommFields
  <2>3. /\ TrackerShape(w) /\ w.comm.kind = "udp" /\ w.timer = acc.t.timer
        /\ Tokens(w) = Tokens(acc.t) + 1 /\ (Awake(acc.t) \/ entry.armed => Awake(w))
    BY WithEntry
  <2> HIDE DEF w
  <2> QED
    BY <2>2, <2>3
<1> QED
  BY <1>1, <1>2

LEMMA UdpReceiveIs ==
    ASSUME NEW t, TrackerShape(t), Len(t.comm.pending) <= 2, NEW packet, NEW good
    PROVE  LET from == t.comm.pending
               b == [handled |-> FALSE, t |-> [t EXCEPT !.comm.pending = <<>>]]
               b1 == Offered(b, from[1], packet, good)
           IN  UdpReceive(t, packet, good) =
                  (IF Len(from) = 0 THEN b
                   ELSE IF Len(from) = 1 THEN b1 ELSE Offered(b1, from[2], packet, good)).t
<1> DEFINE b == [handled |-> FALSE, t |-> [t EXCEPT !.comm.pending = <<>>]]
           from == t.comm.pending
           n == Len(from)
           next(acc, x) == Offered(acc, from[x], packet, good)
           body(f) == [s \in SUBSET (DOMAIN from) |->
                          IF s = {} THEN b
                          ELSE LET x == Max(s) IN Offered(f[s \ {x}], from[x], packet, good)]
           it == CHOOSE f : f = body(f)
<1>1. n \in 0 .. 2 /\ DOMAIN from = 1 .. n
  BY PendingTyped
<1>2. UdpReceive(t, packet, good) = it[DOMAIN from].t
  BY DEF UdpReceive, FoldLeft, MapThenFoldSet, Offered
<1>3. it = body(it)
  <2> DEFINE b1 == Offered(b, from[1], packet, good)
             b2 == Offered(b, from[2], packet, good)
             b12 == Offered(b1, from[2], packet, good)
             f == [s \in SUBSET (1 .. n) |->
                      IF s = {} THEN b ELSE IF s = {1} THEN b1 ELSE IF s = {2} THEN b2 ELSE b12]
  <2>1. \A s \in SUBSET (1 .. n) :
           f[s] = IF s = {} THEN b ELSE Offered(f[s \ {Max(s)}], from[Max(s)], packet, good)
    <3> SUFFICES ASSUME NEW s \in SUBSET (1 .. n)
                 PROVE  f[s] = IF s = {} THEN b
                               ELSE Offered(f[s \ {Max(s)}], from[Max(s)], packet, good)
      OBVIOUS
    <3>1. {} \in SUBSET (1 .. n)
      OBVIOUS
    <3>2. f[{}] = b
      BY <3>1
    <3> HIDE DEF b, n
    <3>3. n \in 0 .. 2
      BY <1>1
    <3>4. CASE s = {1} /\ Max(s) = 1 /\ s \ {Max(s)} = {}
      <4>1. f[s] = b1
        BY <3>4
      <4> HIDE DEF f
      <4> QED
        BY <3>2, <3>4, <4>1
    <3>5. CASE s = {2} /\ Max(s) = 2 /\ s \ {Max(s)} = {}
      <4>1. f[s] = b2
        BY <3>5
      <4> HIDE DEF f
      <4> QED
        BY <3>2, <3>5, <4>1
    <3>6. CASE n = 2 /\ s = {1, 2} /\ Max(s) = 2 /\ s \ {Max(s)} = {1}
      <4>1. {1} \in SUBSET (1 .. n)
        BY <3>6
      <4>2. f[s] = b12 /\ f[{1}] = b1
        BY <3>6, <4>1
      <4> HIDE DEF f
      <4> QED
        BY <3>6, <4>2
    <3> HIDE DEF f
    <3> QED
      BY <3>2, <3>3, <3>4, <3>5, <3>6, FewPositions
  <2>2. f = [s \in SUBSET (1 .. n) |-> f[s]]
    OBVIOUS
  <2> HIDE DEF f
  <2>3. f = body(f)
    BY <1>1, <2>1, <2>2
  <2> HIDE DEF body
  <2> QED
    BY <2>3
<1> HIDE DEF it
<1>4. \A s \in SUBSET (1 .. n) : it[s] = IF s = {} THEN b ELSE next(it[s \ {Max(s)}], Max(s))
  <2>1. \A s \in SUBSET (1 .. n) :
           body(it)[s] = IF s = {} THEN b ELSE next(it[s \ {Max(s)}], Max(s))
    BY <1>1
  <2> HIDE DEF body
  <2> QED
    BY <1>3, <2>1
<1> HIDE DEF b, n, body, from
<1>5. it[{}] = b
  <2>1. {} \in SUBSET (1 .. n)
    OBVIOUS
  <2> QED
    BY <1>4, <2>1
<1>6. n = 0 => it[1 .. n] = b
  <2>1. 1 .. 0 = {}
    OBVIOUS
  <2> QED
    BY <1>5, <2>1
<1>7. n >= 1 => it[{1}] = next(b, 1)
  <2>1. n >= 1 => {1} \in SUBSET (1 .. n) /\ {1} # {}
    BY <1>1
  <2>2. Max({1}) = 1 /\ {1} \ {1} = {}
    BY DEF Max
  <2> HIDE DEF next
  <2> QED
    BY <1>4, <1>5, <2>1, <2>2
<1>8. n = 2 => it[{1, 2}] = next(next(b, 1), 2)
  <2>1. n = 2 => {1, 2} \in SUBSET (1 .. n) /\ {1, 2} # {}
    BY <1>1
  <2>2. Max({1, 2}) = 2
    <3>1. {1, 2} \in SUBSET (1 .. 2)
      OBVIOUS
    <3>2. Max({1, 2}) \in {1, 2} /\ \A i \in {1, 2} : i <= Max({1, 2})
      BY <3>1, LastPosition
    <3> HIDE DEF Max
    <3> QED
      BY <3>2
  <2>3. {1, 2} \ {2} = {1}
    OBVIOUS
  <2> HIDE DEF Max, next
  <2> SUFFICES ASSUME n = 2 PROVE it[{1, 2}] = next(next(b, 1), 2)
    OBVIOUS
  <2>4. it[{1, 2}] = next(it[{1, 2} \ {2}], 2)
    BY <1>4, <2>1, <2>2
  <2>5. it[{1}] = next(b, 1)
    BY <1>7
  <2> QED
    BY <2>3, <2>4, <2>5
<1>9. 1 .. 1 = {1} /\ 1 .. 2 = {1, 2}
  OBVIOUS
<1> QED
  BY <1>1, <1>2, <1>6, <1>7, <1>8, <1>9 DEF b, from, n

LEMMA UdpReceiveTurns ==
    ASSUME NEW t, TrackerShape(t), t.comm.kind = "udp", Len(t.comm.pending) <= 2,
           NEW packet, NEW good
    PROVE  Turns(t, UdpReceive(t, packet, good))
<1> DEFINE v == [t EXCEPT !.comm.pending = <<>>]
           b == [handled |-> FALSE, t |-> v]
           from == t.comm.pending
           n == Len(from)
           b1 == Offered(b, from[1], packet, good)
           b2 == Offered(b1, from[2], packet, good)
           u == UdpReceive(t, packet, good)
<1>1. /\ TrackerShape(v) /\ v.comm.kind = "udp" /\ v.timer = t.timer
      /\ Tokens(v) + n = Tokens(t) /\ (from = <<>> /\ Awake(t) => Awake(v))
      /\ v.comm.stream = t.comm.stream /\ v.tasks = t.tasks /\ v.protocol = t.protocol
      /\ v.comm.no = t.comm.no
  BY Emptied
<1>2. n \in 0 .. 2 /\ (n = 0 <=> from = <<>>) /\ DOMAIN from = 1 .. n
      /\ \A i \in 1 .. n : from[i] \in EntryType
  BY PendingTyped
<1>3. u = (IF n = 0 THEN b ELSE IF n = 1 THEN b1 ELSE b2).t
  BY UdpReceiveIs
<1>4. Awake(t) => Awake(v) \/ \E i \in 1 .. n : from[i].armed
  <2> HIDE DEF v
  <2> QED
    BY <1>1, <1>2 DEF Awake, Asleep, Wakes, HasComm, Range
<1> HIDE DEF v
<1>5. DOMAIN b = {"handled", "t"} /\ b.t = v
  OBVIOUS
<1> HIDE DEF b, n, from, u
<1>6. n >= 1 => /\ DOMAIN b1 = {"handled", "t"} /\ TrackerShape(b1.t)
                /\ b1.t.comm.kind = "udp" /\ b1.t.timer = t.timer
                /\ Tokens(b1.t) = Tokens(v) + 1
                /\ (Awake(v) \/ from[1].armed => Awake(b1.t))
  <2> SUFFICES ASSUME n >= 1
               PROVE  /\ DOMAIN b1 = {"handled", "t"} /\ TrackerShape(b1.t)
                      /\ b1.t.comm.kind = "udp" /\ b1.t.timer = t.timer
                      /\ Tokens(b1.t) = Tokens(v) + 1
                      /\ (Awake(v) \/ from[1].armed => Awake(b1.t))
    OBVIOUS
  <2>1. from[1] \in EntryType
    BY <1>2
  <2> QED
    BY <1>1, <1>5, <2>1, OfferedFacts
<1> HIDE DEF b1
<1>7. n = 2 => /\ TrackerShape(b2.t)
               /\ b2.t.comm.kind = "udp" /\ b2.t.timer = t.timer
               /\ Tokens(b2.t) = Tokens(b1.t) + 1
               /\ (Awake(b1.t) \/ from[2].armed => Awake(b2.t))
  <2> SUFFICES ASSUME n = 2
               PROVE  /\ TrackerShape(b2.t)
                      /\ b2.t.comm.kind = "udp" /\ b2.t.timer = t.timer
                      /\ Tokens(b2.t) = Tokens(b1.t) + 1
                      /\ (Awake(b1.t) \/ from[2].armed => Awake(b2.t))
    OBVIOUS
  <2>1. from[2] \in EntryType
    BY <1>2
  <2> QED
    BY <1>6, <2>1, OfferedFacts
<1> HIDE DEF b2
<1>8. Tokens(v) \in Nat /\ Tokens(t) \in Nat
  BY <1>1, TokensTyped
<1>9. CASE n = 0
  <2>1. ~ \E i \in 1 .. n : from[i].armed
    BY <1>9
  <2>2. u = v
    BY <1>3, <1>5, <1>9
  <2>3. Tokens(v) <= Tokens(t)
    BY <1>1, <1>8, <1>9
  <2>4. Awake(t) => Awake(u)
    BY <1>4, <2>1, <2>2
  <2> QED
    BY <1>1, <2>2, <2>3, <2>4 DEF Turns, u
<1>10. CASE n = 1
  <2>1. (\E i \in 1 .. n : from[i].armed) => from[1].armed
    BY <1>10
  <2>2. u = b1.t
    BY <1>3, <1>10
  <2>3. Tokens(b1.t) <= Tokens(t)
    BY <1>1, <1>6, <1>8, <1>10
  <2>4. Awake(t) => Awake(u)
    BY <1>4, <1>6, <1>10, <2>1, <2>2
  <2> QED
    BY <1>6, <1>10, <2>2, <2>3, <2>4 DEF Turns, u
<1>11. CASE n = 2
  <2>1. (\E i \in 1 .. n : from[i].armed) => from[1].armed \/ from[2].armed
    BY <1>11
  <2>2. u = b2.t
    BY <1>3, <1>11
  <2>3. Tokens(b2.t) = Tokens(v) + 1 + 1
    BY <1>6, <1>7, <1>11
  <2>4. Tokens(b2.t) <= Tokens(t)
    BY <1>1, <1>8, <1>11, <2>3
  <2>5. Awake(t) => Awake(u)
    BY <1>4, <1>6, <1>7, <1>11, <2>1, <2>2
  <2> QED
    BY <1>7, <1>11, <2>2, <2>4, <2>5 DEF Turns, u
<1> QED
  BY <1>2, <1>9, <1>10, <1>11 DEF u

-------------------------------------------------------------------------------
(* The steps of one tracker. *)

LEMMA UpdatedList ==
    ASSUME NEW list, list \in Seq(Range(list)), NEW i \in DOMAIN list, NEW u
    PROVE  LET new == [list EXCEPT ![i] = u]
           IN  /\ new \in Seq(Range(new)) /\ DOMAIN new = DOMAIN list /\ new[i] = u
               /\ \A j \in DOMAIN list : j # i => new[j] = list[j]
<1> DEFINE new == [list EXCEPT ![i] = u]
<1>1. PICK n \in Nat : n = Len(list)
  OBVIOUS
<1>2. DOMAIN list = 1 .. n
  BY <1>1
<1>3. DOMAIN new = 1 .. n /\ new[i] = u /\ \A j \in 1 .. n : j # i => new[j] = list[j]
  BY <1>2
<1>4. new = [j \in 1 .. n |-> new[j]]
  BY <1>2
<1> HIDE DEF new
<1>5. \A j \in 1 .. n : new[j] \in Range(new)
  BY <1>3 DEF Range
<1>6. new \in [1 .. n -> Range(new)]
  BY <1>4, <1>5
<1>7. new \in Seq(Range(new))
  BY <1>6, FunctionIsSeq
<1> QED
  BY <1>2, <1>3, <1>7 DEF new

LEMMA PlanTyped ==
    /\ trackerPlan \in PlanType => trackerPlan.refreshes \in 0 .. 1
    /\ trackerPlan' \in PlanType => trackerPlan'.refreshes \in 0 .. 1
BY DEF PlanType

LEMMA OneUpdatedKeeps ==
    ASSUME TrackersInv, NEW i \in DOMAIN trackers, NEW u, Update(i, u),
           UNCHANGED <<started, startAll>>, trackerPlan' \in PlanType,
           trackerPlan'.refreshes <= trackerPlan.refreshes, Kept(u, trackerPlan'.refreshes, started, startAll)
    PROVE  TrackersInv'
<1>1. trackers' = [trackers EXCEPT ![i] = u]
  BY DEF Update
<1>2. /\ trackers' \in Seq(Range(trackers')) /\ DOMAIN trackers' = DOMAIN trackers
      /\ trackers'[i] = u /\ \A j \in DOMAIN trackers : j # i => trackers'[j] = trackers[j]
  BY <1>1, UpdatedList DEF TrackersInv
<1>3. ASSUME NEW j \in DOMAIN trackers
      PROVE  Kept(trackers'[j], trackerPlan'.refreshes, started, startAll)
  <2>1. CASE j = i
    BY <1>2, <2>1
  <2>2. CASE j # i
    <3>1. Kept(trackers[j], trackerPlan.refreshes, started, startAll) /\ trackers'[j] = trackers[j]
      BY <1>2, <2>2 DEF TrackersInv
    <3>2. /\ Tokens(trackers[j]) \in Nat /\ trackerPlan.refreshes \in Nat /\ trackerPlan'.refreshes \in Nat
      <4>1. Tokens(trackers[j]) \in Nat
        BY <3>1, TokensTyped DEF Kept
      <4>2. trackerPlan \in PlanType
        BY DEF TrackersInv
      <4> QED
        BY <4>1, <4>2, PlanTyped
    <3>3. Tokens(trackers[j]) + trackerPlan.refreshes <= 2 => Tokens(trackers[j]) + trackerPlan'.refreshes <= 2
      BY <3>2
    <3> QED
      BY <3>1, <3>3 DEF Kept
  <2> QED
    BY <2>1, <2>2
<1> QED
  BY <1>2, <1>3 DEF TrackersInv

LEMMA TurnKeeps ==
    ASSUME TrackersInv, NEW i \in DOMAIN trackers, NEW u, Turns(trackers[i], u), Update(i, u),
           UNCHANGED <<started, startAll>>, trackerPlan' \in PlanType, trackerPlan'.refreshes <= trackerPlan.refreshes
    PROVE  TrackersInv'
<1> DEFINE t == trackers[i]
<1>1. Kept(t, trackerPlan.refreshes, started, startAll)
  BY DEF TrackersInv
<1>2. TrackerShape(t) /\ TrackerShape(u)
  BY <1>1 DEF Kept, Turns
<1>3. Tokens(t) \in Nat /\ Tokens(u) \in Nat /\ trackerPlan.refreshes \in Nat /\ trackerPlan'.refreshes \in Nat
  <2>1. trackerPlan.refreshes \in Nat /\ trackerPlan'.refreshes \in Nat
    <3>1. trackerPlan \in PlanType
      BY DEF TrackersInv
    <3> QED
      BY <3>1, PlanTyped
  <2> HIDE DEF t
  <2> QED
    BY <1>2, <2>1, TokensTyped
<1>4. u.comm.kind = "udp" => Tokens(u) + trackerPlan'.refreshes <= 2
  <2>1. u.comm.kind = "udp" => Tokens(u) <= Tokens(t) /\ Tokens(t) + trackerPlan.refreshes <= 2
    BY <1>1 DEF Kept, Turns
  <2> QED
    BY <1>3, <2>1
<1>5. Kept(u, trackerPlan'.refreshes, started, startAll)
  BY <1>1, <1>4 DEF Kept, Turns
<1> QED
  BY <1>5, OneUpdatedKeeps

LEMMA SpendKeeps ==
    ASSUME trackerPlan \in PlanType, NEW what, SpendPlanned(what),
           what \in {"starts", "stops", "refreshes", "losses", "early", "refusals", "failures", "partial"}
    PROVE  /\ trackerPlan' \in PlanType /\ trackerPlan'.refreshes <= trackerPlan.refreshes
           /\ what = "refreshes" => trackerPlan.refreshes = trackerPlan'.refreshes + 1
<1> DEFINE left == trackerPlan[what] - 1
<1>1. trackerPlan' = [trackerPlan EXCEPT ![what] = left] /\ trackerPlan[what] > 0
  BY DEF SpendPlanned
<1>2. CASE what = "refreshes"
  <2>1. trackerPlan.refreshes = 1 /\ left = 0
    BY <1>1, <1>2, PlanTyped
  <2> HIDE DEF left
  <2>2. trackerPlan' \in PlanType /\ trackerPlan'.refreshes = 0
    BY <1>1, <1>2, <2>1 DEF PlanType
  <2> QED
    BY <2>1, <2>2
<1>3. CASE what # "refreshes"
  <2>1. left \in Nat
    BY <1>1, <1>3 DEF PlanType
  <2> HIDE DEF left
  <2>2. trackerPlan' \in PlanType
    BY <1>1, <1>3, <2>1 DEF PlanType
  <2>3. trackerPlan'.refreshes = trackerPlan.refreshes
    BY <1>1, <1>3 DEF PlanType
  <2> QED
    BY <1>3, <2>2, <2>3, PlanTyped
<1> QED
  BY <1>2, <1>3

\* What is known of a tracker that runs.
LEMMA InvOf ==
    ASSUME TrackersInv, NEW i \in DOMAIN trackers
    PROVE  /\ TrackerShape(trackers[i]) /\ trackerPlan \in PlanType /\ trackerPlan.refreshes <= trackerPlan.refreshes
           /\ trackers[i].comm.kind = "udp" => Len(trackers[i].comm.pending) <= 2
           /\ trackers[i].comm.kind # "udp" => trackers[i].comm.pending = <<>>
           /\ Kept(trackers[i], trackerPlan.refreshes, started, startAll)
<1> DEFINE t == trackers[i]
<1>1. Kept(t, trackerPlan.refreshes, started, startAll) /\ trackerPlan \in PlanType /\ trackerPlan.refreshes \in Nat
  BY DEF TrackersInv, PlanType
<1> HIDE DEF t
<1>2. TrackerShape(t)
  BY <1>1 DEF Kept
<1>3. /\ Tokens(t) \in Nat /\ Len(t.comm.pending) \in Nat
      /\ Copies(t, "fail") \in Nat /\ Copies(t, "announce") \in Nat /\ Timers(t) \in Nat
  BY <1>2, TokensTyped
<1>4. \A j, k, l, m, r \in Nat : j + k + l + m + r <= 2 => j <= 2
  OBVIOUS
<1>5. t.comm.kind = "udp" => Len(t.comm.pending) <= 2
  BY <1>1, <1>3, <1>4 DEF Kept, Tokens
<1>6. t.comm.kind # "udp" => t.comm.pending = <<>>
  BY <1>2 DEF TrackerShape, CommShape
<1> QED
  BY <1>1, <1>2, <1>5, <1>6 DEF t

\* A change of what nothing that wakes the tracker depends on.
LEMMA OtherTurns ==
    ASSUME NEW t, TrackerShape(t), NEW c, CommShape(c), c.kind = t.comm.kind, c.no = t.comm.no,
           c.pending = t.comm.pending, c.stream = t.comm.stream, NEW u, u = [t EXCEPT !.comm = c]
    PROVE  Turns(t, u) /\ TrackerShape(u) /\ u.comm = c
<1>1. /\ TrackerShape(u) /\ u.comm = c /\ u.timer = t.timer
      /\ Tokens(u) = Tokens(t) /\ (Awake(t) => Awake(u))
  BY WithOther
<1>2. Tokens(t) \in Nat
  BY TokensTyped
<1> QED
  BY <1>1, <1>2 DEF Turns

LEMMA TurnsOn ==
    ASSUME NEW t, NEW u, NEW v, TrackerShape(t), Turns(t, u), Turns(u, v)
    PROVE  Turns(t, v)
<1>1. Tokens(t) \in Nat /\ Tokens(u) \in Nat /\ Tokens(v) \in Nat
  BY TokensTyped DEF Turns
<1> QED
  BY <1>1 DEF Turns

LEMMA UdpCloseKeeps ==
    ASSUME NEW t, TrackerShape(t), Len(t.comm.pending) <= 2
    PROVE  Turns(t, UdpClose(t))
<1>1. CASE t.comm.kind = "udp"
  BY <1>1, UdpCloseTurns
<1>2. CASE t.comm.kind # "udp"
  <2> DEFINE b == [t EXCEPT !.comm.pending = <<>>]
  <2>1. t.comm.pending = <<>> /\ Len(t.comm.pending) = 0
    BY <1>2 DEF TrackerShape, CommShape
  <2>2. UdpClose(t) = b
    BY <2>1, UdpCloseIs
  <2>3. /\ TrackerShape(b) /\ b.comm.kind = t.comm.kind /\ b.timer = t.timer
        /\ (Awake(t) => Awake(b))
    BY <2>1, Emptied
  <2> HIDE DEF b
  <2> QED
    BY <1>2, <2>2, <2>3 DEF Turns
<1> QED
  BY <1>1, <1>2

LEMMA UdpReceiveKeeps ==
    ASSUME NEW t, TrackerShape(t), Len(t.comm.pending) <= 2, NEW packet, NEW good
    PROVE  Turns(t, UdpReceive(t, packet, good))
<1>1. CASE t.comm.kind = "udp"
  BY <1>1, UdpReceiveTurns
<1>2. CASE t.comm.kind # "udp"
  <2> DEFINE b == [t EXCEPT !.comm.pending = <<>>]
  <2>1. t.comm.pending = <<>> /\ Len(t.comm.pending) = 0
    BY <1>2 DEF TrackerShape, CommShape
  <2>2. UdpReceive(t, packet, good) = b
    <3> DEFINE acc == [handled |-> FALSE, t |-> b]
               from == t.comm.pending
               first == Offered(acc, from[1], packet, good)
               second == Offered(first, from[2], packet, good)
    <3>1. UdpReceive(t, packet, good) =
             (IF Len(from) = 0 THEN acc ELSE IF Len(from) = 1 THEN first ELSE second).t
      BY UdpReceiveIs
    <3>2. acc.t = b
      OBVIOUS
    <3> HIDE DEF acc, first, second, b
    <3> QED
      BY <2>1, <3>1, <3>2
  <2>3. /\ TrackerShape(b) /\ b.comm.kind = t.comm.kind /\ b.timer = t.timer
        /\ (Awake(t) => Awake(b))
    BY <2>1, Emptied
  <2> HIDE DEF b
  <2> QED
    BY <1>2, <2>2, <2>3 DEF Turns
<1> QED
  BY <1>1, <1>2

LEMMA WriteTurns ==
    ASSUME NEW t, TrackerShape(t), NEW message
    PROVE  Turns(t, Write(t, message))
<1> DEFINE s == IF t.comm.socket # "closed" THEN t.comm.socket
                ELSE IF t.comm.callback THEN "reading" ELSE "deaf"
           c == [t.comm EXCEPT !.buffer = message, !.packets = t.comm.packets \cup {message},
                               !.socket = s]
<1>1. DOMAIN t = TrackerFields /\ DOMAIN t.comm = CommFields
  BY DEF TrackerShape, CommShape
<1>2. Write(t, message) = [t EXCEPT !.comm = c]
  BY <1>1 DEF Write, TrackerFields, CommFields
<1>3. s \in {"closed", "reading", "deaf"}
  BY DEF TrackerShape, CommShape
<1> HIDE DEF s
<1>4. CommShape(c) /\ c.kind = t.comm.kind /\ c.no = t.comm.no
      /\ c.pending = t.comm.pending /\ c.stream = t.comm.stream
  BY <1>1, <1>3 DEF CommShape, CommFields, TrackerShape
<1> HIDE DEF c
<1> QED
  BY <1>2, <1>4, OtherTurns

\* A call of the writer that is run.
LEMMA CallTaken ==
    ASSUME NEW t, TrackerShape(t), NEW call \in DOMAIN t.comm.posted
    PROVE  LET u == [t EXCEPT !.comm.posted = Minus(t.comm.posted, call)]
           IN  /\ Turns(t, u) /\ TrackerShape(u) /\ u.comm.pending = t.comm.pending
               /\ u.comm.buffer = t.comm.buffer /\ call.call \in WriterCalls
<1> DEFINE p == Minus(t.comm.posted, call)
           c == [t.comm EXCEPT !.posted = p]
           u == [t EXCEPT !.comm = c]
<1>1. DOMAIN t = TrackerFields /\ DOMAIN t.comm = CommFields
  BY DEF TrackerShape, CommShape
<1>2. [t EXCEPT !.comm.posted = p] = u
  BY <1>1 DEF TrackerFields, CommFields
<1>3. DOMAIN p \subseteq DOMAIN t.comm.posted
  BY BagDomains
<1> HIDE DEF p
<1>4. CommShape(c) /\ c.kind = t.comm.kind /\ c.no = t.comm.no /\ c.buffer = t.comm.buffer
      /\ c.pending = t.comm.pending /\ c.stream = t.comm.stream
  BY <1>1, <1>3 DEF CommShape, CommFields, TrackerShape
<1> HIDE DEF c
<1>5. Turns(t, u) /\ TrackerShape(u) /\ u.comm = c
  BY <1>4, OtherTurns
<1> HIDE DEF u
<1>6. call.call \in WriterCalls
  BY DEF TrackerShape, CommShape
<1> QED
  BY <1>2, <1>4, <1>5, <1>6 DEF p

LEMMA PostedKeeps ==
    ASSUME TrackersInv, NEW i \in DOMAIN trackers, Posted(i)
    PROVE  TrackersInv'
<1> DEFINE t == trackers[i]
<1>1. TrackerShape(t) /\ trackerPlan \in PlanType /\ trackerPlan.refreshes <= trackerPlan.refreshes
  BY InvOf
<1>2. PICK call \in DOMAIN t.comm.posted :
         LET u == [t EXCEPT !.comm.posted = Minus(t.comm.posted, call)]
         IN /\ Update(i, CASE call.call = "write" -> Write(u, call.message)
                           [] call.call = "rewrite" -> Write(u, u.comm.buffer)
                           [] call.call = "close" ->
                                 [u EXCEPT !.comm.callback = FALSE, !.comm.socket = "closed"])
            /\ UNCHANGED <<started, startAll, trackerPlan>>
  BY DEF Posted, BagToSet
<1> DEFINE u == [t EXCEPT !.comm.posted = Minus(t.comm.posted, call)]
           v == CASE call.call = "write" -> Write(u, call.message)
                  [] call.call = "rewrite" -> Write(u, u.comm.buffer)
                  [] call.call = "close" ->
                        [u EXCEPT !.comm.callback = FALSE, !.comm.socket = "closed"]
<1>3. Turns(t, u) /\ TrackerShape(u) /\ call.call \in WriterCalls
  BY <1>1, CallTaken
<1>4. Update(i, v) /\ UNCHANGED <<started, startAll, trackerPlan>>
  BY <1>2
<1> HIDE DEF u, t
<1>5. Turns(u, v)
  <2>1. CASE call.call = "write"
    <3>1. v = Write(u, call.message)
      BY <2>1
    <3> QED
      BY <1>3, <3>1, WriteTurns
  <2>2. CASE call.call = "rewrite"
    <3>1. v = Write(u, u.comm.buffer)
      BY <2>2
    <3> QED
      BY <1>3, <3>1, WriteTurns
  <2>3. CASE call.call = "close"
    <3> DEFINE c == [u.comm EXCEPT !.callback = FALSE, !.socket = "closed"]
    <3>1. DOMAIN u = TrackerFields /\ DOMAIN u.comm = CommFields
      BY <1>3 DEF TrackerShape, CommShape
    <3>2. v = [u EXCEPT !.comm = c]
      <4>1. v = [u EXCEPT !.comm.callback = FALSE, !.comm.socket = "closed"]
        BY <2>3
      <4> HIDE DEF v
      <4> QED
        BY <3>1, <4>1 DEF TrackerFields, CommFields
    <3> HIDE DEF v
    <3>3. CommShape(c) /\ c.kind = u.comm.kind /\ c.no = u.comm.no
          /\ c.pending = u.comm.pending /\ c.stream = u.comm.stream
      BY <1>3, <3>1 DEF CommShape, CommFields, TrackerShape
    <3> HIDE DEF c
    <3> QED
      BY <1>3, <3>2, <3>3, OtherTurns
  <2> HIDE DEF v
  <2> QED
    BY <1>3, <2>1, <2>2, <2>3 DEF WriterCalls
<1> HIDE DEF v
<1>6. Turns(t, v)
  BY <1>1, <1>3, <1>5, TurnsOn
<1> QED
  BY <1>1, <1>4, <1>6, TurnKeeps DEF t

LEMMA PostedFailsKeeps ==
    ASSUME TrackersInv, NEW i \in DOMAIN trackers, PostedFails(i)
    PROVE  TrackersInv'
<1> DEFINE t == trackers[i]
<1>1. TrackerShape(t) /\ trackerPlan \in PlanType /\ Len(t.comm.pending) <= 2
  <2>1. TrackerShape(t) /\ trackerPlan \in PlanType
        /\ (t.comm.kind = "udp" => Len(t.comm.pending) <= 2)
        /\ (t.comm.kind # "udp" => t.comm.pending = <<>>)
    BY InvOf
  <2> HIDE DEF t
  <2>2. Len(<<>>) = 0
    OBVIOUS
  <2> QED
    BY <2>1, <2>2
<1>2. PICK call \in DOMAIN t.comm.posted :
         LET u == [t EXCEPT !.comm.posted = Minus(t.comm.posted, call)]
             v == IF call.call = "write" THEN [u EXCEPT !.comm.buffer = call.message] ELSE u
         IN /\ SpendPlanned("failures")
            /\ Update(i, IF v.comm.callback THEN UdpClose(v) ELSE v)
            /\ UNCHANGED <<started, startAll>>
  BY DEF PostedFails, BagToSet
<1> DEFINE u == [t EXCEPT !.comm.posted = Minus(t.comm.posted, call)]
           v == IF call.call = "write" THEN [u EXCEPT !.comm.buffer = call.message] ELSE u
           w == IF v.comm.callback THEN UdpClose(v) ELSE v
<1>3. Turns(t, u) /\ TrackerShape(u) /\ u.comm.pending = t.comm.pending
  BY <1>1, CallTaken
<1>4. SpendPlanned("failures") /\ Update(i, w) /\ UNCHANGED <<started, startAll>>
  BY <1>2
<1>5. trackerPlan' \in PlanType /\ trackerPlan'.refreshes <= trackerPlan.refreshes
  BY <1>1, <1>4, SpendKeeps
<1> HIDE DEF u, t
<1>6. Turns(u, v) /\ TrackerShape(v) /\ v.comm.pending = u.comm.pending
  <2> DEFINE c == [u.comm EXCEPT !.buffer = call.message]
             x == [u EXCEPT !.comm = c]
  <2>1. DOMAIN u = TrackerFields /\ DOMAIN u.comm = CommFields
    BY <1>3 DEF TrackerShape, CommShape
  <2>2. [u EXCEPT !.comm.buffer = call.message] = x
    BY <2>1 DEF TrackerFields, CommFields
  <2>3. CommShape(c) /\ c.kind = u.comm.kind /\ c.no = u.comm.no
        /\ c.pending = u.comm.pending /\ c.stream = u.comm.stream
    BY <1>3, <2>1 DEF CommShape, CommFields, TrackerShape
  <2> HIDE DEF c
  <2>4. Turns(u, x) /\ TrackerShape(x) /\ x.comm = c
    BY <1>3, <2>3, OtherTurns
  <2>5. v = x \/ v = u
    BY <2>2
  <2> HIDE DEF v, x
  <2>6. Turns(u, u)
    <3>1. Tokens(u) \in Nat
      BY <1>3, TokensTyped
    <3> QED
      BY <1>3, <3>1 DEF Turns
  <2> QED
    BY <1>3, <2>3, <2>4, <2>5, <2>6
<1> HIDE DEF v
<1>7. Turns(v, w)
  <2>1. Turns(v, UdpClose(v))
    BY <1>1, <1>3, <1>6, UdpCloseKeeps
  <2>2. Turns(v, v)
    <3>1. Tokens(v) \in Nat
      BY <1>6, TokensTyped
    <3> QED
      BY <1>6, <3>1 DEF Turns
  <2> QED
    BY <2>1, <2>2
<1> HIDE DEF w
<1>8. Turns(t, w)
  BY <1>1, <1>3, <1>6, <1>7, TurnsOn
<1> QED
  BY <1>4, <1>5, <1>8, TurnKeeps DEF t

\* An answer that is taken from the network.
LEMMA AnswerTaken ==
    ASSUME NEW t, TrackerShape(t), NEW packet
    PROVE  LET u == [t EXCEPT !.comm.packets = t.comm.packets \ {packet}]
           IN  Turns(t, u) /\ TrackerShape(u) /\ u.comm.pending = t.comm.pending
<1> DEFINE c == [t.comm EXCEPT !.packets = t.comm.packets \ {packet}]
           u == [t EXCEPT !.comm = c]
<1>1. DOMAIN t = TrackerFields /\ DOMAIN t.comm = CommFields
  BY DEF TrackerShape, CommShape
<1>2. [t EXCEPT !.comm.packets = t.comm.packets \ {packet}] = u
  BY <1>1 DEF TrackerFields, CommFields
<1>3. CommShape(c) /\ c.kind = t.comm.kind /\ c.no = t.comm.no
      /\ c.pending = t.comm.pending /\ c.stream = t.comm.stream
  BY <1>1 DEF CommShape, CommFields, TrackerShape
<1> HIDE DEF c
<1>4. Turns(t, u) /\ TrackerShape(u) /\ u.comm = c
  BY <1>3, OtherTurns
<1> HIDE DEF u
<1> QED
  BY <1>2, <1>3, <1>4

LEMMA FewPending ==
    ASSUME TrackersInv, NEW i \in DOMAIN trackers
    PROVE  TrackerShape(trackers[i]) /\ trackerPlan \in PlanType /\ trackerPlan.refreshes <= trackerPlan.refreshes
           /\ Len(trackers[i].comm.pending) <= 2
<1> DEFINE t == trackers[i]
<1>1. TrackerShape(t) /\ trackerPlan \in PlanType /\ trackerPlan.refreshes <= trackerPlan.refreshes
      /\ (t.comm.kind = "udp" => Len(t.comm.pending) <= 2)
      /\ (t.comm.kind # "udp" => t.comm.pending = <<>>)
  BY InvOf
<1> HIDE DEF t
<1>2. Len(<<>>) = 0
  OBVIOUS
<1>3. Len(t.comm.pending) <= 2
  BY <1>1, <1>2
<1> QED
  BY <1>1, <1>3 DEF t

LEMMA AnswerTurns ==
    ASSUME TrackersInv, NEW i \in DOMAIN trackers, NEW packet, NEW good, Answer(i, packet, good)
    PROVE  \E u : Update(i, u) /\ Turns(trackers[i], u)
<1> DEFINE t == trackers[i]
           u == [t EXCEPT !.comm.packets = t.comm.packets \ {packet}]
           w == IF u.comm.socket = "deaf" THEN u ELSE UdpReceive(u, packet, good)
<1>1. TrackerShape(t) /\ Len(t.comm.pending) <= 2
  BY FewPending
<1>2. Update(i, w)
  BY DEF Answer
<1> HIDE DEF t
<1>3. Turns(t, u) /\ TrackerShape(u) /\ u.comm.pending = t.comm.pending
  BY <1>1, AnswerTaken
<1> HIDE DEF u
<1>4. Turns(u, UdpReceive(u, packet, good))
  BY <1>1, <1>3, UdpReceiveKeeps
<1>5. Turns(t, UdpReceive(u, packet, good))
  BY <1>1, <1>3, <1>4, TurnsOn
<1>6. Turns(t, w)
  BY <1>3, <1>5
<1> HIDE DEF w
<1> QED
  BY <1>2, <1>6 DEF t

LEMMA UdpAnswersKeep ==
    ASSUME TrackersInv, NEW i \in DOMAIN trackers, UdpAnswer(i) \/ UdpRefuse(i) \/ Lose(i)
    PROVE  TrackersInv'
<1>1. TrackerShape(trackers[i]) /\ trackerPlan \in PlanType /\ trackerPlan.refreshes <= trackerPlan.refreshes
  BY FewPending
<1>2. CASE UdpAnswer(i)
  <2>1. PICK packet, good : Answer(i, packet, good) /\ UNCHANGED <<started, startAll, trackerPlan>>
    BY <1>2 DEF UdpAnswer
  <2>2. PICK u : Update(i, u) /\ Turns(trackers[i], u)
    BY <2>1, AnswerTurns
  <2> QED
    BY <1>1, <2>1, <2>2, TurnKeeps
<1>3. CASE UdpRefuse(i)
  <2>1. PICK packet : Answer(i, packet, FALSE) /\ SpendPlanned("refusals") /\ UNCHANGED <<started, startAll>>
    BY <1>3 DEF UdpRefuse
  <2>2. PICK u : Update(i, u) /\ Turns(trackers[i], u)
    BY <2>1, AnswerTurns
  <2>3. trackerPlan' \in PlanType /\ trackerPlan'.refreshes <= trackerPlan.refreshes
    BY <1>1, <2>1, SpendKeeps
  <2> QED
    BY <2>1, <2>2, <2>3, TurnKeeps
<1>4. CASE Lose(i)
  <2> DEFINE t == trackers[i]
  <2>1. PICK packet : /\ Update(i, [t EXCEPT !.comm.packets = t.comm.packets \ {packet}])
                      /\ SpendPlanned("losses") /\ UNCHANGED <<started, startAll>>
    BY <1>4 DEF Lose
  <2>2. Turns(t, [t EXCEPT !.comm.packets = t.comm.packets \ {packet}])
    BY <1>1, AnswerTaken
  <2>3. trackerPlan' \in PlanType /\ trackerPlan'.refreshes <= trackerPlan.refreshes
    BY <1>1, <2>1, SpendKeeps
  <2> QED
    BY <2>1, <2>2, <2>3, TurnKeeps
<1> QED
  BY <1>2, <1>3, <1>4

LEMMA TimeoutKeeps ==
    ASSUME TrackersInv, NEW i \in DOMAIN trackers, Timeout(i)
    PROVE  TrackersInv'
<1> DEFINE t == trackers[i]
<1>1. TrackerShape(t) /\ trackerPlan \in PlanType /\ trackerPlan.refreshes <= trackerPlan.refreshes
      /\ Len(t.comm.pending) <= 2
  BY FewPending
<1>2. PICK e \in DOMAIN t.comm.pending :
         Update(i, CheckTimeout(t, e)) /\ UNCHANGED <<started, startAll>>
         /\ (UNCHANGED trackerPlan \/ SpendPlanned("early"))
  BY DEF Timeout
<1>3. trackerPlan' \in PlanType /\ trackerPlan'.refreshes <= trackerPlan.refreshes
  BY <1>1, <1>2, SpendKeeps
<1> HIDE DEF t
<1>4. Turns(t, CheckTimeout(t, e))
  <2>1. CASE t.comm.pending[1].retries > 0
    <3>1. CheckTimeout(t, e) = UdpClose(t)
      BY <2>1 DEF CheckTimeout
    <3> QED
      BY <1>1, <3>1, UdpCloseKeeps
  <2>2. CASE ~ (t.comm.pending[1].retries > 0)
    <3> DEFINE p == t.comm.pending
               q == [p EXCEPT ![e].armed = FALSE, ![1].armed = TRUE, ![1].retries = 1]
               c == [t.comm EXCEPT !.pending = q]
               u == [t EXCEPT !.comm = c]
    <3>1. DOMAIN t = TrackerFields /\ DOMAIN t.comm = CommFields
      BY <1>1 DEF TrackerShape, CommShape
    <3>2. CheckTimeout(t, e) = PostUdp(u, Rewrite)
      <4> DEFINE a1 == [t EXCEPT !.comm.pending[e].armed = FALSE]
                 a2 == [a1 EXCEPT !.comm.pending[1].armed = TRUE]
                 a3 == [a2 EXCEPT !.comm.pending[1].retries = 1]
                 q1 == [p EXCEPT ![e].armed = FALSE]
                 q2 == [q1 EXCEPT ![1].armed = TRUE]
                 q3 == [q2 EXCEPT ![1].retries = 1]
                 c1 == [t.comm EXCEPT !.pending = q1]
                 c2 == [c1 EXCEPT !.pending = q2]
                 c3 == [c2 EXCEPT !.pending = q3]
      <4>1. CheckTimeout(t, e) = PostUdp(a3, Rewrite)
        BY <2>2 DEF CheckTimeout
      <4>2. a1 = [t EXCEPT !.comm = c1]
        OBVIOUS
      <4>3. a1.comm = c1 /\ DOMAIN a1 = TrackerFields /\ c1.pending = q1 /\ DOMAIN c1 = CommFields
        <5> HIDE DEF a1, q1
        <5>1. c1.pending = q1 /\ DOMAIN c1 = CommFields
          BY <3>1 DEF CommFields
        <5> HIDE DEF c1
        <5> QED
          BY <3>1, <4>2, <5>1 DEF TrackerFields
      <4> HIDE DEF a1, c1, q1
      <4>4. a2 = [a1 EXCEPT !.comm = c2]
        BY <4>3
      <4>5. a2.comm = c2 /\ DOMAIN a2 = TrackerFields /\ c2.pending = q2 /\ DOMAIN c2 = CommFields
        <5> HIDE DEF a2, q2
        <5>1. c2.pending = q2 /\ DOMAIN c2 = CommFields
          BY <4>3 DEF CommFields
        <5> HIDE DEF c2
        <5> QED
          BY <4>3, <4>4, <5>1 DEF TrackerFields
      <4> HIDE DEF a2, c2, q2
      <4>6. a3 = [a2 EXCEPT !.comm = c3]
        BY <4>5
      <4> HIDE DEF a3, q3, q
      <4>7. q3 = q
        BY DEF q1, q2, q3, q
      <4>8. c3 = c
        BY <3>1, <4>7 DEF c1, c2, CommFields
      <4> HIDE DEF c3, c
      <4>9. a3 = u
        BY <3>1, <4>2, <4>4, <4>6, <4>8 DEF TrackerFields
      <4> QED
        BY <4>1, <4>9
    <3>3. p \in Seq(EntryType) /\ DOMAIN p = 1 .. Len(p) /\ Len(p) \in Nat /\ 1 \in 1 .. Len(p)
      <4>1. p \in Seq(EntryType) /\ e \in DOMAIN p
        BY <1>1 DEF TrackerShape, CommShape
      <4> HIDE DEF p
      <4> QED
        BY <4>1
    <3> HIDE DEF p
    <3>4. q \in Seq(EntryType) /\ Len(q) = Len(p) /\ DOMAIN q = DOMAIN p /\ q[1].armed
      <4> DEFINE x == [p[e] EXCEPT !.armed = FALSE]
                 q1 == [p EXCEPT ![e] = x]
                 y == [q1[1] EXCEPT !.armed = TRUE, !.retries = 1]
                 q2 == [q1 EXCEPT ![1] = y]
      <4>1. e \in 1 .. Len(p) /\ p[e] \in EntryType
        BY <1>2, <3>3 DEF p
      <4>2. x \in EntryType
        BY <4>1 DEF EntryType
      <4> HIDE DEF x
      <4>3. q1 \in Seq(EntryType) /\ Len(q1) = Len(p) /\ DOMAIN q1 = 1 .. Len(p)
        BY <3>3, <4>1, <4>2
      <4>4. q = q2
        BY <3>3, <4>1, <4>3 DEF x
      <4> HIDE DEF q1, q
      <4>5. q1[1] \in EntryType
        BY <3>3, <4>3
      <4>6. y \in EntryType /\ y.armed
        BY <4>5 DEF EntryType
      <4> HIDE DEF y
      <4>7. q2 \in Seq(EntryType) /\ Len(q2) = Len(p) /\ DOMAIN q2 = 1 .. Len(p) /\ q2[1] = y
        BY <3>3, <4>3, <4>6
      <4> QED
        BY <3>3, <4>4, <4>6, <4>7
    <3> HIDE DEF q
    <3>5. t.comm.kind = "udp"
      <4>1. p # <<>>
        BY <3>3
      <4> QED
        BY <1>1, <4>1 DEF TrackerShape, CommShape, p
    <3>6. CommShape(c) /\ c.kind = "udp" /\ c.no = t.comm.no /\ c.stream = t.comm.stream
          /\ c.pending = q
      BY <1>1, <3>1, <3>4, <3>5 DEF CommShape, CommFields, TrackerShape
    <3> HIDE DEF c
    <3>7. TrackerShape(u) /\ u.comm = c /\ u.timer = t.timer
          /\ Tokens(u) + Len(t.comm.pending) = Tokens(t) + Len(c.pending)
      BY <1>1, <3>5, <3>6, WithComm
    <3> HIDE DEF u
    <3>8. Tokens(u) = Tokens(t) /\ Tokens(t) \in Nat
      <4>1. Tokens(u) \in Nat /\ Tokens(t) \in Nat
        BY <1>1, <3>7, TokensTyped
      <4>2. Tokens(u) + Len(p) = Tokens(t) + Len(p)
        BY <3>4, <3>6, <3>7 DEF p
      <4> QED
        BY <3>3, <4>1, <4>2
    <3>9. Awake(u)
      BY <3>3, <3>4, <3>6, <3>7, ArmedAwake
    <3>10. Rewrite.call \in WriterCalls
      BY DEF Rewrite, WriterCalls
    <3>11. LET v == PostUdp(u, Rewrite)
           IN /\ TrackerShape(v) /\ v.comm.kind = u.comm.kind /\ v.timer = u.timer
              /\ Tokens(v) = Tokens(u) /\ Awake(v)
      BY <3>7, <3>9, <3>10, PostUdpFacts
    <3> QED
      BY <3>2, <3>5, <3>6, <3>7, <3>8, <3>11 DEF Turns
  <2> QED
    BY <2>1, <2>2
<1> QED
  BY <1>2, <1>3, <1>4, TurnKeeps DEF t

LEMMA HttpClosedTurns ==
    ASSUME NEW t, NEW c, TrackerShape(t), t.comm.kind = "http", CommShape(c), c.kind = "http",
           c.no = t.comm.no, c.pending = <<>>, c.state = t.comm.state,
           NEW v, v = [t EXCEPT !.comm = c],
           \/ c.stream = t.comm.stream
           \/ c.stream = "dead" /\ t.comm.state \in {"Announcing", "Announced"}
    PROVE  Turns(t, HttpClosed(v))
<1>1. t.comm.pending = <<>>
  BY DEF TrackerShape, CommShape
<1>2. /\ TrackerShape(v) /\ v.comm = c /\ v.protocol = t.protocol /\ v.timer = t.timer
      /\ v.tasks = t.tasks
  BY WithComm
<1>3. CASE v.comm.state = "Announced"
  <2>1. HttpClosed(v) = v
    BY <1>3 DEF HttpClosed
  <2>2. c.stream = "dead" => Awake(v)
    BY <1>2 DEF Awake, Asleep
  <2>3. c.stream = t.comm.stream /\ Awake(t) => Awake(v)
    BY <1>1, WithOther
  <2> QED
    BY <1>2, <2>1, <2>2, <2>3 DEF Turns
<1>4. CASE v.comm.state # "Announced"
  <2>1. HttpClosed(v) = HttpFail(v)
    BY <1>4 DEF HttpClosed
  <2>2. /\ TrackerShape(HttpFail(v)) /\ HttpFail(v).comm.kind = "http" /\ HttpFail(v).timer = v.timer
        /\ (v.comm.stream = "none" /\ Awake(v) => Awake(HttpFail(v)))
        /\ (v.comm.state = "Announcing" => Awake(HttpFail(v)))
    BY <1>2, HttpFailFacts
  <2>3. v.comm.state = "Announcing" \/ (v.comm.stream = "none" /\ c.stream = t.comm.stream)
    BY <1>2, <1>4 DEF CommShape
  <2>4. c.stream = t.comm.stream /\ Awake(t) => Awake(v)
    BY <1>1, WithOther
  <2> QED
    BY <1>2, <2>1, <2>2, <2>3, <2>4 DEF Turns
<1> QED
  BY <1>3, <1>4

LEMMA StreamTurns ==
    ASSUME NEW t, TrackerShape(t), t.comm.kind \in {"http", "https"}, NEW u, TrackerShape(u),
           u.comm.kind = t.comm.kind, u.timer = t.timer, Awake(u)
    PROVE  Turns(t, u)
BY DEF Turns

LEMMA HttpAnswerKeeps ==
    ASSUME TrackersInv, NEW i \in DOMAIN trackers, HttpAnswer(i) \/ HttpsAnswer(i)
    PROVE  TrackersInv'
<1> DEFINE t == trackers[i]
<1>1. TrackerShape(t) /\ trackerPlan \in PlanType /\ trackerPlan.refreshes <= trackerPlan.refreshes
  BY FewPending
<1>2. CASE HttpAnswer(i)
  <2>1. /\ t.comm.kind = "http" /\ Update(i, Announced(t)) /\ UNCHANGED <<started, startAll, trackerPlan>>
    BY <1>2 DEF HttpAnswer, Asked
  <2>2. Turns(t, Announced(t))
    <3> HIDE DEF t
    <3>1. HasComm(t)
      BY <2>1 DEF HasComm
    <3>2. TrackerShape(Announced(t)) /\ Awake(Announced(t))
          /\ Announced(t).comm.kind = t.comm.kind /\ Announced(t).timer = t.timer
      BY <1>1, <3>1, AnnouncedFacts
    <3> QED
      BY <1>1, <2>1, <3>2, StreamTurns
  <2> QED
    BY <1>1, <2>1, <2>2, TurnKeeps
<1>3. CASE HttpsAnswer(i)
  <2> DEFINE c == [t.comm EXCEPT !.stream = "none"]
             v == [t EXCEPT !.comm = c]
  <2>1. DOMAIN t = TrackerFields /\ DOMAIN t.comm = CommFields
    BY <1>1 DEF TrackerShape, CommShape
  <2>2. /\ t.comm.kind = "https"
        /\ Update(i, Announced([t EXCEPT !.comm.stream = "none"]))
        /\ UNCHANGED <<started, startAll, trackerPlan>>
    BY <1>3 DEF HttpsAnswer, Asked
  <2>3. [t EXCEPT !.comm.stream = "none"] = v
    BY <2>1 DEF TrackerFields, CommFields
  <2> HIDE DEF t
  <2>4. CommShape(c) /\ c.kind = t.comm.kind /\ c.no = t.comm.no
    BY <1>1, <2>1, <2>2 DEF CommShape, CommFields, TrackerShape
  <2> HIDE DEF c
  <2>5. TrackerShape(v) /\ v.comm = c /\ v.timer = t.timer
    BY <1>1, <2>4, WithComm
  <2> HIDE DEF v
  <2>6. HasComm(v)
    BY <2>2, <2>4, <2>5 DEF HasComm
  <2>7. TrackerShape(Announced(v)) /\ Awake(Announced(v))
        /\ Announced(v).comm.kind = t.comm.kind /\ Announced(v).timer = t.timer
    BY <2>4, <2>5, <2>6, AnnouncedFacts
  <2>8. Turns(t, Announced(v))
    BY <1>1, <2>2, <2>7, StreamTurns
  <2> QED
    BY <1>1, <2>2, <2>3, <2>8, TurnKeeps DEF t
<1> QED
  BY <1>2, <1>3

LEMMA StrayAnswerKeeps ==
    ASSUME TrackersInv, NEW i \in DOMAIN trackers, StrayAnswer(i)
    PROVE  TrackersInv'
<1> DEFINE t == trackers[i]
           less == t.comm.stray - 1
           more == t.comm.dropped + 1
           c == [t.comm EXCEPT !.stray = less, !.dropped = more]
           v == [t EXCEPT !.comm = c]
           w == IF v.comm.state = "Announcing" THEN Announced(v) ELSE v
<1>1. TrackerShape(t) /\ trackerPlan \in PlanType /\ trackerPlan.refreshes <= trackerPlan.refreshes
  BY FewPending
<1>2. DOMAIN t = TrackerFields /\ DOMAIN t.comm = CommFields
  BY <1>1 DEF TrackerShape, CommShape
<1>3. [t EXCEPT !.comm.stray = t.comm.stray - 1, !.comm.dropped = t.comm.dropped + 1] = v
  BY <1>2 DEF TrackerFields, CommFields
<1>4. t.comm.stray > 0 /\ Update(i, w) /\ UNCHANGED <<started, startAll, trackerPlan>>
  <2> HIDE DEF v
  <2> QED
    BY <1>2, <1>3 DEF StrayAnswer, TrackerFields, CommFields
<1> HIDE DEF t
<1>5. t.comm.kind = "http" /\ t.comm.pending = <<>>
  BY <1>1, <1>4 DEF TrackerShape, CommShape
<1>6. less \in Nat /\ more \in Nat
  BY <1>1, <1>4 DEF TrackerShape, CommShape
<1> HIDE DEF less, more
<1>7. CommShape(c) /\ c.kind = t.comm.kind /\ c.no = t.comm.no /\ c.pending = t.comm.pending
      /\ c.stream = t.comm.stream
  BY <1>1, <1>2, <1>5, <1>6 DEF CommShape, CommFields, TrackerShape
<1> HIDE DEF c
<1>8. Turns(t, v) /\ TrackerShape(v) /\ v.comm = c
  BY <1>1, <1>7, OtherTurns
<1>9. v.timer = t.timer
  BY <1>1, <1>7, WithComm
<1> HIDE DEF v
<1>10. HasComm(v)
  BY <1>5, <1>7, <1>8 DEF HasComm
<1>11. TrackerShape(Announced(v)) /\ Awake(Announced(v))
       /\ Announced(v).comm.kind = v.comm.kind /\ Announced(v).timer = v.timer
  BY <1>8, <1>10, AnnouncedFacts
<1>12. Turns(t, Announced(v))
  BY <1>1, <1>5, <1>7, <1>8, <1>9, <1>11, StreamTurns
<1>13. Turns(t, w)
  BY <1>8, <1>12
<1> HIDE DEF w
<1> QED
  BY <1>1, <1>4, <1>13, TurnKeeps DEF t

LEMMA StreamEndsKeep ==
    ASSUME TrackersInv, NEW i \in DOMAIN trackers, HttpStreamCloses(i) \/ DroppedStreamCloses(i)
    PROVE  TrackersInv'
<1> DEFINE t == trackers[i]
<1>1. TrackerShape(t) /\ trackerPlan \in PlanType /\ trackerPlan.refreshes <= trackerPlan.refreshes
  BY FewPending
<1>2. DOMAIN t = TrackerFields /\ DOMAIN t.comm = CommFields
  BY <1>1 DEF TrackerShape, CommShape
<1>3. CASE HttpStreamCloses(i)
  <2> DEFINE c == [t.comm EXCEPT !.stream = "dead"]
             v == [t EXCEPT !.comm = c]
  <2>1. /\ t.comm.kind = "http" /\ t.comm.stream = "live"
        /\ Update(i, HttpClosed([t EXCEPT !.comm.stream = "dead"]))
        /\ UNCHANGED <<started, startAll>> /\ (SpendPlanned("failures") \/ UNCHANGED trackerPlan)
    BY <1>3 DEF HttpStreamCloses
  <2>2. [t EXCEPT !.comm.stream = "dead"] = v
    BY <1>2 DEF TrackerFields, CommFields
  <2>3. trackerPlan' \in PlanType /\ trackerPlan'.refreshes <= trackerPlan.refreshes
    BY <1>1, <2>1, SpendKeeps
  <2> HIDE DEF t
  <2>4. t.comm.state \in {"Announcing", "Announced"} /\ t.comm.pending = <<>>
    BY <1>1, <2>1 DEF TrackerShape, CommShape
  <2>5. CommShape(c) /\ c.kind = "http" /\ c.no = t.comm.no /\ c.pending = t.comm.pending
        /\ c.stream = "dead" /\ c.state = t.comm.state
    BY <1>1, <1>2, <2>1, <2>4 DEF CommShape, CommFields, TrackerShape
  <2> HIDE DEF c
  <2>6. Turns(t, HttpClosed(v))
    BY <1>1, <2>1, <2>4, <2>5, HttpClosedTurns
  <2> QED
    BY <2>1, <2>2, <2>3, <2>6, TurnKeeps DEF t
<1>4. CASE DroppedStreamCloses(i)
  <2> DEFINE less == t.comm.dropped - 1
             c == [t.comm EXCEPT !.dropped = less]
             v == [t EXCEPT !.comm = c]
  <2>1. /\ t.comm.dropped > 0
        /\ Update(i, HttpClosed([t EXCEPT !.comm.dropped = t.comm.dropped - 1]))
        /\ UNCHANGED <<started, startAll, trackerPlan>>
    BY <1>4 DEF DroppedStreamCloses
  <2>2. [t EXCEPT !.comm.dropped = t.comm.dropped - 1] = v
    BY <1>2 DEF TrackerFields, CommFields
  <2> HIDE DEF t
  <2>3. t.comm.kind = "http" /\ t.comm.pending = <<>>
    BY <1>1, <2>1 DEF TrackerShape, CommShape
  <2>4. less \in Nat
    BY <1>1, <2>1 DEF TrackerShape, CommShape
  <2> HIDE DEF less
  <2>5. CommShape(c) /\ c.kind = "http" /\ c.no = t.comm.no /\ c.pending = t.comm.pending
        /\ c.stream = t.comm.stream /\ c.state = t.comm.state
    BY <1>1, <1>2, <2>3, <2>4 DEF CommShape, CommFields, TrackerShape
  <2> HIDE DEF c
  <2>6. Turns(t, HttpClosed(v))
    BY <1>1, <2>3, <2>5, HttpClosedTurns
  <2> QED
    BY <1>1, <2>1, <2>2, <2>6, TurnKeeps DEF t
<1> QED
  BY <1>3, <1>4

\* The request of a stream that fails.
LEMMA AskedFails ==
    ASSUME NEW t, TrackerShape(t), t.comm.kind \in {"http", "https"}, t.comm.state = "Announcing",
           NEW c, CommShape(c), c.kind = t.comm.kind, c.no = t.comm.no, c.pending = t.comm.pending,
           c.stream = "none", c.state = "Announcing", NEW v, v = [t EXCEPT !.comm = c]
    PROVE  Turns(t, StreamFail(v))
<1>1. TrackerShape(v) /\ v.comm = c /\ v.timer = t.timer
  BY WithComm
<1>2. LET u == StreamFail(v)
      IN  TrackerShape(u) /\ u.comm.kind = t.comm.kind /\ u.timer = t.timer /\ Awake(u)
  BY <1>1, StreamFailFacts
<1> QED
  BY <1>2, StreamTurns

LEMMA StreamFailsKeep ==
    ASSUME TrackersInv, NEW i \in DOMAIN trackers,
           HttpBadAnswer(i) \/ HttpsFails(i) \/ HttpsPartialAnswer(i)
    PROVE  TrackersInv'
<1> DEFINE t == trackers[i]
<1>1. TrackerShape(t) /\ trackerPlan \in PlanType /\ trackerPlan.refreshes <= trackerPlan.refreshes
  BY FewPending
<1>2. DOMAIN t = TrackerFields /\ DOMAIN t.comm = CommFields
  BY <1>1 DEF TrackerShape, CommShape
<1>3. CASE HttpBadAnswer(i)
  <2> DEFINE c == [t.comm EXCEPT !.stream = "none", !.dropped = t.comm.dropped + 1]
             v == [t EXCEPT !.comm = c]
  <2>1. /\ t.comm.kind = "http" /\ t.comm.state = "Announcing"
        /\ Update(i, StreamFail([t EXCEPT !.comm.stream = "none",
                                          !.comm.dropped = t.comm.dropped + 1]))
        /\ UNCHANGED <<started, startAll>> /\ SpendPlanned("refusals")
    BY <1>2, <1>3 DEF HttpBadAnswer, Asked, TrackerFields, CommFields
  <2>2. [t EXCEPT !.comm.stream = "none", !.comm.dropped = t.comm.dropped + 1] = v
    BY <1>2 DEF TrackerFields, CommFields
  <2>3. trackerPlan' \in PlanType /\ trackerPlan'.refreshes <= trackerPlan.refreshes
    BY <1>1, <2>1, SpendKeeps
  <2> HIDE DEF t
  <2>4. CommShape(c) /\ c.kind = t.comm.kind /\ c.no = t.comm.no /\ c.pending = t.comm.pending
        /\ c.stream = "none" /\ c.state = "Announcing"
    BY <1>1, <1>2, <2>1 DEF CommShape, CommFields, TrackerShape
  <2> HIDE DEF c
  <2>5. Turns(t, StreamFail(v))
    BY <1>1, <2>1, <2>4, AskedFails
  <2> QED
    BY <2>1, <2>2, <2>3, <2>5, TurnKeeps DEF t
<1>4. CASE HttpsFails(i)
  <2> DEFINE c == [t.comm EXCEPT !.stream = "none"]
             v == [t EXCEPT !.comm = c]
  <2>1. /\ t.comm.kind = "https" /\ t.comm.state = "Announcing"
        /\ Update(i, StreamFail([t EXCEPT !.comm.stream = "none"]))
        /\ UNCHANGED <<started, startAll>> /\ (SpendPlanned("refusals") \/ SpendPlanned("failures"))
    BY <1>4 DEF HttpsFails, Asked
  <2>2. [t EXCEPT !.comm.stream = "none"] = v
    BY <1>2 DEF TrackerFields, CommFields
  <2>3. trackerPlan' \in PlanType /\ trackerPlan'.refreshes <= trackerPlan.refreshes
    BY <1>1, <2>1, SpendKeeps
  <2> HIDE DEF t
  <2>4. CommShape(c) /\ c.kind = t.comm.kind /\ c.no = t.comm.no /\ c.pending = t.comm.pending
        /\ c.stream = "none" /\ c.state = "Announcing"
    BY <1>1, <1>2, <2>1 DEF CommShape, CommFields, TrackerShape
  <2> HIDE DEF c
  <2>5. Turns(t, StreamFail(v))
    BY <1>1, <2>1, <2>4, AskedFails
  <2> QED
    BY <2>1, <2>2, <2>3, <2>5, TurnKeeps DEF t
<1>5. CASE HttpsPartialAnswer(i)
  <2> DEFINE c == [t.comm EXCEPT !.stream = "dead"]
             v == [t EXCEPT !.comm = c]
  <2>1. /\ t.comm.kind = "https" /\ t.comm.state = "Announcing"
        /\ Update(i, [t EXCEPT !.comm.stream = "dead"])
        /\ UNCHANGED <<started, startAll>> /\ SpendPlanned("partial")
    BY <1>5 DEF HttpsPartialAnswer, Asked
  <2>2. [t EXCEPT !.comm.stream = "dead"] = v
    BY <1>2 DEF TrackerFields, CommFields
  <2>3. trackerPlan' \in PlanType /\ trackerPlan'.refreshes <= trackerPlan.refreshes
    BY <1>1, <2>1, SpendKeeps
  <2> HIDE DEF t
  <2>4. CommShape(c) /\ c.kind = t.comm.kind /\ c.no = t.comm.no /\ c.pending = t.comm.pending
        /\ c.stream = "dead"
    BY <1>1, <1>2, <2>1 DEF CommShape, CommFields, TrackerShape
  <2> HIDE DEF c
  <2>5. TrackerShape(v) /\ v.comm = c /\ v.timer = t.timer
    BY <1>1, <2>4, WithComm
  <2> HIDE DEF v
  <2>6. Awake(v)
    BY <2>1, <2>4, <2>5 DEF Awake, Asleep
  <2>7. Turns(t, v)
    BY <1>1, <2>1, <2>4, <2>5, <2>6, StreamTurns
  <2> QED
    BY <2>1, <2>2, <2>3, <2>7, TurnKeeps DEF t
<1> QED
  BY <1>3, <1>4, <1>5

\* A timer that fires makes a request of the one that it waited for.
LEMMA TimerFiresKeeps ==
    ASSUME TrackersInv, NEW i \in DOMAIN trackers, TimerFires(i)
    PROVE  TrackersInv'
<1> DEFINE t == trackers[i]
           v == [t EXCEPT !.timer = "idle"]
           u == Announce(v)
<1>1. TrackerShape(t) /\ trackerPlan \in PlanType /\ trackerPlan.refreshes <= trackerPlan.refreshes
  BY FewPending
<1>2. t.timer = "set" /\ Update(i, u) /\ UNCHANGED <<started, startAll, trackerPlan>>
  BY DEF TimerFires
<1> HIDE DEF t
<1>3. /\ TrackerShape(v) /\ v.comm = t.comm /\ v.tasks = t.tasks /\ v.timer = "idle"
      /\ HasComm(v)
  BY <1>1, <1>2 DEF TrackerShape, TrackerFields, HasComm
<1>4. Tokens(t) = Tokens(v) + 1
  <2>1. Timers(t) = 1 /\ Timers(v) = 0
    BY <1>2, <1>3 DEF Timers
  <2>2. Copies(v, "fail") = Copies(t, "fail") /\ Copies(v, "announce") = Copies(t, "announce")
    BY <1>3 DEF Copies
  <2>3. /\ Len(t.comm.pending) \in Nat /\ Copies(t, "fail") \in Nat /\ Copies(t, "announce") \in Nat
    BY <1>1, TokensTyped
  <2>4. Tokens(t) = Len(t.comm.pending) + 1 + Copies(t, "fail") + Copies(t, "announce")
    BY <2>1 DEF Tokens
  <2>5. Tokens(v) = Len(t.comm.pending) + 0 + Copies(t, "fail") + Copies(t, "announce")
    BY <1>3, <2>1, <2>2 DEF Tokens
  <2> QED
    BY <2>3, <2>4, <2>5
<1> HIDE DEF v
<1>5. /\ TrackerShape(u) /\ Awake(u) /\ u.comm.kind = v.comm.kind /\ u.timer = v.timer
      /\ (v.comm.kind = "udp" => Tokens(u) = Tokens(v) + 1)
  BY <1>3, AnnounceFacts
<1> HIDE DEF u
<1>6. Tokens(t) \in Nat
  BY <1>1, TokensTyped
<1>7. Turns(t, u)
  BY <1>3, <1>4, <1>5, <1>6 DEF Turns
<1> QED
  BY <1>1, <1>2, <1>7, TurnKeeps DEF t

\* A refresh asks once more.
LEMMA RefreshKeeps ==
    ASSUME TrackersInv, NEW i \in DOMAIN trackers, Refresh(i)
    PROVE  TrackersInv'
<1> DEFINE t == trackers[i]
           u == Announce(t)
<1>1. TrackerShape(t) /\ trackerPlan \in PlanType /\ Kept(t, trackerPlan.refreshes, started, startAll)
  BY InvOf
<1>2. HasComm(t) /\ Update(i, u) /\ SpendPlanned("refreshes") /\ UNCHANGED <<started, startAll>>
  BY DEF Refresh
<1>3. /\ trackerPlan' \in PlanType /\ trackerPlan'.refreshes <= trackerPlan.refreshes
      /\ trackerPlan.refreshes = trackerPlan'.refreshes + 1
  BY <1>1, <1>2, SpendKeeps
<1> HIDE DEF t
<1>4. /\ TrackerShape(u) /\ Awake(u) /\ u.comm.kind = t.comm.kind /\ u.timer = t.timer
      /\ (t.comm.kind = "udp" => Tokens(u) = Tokens(t) + 1)
  BY <1>1, <1>2, AnnounceFacts
<1> HIDE DEF u
<1>5. t.comm.kind = "udp" => Tokens(u) + trackerPlan'.refreshes <= 2
  <2>1. Tokens(t) \in Nat /\ trackerPlan'.refreshes \in Nat
    BY <1>1, <1>3, TokensTyped, PlanTyped
  <2>2. t.comm.kind = "udp" => Tokens(t) + (trackerPlan'.refreshes + 1) <= 2
    BY <1>1, <1>3 DEF Kept
  <2> QED
    BY <1>4, <2>1, <2>2
<1>6. Kept(u, trackerPlan'.refreshes, started, startAll)
  BY <1>1, <1>4, <1>5 DEF Kept
<1> QED
  BY <1>2, <1>3, <1>6, OneUpdatedKeeps DEF t

\* A task that is taken: what is left, and what it was worth.
LEMMA TaskTaken ==
    ASSUME NEW t, TrackerShape(t), NEW task \in DOMAIN t.tasks
    PROVE  LET u == [t EXCEPT !.tasks = Minus(t.tasks, task)]
           IN  /\ TrackerShape(u) /\ u.comm = t.comm /\ u.timer = t.timer
               /\ u.protocol = t.protocol
               /\ Tokens(u) <= Tokens(t)
               /\ task[1] # "restart" /\ task[2] = t.comm.no => Tokens(u) + 1 = Tokens(t)
               /\ Awake(t) /\ ~ Wakes(task, t) => Awake(u)
               /\ task[1] \in {"fail", "announce", "restart"}
<1> DEFINE b == Minus(t.tasks, task)
           u == [t EXCEPT !.tasks = b]
<1>1. /\ IsABag(b) /\ DOMAIN b \subseteq DOMAIN t.tasks
      /\ DOMAIN t.tasks \ {task} \subseteq DOMAIN b
      /\ HowMany(task, b) = HowMany(task, t.tasks) - 1 /\ HowMany(task, t.tasks) > 0
      /\ \A y : y # task => HowMany(y, b) = HowMany(y, t.tasks)
      /\ \A y : HowMany(y, t.tasks) \in Nat
  BY BagRemoveFacts DEF TrackerShape
<1>2. task \in {"fail", "announce", "restart"} \X (0 .. t.made)
  BY DEF TrackerShape
<1>3. task = <<task[1], task[2]>> /\ task[1] \in {"fail", "announce", "restart"}
  BY <1>2
<1> HIDE DEF b
<1>4. /\ DOMAIN u = TrackerFields /\ u.comm = t.comm /\ u.tasks = b
      /\ u.protocol = t.protocol /\ u.timer = t.timer /\ u.made = t.made
      /\ u.httpFallback = t.httpFallback /\ u.httpFallbackUsed = t.httpFallbackUsed
  BY DEF TrackerShape, TrackerFields
<1> HIDE DEF u
<1>5. TrackerShape(u)
  BY <1>1, <1>4 DEF TrackerShape, HasComm
<1>6. Awake(t) /\ ~ Wakes(task, t) => Awake(u)
  <2> SUFFICES ASSUME Awake(t), ~ Wakes(task, t) PROVE Awake(u)
    OBVIOUS
  <2>1. \A x \in DOMAIN t.tasks : Wakes(x, t) => x \in DOMAIN u.tasks /\ Wakes(x, u)
    BY <1>1, <1>4 DEF Wakes, HasComm
  <2> QED
    BY <1>4, <2>1 DEF Awake, Asleep
<1> DEFINE fail == Copies(t, "fail")
           announce == Copies(t, "announce")
           rest == Len(t.comm.pending) + Timers(t)
<1>7. fail \in Nat /\ announce \in Nat /\ rest \in Nat /\ Tokens(t) = rest + fail + announce
  <2>1. Copies(t, "fail") \in Nat /\ Copies(t, "announce") \in Nat /\ Timers(t) \in Nat
        /\ Len(t.comm.pending) \in Nat
    BY TokensTyped
  <2> QED
    BY <2>1 DEF Tokens
<1>8. Tokens(u) = rest + Copies(u, "fail") + Copies(u, "announce")
  <2>1. Timers(u) = Timers(t)
    BY <1>4 DEF Timers
  <2> QED
    BY <1>4, <2>1 DEF Tokens
<1>9. /\ Copies(u, "fail") = IF task = <<"fail", t.comm.no>> THEN fail - 1 ELSE fail
      /\ Copies(u, "announce") = IF task = <<"announce", t.comm.no>> THEN announce - 1 ELSE announce
  BY <1>1, <1>4 DEF Copies
<1> HIDE DEF fail, announce, rest
<1>10. CASE task = <<"fail", t.comm.no>>
  <2>1. Tokens(u) = rest + (fail - 1) + announce
    BY <1>8, <1>9, <1>10
  <2>2. Tokens(u) + 1 = Tokens(t) /\ Tokens(u) <= Tokens(t)
    BY <1>7, <2>1
  <2> QED
    BY <1>3, <1>4, <1>5, <1>6, <2>2 DEF u, b
<1>11. CASE task = <<"announce", t.comm.no>>
  <2>1. Tokens(u) = rest + fail + (announce - 1)
    BY <1>8, <1>9, <1>11
  <2>2. Tokens(u) + 1 = Tokens(t) /\ Tokens(u) <= Tokens(t)
    BY <1>7, <2>1
  <2> QED
    BY <1>3, <1>4, <1>5, <1>6, <2>2 DEF u, b
<1>12. CASE task # <<"fail", t.comm.no>> /\ task # <<"announce", t.comm.no>>
  <2>1. Tokens(u) = rest + fail + announce
    BY <1>8, <1>9, <1>12
  <2>2. Tokens(u) <= Tokens(t)
    BY <1>7, <2>1
  <2>3. ~ (task[1] # "restart" /\ task[2] = t.comm.no)
    BY <1>3, <1>12
  <2> QED
    BY <1>3, <1>4, <1>5, <1>6, <2>2, <2>3 DEF u, b
<1> QED
  BY <1>10, <1>11, <1>12

LEMMA TimerSet ==
    ASSUME NEW t, TrackerShape(t), HasComm(t)
    PROVE  LET u == [t EXCEPT !.timer = "set"]
           IN  /\ TrackerShape(u) /\ u.comm = t.comm /\ Awake(u) /\ Tokens(u) <= Tokens(t) + 1
               /\ u.tasks = t.tasks
<1> DEFINE u == [t EXCEPT !.timer = "set"]
<1>1. /\ TrackerShape(u) /\ u.comm = t.comm /\ u.tasks = t.tasks /\ u.timer = "set"
  BY DEF TrackerShape, TrackerFields, HasComm
<1> HIDE DEF u
<1>2. Awake(u)
  BY <1>1 DEF Awake
<1>3. Tokens(u) <= Tokens(t) + 1
  <2>1. Timers(u) = 1
    BY <1>1 DEF Timers
  <2>2. Copies(u, "fail") = Copies(t, "fail") /\ Copies(u, "announce") = Copies(t, "announce")
    BY <1>1 DEF Copies
  <2>3. /\ Len(t.comm.pending) \in Nat /\ Copies(t, "fail") \in Nat /\ Copies(t, "announce") \in Nat
        /\ Timers(t) \in Nat
    BY TokensTyped
  <2>4. Tokens(u) = Len(t.comm.pending) + 1 + Copies(t, "fail") + Copies(t, "announce")
    BY <1>1, <2>1, <2>2 DEF Tokens
  <2>5. Tokens(t) = Len(t.comm.pending) + Timers(t) + Copies(t, "fail") + Copies(t, "announce")
    BY DEF Tokens
  <2>6. \A i, j, k, l \in Nat : i + 1 + k + l <= (i + j + k + l) + 1
    OBVIOUS
  <2> QED
    BY <2>3, <2>4, <2>5, <2>6
<1> QED
  BY <1>1, <1>2, <1>3 DEF u

LEMMA WithReached ==
    ASSUME NEW t, TrackerShape(t), NEW b
    PROVE  LET u == [t EXCEPT !.reached = b]
           IN  /\ TrackerShape(u) /\ u.comm = t.comm /\ u.timer = t.timer /\ u.tasks = t.tasks
               /\ Tokens(u) = Tokens(t) /\ (Awake(t) => Awake(u))
<1> DEFINE u == [t EXCEPT !.reached = b]
<1>1. /\ TrackerShape(u) /\ u.comm = t.comm /\ u.timer = t.timer /\ u.tasks = t.tasks
      /\ u.protocol = t.protocol
  BY DEF TrackerShape, TrackerFields, HasComm
<1> HIDE DEF u
<1>2. Awake(t) => Awake(u)
  BY <1>1 DEF Awake, Asleep, Wakes, HasComm
<1>3. Tokens(u) = Tokens(t)
  <2>1. /\ Copies(u, "fail") = Copies(t, "fail") /\ Copies(u, "announce") = Copies(t, "announce")
        /\ Timers(u) = Timers(t)
    BY <1>1 DEF Copies, Timers
  <2> QED
    BY <1>1, <2>1 DEF Tokens
<1> QED
  BY <1>1, <1>2, <1>3 DEF u

\* What a task of a started torrent makes of a tracker is Kept.
LEMMA StartTrackerKept ==
    ASSUME NEW t, TrackerShape(t), t.protocol # "other", NEW r \in 0 .. 1, NEW on, NEW calls
    PROVE  Kept(StartTracker(t), r, on, calls)
<1> DEFINE u == StartTracker(t)
<1>1. /\ TrackerShape(u) /\ Awake(u)
      /\ u.timer # "set" /\ (u.comm.kind = "udp" => Tokens(u) = 1)
  BY StartTrackerFacts
<1> HIDE DEF u
<1>2. Kept(u, r, on, calls)
  BY <1>1 DEF Kept
<1> QED
  BY <1>2 DEF u

LEMMA RestartKept ==
    ASSUME NEW t, NEW r \in 0 .. 1, NEW on, NEW calls, TrackerShape(t),
           t.comm.kind = "udp" => Tokens(t) + r <= 2, ~ on => t.timer # "set"
    PROVE  Kept(StartTracker(t), r, on, calls)
<1>1. CASE t.protocol = "other"
  <2>1. StartTracker(t) = t
    BY <1>1 DEF StartTracker
  <2>2. Awake(t)
    BY <1>1 DEF Awake
  <2> QED
    BY <2>1, <2>2 DEF Kept
<1>2. CASE t.protocol # "other"
  BY <1>2, StartTrackerKept
<1> QED
  BY <1>1, <1>2

LEMMA OnTrackerFailKept ==
    ASSUME NEW t, TrackerShape(t), HasComm(t), NEW r \in 0 .. 1, NEW calls,
           t.comm.kind = "udp" => Tokens(t) + 1 + r <= 2
    PROVE  Kept(OnTrackerFail(t), r, TRUE, calls)
<1> DEFINE first == t.httpFallback /\ ~ t.httpFallbackUsed /\ t.protocol = "udp"
           second == t.httpFallback /\ t.httpFallbackUsed /\ t.protocol = "http"
<1>1. Tokens(t) \in Nat /\ DOMAIN t = TrackerFields
  BY TokensTyped DEF TrackerShape
<1>2. CASE first
  <2> DEFINE v == [t EXCEPT !.httpFallbackUsed = TRUE, !.protocol = "http"]
             u == Post(v, "restart")
  <2>1. OnTrackerFail(t) = u
    BY <1>2 DEF OnTrackerFail
  <2>2. /\ DOMAIN v = TrackerFields /\ v.comm = t.comm /\ v.tasks = t.tasks /\ v.timer = t.timer
        /\ v.made = t.made /\ v.protocol = "http" /\ v.httpFallbackUsed = TRUE
    BY <1>1 DEF TrackerFields
  <2> HIDE DEF v
  <2>3. TrackerShape(v) /\ HasComm(v)
    BY <2>2 DEF TrackerShape, HasComm, Protocols
  <2>4. Tokens(v) = Tokens(t)
    BY <2>2 DEF Tokens, Copies, Timers
  <2>5. TrackerShape(u) /\ Awake(u) /\ u.comm = v.comm /\ Tokens(u) = Tokens(v)
    BY <2>3, PostFacts
  <2> HIDE DEF u
  <2>6. u.comm.kind = "udp" => Tokens(u) + r <= 2
    BY <1>1, <2>2, <2>4, <2>5
  <2> QED
    BY <2>1, <2>5, <2>6 DEF Kept
<1>3. CASE ~ first /\ second
  <2> DEFINE v == [t EXCEPT !.protocol = "udp"]
  <2>1. OnTrackerFail(t) = StartTracker(v)
    BY <1>3 DEF OnTrackerFail
  <2>2. TrackerShape(v) /\ v.protocol = "udp"
    BY DEF TrackerShape, TrackerFields, HasComm, Protocols
  <2> HIDE DEF v
  <2> QED
    BY <2>1, <2>2, StartTrackerKept
<1>4. CASE ~ first /\ ~ second
  <2> DEFINE u == [t EXCEPT !.timer = "set"]
  <2>1. OnTrackerFail(t) = u
    BY <1>4 DEF OnTrackerFail
  <2>2. TrackerShape(u) /\ u.comm = t.comm /\ Awake(u) /\ Tokens(u) <= Tokens(t) + 1
    BY TimerSet
  <2> HIDE DEF u
  <2>3. Tokens(u) \in Nat
    BY <2>2, TokensTyped
  <2>4. u.comm.kind = "udp" => Tokens(u) + r <= 2
    BY <1>1, <2>2, <2>3
  <2> QED
    BY <2>1, <2>2, <2>4 DEF Kept
<1> QED
  BY <1>2, <1>3, <1>4

LEMMA TaskKeeps ==
    ASSUME TrackersInv, NEW i \in DOMAIN trackers, Task(i)
    PROVE  TrackersInv'
<1> DEFINE t == trackers[i]
           r == trackerPlan.refreshes
<1>1. TrackerShape(t) /\ trackerPlan \in PlanType /\ r <= r /\ Kept(t, r, started, startAll)
      /\ r \in 0 .. 1 /\ started \in BOOLEAN
  BY InvOf, PlanTyped DEF TrackersInv
<1>2. PICK task \in DOMAIN t.tasks :
         LET u == [t EXCEPT !.tasks = Minus(t.tasks, task)]
             found == HasComm(u) /\ u.comm.no = task[2]
         IN /\ Update(i, CASE task[1] = "restart" -> StartTracker(u)
                           [] task[1] = "fail" /\ started /\ found -> OnTrackerFail(u)
                           [] task[1] = "announce" /\ started ->
                                 [IF found THEN OnAnnounce(u) ELSE u EXCEPT !.reached = TRUE]
                           [] OTHER -> u)
            /\ UNCHANGED <<started, startAll, trackerPlan>>
  BY DEF Task, BagToSet
<1> DEFINE u == [t EXCEPT !.tasks = Minus(t.tasks, task)]
           found == HasComm(u) /\ u.comm.no = task[2]
           told == [IF found THEN OnAnnounce(u) ELSE u EXCEPT !.reached = TRUE]
           v == CASE task[1] = "restart" -> StartTracker(u)
                  [] task[1] = "fail" /\ started /\ found -> OnTrackerFail(u)
                  [] task[1] = "announce" /\ started -> told
                  [] OTHER -> u
<1>3. Update(i, v) /\ UNCHANGED <<started, startAll, trackerPlan>>
  BY <1>2
<1> HIDE DEF t, r
<1>4. /\ TrackerShape(u) /\ u.comm = t.comm /\ u.timer = t.timer /\ Tokens(u) <= Tokens(t)
      /\ task[1] # "restart" /\ task[2] = t.comm.no => Tokens(u) + 1 = Tokens(t)
      /\ Awake(t) /\ ~ Wakes(task, t) => Awake(u)
      /\ task[1] \in {"fail", "announce", "restart"}
  BY <1>1, TaskTaken
<1> HIDE DEF u
<1>5. Tokens(u) \in Nat /\ Tokens(t) \in Nat
  BY <1>1, <1>4, TokensTyped
<1>6. u.comm.kind = "udp" => Tokens(u) + r <= 2
  BY <1>1, <1>4, <1>5 DEF Kept
<1>7. ~ started => u.timer # "set"
  BY <1>1, <1>4 DEF Kept
<1>8. CASE task[1] = "restart"
  <2>1. v = StartTracker(u)
    BY <1>8
  <2> HIDE DEF v
  <2>2. Kept(v, r, started, startAll)
    BY <1>1, <1>4, <1>6, <1>7, <2>1, RestartKept
  <2> QED
    BY <1>1, <1>3, <2>2, OneUpdatedKeeps DEF r
<1>9. CASE task[1] = "fail" /\ started /\ found
  <2>1. v = OnTrackerFail(u)
    BY <1>9
  <2> HIDE DEF v
  <2>2. u.comm.kind = "udp" => Tokens(u) + 1 + r <= 2
    <3>1. Tokens(u) + 1 = Tokens(t)
      BY <1>4, <1>9
    <3> QED
      BY <1>1, <1>4, <3>1 DEF Kept
  <2>3. Kept(v, r, TRUE, startAll)
    BY <1>1, <1>4, <1>9, <2>1, <2>2, OnTrackerFailKept
  <2>4. started = TRUE
    BY <1>1, <1>9
  <2>5. Kept(v, r, started, startAll)
    BY <2>3, <2>4
  <2> QED
    BY <1>1, <1>3, <2>5, OneUpdatedKeeps DEF r
<1>10. CASE task[1] = "announce" /\ started
  <2>1. v = told
    BY <1>10
  <2> HIDE DEF v
  <2>2. CASE found
    <3> DEFINE w == [u EXCEPT !.timer = "set"]
    <3>1. v = [w EXCEPT !.reached = TRUE]
      BY <2>1, <2>2 DEF OnAnnounce
    <3>2. TrackerShape(w) /\ w.comm = u.comm /\ Awake(w) /\ Tokens(w) <= Tokens(u) + 1
      BY <1>4, <2>2, TimerSet
    <3> HIDE DEF w
    <3>3. TrackerShape(v) /\ v.comm = w.comm /\ Awake(v) /\ Tokens(v) = Tokens(w)
      BY <3>1, <3>2, WithReached
    <3>4. Tokens(u) + 1 = Tokens(t)
      BY <1>4, <1>10, <2>2
    <3>5. Tokens(w) \in Nat
      BY <3>2, TokensTyped
    <3>6. v.comm.kind = "udp" => Tokens(v) + r <= 2
      <4>1. v.comm.kind = "udp" => Tokens(t) + r <= 2
        BY <1>1, <1>4, <3>2, <3>3 DEF Kept
      <4>2. Tokens(v) <= Tokens(t)
        BY <3>2, <3>3, <3>4
      <4> QED
        BY <1>1, <1>5, <3>3, <3>5, <4>1, <4>2
    <3>7. Kept(v, r, started, startAll)
      BY <1>10, <3>3, <3>6 DEF Kept
    <3> QED
      BY <1>1, <1>3, <3>7, OneUpdatedKeeps DEF r
  <2>3. CASE ~ found
    <3>1. v = [u EXCEPT !.reached = TRUE]
      BY <2>1, <2>3
    <3>2. TrackerShape(v) /\ v.comm = u.comm /\ v.timer = u.timer /\ Tokens(v) = Tokens(u)
          /\ (Awake(u) => Awake(v))
      BY <1>4, <3>1, WithReached
    <3>3. ~ Wakes(task, t)
      BY <1>4, <1>10, <2>3 DEF Wakes, HasComm
    <3>4. Kept(v, r, started, startAll)
      BY <1>1, <1>4, <1>6, <1>7, <3>2, <3>3 DEF Kept
    <3> QED
      BY <1>1, <1>3, <3>4, OneUpdatedKeeps DEF r
  <2> QED
    BY <2>2, <2>3
<1>11. CASE /\ task[1] # "restart" /\ ~ (task[1] = "fail" /\ started /\ found)
            /\ ~ (task[1] = "announce" /\ started)
  <2>1. v = u
    BY <1>11
  <2> HIDE DEF v
  <2>2. started => ~ Wakes(task, t)
    BY <1>4, <1>11 DEF Wakes, HasComm
  <2>3. Kept(v, r, started, startAll)
    BY <1>1, <1>4, <1>6, <1>7, <2>1, <2>2 DEF Kept
  <2> QED
    BY <1>1, <1>3, <2>3, OneUpdatedKeeps DEF r
<1> QED
  BY <1>8, <1>9, <1>10, <1>11

-------------------------------------------------------------------------------
(* The steps of all trackers. *)

LEMMA MappedKeeps ==
    ASSUME trackers \in Seq(Range(trackers)), NEW f, trackers' = [i \in DOMAIN trackers |-> f[i]],
           started' \in BOOLEAN, startAll' \in Nat, trackerPlan' \in PlanType,
           \A i \in DOMAIN trackers : Kept(f[i], trackerPlan'.refreshes, started', startAll')
    PROVE  TrackersInv'
<1>1. PICK n \in Nat : DOMAIN trackers = 1 .. n
  OBVIOUS
<1>2. DOMAIN trackers' = 1 .. n /\ \A i \in 1 .. n : trackers'[i] = f[i]
  BY <1>1
<1>3. trackers' \in [1 .. n -> Range(trackers')]
  BY <1>1, <1>2 DEF Range
<1>4. trackers' \in Seq(Range(trackers'))
  BY <1>3, FunctionIsSeq
<1>5. \A i \in DOMAIN trackers' : Kept(trackers'[i], trackerPlan'.refreshes, started', startAll')
  BY <1>1, <1>2
<1> QED
  BY <1>4, <1>5 DEF TrackersInv

LEMMA TrackersStartKeeps ==
    ASSUME TrackersInv, Start
    PROVE  TrackersInv'
<1> DEFINE f == [i \in DOMAIN trackers |-> [trackers[i] EXCEPT !.reached = FALSE]]
<1>1. /\ trackers \in Seq(Range(trackers)) /\ startAll \in Nat /\ trackerPlan \in PlanType
  BY DEF TrackersInv
<1>2. /\ trackers' = f /\ started' = TRUE /\ startAll' = startAll + 1 /\ SpendPlanned("starts")
  BY DEF Start
<1>3. trackerPlan' \in PlanType /\ trackerPlan'.refreshes <= trackerPlan.refreshes
  BY <1>1, <1>2, SpendKeeps
<1>4. ASSUME NEW i \in DOMAIN trackers
      PROVE  Kept(f[i], trackerPlan'.refreshes, started', startAll')
  <2> DEFINE t == trackers[i]
             u == [t EXCEPT !.reached = FALSE]
  <2>1. Kept(t, trackerPlan.refreshes, started, startAll) /\ TrackerShape(t)
    BY InvOf
  <2> HIDE DEF t
  <2>2. TrackerShape(u) /\ u.comm = t.comm /\ Tokens(u) = Tokens(t)
    BY <2>1, WithReached
  <2> HIDE DEF u
  <2>3. Tokens(t) \in Nat /\ trackerPlan.refreshes \in 0 .. 1 /\ trackerPlan'.refreshes \in 0 .. 1
    BY <1>1, <1>3, <2>1, TokensTyped, PlanTyped
  <2>4. u.comm.kind = "udp" => Tokens(u) + trackerPlan'.refreshes <= 2
    <3>1. u.comm.kind = "udp" => Tokens(t) + trackerPlan.refreshes <= 2
      BY <2>1, <2>2 DEF Kept
    <3> QED
      BY <1>3, <2>2, <2>3, <3>1
  <2>5. startAll + 1 # 0
    BY <1>1
  <2>6. Kept(u, trackerPlan'.refreshes, started', startAll')
    BY <1>2, <2>2, <2>4, <2>5 DEF Kept
  <2> QED
    BY <2>6 DEF u, t
<1>5. trackers' = [i \in DOMAIN trackers |-> f[i]]
  BY <1>2
<1>6. startAll' \in Nat /\ started' \in BOOLEAN
  BY <1>1, <1>2
<1> HIDE DEF f
<1> QED
  BY <1>1, <1>3, <1>4, <1>5, <1>6, MappedKeeps

LEMMA StartAllKeeps ==
    ASSUME TrackersInv, StartAll
    PROVE  TrackersInv'
<1> DEFINE f == [i \in DOMAIN trackers |-> StartTracker(trackers[i])]
<1>1. /\ trackers \in Seq(Range(trackers)) /\ startAll \in Nat /\ trackerPlan \in PlanType
      /\ started \in BOOLEAN
  BY DEF TrackersInv
<1>2. /\ trackers' = f /\ startAll > 0 /\ startAll' = startAll - 1 /\ UNCHANGED <<started, trackerPlan>>
  BY DEF StartAll
<1>3. startAll' \in Nat /\ started' \in BOOLEAN /\ trackerPlan' \in PlanType
  BY <1>1, <1>2
<1>4. ASSUME NEW i \in DOMAIN trackers
      PROVE  Kept(f[i], trackerPlan'.refreshes, started', startAll')
  <2>1. TrackerShape(trackers[i]) /\ Kept(trackers[i], trackerPlan.refreshes, started, startAll)
    BY InvOf
  <2>2. trackerPlan.refreshes \in 0 .. 1
    BY <1>1, PlanTyped
  <2>3. Kept(StartTracker(trackers[i]), trackerPlan.refreshes, started, startAll')
    BY <2>1, <2>2, RestartKept DEF Kept
  <2> QED
    BY <1>2, <2>3
<1>5. trackers' = [i \in DOMAIN trackers |-> f[i]]
  BY <1>2
<1> HIDE DEF f
<1> QED
  BY <1>1, <1>3, <1>4, <1>5, MappedKeeps

LEMMA NoCommShape == CommShape(NoComm) /\ NoComm.kind = "none" /\ NoComm.no = 0
BY NoTasks DEF NoComm, NewComm, CommShape, CommFields

LEMMA TrackersStopKeeps ==
    ASSUME TrackersInv, Stop
    PROVE  TrackersInv'
<1> DEFINE f == [i \in DOMAIN trackers |-> StopTracker(trackers[i])]
<1>1. /\ trackers \in Seq(Range(trackers)) /\ startAll \in Nat /\ trackerPlan \in PlanType
  BY DEF TrackersInv
<1>2. /\ trackers' = f /\ started' = FALSE /\ startAll' = startAll /\ SpendPlanned("stops")
  BY DEF Stop
<1>3. trackerPlan' \in PlanType
  BY <1>1, <1>2, SpendKeeps
<1>4. ASSUME NEW i \in DOMAIN trackers
      PROVE  Kept(f[i], trackerPlan'.refreshes, started', startAll')
  <2> DEFINE t == trackers[i]
             u == StopTracker(t)
  <2>1. TrackerShape(t)
    BY InvOf
  <2> HIDE DEF t
  <2>2. /\ DOMAIN u = TrackerFields /\ u.comm = NoComm /\ u.timer = "none" /\ u.tasks = t.tasks
        /\ u.protocol = t.protocol /\ u.made = t.made /\ u.httpFallback = t.httpFallback
        /\ u.httpFallbackUsed = t.httpFallbackUsed
    BY <2>1 DEF StopTracker, TrackerShape, TrackerFields
  <2> HIDE DEF u
  <2>3. TrackerShape(u)
    BY <2>1, <2>2, NoCommShape DEF TrackerShape, HasComm
  <2>4. Kept(u, trackerPlan'.refreshes, started', startAll')
    BY <1>2, <2>2, <2>3, NoCommShape DEF Kept
  <2> QED
    BY <2>4 DEF u, t
<1>5. trackers' = [i \in DOMAIN trackers |-> f[i]]
  BY <1>2
<1>6. startAll' \in Nat /\ started' \in BOOLEAN
  BY <1>1, <1>2
<1> HIDE DEF f
<1> QED
  BY <1>1, <1>3, <1>4, <1>5, <1>6, MappedKeeps

\* What a uri adds to the list: one tracker, or UDP in front of HTTP for one that was
\* not made yet.
LEMMA AddTrackerIs ==
    ASSUME NEW list, NEW n \in Nat, DOMAIN list = 1 .. n, Len(list) = n, NEW uri
    PROVE  \/ AddTracker(list, uri) = list
           \/ AddTracker(list, uri) = Append(list, NewTracker(uri))
           \/ \E i \in 1 .. n : /\ ~ HasComm(list[i])
                                /\ AddTracker(list, uri) =
                                      [list EXCEPT ![i].protocol = "udp", ![i].httpFallback = TRUE]
<1> DEFINE I == {i \in 1 .. Len(list) : list[i].host = uri.host}
           i == SelectInSeq(list, LAMBDA t : t.host = uri.host)
<1>1. i = IF I # {} THEN Min(I) ELSE 0
  BY DEF SelectInSeq
<1>2. I # {} => i \in 1 .. n
  <2> SUFFICES ASSUME I # {} PROVE i \in 1 .. n
    OBVIOUS
  <2>1. I \in SUBSET Nat
    OBVIOUS
  <2>2. Min(I) \in I
    <3> HIDE DEF I
    <3> QED
      BY <2>1, MinExists
  <2>3. i = Min(I)
    BY <1>1
  <2> HIDE DEF i
  <2> QED
    BY <2>2, <2>3
<1>3. i = 0 \/ i \in 1 .. n
  BY <1>1, <1>2
<1>4. \/ AddTracker(list, uri) = list
      \/ AddTracker(list, uri) = Append(list, NewTracker(uri))
      \/ /\ i # 0 /\ ~ HasComm(list[i])
         /\ AddTracker(list, uri) = [list EXCEPT ![i].protocol = "udp", ![i].httpFallback = TRUE]
  BY DEF AddTracker
<1> HIDE DEF i
<1> QED
  BY <1>3, <1>4

\* A tracker of the list that was never started.
LEMMA NewTrackerShape ==
    ASSUME NEW uri \in Uri
    PROVE  /\ TrackerShape(NewTracker(uri)) /\ ~ HasComm(NewTracker(uri))
           /\ NewTracker(uri).timer = "none"
BY NoTasks, NoCommShape DEF NewTracker, TrackerShape, TrackerFields, HasComm, Uri

LEMMA MergedShape ==
    ASSUME NEW t, TrackerShape(t), ~ HasComm(t)
    PROVE  LET u == [t EXCEPT !.protocol = "udp", !.httpFallback = TRUE]
           IN  TrackerShape(u) /\ ~ HasComm(u) /\ u.timer = t.timer
BY DEF TrackerShape, TrackerFields, HasComm, Protocols

LEMMA ImportKeeps ==
    ASSUME TrackersInv, Import
    PROVE  TrackersInv'
<1> DEFINE uri == Head(trackerPlan.imports)
           new == AddTracker(trackers, uri)
<1>1. /\ trackers \in Seq(Range(trackers)) /\ startAll \in Nat /\ trackerPlan \in PlanType
      /\ started \in BOOLEAN
  BY DEF TrackersInv
<1>2. /\ ~ started /\ trackerPlan.imports # <<>> /\ trackers' = new
      /\ trackerPlan' = [trackerPlan EXCEPT !.imports = Tail(trackerPlan.imports)]
      /\ UNCHANGED <<started, startAll>>
  BY DEF Import
<1>3. uri \in Uri /\ Tail(trackerPlan.imports) \in Seq(Uri)
  <2>1. PICK q \in Seq(Uri) : q = trackerPlan.imports
    BY <1>1 DEF PlanType
  <2> QED
    BY <1>2, <2>1
<1>4. trackerPlan' \in PlanType
  <2> DEFINE q == Tail(trackerPlan.imports)
  <2>1. q \in Seq(Uri) /\ trackerPlan' = [trackerPlan EXCEPT !.imports = q]
    BY <1>2, <1>3
  <2> HIDE DEF q
  <2> QED
    BY <1>1, <2>1 DEF PlanType
<1>5. PICK n \in Nat : DOMAIN trackers = 1 .. n /\ Len(trackers) = n
  BY <1>1
<1> HIDE DEF uri, new
<1>6. ASSUME NEW u, TrackerShape(u), u.timer # "set", u.comm.kind # "udp"
      PROVE  Kept(u, trackerPlan'.refreshes, started', startAll')
  BY <1>2, <1>6 DEF Kept
<1>7. ASSUME NEW i \in 1 .. n PROVE Kept(trackers[i], trackerPlan'.refreshes, started', startAll')
  <2>1. Kept(trackers[i], trackerPlan.refreshes, started, startAll)
    BY <1>5, InvOf
  <2>2. trackerPlan'.refreshes = trackerPlan.refreshes
    BY <1>1, <1>2 DEF PlanType
  <2> QED
    BY <1>2, <2>1, <2>2
<1>8. CASE new = trackers
  <2>1. \A i \in DOMAIN trackers : Kept(trackers[i], trackerPlan'.refreshes, started', startAll')
    BY <1>5, <1>7
  <2> QED
    BY <1>1, <1>2, <1>4, <1>8, <2>1 DEF TrackersInv
<1>9. CASE new = Append(trackers, NewTracker(uri))
  <2> DEFINE t == NewTracker(uri)
  <2>1. TrackerShape(t) /\ t.timer # "set" /\ t.comm.kind # "udp"
    BY <1>3, NewTrackerShape DEF HasComm
  <2>2. Kept(t, trackerPlan'.refreshes, started', startAll')
    <3> HIDE DEF t
    <3> QED
      BY <1>6, <2>1
  <2> HIDE DEF t
  <2>3. new = Append(trackers, t)
    BY <1>9 DEF t
  <2>4. /\ DOMAIN new = 1 .. n + 1 /\ new[n + 1] = t /\ \A i \in 1 .. n : new[i] = trackers[i]
        /\ new \in Seq(Range(trackers) \cup {t})
    <3>1. trackers \in Seq(Range(trackers) \cup {t})
      BY <1>1
    <3> QED
      BY <1>5, <2>3, <3>1
  <2>5. new = [i \in 1 .. n + 1 |-> new[i]] /\ n + 1 \in Nat
    BY <2>4
  <2>6. \A i \in 1 .. n + 1 : new[i] \in Range(new)
    BY <2>4 DEF Range
  <2>7. new \in [1 .. n + 1 -> Range(new)]
    BY <2>5, <2>6
  <2>8. new \in Seq(Range(new))
    BY <2>5, <2>7, FunctionIsSeq
  <2>9. \A i \in DOMAIN new : Kept(new[i], trackerPlan'.refreshes, started', startAll')
    <3>1. \A i \in 1 .. n + 1 : i = n + 1 \/ i \in 1 .. n
      OBVIOUS
    <3> QED
      BY <1>7, <2>2, <2>4, <3>1
  <2> QED
    BY <1>1, <1>2, <1>4, <2>8, <2>9 DEF TrackersInv
<1>10. ASSUME NEW i \in 1 .. n, ~ HasComm(trackers[i]),
              new = [trackers EXCEPT ![i].protocol = "udp", ![i].httpFallback = TRUE]
       PROVE  TrackersInv'
  <2> DEFINE t == trackers[i]
             u == [t EXCEPT !.protocol = "udp", !.httpFallback = TRUE]
  <2>1. new = [trackers EXCEPT ![i] = u]
    BY <1>1, <1>5, <1>10
  <2>2. TrackerShape(t) /\ t.timer # "set"
    BY <1>2, <1>5, InvOf DEF Kept
  <2>3. ~ HasComm(t)
    BY <1>10
  <2> HIDE DEF t
  <2>4. TrackerShape(u) /\ u.timer # "set" /\ u.comm.kind # "udp"
    BY <2>2, <2>3, MergedShape DEF HasComm
  <2> HIDE DEF u
  <2>5. Kept(u, trackerPlan'.refreshes, started', startAll')
    BY <1>6, <2>4
  <2>6. new \in Seq(Range(new)) /\ DOMAIN new = 1 .. n /\ new[i] = u
        /\ \A j \in 1 .. n : j # i => new[j] = trackers[j]
    BY <1>1, <1>5, <2>1, UpdatedList
  <2>7. \A j \in DOMAIN new : Kept(new[j], trackerPlan'.refreshes, started', startAll')
    BY <1>7, <2>5, <2>6
  <2> QED
    BY <1>1, <1>2, <1>4, <2>6, <2>7 DEF TrackersInv
<1> QED
  BY <1>5, <1>8, <1>9, <1>10, AddTrackerIs DEF new

\* The trackers that an announce list makes.
FreshForm ==
    [protocol : Protocols, host : STRING, port : STRING, httpFallback : BOOLEAN,
     httpFallbackUsed : {FALSE}, timer : {"none"}, comm : {NoComm}, made : {0},
     tasks : {EmptyBag}, reached : {FALSE}]
Fresh == {t \in FreshForm : t.httpFallback => t.protocol = "udp"}

LEMMA FreshShape ==
    ASSUME NEW t \in Fresh
    PROVE  TrackerShape(t) /\ ~ HasComm(t) /\ t.timer = "none"
BY NoTasks, NoCommShape DEF Fresh, FreshForm, TrackerShape, TrackerFields, HasComm

LEMMA AddTrackerFresh ==
    ASSUME NEW list \in Seq(Fresh), NEW uri \in Uri
    PROVE  AddTracker(list, uri) \in Seq(Fresh)
<1>1. PICK n \in Nat : DOMAIN list = 1 .. n /\ Len(list) = n
  OBVIOUS
<1>2. NewTracker(uri) \in Fresh
  BY DEF NewTracker, Uri, Fresh, FreshForm
<1>3. CASE AddTracker(list, uri) = list
  BY <1>3
<1>4. CASE AddTracker(list, uri) = Append(list, NewTracker(uri))
  BY <1>2, <1>4, AppendFacts
<1>5. ASSUME NEW i \in 1 .. n,
             AddTracker(list, uri) = [list EXCEPT ![i].protocol = "udp", ![i].httpFallback = TRUE]
      PROVE  AddTracker(list, uri) \in Seq(Fresh)
  <2> DEFINE t == list[i]
             u == [t EXCEPT !.protocol = "udp", !.httpFallback = TRUE]
  <2>1. AddTracker(list, uri) = [list EXCEPT ![i] = u]
    BY <1>1, <1>5
  <2>2. t \in Fresh
    BY <1>1
  <2> HIDE DEF t
  <2>3. u \in Fresh
    BY <2>2 DEF Fresh, FreshForm, Protocols
  <2> HIDE DEF u
  <2> QED
    BY <1>1, <2>1, <2>3
<1> QED
  BY <1>1, <1>3, <1>4, <1>5, AddTrackerIs

LEMMA AddTrackersFresh ==
    ASSUME NEW uris \in Seq(Uri)
    PROVE  AddTrackers(<<>>, uris) \in Seq(Fresh)
<1> DEFINE b == <<>>
           n == Len(uris)
           body(f) == [s \in SUBSET (DOMAIN uris) |->
                          IF s = {} THEN b
                          ELSE LET x == Max(s) IN AddTracker(f[s \ {x}], uris[x])]
           it == CHOOSE f : f = body(f)
           R == [x \in Seq(Fresh) \X (1 .. n) |-> AddTracker(x[1], uris[x[2]])]
<1>1. n \in Nat /\ DOMAIN uris = 1 .. n /\ \A i \in 1 .. n : uris[i] \in Uri
  OBVIOUS
<1>2. AddTrackers(<<>>, uris) = it[DOMAIN uris]
  BY DEF AddTrackers, FoldLeft, MapThenFoldSet
<1>3. b \in Seq(Fresh)
  OBVIOUS
<1>4. R \in [Seq(Fresh) \X (1 .. n) -> Seq(Fresh)]
  BY <1>1, AddTrackerFresh
<1>5. it = body(it)
  <2>1. PICK f \in [SUBSET (1 .. n) -> Seq(Fresh)] : FoldOf(f, b, R, n)
    <3> HIDE DEF R, b, n
    <3> QED
      BY <1>1, <1>3, <1>4, FoldExists
  <2>2. ASSUME NEW s \in SUBSET (1 .. n)
        PROVE  f[s] = IF s = {} THEN b ELSE AddTracker(f[s \ {Max(s)}], uris[Max(s)])
    <3>1. CASE s = {}
      BY <2>1, <3>1 DEF FoldOf
    <3>2. CASE s # {}
      <4>1. Max(s) \in 1 .. n /\ f[s \ {Max(s)}] \in Seq(Fresh)
        <5>1. Max(s) \in s
          BY <1>1, <3>2, LastPosition
        <5> QED
          BY <2>1, <5>1
      <4>2. f[s] = R[<<f[s \ {Max(s)}], Max(s)>>]
        BY <2>1, <3>2 DEF FoldOf
      <4> QED
        BY <3>2, <4>1, <4>2
    <3> QED
      BY <3>1, <3>2
  <2>3. f = body(f)
    BY <1>1, <2>1, <2>2
  <2> HIDE DEF body
  <2> QED
    BY <2>3
<1>6. ASSUME NEW s \in SUBSET (1 .. n), s # {}, it[s \ {Max(s)}] \in Seq(Fresh)
      PROVE  it[s] \in Seq(Fresh)
  <2>1. it[s] = body(it)[s]
    <3> HIDE DEF it, body
    <3> QED
      BY <1>5
  <2> HIDE DEF it, b
  <2>2. it[s] = AddTracker(it[s \ {Max(s)}], uris[Max(s)])
    BY <1>1, <1>6, <2>1
  <2>3. Max(s) \in 1 .. n
    BY <1>1, <1>6, LastPosition
  <2> QED
    BY <1>1, <1>6, <2>2, <2>3, AddTrackerFresh
<1>7. it[{}] = b
  <2>1. it[{}] = body(it)[{}]
    <3> HIDE DEF it, body
    <3> QED
      BY <1>5
  <2> HIDE DEF it, b
  <2> QED
    BY <2>1
<1> DEFINE T == [s \in SUBSET (1 .. n) |-> Seq(Fresh)]
<1> HIDE DEF b, n, it
<1>8. \A s \in SUBSET (1 .. n) : T[s] = Seq(Fresh) /\ s \ {Max(s)} \in SUBSET (1 .. n)
  OBVIOUS
<1>9. {} \in SUBSET (1 .. n) /\ 1 .. n \in SUBSET (1 .. n)
  OBVIOUS
<1> HIDE DEF T
<1>10. it[{}] \in T[{}]
  BY <1>3, <1>7, <1>8, <1>9
<1>11. \A s \in SUBSET (1 .. n) : s # {} /\ it[s \ {Max(s)}] \in T[s \ {Max(s)}] => it[s] \in T[s]
  <2> SUFFICES ASSUME NEW s \in SUBSET (1 .. n), s # {}, it[s \ {Max(s)}] \in T[s \ {Max(s)}]
               PROVE  it[s] \in T[s]
    OBVIOUS
  <2>1. T[s] = Seq(Fresh) /\ it[s \ {Max(s)}] \in Seq(Fresh)
    <3>1. T[s] = Seq(Fresh) /\ T[s \ {Max(s)}] = Seq(Fresh)
      BY <1>8, Zenon
    <3> QED
      BY <3>1, Zenon
  <2>2. it[s] \in Seq(Fresh)
    BY <1>6, <2>1, Zenon
  <2> QED
    BY <2>1, <2>2, Zenon
<1>12. it[1 .. n] \in T[1 .. n]
  BY <1>1, <1>9, <1>10, <1>11, FoldStaysAt
<1> QED
  BY <1>1, <1>2, <1>8, <1>9, <1>12

LEMMA InitHolds ==
    ASSUME TrackersInit
    PROVE  TrackersInv
<1>1. trackerPlan \in PlanType /\ started = FALSE /\ startAll = 0
  BY PlansAssumption DEF TrackersInit, PlanType
<1>2. trackerPlan.uris \in Seq(Uri)
  BY <1>1 DEF PlanType
<1>3. trackers \in Seq(Fresh)
  BY <1>2, AddTrackersFresh DEF TrackersInit
<1>4. trackers \in Seq(Range(trackers))
  <2>1. PICK n \in Nat : DOMAIN trackers = 1 .. n /\ trackers \in [1 .. n -> Fresh]
    BY <1>3
  <2>2. trackers \in [1 .. n -> Range(trackers)]
    BY <2>1 DEF Range
  <2> QED
    BY <2>1, <2>2, FunctionIsSeq
<1>5. ASSUME NEW i \in DOMAIN trackers
      PROVE  Kept(trackers[i], trackerPlan.refreshes, started, startAll)
  <2> DEFINE t == trackers[i]
  <2>1. t \in Fresh
    BY <1>3
  <2> HIDE DEF t
  <2>2. TrackerShape(t) /\ ~ HasComm(t) /\ t.timer = "none"
    BY <2>1, FreshShape
  <2>3. Kept(t, trackerPlan.refreshes, started, startAll)
    BY <1>1, <2>2 DEF Kept, HasComm
  <2> QED
    BY <2>3 DEF t
<1> QED
  BY <1>1, <1>4, <1>5 DEF TrackersInv

LEMMA StepKeeps ==
    ASSUME TrackersInv, [TrackersNext]_trackerVars
    PROVE  TrackersInv'
<1>1. CASE UNCHANGED trackerVars
  <2>1. trackers' = trackers /\ started' = started /\ startAll' = startAll /\ trackerPlan' = trackerPlan
    BY <1>1 DEF trackerVars
  <2> QED
    BY <2>1 DEF TrackersInv
<1>2. CASE Start \/ StartAll \/ Stop \/ Import
  BY <1>2, TrackersStartKeeps, StartAllKeeps, TrackersStopKeeps, ImportKeeps
<1>3. ASSUME NEW i \in DOMAIN trackers, Answers(i) \/ Program(i) \/ Disturbance(i)
      PROVE  TrackersInv'
  <2>1. CASE Answers(i)
    BY <2>1, UdpAnswersKeep, HttpAnswerKeeps, StrayAnswerKeeps DEF Answers
  <2>2. CASE Program(i)
    BY <2>2, TaskKeeps, PostedKeeps, TimerFiresKeeps, TimeoutKeeps, StreamEndsKeep DEF Program
  <2>3. CASE Disturbance(i)
    BY <2>3, RefreshKeeps, PostedFailsKeeps, UdpAnswersKeep, StreamFailsKeep, StreamEndsKeep
       DEF Disturbance
  <2> QED
    BY <1>3, <2>1, <2>2, <2>3
<1> QED
  BY <1>1, <1>2, <1>3 DEF TrackersNext

LEMMA TrackersInvHolds == TrackersSpec => []TrackersInv
<1>1. TrackersInit => TrackersInv
  BY InitHolds
<1>2. TrackersInv /\ [TrackersNext]_trackerVars => TrackersInv'
  BY StepKeeps
<1> QED
  BY <1>1, <1>2, PTL DEF TrackersSpec

\* The shape of the trackers holds for every list, plan and bound.
THEOREM TrackerTypesHold == TrackersSpec => []TrackersTypeOK
<1>1. TrackersInv => TrackersTypeOK
  <2> SUFFICES ASSUME TrackersInv, NEW i \in DOMAIN trackers
               PROVE  /\ trackers[i].protocol \in Protocols
                      /\ trackers[i].timer \in {"none", "idle", "set"}
                      /\ HasComm(trackers[i]) <=> trackers[i].comm.no # 0
                      /\ HasComm(trackers[i]) <=> trackers[i].timer # "none"
                      /\ trackers[i].comm.state \in
                            {"Clear", "Initialized", "Offline", "Alive", "Connecting",
                             "Connected", "Announcing", "Announced"}
                      /\ trackers[i].comm.socket \in {"closed", "reading", "deaf"}
                      /\ trackers[i].comm.stream \in {"none", "live", "dead"}
                      /\ Len(trackers[i].comm.pending) <= 2
                      /\ trackers[i].httpFallback /\ trackers[i].protocol # "udp" =>
                            trackers[i].httpFallbackUsed
    BY DEF TrackersTypeOK, TrackersInv, Range
  <2>1. TrackerShape(trackers[i]) /\ Len(trackers[i].comm.pending) <= 2
    BY FewPending
  <2> QED
    BY <2>1 DEF TrackerShape, CommShape, HasComm
<1> QED
  BY <1>1, TrackersInvHolds, PTL

\* No timer is armed while the torrent is stopped: not by what was posted before the
\* stop, which may still announce once, nor by what requests and streams answer after
\* it, in whatever order the calls run.
THEOREM StoppedTrackersSetNoTimer == TrackersSpec => []StoppedSetsNoTimer
<1>1. TrackersInv => StoppedSetsNoTimer
  BY DEF TrackersInv, Kept, StoppedSetsNoTimer, Range
<1> QED
  BY <1>1, TrackersInvHolds, PTL

\* Nothing leaves a tracker of a started torrent without a next step: no answer, lost
\* packet, failure, timeout, refresh or fallback, of any list of trackers.
THEOREM TrackersStayAwake == TrackersSpec => []TrackerAwake
<1>1. TrackersInv /\ TrackersTypeOK => TrackerAwake
  <2> SUFFICES ASSUME TrackersInv, started, startAll = 0, NEW i \in DOMAIN trackers
               PROVE  LET t == trackers[i]
                      IN \/ t.protocol = "other" \/ t.tasks # EmptyBag \/ t.timer = "set"
                         \/ t.comm.stream = "live" \/ Asleep(t)
                         \/ \E entry \in Range(t.comm.pending) : entry.armed
    BY DEF TrackerAwake, Range
  <2>1. Awake(trackers[i])
    BY DEF TrackersInv, Kept
  <2> QED
    BY <2>1, NoTasks DEF Awake
<1> QED
  BY <1>1, TrackersInvHolds, TrackerTypesHold, PTL

================================================================================
