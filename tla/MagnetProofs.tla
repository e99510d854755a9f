----------------------------- MODULE MagnetProofs -----------------------------
(***************************************************************************)
(* For any metadata, any peers and any starts and stops: a download of      *)
(* metadata that ended complete has given the torrent its files.            *)
(*                                                                          *)
(* Requests are folded over lists of peers.                                 *)
(***************************************************************************)
EXTENDS Magnet, ListTheorems, TLAPS

-------------------------------------------------------------------------------
(* The invariant. *)

Record(remaining) ==
    [pieces : {0, MetadataPieces}, remaining : remaining, next : Nat,
     buffer : {"none", "sized", "taken"}]
MetadataType == Record(SUBSET Nat)
DownloadType ==
    [exists : BOOLEAN, active : BOOLEAN, finished : BOOLEAN, metadata : MetadataType]
Queues == [MetadataPeers -> Seq(Int)]

\* What is asked for and what has come.
Asking ==
    /\ utm \in DownloadType
    /\ comms \in Seq(MetadataPeers)
    /\ asked \in Queues
    /\ handling \in [MetadataPeers -> Int]
    /\ DOMAIN stage = Threads

\* A download that finished keeps its pieces.
FinishedIsComplete == utm.finished => Complete(utm.metadata)

KeptInv == Asking /\ FinishedIsComplete /\ MetadataKept

-------------------------------------------------------------------------------
(* Requests. *)

LEMMA MissingPieceType ==
    ASSUME NEW m \in MetadataType
    PROVE  MissingPiece(m).index \in Int /\ MissingPiece(m).next \in Nat
<1> DEFINE from == IF \A i \in m.remaining : m.next > i THEN 0 ELSE m.next
           after == {i \in m.remaining : i >= from}
<1>1. m.remaining \in SUBSET Nat /\ m.next \in Nat
  BY DEF MetadataType, Record
<1>2. from \in Nat
  BY <1>1
<1>3. after # {} => Min(after) \in Nat
  <2>1. after \in SUBSET Nat
    BY <1>1
  <2> HIDE DEF after
  <2> QED
    BY <2>1, MinExists
<1>4. MissingPiece(m) =
         IF m.remaining = {} THEN [index |-> NoPiece, next |-> m.next]
         ELSE [index |-> IF after = {} THEN NoPiece ELSE Min(after), next |-> from + 1]
  BY DEF MissingPiece
<1> HIDE DEF after, from
<1> QED
  BY <1>1, <1>2, <1>3, <1>4 DEF NoPiece

\* The states a fold over requests for m passes through.
Reach(m) ==
    [metadata : [pieces : {m.pieces}, remaining : {m.remaining}, next : Nat,
                 buffer : {m.buffer}],
     asked : Queues]

LEMMA RequestPieceKeeps ==
    ASSUME NEW m \in MetadataType, NEW state \in Reach(m), NEW p
    PROVE  RequestPiece(state, p) \in Reach(m)
<1> DEFINE old == state.metadata
           search == MissingPiece(old)
           new == [old EXCEPT !.next = search.next]
           queues == [state.asked EXCEPT ![p] = Append(@, search.index)]
<1>1. /\ old \in MetadataType /\ state.asked \in Queues
      /\ old.pieces = m.pieces /\ old.remaining = m.remaining /\ old.buffer = m.buffer
  BY DEF Reach, MetadataType, Record
<1>2. search.index \in Int /\ search.next \in Nat
  BY <1>1, MissingPieceType
<1> HIDE DEF search
<1>3. new \in [pieces : {m.pieces}, remaining : {m.remaining}, next : Nat,
               buffer : {m.buffer}]
  BY <1>1, <1>2 DEF MetadataType, Record
<1>4. queues \in Queues
  <2>1. ASSUME p \in MetadataPeers PROVE Append(state.asked[p], search.index) \in Seq(Int)
    BY <1>1, <1>2, <2>1 DEF Queues
  <2> QED
    BY <1>1, <2>1 DEF Queues
<1>5. RequestPiece(state, p) =
         IF ~ utm.active \/ Complete(old) \/ Len(state.asked[p]) = MaxAsked
         THEN state
         ELSE [metadata |-> new,
               asked |-> IF link[p] = "none" \/ search.index = NoPiece THEN state.asked
                         ELSE queues]
  BY DEF RequestPiece, search
<1> HIDE DEF new, queues, old
<1>6. [metadata |-> new, asked |-> IF link[p] = "none" \/ search.index = NoPiece
                                    THEN state.asked ELSE queues] \in Reach(m)
  BY <1>1, <1>3, <1>4 DEF Reach
<1> QED
  BY <1>5, <1>6

LEMMA RequestsKeep ==
    ASSUME utm \in DownloadType, NEW m \in MetadataType, NEW from \in Seq(MetadataPeers),
           asked \in Queues, RequestPieces(m, asked, from)
    PROVE  /\ asked' \in Queues
           /\ utm' \in DownloadType
           /\ utm'.exists = utm.exists /\ utm'.active = utm.active
           /\ utm'.finished = utm.finished
           /\ utm'.metadata.pieces = m.pieces
           /\ utm'.metadata.remaining = m.remaining
           /\ utm'.metadata.buffer = m.buffer
<1> DEFINE b == [metadata |-> m, asked |-> asked]
           n == Len(from)
           body(f) == [s \in SUBSET (DOMAIN from) |->
                          IF s = {} THEN b
                          ELSE LET x == Max(s) IN RequestPiece(f[s \ {x}], from[x])]
           it == CHOOSE f : f = body(f)
           after == FoldLeft(RequestPiece, b, from)
           R == [x \in Reach(m) \X (1 .. n) |-> RequestPiece(x[1], from[x[2]])]
<1>1. n \in Nat /\ DOMAIN from = 1 .. n
  OBVIOUS
<1>2. after = it[DOMAIN from]
  BY DEF FoldLeft, MapThenFoldSet
<1>3. b \in Reach(m)
  BY DEF Reach, MetadataType, Record
<1>4. R \in [Reach(m) \X (1 .. n) -> Reach(m)]
  BY RequestPieceKeeps
<1>5. it = body(it)
  <2>1. PICK f \in [SUBSET (1 .. n) -> Reach(m)] : FoldOf(f, b, R, n)
    <3> HIDE DEF R, b, n
    <3> QED
      BY <1>1, <1>3, <1>4, FoldExists
  <2>2. ASSUME NEW s \in SUBSET (1 .. n)
        PROVE  f[s] = IF s = {} THEN b ELSE RequestPiece(f[s \ {Max(s)}], from[Max(s)])
    <3>1. CASE s = {}
      BY <2>1, <3>1 DEF FoldOf
    <3>2. CASE s # {}
      <4>1. Max(s) \in 1 .. n /\ f[s \ {Max(s)}] \in Reach(m)
        <5>1. Max(s) \in s
          BY <1>1, <3>2, LastPosition
        <5> QED
          BY <2>1, <5>1
      <4>2. f[s] = R[<<f[s \ {Max(s)}], Max(s)>>]
        BY <2>1, <3>2 DEF FoldOf
      <4> QED
        BY <3>2, <4>1, <4>2
    <3> QED
      BY <3>1, <3>2
  <2>3. f = body(f)
    BY <1>1, <2>1, <2>2
  <2> HIDE DEF body
  <2> QED
    BY <2>3
<1>6. ASSUME NEW s \in SUBSET (1 .. n), s # {}, it[s \ {Max(s)}] \in Reach(m)
      PROVE  it[s] \in Reach(m)
  <2>1. it[s] = body(it)[s]
    <3> HIDE DEF it, body
    <3> QED
      BY <1>5
  <2> HIDE DEF it, b
  <2>2. it[s] = RequestPiece(it[s \ {Max(s)}], from[Max(s)])
    BY <1>1, <1>6, <2>1
  <2> QED
    BY <1>6, <2>2, RequestPieceKeeps
<1>7. it[{}] = b
  <2>1. it[{}] = body(it)[{}]
    <3> HIDE DEF it, body
    <3> QED
      BY <1>5
  <2> HIDE DEF it, b
  <2> QED
    BY <2>1
<1>8. after \in Reach(m)
  <2> DEFINE T == [s \in SUBSET (1 .. n) |-> Reach(m)]
  <2> HIDE DEF b, n, it, after
  <2>1. \A s \in SUBSET (1 .. n) : T[s] = Reach(m) /\ s \ {Max(s)} \in SUBSET (1 .. n)
    OBVIOUS
  <2>2. {} \in SUBSET (1 .. n) /\ 1 .. n \in SUBSET (1 .. n)
    OBVIOUS
  <2> HIDE DEF T
  <2>3. /\ it[{}] \in T[{}]
        /\ \A s \in SUBSET (1 .. n) :
              s # {} /\ it[s \ {Max(s)}] \in T[s \ {Max(s)}] => it[s] \in T[s]
    <3>1. it[{}] \in T[{}]
      BY <1>3, <1>7, <2>1, <2>2
    <3>2. ASSUME NEW s \in SUBSET (1 .. n), s # {}, it[s \ {Max(s)}] \in T[s \ {Max(s)}]
          PROVE  it[s] \in T[s]
      <4>1. T[s] = Reach(m) /\ T[s \ {Max(s)}] = Reach(m)
        BY <2>1
      <4> QED
        BY <1>6, <3>2, <4>1
    <3> QED
      BY <3>1, <3>2
  <2>4. it[1 .. n] \in T[1 .. n]
    BY <1>1, <2>2, <2>3, FoldStaysAt
  <2> QED
    BY <1>1, <1>2, <2>1, <2>2, <2>4
<1>9. utm' = [utm EXCEPT !.metadata = after.metadata] /\ asked' = after.asked
  BY DEF RequestPieces
<1>10. /\ after.asked \in Queues /\ after.metadata \in MetadataType
       /\ after.metadata.pieces = m.pieces /\ after.metadata.remaining = m.remaining
       /\ after.metadata.buffer = m.buffer
  <2> HIDE DEF after
  <2> QED
    BY <1>8 DEF Reach, MetadataType, Record
<1> HIDE DEF after
<1> QED
  BY <1>9, <1>10 DEF DownloadType

LEMMA RemoveFirstType ==
    ASSUME NEW S, NEW list \in Seq(S), NEW e
    PROVE  RemoveFirst(list, e) \in Seq(S)
<1> DEFINE I == {i \in 1 .. Len(list) : list[i] = e}
<1>1. CASE I = {}
  BY <1>1 DEF RemoveFirst
<1>2. CASE I # {}
  <2>1. Min(I) \in 1 .. Len(list)
    <3>1. I \in SUBSET Nat
      OBVIOUS
    <3>2. Min(I) \in I
      <4> HIDE DEF I
      <4> QED
        BY <1>2, <3>1, MinExists
    <3> QED
      BY <3>2
  <2>2. RemoveFirst(list, e) = RemoveAt(list, Min(I))
    BY <1>2 DEF RemoveFirst, SelectInSeq
  <2> HIDE DEF I
  <2>3. PICK k \in 1 .. Len(list) : k = Min(I)
    BY <2>1
  <2>4. SubSeq(list, 1, k - 1) \in Seq(S) /\ SubSeq(list, k + 1, Len(list)) \in Seq(S)
    OBVIOUS
  <2> QED
    BY <2>2, <2>3, <2>4 DEF RemoveAt
<1> QED
  BY <1>1, <1>2

LEMMA AddMetadataType ==
    ASSUME NEW m \in MetadataType, NEW piece
    PROVE  /\ AddMetadata(m, piece) \in MetadataType
           /\ AddMetadata(m, piece).pieces = m.pieces
           /\ AddMetadata(m, piece).buffer = m.buffer
           /\ Complete(m) => Complete(AddMetadata(m, piece))
BY DEF AddMetadata, MetadataType, Record, Complete

LEMMA SizedType ==
    ASSUME NEW m \in MetadataType
    PROVE  Sized(m) \in MetadataType /\ (Complete(m) => Sized(m) = m)
<1>1. 0 .. MetadataPieces - 1 \in SUBSET Nat
  BY MetadataAssumption
<1> QED
  BY <1>1, MetadataAssumption DEF Sized, InitMetadata, MetadataType, Record, Complete

\* A torrent a link turns out to be has files.
LEMMA LinksHaveFiles ==
    ASSUME NEW list \in MagnetLists
    PROVE  FilesOf(list) # <<>>
<1>1. Len(list) \in Nat \ {0}
  BY MagnetAssumption
<1>2. CASE Len(list) = 1
  BY <1>2 DEF FilesOf, SingleFile
<1>3. CASE Len(list) # 1
  <2>1. 1 \in DOMAIN MultiFiles(list)
    BY <1>1 DEF MultiFiles
  <2> QED
    BY <1>3, <2>1 DEF FilesOf
<1> QED
  BY <1>2, <1>3

-------------------------------------------------------------------------------
(* Initial states and steps. *)

LEMMA KeptInit == Init => KeptInv
<1> SUFFICES ASSUME Init PROVE KeptInv
  OBVIOUS
<1>1. Asking
  <2>1. NoMetadata \in MetadataType
    BY DEF NoMetadata, MetadataType, Record
  <2>2. \E b \in BOOLEAN : utm = [exists |-> b, active |-> b, finished |-> FALSE,
                                metadata |-> NoMetadata]
    BY DEF Init
  <2>2a. utm \in DownloadType
    BY <2>1, <2>2 DEF DownloadType
  <2>3. comms \in Seq(MetadataPeers) /\ asked \in Queues
    BY DEF Init, NothingAsked, Queues
  <2>4. handling \in [MetadataPeers -> Int] /\ DOMAIN stage = Threads
    BY DEF Init, NothingHandled, NoPiece
  <2> QED
    BY <2>2a, <2>3, <2>4 DEF Asking
<1>2. ~ utm.finished
  BY DEF Init
<1> QED
  BY <1>1, <1>2 DEF KeptInv, FinishedIsComplete, MetadataKept

\* What a step must not do to a download whose metadata are with the torrent.
NoNews ==
    /\ utm'.finished = utm.finished
    /\ Complete(utm.metadata) => Complete(utm'.metadata)
    /\ utm'.active \/ utm'.active = utm.active
    /\ loaded' = loaded /\ files' = files
    /\ races \subseteq races'
    /\ \A t \in Threads : stage[t] = "end" => stage'[t] = "end"

LEMMA NoNewsKeeps ==
    ASSUME KeptInv, NoNews, Asking'
    PROVE  KeptInv'
<1>1. FinishedIsComplete'
  BY DEF KeptInv, NoNews, FinishedIsComplete
<1>2. MetadataKept'
  BY DEF KeptInv, NoNews, MetadataKept
<1> QED
  BY <1>1, <1>2 DEF KeptInv

LEMMA RequestsAreNoNews ==
    ASSUME KeptInv, NEW m \in MetadataType, NEW from \in Seq(MetadataPeers),
           RequestPieces(m, asked, from),
           Complete(utm.metadata) => Complete(m),
           comms' \in Seq(MetadataPeers), handling' \in [MetadataPeers -> Int],
           UNCHANGED <<loaded, files, races, stage>>
    PROVE  KeptInv'
<1>1. utm \in DownloadType /\ asked \in Queues /\ DOMAIN stage = Threads
  BY DEF KeptInv, Asking
<1>2. /\ asked' \in Queues /\ utm' \in DownloadType
      /\ utm'.active = utm.active /\ utm'.finished = utm.finished
      /\ utm'.metadata.pieces = m.pieces /\ utm'.metadata.remaining = m.remaining
  BY <1>1, RequestsKeep
<1>3. Asking'
  BY <1>1, <1>2 DEF Asking
<1>4. NoNews
  BY <1>2 DEF NoNews, Complete
<1> QED
  BY <1>3, <1>4, NoNewsKeeps

LEMMA PeerKeeps ==
    ASSUME KeptInv, NEW p \in MetadataPeers,
           \/ Connect(p) \/ ExtendedHandshakeFinished(p) \/ ConnectionClosed(p)
           \/ ReceiveData(p) \/ ReceiveReject(p) \/ HandleData(p)
    PROVE  KeptInv'
<1>0. /\ utm \in DownloadType /\ comms \in Seq(MetadataPeers) /\ asked \in Queues
      /\ handling \in [MetadataPeers -> Int] /\ DOMAIN stage = Threads
      /\ utm.metadata \in MetadataType
  BY DEF KeptInv, Asking, DownloadType
<1>1. CASE Connect(p)
  <2>1. Asking' /\ NoNews
    BY <1>0, <1>1 DEF Connect, Asking, NoNews, filesVars, contentVars, threadVars
  <2> QED
    BY <2>1, NoNewsKeeps
<1>2. CASE ExtendedHandshakeFinished(p)
  <2>1. <<p>> \in Seq(MetadataPeers) /\ Append(comms, p) \in Seq(MetadataPeers)
    BY <1>0
  <2>2. /\ RequestPieces(Sized(utm.metadata), asked, <<p>>)
        /\ comms' = Append(comms, p)
        /\ UNCHANGED <<loaded, files, races, stage, handling>>
    BY <1>2 DEF ExtendedHandshakeFinished, filesVars, contentVars, threadVars
  <2>3. Sized(utm.metadata) \in MetadataType
        /\ (Complete(utm.metadata) => Complete(Sized(utm.metadata)))
    BY <1>0, SizedType
  <2> QED
    BY <1>0, <2>1, <2>2, <2>3, RequestsAreNoNews
<1>3. CASE ConnectionClosed(p) \/ ReceiveReject(p)
  <2>1. /\ asked' = [asked EXCEPT ![p] = <<>>] /\ comms' = RemoveFirst(comms, p)
        /\ UNCHANGED <<loaded, files, races, stage, handling, utm>>
    BY <1>3 DEF ConnectionClosed, ReceiveReject, Dropped, filesVars, contentVars, threadVars
  <2>2. asked' \in Queues /\ comms' \in Seq(MetadataPeers)
    BY <1>0, <2>1, RemoveFirstType DEF Queues
  <2>3. Asking' /\ NoNews
    BY <1>0, <2>1, <2>2 DEF Asking, NoNews
  <2> QED
    BY <2>3, NoNewsKeeps
<1>4. CASE ReceiveData(p)
  <2>1. /\ asked' = [asked EXCEPT ![p] = Tail(@)] /\ asked[p] # <<>>
        /\ handling' = [handling EXCEPT ![p] = IF utm.active THEN Head(asked[p]) ELSE NoPiece]
        /\ UNCHANGED <<loaded, files, races, stage, comms, utm>>
    BY <1>4 DEF ReceiveData, filesVars, contentVars, threadVars
  <2>2. asked[p] \in Seq(Int) /\ Tail(asked[p]) \in Seq(Int) /\ Head(asked[p]) \in Int
    BY <1>0, <2>1 DEF Queues
  <2>3. asked' \in Queues /\ handling' \in [MetadataPeers -> Int]
    BY <1>0, <2>1, <2>2 DEF Queues, NoPiece
  <2>4. Asking' /\ NoNews
    BY <1>0, <2>1, <2>3 DEF Asking, NoNews
  <2> QED
    BY <2>4, NoNewsKeeps
<1>5. CASE HandleData(p)
  <2> DEFINE added == AddMetadata(utm.metadata, handling[p])
  <2>1. added \in MetadataType /\ (Complete(utm.metadata) => Complete(added))
    BY <1>0, AddMetadataType
  <2>2. handling' = [handling EXCEPT ![p] = NoPiece]
        /\ UNCHANGED <<loaded, files, comms>>
    BY <1>5 DEF HandleData, filesVars, contentVars
  <2>3. handling' \in [MetadataPeers -> Int]
    BY <1>0, <2>2 DEF NoPiece
  <2> HIDE DEF added
  <2>4. CASE UNCHANGED <<utm, asked, stage, races>>
    <3>1. Asking' /\ NoNews
      BY <1>0, <2>2, <2>3, <2>4 DEF Asking, NoNews
    <3> QED
      BY <3>1, NoNewsKeeps
  <2>5. CASE /\ Complete(added)
             /\ utm' = [utm EXCEPT !.metadata = [added EXCEPT !.next = 0], !.finished = TRUE]
             /\ IF utm.finished THEN UNCHANGED stage ELSE At("pool", "posted")
             /\ races' = races \cup IF utm.active \/ utm.finished THEN {} ELSE {"late"}
             /\ UNCHANGED asked
    <3> DEFINE new == [added EXCEPT !.next = 0]
    <3>1. new \in MetadataType /\ Complete(new)
      BY <2>1, <2>5 DEF MetadataType, Record, Complete
    <3> HIDE DEF new
    <3>2. /\ utm' \in DownloadType /\ utm'.metadata = new /\ utm'.finished = TRUE
          /\ utm'.active = utm.active
      BY <1>0, <2>5, <3>1 DEF DownloadType, new
    <3>3. DOMAIN stage' = Threads
      BY <1>0, <2>5 DEF At
    <3>4. Asking'
      BY <1>0, <2>2, <2>3, <2>5, <3>2, <3>3 DEF Asking
    <3>5. FinishedIsComplete'
      BY <3>1, <3>2 DEF FinishedIsComplete
    <3>6. MetadataKept'
      <4>1. CASE utm.active
        BY <3>2, <4>1 DEF MetadataKept
      <4>2. CASE ~ utm.active /\ utm.finished
        BY <2>2, <2>5, <3>2, <4>2 DEF MetadataKept, KeptInv
      <4>3. CASE ~ utm.active /\ ~ utm.finished
        BY <2>5, <4>3 DEF MetadataKept
      <4> QED
        BY <4>1, <4>2, <4>3
    <3> QED
      BY <3>4, <3>5, <3>6 DEF KeptInv
  <2>6. CASE RequestPieces(added, asked, <<p>>) /\ UNCHANGED <<stage, races>>
    <3>1. <<p>> \in Seq(MetadataPeers) /\ comms' \in Seq(MetadataPeers)
      BY <1>0, <2>2
    <3> QED
      BY <1>0, <2>1, <2>2, <2>3, <2>6, <3>1, RequestsAreNoNews
  <2> QED
    BY <1>5, <2>4, <2>5, <2>6 DEF HandleData, added
<1> QED
  BY <1>1, <1>2, <1>3, <1>4, <1>5

LEMMA RetryKeeps ==
    ASSUME KeptInv, Ignore \/ Silence \/ RetryTimer
    PROVE  KeptInv'
<1>0. /\ utm \in DownloadType /\ comms \in Seq(MetadataPeers) /\ asked \in Queues
      /\ handling \in [MetadataPeers -> Int] /\ DOMAIN stage = Threads
      /\ utm.metadata \in MetadataType
  BY DEF KeptInv, Asking, DownloadType
<1>1. CASE RetryTimer
  <2>1. RequestPieces(utm.metadata, asked, comms)
        /\ UNCHANGED <<loaded, files, races, stage, handling, comms>>
    BY <1>1 DEF RetryTimer, filesVars, contentVars, threadVars
  <2> QED
    BY <1>0, <2>1, RequestsAreNoNews
<1>2. CASE Ignore
  <2>1. /\ asked' = [asked EXCEPT ![Steady] = Tail(@)] /\ asked[Steady] # <<>>
        /\ UNCHANGED <<loaded, files, races, stage, comms, utm, handling>>
    BY <1>2 DEF Ignore, filesVars, contentVars, threadVars
  <2>2. Tail(asked[Steady]) \in Seq(Int)
    BY <1>0, <2>1, MagnetAssumption DEF Queues
  <2>3. asked' \in Queues
    BY <1>0, <2>1, <2>2 DEF Queues
  <2>4. Asking' /\ NoNews
    BY <1>0, <2>1, <2>3 DEF Asking, NoNews
  <2> QED
    BY <2>4, NoNewsKeeps
<1>3. CASE Silence
  <2>1. UNCHANGED <<loaded, files, races, stage, comms, utm, asked, handling>>
    BY <1>3 DEF Silence, filesVars, contentVars, threadVars
  <2>2. Asking' /\ NoNews
    BY <1>0, <2>1 DEF Asking, NoNews
  <2> QED
    BY <2>2, NoNewsKeeps
<1> QED
  BY <1>1, <1>2, <1>3

LEMMA StopStepKeeps ==
    ASSUME KeptInv, NEW t \in Threads, StopStep(t)
    PROVE  KeptInv'
<1>0. /\ utm \in DownloadType /\ comms \in Seq(MetadataPeers) /\ asked \in Queues
      /\ handling \in [MetadataPeers -> Int] /\ DOMAIN stage = Threads
      /\ utm.metadata \in MetadataType
  BY DEF KeptInv, Asking, DownloadType
<1>1. CASE TestActive(t)
  <2>1. stage[t] \in {"posted", "stopping"} /\ stage' = [stage EXCEPT ![t] = stage'[t]]
        /\ UNCHANGED <<loaded, files, races, utm, comms, asked, handling>>
    BY <1>0, <1>1 DEF TestActive, At, filesVars, contentVars, metadataVars
  <2>2. Asking' /\ NoNews
    BY <1>0, <2>1 DEF Asking, NoNews
  <2> QED
    BY <2>2, NoNewsKeeps
<1>2. CASE ClearActive(t)
  <2>1. /\ utm' = [utm EXCEPT !.active = FALSE] /\ stage' = [stage EXCEPT ![t] = "end"]
        /\ UNCHANGED <<loaded, files, races, comms, asked, handling>>
    BY <1>2 DEF ClearActive, At, filesVars, contentVars
  <2>2. utm' \in DownloadType /\ utm'.finished = utm.finished /\ utm'.metadata = utm.metadata
    BY <1>0, <2>1 DEF DownloadType
  <2>3. Asking'
    BY <1>0, <2>1, <2>2 DEF Asking
  <2>4. FinishedIsComplete'
    BY <2>2 DEF KeptInv, FinishedIsComplete
  <2>5. MetadataKept'
    <3>1. stage'[t] = "end"
      BY <1>0, <2>1
    <3> QED
      BY <3>1 DEF MetadataKept
  <2> QED
    BY <2>3, <2>4, <2>5 DEF KeptInv
<1>3. CASE EndEvent(t)
  <2>1. /\ stage[t] = "end" /\ stage' = [stage EXCEPT ![t] = "peers"] /\ comms' = <<>>
        /\ UNCHANGED <<asked, handling>>
    BY <1>3 DEF EndEvent, At
  <2>2. CASE ~ Complete(utm.metadata)
    <3>1. UNCHANGED <<loaded, files, utm, races>>
      BY <1>3, <2>2 DEF EndEvent, contentVars
    <3>2. ~ utm.finished
      BY <2>2 DEF KeptInv, FinishedIsComplete
    <3>3. Asking'
      BY <1>0, <2>1, <3>1 DEF Asking
    <3> QED
      BY <3>1, <3>2, <3>3 DEF KeptInv, FinishedIsComplete, MetadataKept
  <2>3. CASE Complete(utm.metadata)
    <3>1. /\ loaded' = TRUE
          /\ files' \in IF utm.metadata.buffer = "taken" THEN {<<>>}
                        ELSE {FilesOf(list) : list \in MagnetLists}
          /\ utm' = [utm EXCEPT !.metadata.buffer = "taken"]
          /\ races' = races \cup IF utm.metadata.buffer = "taken" THEN {"twice"} ELSE {}
      BY <1>3, <2>3 DEF EndEvent, TakeMetadata
    <3>2. utm' \in DownloadType /\ Complete(utm'.metadata)
      BY <1>0, <2>3, <3>1 DEF DownloadType, MetadataType, Record, Complete
    <3>3. Asking'
      BY <1>0, <2>1, <3>2 DEF Asking
    <3>4. FinishedIsComplete'
      BY <3>2 DEF FinishedIsComplete
    <3>5. races' = {} => files' # <<>>
      BY <3>1, LinksHaveFiles
    <3>6. MetadataKept'
      BY <3>1, <3>5 DEF MetadataKept
    <3> QED
      BY <3>3, <3>4, <3>6 DEF KeptInv
  <2> QED
    BY <2>2, <2>3
<1>4. CASE StopPeers(t)
  <2>1. /\ stage[t] = "peers" /\ stage' = [stage EXCEPT ![t] = stage'[t]]
        /\ asked' = NothingAsked /\ comms' = <<>>
        /\ UNCHANGED <<loaded, files, races, utm, handling>>
    BY <1>0, <1>4 DEF StopPeers, At, DropPeers, filesVars, contentVars
  <2>2. asked' \in Queues
    BY <2>1 DEF NothingAsked, Queues
  <2>3. Asking' /\ NoNews
    BY <1>0, <2>1, <2>2 DEF Asking, NoNews
  <2> QED
    BY <2>3, NoNewsKeeps
<1> QED
  BY <1>1, <1>2, <1>3, <1>4 DEF StopStep

LEMMA TorrentKeeps ==
    ASSUME KeptInv, UseFiles \/ Start \/ StartPosted \/ Stop \/ StopTransfer \/ StopService
    PROVE  KeptInv'
<1>0. /\ utm \in DownloadType /\ comms \in Seq(MetadataPeers) /\ asked \in Queues
      /\ handling \in [MetadataPeers -> Int] /\ DOMAIN stage = Threads
  BY DEF KeptInv, Asking
<1>1. CASE UseFiles
  <2>1. UNCHANGED <<files, loaded, utm, comms, asked, handling, stage, races>>
    BY <1>1 DEF UseFiles, FilesNext, SelectFiles, SelectFile, Become, StoreBlock,
                PieceReceived, metadataVars, threadVars
  <2>2. Asking' /\ NoNews
    BY <1>0, <2>1 DEF Asking, NoNews
  <2> QED
    BY <2>2, NoNewsKeeps
<1>2. CASE Start \/ StartPosted
  <2>1. /\ utm' = utm \/ utm' = [utm EXCEPT !.active = TRUE]
        /\ UNCHANGED <<files, loaded, comms, asked, handling, stage, races>>
    BY <1>2 DEF Start, StartPosted, StartTorrent, StartFiles, contentVars
  <2>2. /\ utm' \in DownloadType /\ utm'.finished = utm.finished
        /\ utm'.metadata = utm.metadata /\ (utm'.active \/ utm'.active = utm.active)
    BY <1>0, <2>1 DEF DownloadType
  <2>3. Asking' /\ NoNews
    BY <1>0, <2>1, <2>2 DEF Asking, NoNews
  <2> QED
    BY <2>3, NoNewsKeeps
<1>3. CASE Stop \/ StopService \/ StopTransfer
  <2>1. /\ UNCHANGED <<files, loaded, utm, handling, races>>
        /\ UNCHANGED <<asked, comms>> \/ (asked' = NothingAsked /\ comms' = <<>>)
        /\ stage["user"] # "end" /\ stage' = [stage EXCEPT !["user"] = stage'["user"]]
    BY <1>0, <1>3 DEF Stop, StopService, StopTransfer, StateMutexFree, At, DropPeers,
                      filesVars, contentVars, metadataVars, Threads
  <2>2. NothingAsked \in Queues /\ <<>> \in Seq(MetadataPeers)
    BY DEF NothingAsked, Queues
  <2>3. asked' \in Queues /\ comms' \in Seq(MetadataPeers)
    BY <1>0, <2>1, <2>2
  <2>4. Asking' /\ NoNews
    BY <1>0, <2>1, <2>3 DEF Asking, NoNews
  <2> QED
    BY <2>4, NoNewsKeeps
<1> QED
  BY <1>1, <1>2, <1>3

LEMMA KeptStep == KeptInv /\ [Next]_vars => KeptInv'
<1> SUFFICES ASSUME KeptInv, [Next]_vars PROVE KeptInv'
  OBVIOUS
<1>1. CASE UNCHANGED vars
  <2>1. UNCHANGED <<files, loaded, utm, comms, asked, handling, stage, races>>
    BY <1>1 DEF vars, filesVars, contentVars, metadataVars, threadVars
  <2>2. Asking' /\ NoNews
    BY <2>1 DEF KeptInv, Asking, NoNews
  <2> QED
    BY <2>2, NoNewsKeeps
<1> QED
  BY <1>1, PeerKeeps, RetryKeeps, StopStepKeeps, TorrentKeeps DEF Next

\* Whoever stops it and however often it was begun, a download of metadata
\* that has every piece has given the torrent its files once nobody is between
\* its end and the event, but for the two races of the code (Torrent::
\* downloadMetadata, MetadataDownload::stop).
THEOREM MetadataReachesTorrent == Spec => []MetadataKept
<1>1. KeptInv => MetadataKept
  BY DEF KeptInv
<1> QED
  BY <1>1, KeptInit, KeptStep, PTL DEF Spec
===============================================================================
