-------------------------- MODULE TorrentCheckProofs --------------------------
(***************************************************************************)
(* For any number of workers, checks and calls: the mutex of a torrent is  *)
(* held by exactly the thread that is inside start or stop, the count of a *)
(* check's workers never passes their number however its increments get    *)
(* lost, only a started torrent transfers, and a user who only starts and  *)
(* stops the torrent never leaves a worker of a check behind.               *)
(***************************************************************************)
EXTENDS TorrentCheck, FiniteSetTheorems, TLAPS

Holding == {"activate", "started", "transfer",
            "stop.service", "stop.join", "stop.end"}
BeforeCount == {"none", "read", "load", "count"}
AfterCount == {"idle", "done", "finish", "refresh", "start", "stop",
               "stop.files"} \cup Holding

\* Types that the other parts rely on.
Shape ==
    /\ pc \in [Threads -> BeforeCount \cup AfterCount]
    /\ stateMutex \in Threads \cup {Nobody}
    /\ started \in BOOLEAN /\ transfer \in BOOLEAN
    /\ checkState \in Checks \cup {NoCheck}
    /\ rejected \subseteq Checks
    /\ progress \subseteq Shares
    /\ finished \in [Checks -> Nat]
    /\ loaded \in [Workers -> Nat]

\* The thread that is inside start or stop, and only that one, has the mutex.
MutexHeld == \A t \in Threads : stateMutex = t <=> pc[t] \in Holding

\* All workers of a check are posted at once.
PostedTogether ==
    \A c \in Checks, i \in Shares : pc[<<c, 1>>] = "none" => pc[<<c, i>>] = "none"

\* Workers of a check that have counted themselves.
Counted(c) == {i \in Shares : pc[<<c, i>>] \notin BeforeCount}

\* Lost increments only make the count smaller.
CountBounded ==
    \A c \in Checks :
        /\ finished[c] <= Cardinality(Counted(c))
        /\ \A i \in Shares : pc[<<c, i>>] = "count" =>
              loaded[<<c, i>>] <= Cardinality(Counted(c))

\* The transfer starts after `started' is set and stops before it is cleared.
TransferOrder ==
    /\ \A t \in Threads :
          /\ pc[t] \in {"started", "transfer"} => started
          /\ pc[t] \in {"stop.service", "stop.join", "stop.end"} => ~ transfer
    /\ transfer => started

MutexInv == Shape /\ MutexHeld /\ PostedTogether /\ TransferOrder
CheckInv == MutexInv /\ CountBounded

-------------------------------------------------------------------------------
\* Threads are told apart.
LEMMA ThreadFacts ==
    /\ User \in Threads /\ Internal \in Threads /\ Nobody \notin Threads
    /\ User \notin Workers /\ Internal \notin Workers /\ User # Internal
    /\ Workers \subseteq Threads
    /\ \A c \in Checks, i \in Shares : <<c, i>> \in Workers
    /\ \A c \in Checks : <<c, 1>> \in Workers
    /\ NoCheck \notin Checks
BY BoundsAssumption
   DEF Threads, User, Internal, Nobody, Workers, Checks, Shares,
                        NoCheck

\* Nobody holds the mutex at first.
LEMMA MutexInvInit == Init => MutexInv
<1> SUFFICES ASSUME Init PROVE MutexInv
  OBVIOUS
<1> USE ThreadFacts DEF Init
<1>1. \A t \in Threads : pc[t] = "idle" \/ pc[t] = "none"
  OBVIOUS
<1>2. \A w \in Workers : pc[w] = "none"
  OBVIOUS
<1>3. pc \in [Threads -> BeforeCount \cup AfterCount]
  BY DEF BeforeCount, AfterCount
<1>4. Shape
  BY <1>3 DEF Shape, NoCheck
<1>5. MutexHeld
  BY <1>1 DEF MutexHeld, Holding
<1>6. PostedTogether
  BY <1>2 DEF PostedTogether
<1>7. TransferOrder
  BY <1>1 DEF TransferOrder
<1> QED  BY <1>4, <1>5, <1>6, <1>7 DEF MutexInv

-------------------------------------------------------------------------------
(* A step in which thread t moves and the workers of a check may be posted.  *)

Others(t) ==
    \A u \in Threads \ {t} :
        pc'[u] = pc[u] \/ (pc[u] = "none" /\ pc'[u] = "read")

\* What t may do with the mutex ...
MutexMove(t) ==
    \/ stateMutex' = stateMutex /\ (pc[t] \in Holding <=> pc'[t] \in Holding)
    \/ stateMutex = Nobody /\ stateMutex' = t /\ pc'[t] \in Holding
    \/ pc[t] \in Holding /\ stateMutex' = Nobody /\ pc'[t] \notin Holding

\* ... and with the flags, which only the holder of the mutex sets.
OrderMove(t) ==
    /\ pc[t] \in Holding \/ (started' = started /\ (transfer' => transfer))
    /\ pc'[t] \in {"started", "transfer"} => started'
    /\ pc'[t] \in {"stop.service", "stop.join", "stop.end"} => ~ transfer'
    /\ transfer' => started'

\* Such a step keeps the invariant.
LEMMA MovePreserves ==
    ASSUME MutexInv, NEW t \in Threads, Shape', PostedTogether',
           Others(t), MutexMove(t), OrderMove(t)
    PROVE  MutexInv'
<1> USE ThreadFacts DEF MutexInv
<1>1. \A u \in Threads \ {t} : pc'[u] \in Holding <=> pc[u] \in Holding
  BY DEF Others, Holding
<1>2. \A u \in Threads : pc[u] \in Holding <=> stateMutex = u
  BY DEF MutexHeld
<1>3. MutexHeld'
  <2>1. CASE stateMutex' = stateMutex /\ (pc[t] \in Holding <=> pc'[t] \in Holding)
    BY <1>1, <1>2, <2>1 DEF MutexHeld
  <2>2. CASE stateMutex = Nobody /\ stateMutex' = t /\ pc'[t] \in Holding
    BY <1>1, <1>2, <2>2 DEF MutexHeld
  <2>3. CASE pc[t] \in Holding /\ stateMutex' = Nobody /\ pc'[t] \notin Holding
    BY <1>1, <1>2, <2>3 DEF MutexHeld
  <2> QED  BY <2>1, <2>2, <2>3 DEF MutexMove
<1>4. ASSUME NEW u \in Threads \ {t}
      PROVE  /\ pc'[u] \in {"started", "transfer"} => started'
             /\ pc'[u] \in {"stop.service", "stop.join", "stop.end"} => ~ transfer'
  <2>1. CASE pc[t] \in Holding
    BY <1>1, <1>2, <2>1 DEF Holding
  <2>2. CASE started' = started /\ (transfer' => transfer)
    BY <2>2 DEF Others, TransferOrder
  <2> QED  BY <2>1, <2>2 DEF OrderMove
<1>5. TransferOrder'
  BY <1>4 DEF TransferOrder, OrderMove
<1> QED  BY <1>3, <1>5

\* What t may do with the count of a check.
CountMove(t) ==
    \/ /\ finished' = finished /\ loaded' = loaded
       /\ pc[t] \notin BeforeCount => pc'[t] \notin BeforeCount
       /\ pc'[t] # "count"
    \/ /\ t \in Workers /\ pc'[t] = "count" /\ pc[t] = "load"
       /\ finished' = finished
       /\ loaded' = [loaded EXCEPT ![t] = finished[t[1]]]
    \/ /\ t \in Workers /\ pc[t] = "count" /\ pc'[t] \notin BeforeCount
       /\ loaded' = loaded
       /\ finished' = [finished EXCEPT ![t[1]] = loaded[t] + 1]

\* Each worker counts once, so no more than all of them have.
LEMMA CountedFinite ==
    \A c \in Checks : /\ IsFiniteSet(Counted(c)) /\ Cardinality(Counted(c)) \in Nat
                      /\ Cardinality(Counted(c)) <= WorkersCount
<1>1. IsFiniteSet(Shares) /\ Cardinality(Shares) = WorkersCount
  BY FS_Interval, BoundsAssumption DEF Shares
<1>2. \A c \in Checks : Counted(c) \subseteq Shares
  BY DEF Counted
<1> QED  BY <1>1, <1>2, FS_Subset, FS_CardinalityType

\* Every count stays below the number of workers that have counted.
LEMMA CountPreserves ==
    ASSUME MutexInv, MutexInv', CountBounded, NEW t \in Threads,
           Others(t), CountMove(t)
    PROVE  CountBounded'
<1> USE ThreadFacts
<1>1. ASSUME NEW c \in Checks PROVE Counted(c) \subseteq Counted(c)'
  <2>1. \A i \in Shares : pc[<<c, i>>] \notin BeforeCount
                             => pc'[<<c, i>>] \notin BeforeCount
    BY DEF Others, CountMove, BeforeCount
  <2> QED  BY <2>1 DEF Counted
<1>2. ASSUME NEW c \in Checks
      PROVE  /\ IsFiniteSet(Counted(c)) /\ IsFiniteSet(Counted(c)')
             /\ Cardinality(Counted(c)) \in Nat /\ Cardinality(Counted(c)') \in Nat
             /\ Cardinality(Counted(c)) <= Cardinality(Counted(c)')
  <2>1. Counted(c)' \subseteq Shares /\ IsFiniteSet(Shares)
    BY FS_Interval, BoundsAssumption DEF Counted, Shares
  <2>2. IsFiniteSet(Counted(c)')
    BY <2>1, FS_Subset
  <2> QED  BY <1>1, <2>2, FS_Subset, FS_CardinalityType
<1>3. /\ \A c \in Checks : finished[c] \in Nat /\ finished'[c] \in Nat
      /\ \A w \in Workers : loaded[w] \in Nat /\ loaded'[w] \in Nat
  BY DEF MutexInv, Shape
<1>4. \A u \in Threads \ {t} : pc'[u] = "count" => pc[u] = "count"
  BY DEF Others
<1>5. CASE /\ finished' = finished /\ loaded' = loaded
           /\ pc'[t] # "count"
  <2>1. \A c \in Checks, i \in Shares :
           pc'[<<c, i>>] = "count" => pc[<<c, i>>] = "count"
    BY <1>4, <1>5
  <2>2. \A c \in Checks, i \in Shares :
           loaded[<<c, i>>] \in Nat /\ finished[c] \in Nat
    BY <1>3
  <2> SUFFICES ASSUME NEW c \in Checks
               PROVE  /\ finished'[c] <= Cardinality(Counted(c)')
                      /\ \A i \in Shares : pc'[<<c, i>>] = "count" =>
                            loaded'[<<c, i>>] <= Cardinality(Counted(c)')
    BY DEF CountBounded
  <2>3. finished'[c] <= Cardinality(Counted(c)')
    BY <1>2, <1>3, <1>5 DEF CountBounded
  <2>4. ASSUME NEW i \in Shares, pc'[<<c, i>>] = "count"
        PROVE  loaded'[<<c, i>>] <= Cardinality(Counted(c)')
    BY <1>2, <1>5, <2>1, <2>2, <2>4 DEF CountBounded
  <2> QED  BY <2>3, <2>4
<1>6. CASE /\ t \in Workers /\ pc'[t] = "count" /\ finished' = finished
           /\ loaded' = [loaded EXCEPT ![t] = finished[t[1]]]
  <2> SUFFICES ASSUME NEW c \in Checks
               PROVE  /\ finished'[c] <= Cardinality(Counted(c)')
                      /\ \A i \in Shares : pc'[<<c, i>>] = "count" =>
                            loaded'[<<c, i>>] <= Cardinality(Counted(c)')
    BY DEF CountBounded
  <2>1. finished'[c] <= Cardinality(Counted(c)')
    BY <1>2, <1>3, <1>6 DEF CountBounded
  <2>2. ASSUME NEW i \in Shares, pc'[<<c, i>>] = "count"
        PROVE  loaded'[<<c, i>>] <= Cardinality(Counted(c)')
    <3>1. CASE <<c, i>> = t
      <4>1. loaded'[<<c, i>>] = finished[c]
        BY <1>6, <3>1 DEF MutexInv, Shape
      <4> QED  BY <1>6, <2>1, <4>1
    <3>2. CASE <<c, i>> # t
      <4>1. loaded'[<<c, i>>] = loaded[<<c, i>>]
        BY <1>6, <3>2 DEF MutexInv, Shape
      <4>2. pc[<<c, i>>] = "count" /\ loaded[<<c, i>>] \in Nat
        BY <1>3, <1>4, <2>2, <3>2
      <4> QED  BY <1>2, <4>1, <4>2 DEF CountBounded
    <3> QED  BY <3>1, <3>2
  <2> QED  BY <2>1, <2>2
<1>7. CASE /\ t \in Workers /\ pc[t] = "count" /\ pc'[t] \notin BeforeCount
           /\ loaded' = loaded
           /\ finished' = [finished EXCEPT ![t[1]] = loaded[t] + 1]
  <2>1. PICK d \in Checks, j \in Shares : t = <<d, j>>
    BY <1>7 DEF Workers
  <2> SUFFICES ASSUME NEW c \in Checks
               PROVE  /\ finished'[c] <= Cardinality(Counted(c)')
                      /\ \A i \in Shares : pc'[<<c, i>>] = "count" =>
                            loaded'[<<c, i>>] <= Cardinality(Counted(c)')
    BY DEF CountBounded
  <2>2. ASSUME NEW i \in Shares, pc'[<<c, i>>] = "count"
        PROVE  loaded'[<<c, i>>] <= Cardinality(Counted(c)')
    <3>1. pc[<<c, i>>] = "count" /\ loaded[<<c, i>>] \in Nat
      BY <1>3, <1>4, <1>7, <2>2
    <3> QED  BY <1>2, <1>7, <3>1 DEF CountBounded
  <2>3. CASE c = d
    <3>1. finished'[c] = loaded[t] + 1 /\ loaded[t] <= Cardinality(Counted(c))
            /\ loaded[t] \in Nat
      BY <1>3, <1>7, <2>1, <2>3 DEF CountBounded, MutexInv, Shape
    <3>2. j \notin Counted(c) /\ Counted(c) \cup {j} \subseteq Counted(c)'
      BY <1>1, <1>7, <2>1, <2>3 DEF Counted, BeforeCount
    <3>3. /\ Cardinality(Counted(c) \cup {j}) = Cardinality(Counted(c)) + 1
          /\ Cardinality(Counted(c) \cup {j}) <= Cardinality(Counted(c)')
      BY <1>2, <3>2, FS_AddElement, FS_Subset
    <3> QED  BY <1>2, <2>2, <3>1, <3>3
  <2>4. CASE c # d
    <3>1. finished'[c] = finished[c]
      BY <1>7, <2>1, <2>4 DEF MutexInv, Shape
    <3> QED  BY <1>2, <1>3, <2>2, <3>1 DEF CountBounded
  <2> QED  BY <2>3, <2>4
<1> QED  BY <1>5, <1>6, <1>7 DEF CountMove

\* Thread t alone moves, to x.
LEMMA MoveAlone ==
    ASSUME MutexInv, NEW t \in Threads, NEW x \in BeforeCount \cup AfterCount,
           pc' = [pc EXCEPT ![t] = x],
           t \in Workers => pc[t] # "none" /\ x # "none"
    PROVE  /\ pc' \in [Threads -> BeforeCount \cup AfterCount]
           /\ Others(t) /\ pc'[t] = x /\ PostedTogether'
<1> USE ThreadFacts DEF MutexInv
<1>1. pc' \in [Threads -> BeforeCount \cup AfterCount] /\ pc'[t] = x
  BY DEF Shape
<1>2. \A u \in Threads \ {t} : pc'[u] = pc[u]
  BY DEF Shape
<1>3. ASSUME NEW d \in Checks, NEW i \in Shares, pc'[<<d, 1>>] = "none"
      PROVE  pc'[<<d, i>>] = "none"
  <2>1. <<d, 1>> # t
    BY <1>1, <1>3
  <2>2. pc[<<d, i>>] = "none"
    BY <1>2, <1>3, <2>1 DEF PostedTogether
  <2> QED  BY <1>2, <2>2
<1>4. PostedTogether'
  BY <1>3 DEF PostedTogether
<1>5. Others(t)
  BY <1>2 DEF Others
<1> QED  BY <1>1, <1>4, <1>5

\* A check begins: the thread goes on at `next', the workers begin to read.
LEMMA CheckFilesStep ==
    ASSUME MutexInv, NEW t \in Threads, NEW next \in AfterCount,
           pc[t] # "none", CheckFiles(t, next)
    PROVE  /\ pc' \in [Threads -> BeforeCount \cup AfterCount]
           /\ Others(t)
           /\ pc'[t] = next
           /\ PostedTogether'
           /\ checkState' \in Checks
<1> USE ThreadFacts
<1>1. PICK c \in Checks : checkState' = c /\ pc[<<c, 1>>] = "none"
  BY DEF CheckFiles
<1>2. \A u \in Workers : u[1] = c => pc[u] = "none"
  BY <1>1 DEF MutexInv, PostedTogether, Workers
<1>3. pc' = [u \in Threads |-> IF u \in Workers /\ u[1] = c THEN "read"
                               ELSE IF u = t THEN next ELSE pc[u]]
  BY <1>1 DEF CheckFiles
<1>4. pc' \in [Threads -> BeforeCount \cup AfterCount]
  BY <1>3 DEF BeforeCount, MutexInv, Shape
<1>5. \A u \in Threads \ {t} :
         pc'[u] = pc[u] \/ (pc[u] = "none" /\ pc'[u] = "read")
  <2> TAKE u \in Threads \ {t}
  <2>1. CASE u \in Workers /\ u[1] = c
    <3>1. pc[u] = "none"
      BY <1>2, <2>1
    <3> QED  BY <1>3, <2>1, <3>1
  <2>2. CASE ~ (u \in Workers /\ u[1] = c)
    BY <1>3, <2>2
  <2> QED  BY <2>1, <2>2
<1>6. pc'[t] = next
  BY <1>2, <1>3
<1>7. ASSUME NEW d \in Checks, NEW i \in Shares, pc'[<<d, 1>>] = "none"
      PROVE  pc'[<<d, i>>] = "none"
  <2>1. <<d, 1>> \in Workers /\ <<d, i>> \in Workers /\ <<d, 1>>[1] = d
          /\ <<d, i>>[1] = d /\ d # c
    BY <1>3, <1>7
  <2>2. pc[<<d, 1>>] = "none"
    BY <1>3, <1>6, <1>7, <2>1 DEF AfterCount, Holding
  <2>3. pc[<<d, i>>] = "none" /\ <<d, i>> # t
    BY <2>1, <2>2 DEF MutexInv, PostedTogether
  <2> QED  BY <1>3, <2>1, <2>3
<1>8. PostedTogether'
  BY <1>7 DEF PostedTogether
<1> QED  BY <1>1, <1>4, <1>5, <1>6, <1>8 DEF Others

\* The invariant holds at first.
LEMMA CheckInvInit == Init => CheckInv
<1> SUFFICES ASSUME Init PROVE CheckInv
  OBVIOUS
<1>1. MutexInv
  BY MutexInvInit
<1>2. ASSUME NEW c \in Checks
      PROVE  /\ finished[c] <= Cardinality(Counted(c))
             /\ \A i \in Shares : pc[<<c, i>>] # "count"
  <2>1. finished[c] = 0 /\ Cardinality(Counted(c)) \in Nat
    BY CountedFinite DEF Init
  <2>2. \A w \in Workers : pc[w] = "none"
    BY ThreadFacts DEF Init
  <2> QED  BY <2>1, <2>2, ThreadFacts
<1> QED  BY <1>1, <1>2 DEF CheckInv, CountBounded

\* A step that changes nothing keeps it.
LEMMA StutterPreserves ==
    ASSUME MutexInv, CountBounded,
           UNCHANGED <<pc, stateMutex, started, transfer, checkState, rejected,
                       progress, finished, loaded>>
    PROVE  CheckInv'
<1>1. MutexInv'
  BY DEF MutexInv, Shape, MutexHeld, PostedTogether, TransferOrder
<1>2. \A c \in Checks : Counted(c)' = Counted(c)
  BY DEF Counted
<1>3. CountBounded'
  BY <1>2 DEF CountBounded
<1> QED  BY <1>1, <1>3 DEF CheckInv

\* Every step keeps the invariant: one case per action.
LEMMA CheckInvNext == CheckInv /\ [Next]_vars => CheckInv'
<1> SUFFICES ASSUME MutexInv, CountBounded, [Next]_vars PROVE CheckInv'
  BY DEF CheckInv
<1> USE ThreadFacts
<1>1. ASSUME CallStart PROVE CheckInv'
  <2> DEFINE x == "start"
  <2>1. /\ User \in Threads /\ x \in BeforeCount \cup AfterCount
        /\ pc' = [pc EXCEPT ![User] = x]
        /\ User \in Workers => pc[User] # "none" /\ x # "none"
    BY <1>1 DEF CallStart, AfterCount, BeforeCount, Holding, Returned
  <2>2. /\ pc' \in [Threads -> BeforeCount \cup AfterCount]
        /\ Others(User) /\ pc'[User] = x /\ PostedTogether'
    BY <2>1, MoveAlone
  <2>3. Shape'
    BY <1>1, <2>2
       DEF CallStart, MutexInv, Shape, stateVars, checkVars, fileVars, calls
  <2>4. MutexMove(User)
    BY <1>1, <2>2
       DEF CallStart, MutexMove, MutexInv, MutexHeld, Holding, Returned,
           stateVars
  <2>5. OrderMove(User)
    BY <1>1, <2>2
       DEF CallStart, OrderMove, MutexInv, Shape, TransferOrder, Holding,
           Returned, stateVars
  <2>6. CountMove(User)
    BY <1>1, <2>1, <2>2
       DEF CallStart, CountMove, BeforeCount, Returned, checkVars
  <2> QED  BY <2>1, <2>2, <2>3, <2>4, <2>5, <2>6, MovePreserves, CountPreserves
     DEF CheckInv
<1>2. ASSUME CallStop PROVE CheckInv'
  <2> DEFINE x == "stop"
  <2>1. /\ User \in Threads /\ x \in BeforeCount \cup AfterCount
        /\ pc' = [pc EXCEPT ![User] = x]
        /\ User \in Workers => pc[User] # "none" /\ x # "none"
    BY <1>2 DEF CallStop, AfterCount, BeforeCount, Holding, Returned
  <2>2. /\ pc' \in [Threads -> BeforeCount \cup AfterCount]
        /\ Others(User) /\ pc'[User] = x /\ PostedTogether'
    BY <2>1, MoveAlone
  <2>3. Shape'
    BY <1>2, <2>2
       DEF CallStop, MutexInv, Shape, stateVars, checkVars, fileVars, calls
  <2>4. MutexMove(User)
    BY <1>2, <2>2
       DEF CallStop, MutexMove, MutexInv, MutexHeld, Holding, Returned, stateVars
  <2>5. OrderMove(User)
    BY <1>2, <2>2
       DEF CallStop, OrderMove, MutexInv, Shape, TransferOrder, Holding,
           Returned, stateVars
  <2>6. CountMove(User)
    BY <1>2, <2>1, <2>2
       DEF CallStop, CountMove, BeforeCount, Returned, checkVars
  <2> QED  BY <2>1, <2>2, <2>3, <2>4, <2>5, <2>6, MovePreserves, CountPreserves
     DEF CheckInv
<1>3. ASSUME PostInternalStop PROVE CheckInv'
  <2> DEFINE x == "stop"
  <2>1. /\ Internal \in Threads /\ x \in BeforeCount \cup AfterCount
        /\ pc' = [pc EXCEPT ![Internal] = x]
        /\ Internal \in Workers => pc[Internal] # "none" /\ x # "none"
    BY <1>3 DEF PostInternalStop, AfterCount, BeforeCount, Holding, Returned
  <2>2. /\ pc' \in [Threads -> BeforeCount \cup AfterCount]
        /\ Others(Internal) /\ pc'[Internal] = x /\ PostedTogether'
    BY <2>1, MoveAlone
  <2>3. Shape'
    BY <1>3, <2>2
       DEF PostInternalStop, MutexInv, Shape, stateVars, checkVars, fileVars,
           calls
  <2>4. MutexMove(Internal)
    BY <1>3, <2>2
       DEF PostInternalStop, MutexMove, MutexInv, MutexHeld, Holding, Returned,
           stateVars
  <2>5. OrderMove(Internal)
    BY <1>3, <2>2
       DEF PostInternalStop, OrderMove, MutexInv, Shape, TransferOrder, Holding,
           Returned, stateVars
  <2>6. CountMove(Internal)
    BY <1>3, <2>1, <2>2
       DEF PostInternalStop, CountMove, BeforeCount, Returned, checkVars
  <2> QED  BY <2>1, <2>2, <2>3, <2>4, <2>5, <2>6, MovePreserves, CountPreserves
     DEF CheckInv
<1>4. ASSUME NEW t \in Threads, Activate(t) PROVE CheckInv'
  <2> DEFINE x == IF checking THEN "started" ELSE "transfer"
  <2>1. /\ t \in Threads /\ x \in BeforeCount \cup AfterCount
        /\ pc' = [pc EXCEPT ![t] = x]
        /\ t \in Workers => pc[t] # "none" /\ x # "none"
    BY <1>4 DEF Activate, AfterCount, BeforeCount, Holding, Returned
  <2>2. /\ pc' \in [Threads -> BeforeCount \cup AfterCount]
        /\ Others(t) /\ pc'[t] = x /\ PostedTogether'
    BY <2>1, MoveAlone
  <2>3. Shape'
    BY <1>4, <2>2
       DEF Activate, MutexInv, Shape, stateVars, checkVars, fileVars, calls
  <2>4. MutexMove(t)
    BY <1>4, <2>2
       DEF Activate, MutexMove, MutexInv, MutexHeld, Holding, Returned, stateVars
  <2>5. OrderMove(t)
    BY <1>4, <2>2
       DEF Activate, OrderMove, MutexInv, Shape, TransferOrder, Holding,
           Returned, stateVars
  <2>6. CountMove(t)
    BY <1>4, <2>1, <2>2
       DEF Activate, CountMove, BeforeCount, Returned, checkVars
  <2> QED  BY <2>1, <2>2, <2>3, <2>4, <2>5, <2>6, MovePreserves, CountPreserves
     DEF CheckInv
<1>5. ASSUME NEW t \in Threads, StartTransfer(t) PROVE CheckInv'
  <2> DEFINE x == Returned(t)
  <2>1. /\ t \in Threads /\ x \in BeforeCount \cup AfterCount
        /\ pc' = [pc EXCEPT ![t] = x]
        /\ t \in Workers => pc[t] # "none" /\ x # "none"
    BY <1>5 DEF StartTransfer, AfterCount, BeforeCount, Holding, Returned
  <2>2. /\ pc' \in [Threads -> BeforeCount \cup AfterCount]
        /\ Others(t) /\ pc'[t] = x /\ PostedTogether'
    BY <2>1, MoveAlone
  <2>3. Shape'
    BY <1>5, <2>2
       DEF StartTransfer, MutexInv, Shape, stateVars, checkVars, fileVars, calls
  <2>4. MutexMove(t)
    BY <1>5, <2>2
       DEF StartTransfer, MutexMove, MutexInv, MutexHeld, Holding, Returned,
           stateVars
  <2>5. OrderMove(t)
    BY <1>5, <2>2
       DEF StartTransfer, OrderMove, MutexInv, Shape, TransferOrder, Holding,
           Returned, stateVars
  <2>6. CountMove(t)
    BY <1>5, <2>1, <2>2
       DEF StartTransfer, CountMove, BeforeCount, Returned, checkVars
  <2> QED  BY <2>1, <2>2, <2>3, <2>4, <2>5, <2>6, MovePreserves, CountPreserves
     DEF CheckInv
<1>6. ASSUME NEW t \in Threads, EnterStop(t) PROVE CheckInv'
  <2> DEFINE x == IF stopping THEN Returned(t) ELSE "stop.files"
  <2>1. /\ t \in Threads /\ x \in BeforeCount \cup AfterCount
        /\ pc' = [pc EXCEPT ![t] = x]
        /\ t \in Workers => pc[t] # "none" /\ x # "none"
    BY <1>6 DEF EnterStop, AfterCount, BeforeCount, Holding, Returned
  <2>2. /\ pc' \in [Threads -> BeforeCount \cup AfterCount]
        /\ Others(t) /\ pc'[t] = x /\ PostedTogether'
    BY <2>1, MoveAlone
  <2>3. Shape'
    BY <1>6, <2>2
       DEF EnterStop, MutexInv, Shape, stateVars, checkVars, fileVars, calls
  <2>4. MutexMove(t)
    BY <1>6, <2>2
       DEF EnterStop, MutexMove, MutexInv, MutexHeld, Holding, Returned,
           stateVars
  <2>5. OrderMove(t)
    BY <1>6, <2>2
       DEF EnterStop, OrderMove, MutexInv, Shape, TransferOrder, Holding,
           Returned, stateVars
  <2>6. CountMove(t)
    BY <1>6, <2>1, <2>2
       DEF EnterStop, CountMove, BeforeCount, Returned, checkVars
  <2> QED  BY <2>1, <2>2, <2>3, <2>4, <2>5, <2>6, MovePreserves, CountPreserves
     DEF CheckInv
<1>7. ASSUME NEW t \in Threads, StopService(t) PROVE CheckInv'
  <2> DEFINE x == "stop.join"
  <2>1. /\ t \in Threads /\ x \in BeforeCount \cup AfterCount
        /\ pc' = [pc EXCEPT ![t] = x]
        /\ t \in Workers => pc[t] # "none" /\ x # "none"
    BY <1>7 DEF StopService, AfterCount, BeforeCount, Holding, Returned
  <2>2. /\ pc' \in [Threads -> BeforeCount \cup AfterCount]
        /\ Others(t) /\ pc'[t] = x /\ PostedTogether'
    BY <2>1, MoveAlone
  <2>3. Shape'
    BY <1>7, <2>2
       DEF StopService, MutexInv, Shape, stateVars, checkVars, fileVars, calls
  <2>4. MutexMove(t)
    BY <1>7, <2>2
       DEF StopService, MutexMove, MutexInv, MutexHeld, Holding, Returned,
           stateVars
  <2>5. OrderMove(t)
    BY <1>7, <2>2
       DEF StopService, OrderMove, MutexInv, Shape, TransferOrder, Holding,
           Returned, stateVars
  <2>6. CountMove(t)
    BY <1>7, <2>1, <2>2
       DEF StopService, CountMove, BeforeCount, Returned, checkVars
  <2> QED  BY <2>1, <2>2, <2>3, <2>4, <2>5, <2>6, MovePreserves, CountPreserves
     DEF CheckInv
<1>8. ASSUME NEW t \in Threads, JoinService(t) PROVE CheckInv'
  <2> DEFINE x == "stop.end"
  <2>1. /\ t \in Threads /\ x \in BeforeCount \cup AfterCount
        /\ pc' = [pc EXCEPT ![t] = x]
        /\ t \in Workers => pc[t] # "none" /\ x # "none"
    BY <1>8 DEF JoinService, AfterCount, BeforeCount, Holding, Returned
  <2>2. /\ pc' \in [Threads -> BeforeCount \cup AfterCount]
        /\ Others(t) /\ pc'[t] = x /\ PostedTogether'
    BY <2>1, MoveAlone
  <2>3. Shape'
    BY <1>8, <2>2
       DEF JoinService, MutexInv, Shape, stateVars, checkVars, fileVars, calls
  <2>4. MutexMove(t)
    BY <1>8, <2>2
       DEF JoinService, MutexMove, MutexInv, MutexHeld, Holding, Returned,
           stateVars
  <2>5. OrderMove(t)
    BY <1>8, <2>2
       DEF JoinService, OrderMove, MutexInv, Shape, TransferOrder, Holding,
           Returned, stateVars
  <2>6. CountMove(t)
    BY <1>8, <2>1, <2>2
       DEF JoinService, CountMove, BeforeCount, Returned, checkVars
  <2> QED  BY <2>1, <2>2, <2>3, <2>4, <2>5, <2>6, MovePreserves, CountPreserves
     DEF CheckInv
<1>9. ASSUME NEW t \in Threads, EndStop(t) PROVE CheckInv'
  <2> DEFINE x == Returned(t)
  <2>1. /\ t \in Threads /\ x \in BeforeCount \cup AfterCount
        /\ pc' = [pc EXCEPT ![t] = x]
        /\ t \in Workers => pc[t] # "none" /\ x # "none"
    BY <1>9 DEF EndStop, AfterCount, BeforeCount, Holding, Returned
  <2>2. /\ pc' \in [Threads -> BeforeCount \cup AfterCount]
        /\ Others(t) /\ pc'[t] = x /\ PostedTogether'
    BY <2>1, MoveAlone
  <2>3. Shape'
    BY <1>9, <2>2
       DEF EndStop, MutexInv, Shape, stateVars, checkVars, fileVars, calls
  <2>4. MutexMove(t)
    BY <1>9, <2>2
       DEF EndStop, MutexMove, MutexInv, MutexHeld, Holding, Returned, stateVars
  <2>5. OrderMove(t)
    BY <1>9, <2>2
       DEF EndStop, OrderMove, MutexInv, Shape, TransferOrder, Holding, Returned,
           stateVars
  <2>6. CountMove(t)
    BY <1>9, <2>1, <2>2
       DEF EndStop, CountMove, BeforeCount, Returned, checkVars
  <2> QED  BY <2>1, <2>2, <2>3, <2>4, <2>5, <2>6, MovePreserves, CountPreserves
     DEF CheckInv
<1>10. ASSUME NEW c \in Checks, NEW i \in Shares, CheckPieces(c, i)
       PROVE  CheckInv'
  <2> DEFINE x == "load"
  <2>1. /\ <<c, i>> \in Threads /\ x \in BeforeCount \cup AfterCount
        /\ pc' = [pc EXCEPT ![<<c, i>>] = x]
        /\ <<c, i>> \in Workers => pc[<<c, i>>] # "none" /\ x # "none"
    BY <1>10 DEF CheckPieces, AfterCount, BeforeCount, Holding, Returned
  <2>2. /\ pc' \in [Threads -> BeforeCount \cup AfterCount]
        /\ Others(<<c, i>>) /\ pc'[<<c, i>>] = x /\ PostedTogether'
    BY <2>1, MoveAlone
  <2>3. Shape'
    BY <1>10, <2>2
       DEF CheckPieces, MutexInv, Shape, stateVars, checkVars, fileVars, calls
  <2>4. MutexMove(<<c, i>>)
    BY <1>10, <2>2
       DEF CheckPieces, MutexMove, MutexInv, MutexHeld, Holding, Returned,
           stateVars
  <2>5. OrderMove(<<c, i>>)
    BY <1>10, <2>2
       DEF CheckPieces, OrderMove, MutexInv, Shape, TransferOrder, Holding,
           Returned, stateVars
  <2>6. CountMove(<<c, i>>)
    BY <1>10, <2>1, <2>2
       DEF CheckPieces, CountMove, BeforeCount, Returned, checkVars
  <2> QED  BY <2>1, <2>2, <2>3, <2>4, <2>5, <2>6, MovePreserves, CountPreserves
     DEF CheckInv
<1>11. ASSUME NEW c \in Checks, NEW i \in Shares, LoadFinished(c, i)
       PROVE  CheckInv'
  <2> DEFINE x == "count"
  <2>1. /\ <<c, i>> \in Threads /\ x \in BeforeCount \cup AfterCount
        /\ pc' = [pc EXCEPT ![<<c, i>>] = x]
        /\ <<c, i>> \in Workers => pc[<<c, i>>] # "none" /\ x # "none"
    BY <1>11 DEF LoadFinished, AfterCount, BeforeCount, Holding, Returned
  <2>2. /\ pc' \in [Threads -> BeforeCount \cup AfterCount]
        /\ Others(<<c, i>>) /\ pc'[<<c, i>>] = x /\ PostedTogether'
    BY <2>1, MoveAlone
  <2>3. Shape'
    BY <1>11, <2>2
       DEF LoadFinished, MutexInv, Shape, stateVars, checkVars, fileVars, calls
  <2>4. MutexMove(<<c, i>>)
    BY <1>11, <2>2
       DEF LoadFinished, MutexMove, MutexInv, MutexHeld, Holding, Returned,
           stateVars
  <2>5. OrderMove(<<c, i>>)
    BY <1>11, <2>2
       DEF LoadFinished, OrderMove, MutexInv, Shape, TransferOrder, Holding,
           Returned, stateVars
  <2>6. CountMove(<<c, i>>)
    BY <1>11, <2>1, <2>2
       DEF LoadFinished, CountMove, BeforeCount, Returned, checkVars
  <2> QED  BY <2>1, <2>2, <2>3, <2>4, <2>5, <2>6, MovePreserves, CountPreserves
     DEF CheckInv
<1>12. ASSUME NEW c \in Checks, NEW i \in Shares, CountFinished(c, i)
       PROVE  CheckInv'
  <2> DEFINE x == IF finished'[c] = WorkersCount THEN "finish" ELSE "done"
  <2>1. /\ <<c, i>> \in Threads /\ x \in BeforeCount \cup AfterCount
        /\ pc' = [pc EXCEPT ![<<c, i>>] = x]
        /\ <<c, i>> \in Workers => pc[<<c, i>>] # "none" /\ x # "none"
    BY <1>12 DEF CountFinished, AfterCount, BeforeCount, Holding, Returned
  <2>2. /\ pc' \in [Threads -> BeforeCount \cup AfterCount]
        /\ Others(<<c, i>>) /\ pc'[<<c, i>>] = x /\ PostedTogether'
    BY <2>1, MoveAlone
  <2>3. Shape'
    BY <1>12, <2>2
       DEF CountFinished, MutexInv, Shape, stateVars, checkVars, fileVars, calls
  <2>4. MutexMove(<<c, i>>)
    BY <1>12, <2>2
       DEF CountFinished, MutexMove, MutexInv, MutexHeld, Holding, Returned,
           stateVars
  <2>5. OrderMove(<<c, i>>)
    BY <1>12, <2>2
       DEF CountFinished, OrderMove, MutexInv, Shape, TransferOrder, Holding,
           Returned, stateVars
  <2>6. CountMove(<<c, i>>)
    BY <1>12, <2>1, <2>2
       DEF CountFinished, CountMove, BeforeCount, Returned, checkVars
  <2> QED  BY <2>1, <2>2, <2>3, <2>4, <2>5, <2>6, MovePreserves, CountPreserves
     DEF CheckInv
<1>13. ASSUME NEW c \in Checks, NEW i \in Shares, FinishCheck(c, i)
       PROVE  CheckInv'
  <2> DEFINE x == "refresh"
  <2>1. /\ <<c, i>> \in Threads /\ x \in BeforeCount \cup AfterCount
        /\ pc' = [pc EXCEPT ![<<c, i>>] = x]
        /\ <<c, i>> \in Workers => pc[<<c, i>>] # "none" /\ x # "none"
    BY <1>13 DEF FinishCheck, AfterCount, BeforeCount, Holding, Returned
  <2>2. /\ pc' \in [Threads -> BeforeCount \cup AfterCount]
        /\ Others(<<c, i>>) /\ pc'[<<c, i>>] = x /\ PostedTogether'
    BY <2>1, MoveAlone
  <2>3. Shape'
    BY <1>13, <2>2
       DEF FinishCheck, MutexInv, Shape, stateVars, checkVars, fileVars, calls
  <2>4. MutexMove(<<c, i>>)
    BY <1>13, <2>2
       DEF FinishCheck, MutexMove, MutexInv, MutexHeld, Holding, Returned,
           stateVars
  <2>5. OrderMove(<<c, i>>)
    BY <1>13, <2>2
       DEF FinishCheck, OrderMove, MutexInv, Shape, TransferOrder, Holding,
           Returned, stateVars
  <2>6. CountMove(<<c, i>>)
    BY <1>13, <2>1, <2>2
       DEF FinishCheck, CountMove, BeforeCount, Returned, checkVars
  <2> QED  BY <2>1, <2>2, <2>3, <2>4, <2>5, <2>6, MovePreserves, CountPreserves
     DEF CheckInv
<1>14. ASSUME NEW c \in Checks, NEW i \in Shares, RefreshAfterChecking(c, i)
       PROVE  CheckInv'
  <2> DEFINE x == IF c \in rejected THEN "done"
                  ELSE IF started THEN "start" ELSE "stop"
  <2>1. /\ <<c, i>> \in Threads /\ x \in BeforeCount \cup AfterCount
        /\ pc' = [pc EXCEPT ![<<c, i>>] = x]
        /\ <<c, i>> \in Workers => pc[<<c, i>>] # "none" /\ x # "none"
    BY <1>14
       DEF RefreshAfterChecking, AfterCount, BeforeCount, Holding, Returned
  <2>2. /\ pc' \in [Threads -> BeforeCount \cup AfterCount]
        /\ Others(<<c, i>>) /\ pc'[<<c, i>>] = x /\ PostedTogether'
    BY <2>1, MoveAlone
  <2>3. Shape'
    BY <1>14, <2>2
       DEF RefreshAfterChecking, MutexInv, Shape, stateVars, checkVars, fileVars,
           calls
  <2>4. MutexMove(<<c, i>>)
    BY <1>14, <2>2
       DEF RefreshAfterChecking, MutexMove, MutexInv, MutexHeld, Holding,
           Returned, stateVars
  <2>5. OrderMove(<<c, i>>)
    BY <1>14, <2>2
       DEF RefreshAfterChecking, OrderMove, MutexInv, Shape, TransferOrder,
           Holding, Returned, stateVars
  <2>6. CountMove(<<c, i>>)
    BY <1>14, <2>1, <2>2
       DEF RefreshAfterChecking, CountMove, BeforeCount, Returned, checkVars
  <2> QED  BY <2>1, <2>2, <2>3, <2>4, <2>5, <2>6, MovePreserves, CountPreserves
     DEF CheckInv
<1>15. ASSUME NEW t \in Threads, StartFiles(t) PROVE CheckInv'
  <2>0. pc[t] = "start" /\ stateMutex = Nobody /\ started' = started
    BY <1>15 DEF StartFiles, stateVars
  <2>1. CASE stateMutex' = t /\ CheckFiles(t, "activate")
    <3>1. /\ pc' \in [Threads -> BeforeCount \cup AfterCount]
          /\ Others(t) /\ pc'[t] = "activate" /\ PostedTogether'
          /\ checkState' \in Checks
      BY <2>0, <2>1, CheckFilesStep DEF AfterCount, Holding
    <3>2. Shape'
      BY <2>0, <2>1, <3>1 DEF CheckFiles, MutexInv, Shape
    <3>3. MutexMove(t) /\ OrderMove(t) /\ CountMove(t)
      BY <2>0, <2>1, <3>1
         DEF CheckFiles, MutexMove, OrderMove, CountMove, BeforeCount, checkVars,
             Holding
    <3> QED  BY <3>1, <3>2, <3>3, MovePreserves, CountPreserves DEF CheckInv
  <2>2. CASE /\ stateMutex' = t /\ pc' = [pc EXCEPT ![t] = "activate"]
             /\ UNCHANGED <<checkVars, fileVars, transfer>>
    <3>1. /\ pc' \in [Threads -> BeforeCount \cup AfterCount]
          /\ Others(t) /\ pc'[t] = "activate" /\ PostedTogether'
      BY <2>0, <2>2, MoveAlone DEF AfterCount, Holding
    <3>2. Shape'
      BY <2>0, <2>2, <3>1 DEF MutexInv, Shape, checkVars, fileVars
    <3>3. MutexMove(t) /\ OrderMove(t) /\ CountMove(t)
      BY <2>0, <2>2, <3>1
         DEF MutexMove, OrderMove, CountMove, BeforeCount, checkVars, MutexInv,
             TransferOrder, Holding
    <3> QED  BY <3>1, <3>2, <3>3, MovePreserves, CountPreserves DEF CheckInv
  <2>3. CASE /\ pc' = [pc EXCEPT ![t] = "stop"]
             /\ UNCHANGED <<stateMutex, checkVars, fileVars, transfer>>
    <3>1. /\ pc' \in [Threads -> BeforeCount \cup AfterCount]
          /\ Others(t) /\ pc'[t] = "stop" /\ PostedTogether'
      BY <2>0, <2>3, MoveAlone DEF AfterCount
    <3>2. Shape'
      BY <2>0, <2>3, <3>1 DEF MutexInv, Shape, checkVars, fileVars
    <3>3. MutexMove(t) /\ OrderMove(t) /\ CountMove(t)
      BY <2>0, <2>3, <3>1
         DEF MutexMove, OrderMove, CountMove, BeforeCount, checkVars, MutexInv,
             TransferOrder, Holding
    <3> QED  BY <3>1, <3>2, <3>3, MovePreserves, CountPreserves DEF CheckInv
  <2> QED  BY <1>15, <2>1, <2>2, <2>3 DEF StartFiles
<1>16. ASSUME NEW t \in Threads, StopFiles(t) PROVE CheckInv'
  <2> DEFINE x == IF ~ started THEN Returned(t)
                  ELSE IF reason[t] = "Internal" THEN "stop.end"
                  ELSE "stop.service"
  <2>1. /\ x \in BeforeCount \cup AfterCount /\ x # "none"
        /\ pc' = [pc EXCEPT ![t] = x] /\ pc[t] = "stop.files"
    BY <1>16 DEF StopFiles, AfterCount, BeforeCount, Holding, Returned
  <2>2. /\ pc' \in [Threads -> BeforeCount \cup AfterCount]
        /\ Others(t) /\ pc'[t] = x /\ PostedTogether'
    BY <2>1, MoveAlone
  <2>3. Shape'
    BY <1>16, <2>2 DEF StopFiles, MutexInv, Shape
  <2>4. MutexMove(t)
    BY <1>16, <2>1, <2>2 DEF StopFiles, MutexMove, Holding, Returned
  <2>5. OrderMove(t)
    BY <1>16, <2>2 DEF StopFiles, OrderMove, MutexInv, TransferOrder, Returned
  <2>6. CountMove(t)
    BY <1>16, <2>1, <2>2
       DEF StopFiles, CountMove, BeforeCount, Returned, checkVars
  <2> QED  BY <2>2, <2>3, <2>4, <2>5, <2>6, MovePreserves, CountPreserves
     DEF CheckInv
<1>17. ASSUME CallCheck PROVE CheckInv'
  <2>1. CASE ~ checking /\ CheckFiles(User, "idle")
    <3>1. /\ pc' \in [Threads -> BeforeCount \cup AfterCount]
          /\ Others(User) /\ pc'[User] = "idle" /\ PostedTogether'
          /\ checkState' \in Checks
      BY <1>17, <2>1, CheckFilesStep DEF CallCheck, AfterCount
    <3>2. Shape'
      BY <1>17, <2>1, <3>1
         DEF CallCheck, CheckFiles, MutexInv, Shape, stateVars
    <3>3. MutexMove(User) /\ OrderMove(User) /\ CountMove(User)
      BY <1>17, <2>1, <3>1
         DEF CallCheck, CheckFiles, MutexMove, OrderMove, CountMove, BeforeCount,
             checkVars, Holding, stateVars
    <3> QED  BY <3>1, <3>2, <3>3, MovePreserves, CountPreserves DEF CheckInv
  <2>2. CASE UNCHANGED <<pc, checkVars, fileVars, transfer>>
    BY <1>17, <2>2, StutterPreserves
       DEF CallCheck, stateVars, checkVars, fileVars
  <2> QED  BY <1>17, <2>1, <2>2 DEF CallCheck
<1>18. ASSUME UNCHANGED vars PROVE CheckInv'
  BY <1>18, StutterPreserves DEF vars, stateVars, checkVars, fileVars
<1>19. CASE Next
  BY <1>1, <1>2, <1>3, <1>4, <1>5, <1>6, <1>7, <1>8, <1>9, <1>10, <1>11, <1>12,
     <1>13, <1>14, <1>15, <1>16, <1>17, <1>19 DEF Next, StartStop, Worker
<1> QED  BY <1>18, <1>19

\* Only a torrent that is started transfers: start brings the transfer up
\* last, stop takes it down first, and the mutex keeps them apart
\* (Torrent::start, Torrent::stop).
THEOREM TransferOnlyStarted == Spec => []TransferStarted
<1>1. CheckInv => TransferStarted
  BY DEF CheckInv, MutexInv, TransferOrder, TransferStarted
<1> QED  BY <1>1, CheckInvInit, CheckInvNext, PTL DEF Spec

\* stateMutex is held exactly inside start and stop, and the count of a check
\* never passes the number of its workers (Torrent::start, Torrent::stop,
\* Files::checkFiles).
THEOREM TypeCorrect == Spec => []TypeOK
<1>1. ASSUME CheckInv PROVE TypeOK
  <2>1. \A c \in Checks : finished[c] \in 0 .. WorkersCount
    BY <1>1, CountedFinite, BoundsAssumption
       DEF CheckInv, MutexInv, Shape, CountBounded
  <2>2. finished \in [Checks -> 0 .. WorkersCount]
    BY <1>1, <2>1 DEF CheckInv, MutexInv, Shape
  <2> QED  BY <1>1, <2>2
       DEF CheckInv, MutexInv, Shape, MutexHeld, Holding, TypeOK
<1> QED  BY <1>1, CheckInvInit, CheckInvNext, PTL DEF Spec
-------------------------------------------------------------------------------
(* Starts and stops alone leave no worker of a check behind.                 *)

Stops == {"stop.service", "stop.join", "stop.end"}
InCheck == {"read", "load", "count", "finish"}

FlagShape ==
    /\ reason \in [Threads -> {"Manual", "Internal"}]
    /\ current \in BOOLEAN /\ stateChanged \in BOOLEAN
    /\ stopping \in BOOLEAN /\ checking \in BOOLEAN
    /\ checkCalls \in Nat

\* A started torrent has a state to save, so the stop that saves it leaves files
\* that need no check; only a started one is stopped.
SavedByStop ==
    /\ started => stateChanged
    /\ \A t \in Threads : pc[t] \in Stops => started

\* The worker that finishes a check is the last that is busy with it.
FinishesLast ==
    \A c \in Checks, i \in Shares, j \in Shares :
        pc[<<c, i>>] = "finish" /\ pc[<<c, j>>] \in InCheck => i = j

\* The check that is running, and those that were rejected, have begun.
HaveBegun ==
    /\ \A c \in rejected : pc[<<c, 1>>] # "none"
    /\ checkState # NoCheck => pc[<<checkState, 1>>] # "none"

\* The check that runs is the current one ...
RunningIsCurrent ==
    \A c \in Checks \ rejected, i \in Shares :
        pc[<<c, i>>] \in InCheck => checking /\ checkState = c

\* ... and the workers of a rejected one are being joined by the user's stop.
RejectedIsJoined ==
    \A c \in rejected, i \in Shares :
        pc[<<c, i>>] \in InCheck =>
            ~ checking /\ pc[User] \in {"stop.service", "stop.join"}

\* The holder of the mutex is about to set `started'.
Starting == stateMutex \in Threads /\ pc[stateMutex] = "activate"

\* Files are checked while the torrent is started or about to be, and neither
\* while it stops nor while it transfers.
CheckedWhenStarted ==
    /\ checking => started \/ Starting
    /\ \A t \in Threads : pc[t] \in Stops \cup {"transfer"} => ~ checking
    /\ transfer => ~ checking

\* A stop that joins nobody finds no check to reject: the files are current.
OthersStopLate ==
    /\ \A t \in Threads :
          pc[t] \in {"stop", "stop.files"} /\ (t = User => reason[t] = "Internal")
              => current /\ ~ checking
    /\ \A w \in Workers : pc[w] = "refresh" /\ ~ started => ~ checking

\* Until the torrent was started there was no check.
NeverStarted ==
    ~ started /\ ~ current =>
        (\A w \in Workers : pc[w] = "none") \/ Starting

Joined ==
    /\ RunningIsCurrent /\ RejectedIsJoined /\ CheckedWhenStarted
    /\ OthersStopLate /\ NeverStarted

JoinInv ==
    /\ FlagShape /\ SavedByStop /\ FinishesLast /\ HaveBegun
    /\ OnlyStartsAndStops => Joined

LEMMA JoinInvInit == Init => JoinInv
<1> SUFFICES ASSUME Init PROVE JoinInv
  OBVIOUS
<1> USE ThreadFacts
<1>1. \A t \in Threads : pc[t] \in {"idle", "none"}
  BY DEF Init
<1>2. FlagShape /\ SavedByStop /\ HaveBegun
  BY <1>1 DEF Init, FlagShape, SavedByStop, HaveBegun, Stops
<1>3. FinishesLast /\ RunningIsCurrent /\ RejectedIsJoined
  BY <1>1 DEF Init, FinishesLast, InCheck, RunningIsCurrent, RejectedIsJoined
<1>4. CheckedWhenStarted /\ OthersStopLate /\ NeverStarted
  BY <1>1 DEF Init, CheckedWhenStarted, OthersStopLate, NeverStarted, Stops
<1> QED  BY <1>2, <1>3, <1>4 DEF JoinInv, Joined

\* When the count reaches the number of workers, the others have counted.
LEMMA LastCounts ==
    ASSUME CheckInv, NEW c \in Checks, NEW i \in Shares, CountFinished(c, i),
           finished'[c] = WorkersCount
    PROVE  \A j \in Shares \ {i} : pc[<<c, j>>] \notin BeforeCount
<1> USE ThreadFacts, BoundsAssumption
<1>1. pc[<<c, i>>] = "count" /\ loaded[<<c, i>>] + 1 = WorkersCount
  BY DEF CountFinished, CheckInv, MutexInv, Shape
<1>2. /\ IsFiniteSet(Counted(c)) /\ Cardinality(Counted(c)) \in Nat
      /\ loaded[<<c, i>>] \in Nat /\ loaded[<<c, i>>] <= Cardinality(Counted(c))
      /\ i \notin Counted(c) /\ Counted(c) \cup {i} \subseteq Shares
  BY <1>1, CountedFinite
     DEF CheckInv, CountBounded, Counted, BeforeCount, MutexInv, Shape
<1>3. /\ IsFiniteSet(Counted(c) \cup {i})
      /\ Cardinality(Counted(c) \cup {i}) = Cardinality(Counted(c)) + 1
  BY <1>2, FS_AddElement
<1>4. IsFiniteSet(Shares) /\ Cardinality(Shares) = WorkersCount
  BY FS_Interval DEF Shares
<1>5. Cardinality(Counted(c) \cup {i}) >= Cardinality(Shares)
  BY <1>1, <1>2, <1>3, <1>4
<1>6. Counted(c) \cup {i} = Shares
  BY <1>2, <1>3, <1>4, <1>5, FS_Subset
<1> QED  BY <1>6 DEF Counted
LEMMA JoinInvNext == CheckInv /\ JoinInv /\ [Next]_vars => JoinInv'
<1> SUFFICES ASSUME CheckInv, CheckInv', JoinInv, [Next]_vars PROVE JoinInv'
  BY CheckInvNext
<1> USE ThreadFacts DEF CheckInv, MutexInv, JoinInv, Shape, FlagShape
<1>1. ASSUME CallStart PROVE JoinInv'
  <2>1. /\ pc'[User] \in {"start"}
        /\ \A u \in Threads : u # User => pc'[u] = pc[u]
    BY <1>1 DEF CallStart
  <2>2. FlagShape' /\ SavedByStop'
    BY <1>1, <2>1
       DEF CallStart, SavedByStop, Stops, MutexHeld, Holding, stateVars,
           checkVars, fileVars, calls, Save
  <2>3. FinishesLast' /\ HaveBegun'
    BY <1>1, <2>1 DEF CallStart, FinishesLast, HaveBegun, InCheck, checkVars
  <2> SUFFICES ASSUME OnlyStartsAndStops' PROVE Joined'
    BY <2>2, <2>3
  <2>4. Joined
    BY <1>1, <2>1 DEF CallStart, OnlyStartsAndStops, calls
  <2>5. RunningIsCurrent'
    BY <1>1, <2>1, <2>4
       DEF CallStart, Joined, RunningIsCurrent, RejectedIsJoined, InCheck,
           FinishesLast, checkVars
  <2>6. RejectedIsJoined'
    BY <1>1, <2>1, <2>4
       DEF CallStart, Joined, RejectedIsJoined, RunningIsCurrent, InCheck,
           ServiceTasks, MutexHeld, Holding, checkVars, OthersStopLate
  <2>7. CheckedWhenStarted'
    BY <1>1, <2>1, <2>4
       DEF CallStart, Joined, Starting, CheckedWhenStarted, SavedByStop, Stops,
           MutexHeld, Holding, TransferOrder, stateVars, checkVars
  <2>8. OthersStopLate' /\ NeverStarted'
    BY <1>1, <2>1, <2>4
       DEF CallStart, Joined, Starting, CheckedWhenStarted, OthersStopLate,
           NeverStarted, SavedByStop, Stops, MutexHeld, Holding, TransferOrder,
           stateVars, checkVars, fileVars, Save
  <2> QED  BY <2>5, <2>6, <2>7, <2>8 DEF Joined
<1>2. ASSUME CallStop PROVE JoinInv'
  <2>1. /\ pc'[User] \in {"stop"}
        /\ \A u \in Threads : u # User => pc'[u] = pc[u]
    BY <1>2 DEF CallStop
  <2>2. FlagShape' /\ SavedByStop'
    BY <1>2, <2>1
       DEF CallStop, SavedByStop, Stops, MutexHeld, Holding, stateVars,
           checkVars, fileVars, calls, Save
  <2>3. FinishesLast' /\ HaveBegun'
    BY <1>2, <2>1 DEF CallStop, FinishesLast, HaveBegun, InCheck, checkVars
  <2> SUFFICES ASSUME OnlyStartsAndStops' PROVE Joined'
    BY <2>2, <2>3
  <2>4. Joined
    BY <1>2, <2>1 DEF CallStop, OnlyStartsAndStops, calls
  <2>5. RunningIsCurrent'
    BY <1>2, <2>1, <2>4
       DEF CallStop, Joined, RunningIsCurrent, RejectedIsJoined, InCheck,
           FinishesLast, checkVars
  <2>6. RejectedIsJoined'
    BY <1>2, <2>1, <2>4
       DEF CallStop, Joined, RejectedIsJoined, RunningIsCurrent, InCheck,
           ServiceTasks, MutexHeld, Holding, checkVars, OthersStopLate
  <2>7. CheckedWhenStarted'
    BY <1>2, <2>1, <2>4
       DEF CallStop, Joined, Starting, CheckedWhenStarted, SavedByStop, Stops,
           MutexHeld, Holding, TransferOrder, stateVars, checkVars
  <2>8. OthersStopLate' /\ NeverStarted'
    BY <1>2, <2>1, <2>4
       DEF CallStop, Joined, Starting, CheckedWhenStarted, OthersStopLate,
           NeverStarted, SavedByStop, Stops, MutexHeld, Holding, TransferOrder,
           stateVars, checkVars, fileVars, Save
  <2> QED  BY <2>5, <2>6, <2>7, <2>8 DEF Joined
<1>3. ASSUME NEW t \in Threads, Activate(t) PROVE JoinInv'
  <2>1. /\ pc'[t] \in {"started", "transfer"}
        /\ \A u \in Threads : u # t => pc'[u] = pc[u]
    BY <1>3 DEF Activate
  <2>2. FlagShape' /\ SavedByStop'
    BY <1>3, <2>1
       DEF Activate, SavedByStop, Stops, MutexHeld, Holding, stateVars,
           checkVars, fileVars, calls, Save
  <2>3. FinishesLast' /\ HaveBegun'
    BY <1>3, <2>1 DEF Activate, FinishesLast, HaveBegun, InCheck, checkVars
  <2> SUFFICES ASSUME OnlyStartsAndStops' PROVE Joined'
    BY <2>2, <2>3
  <2>4. Joined
    BY <1>3, <2>1 DEF Activate, OnlyStartsAndStops, calls
  <2>5. RunningIsCurrent'
    BY <1>3, <2>1, <2>4
       DEF Activate, Joined, RunningIsCurrent, RejectedIsJoined, InCheck,
           FinishesLast, checkVars
  <2>6. RejectedIsJoined'
    BY <1>3, <2>1, <2>4
       DEF Activate, Joined, RejectedIsJoined, RunningIsCurrent, InCheck,
           ServiceTasks, MutexHeld, Holding, checkVars, OthersStopLate
  <2>7. CheckedWhenStarted'
    BY <1>3, <2>1, <2>4
       DEF Activate, Joined, Starting, CheckedWhenStarted, SavedByStop, Stops,
           MutexHeld, Holding, TransferOrder, stateVars, checkVars
  <2>8. OthersStopLate' /\ NeverStarted'
    BY <1>3, <2>1, <2>4
       DEF Activate, Joined, Starting, CheckedWhenStarted, OthersStopLate,
           NeverStarted, SavedByStop, Stops, MutexHeld, Holding, TransferOrder,
           stateVars, checkVars, fileVars, Save
  <2> QED  BY <2>5, <2>6, <2>7, <2>8 DEF Joined
<1>4. ASSUME NEW t \in Threads, StartTransfer(t) PROVE JoinInv'
  <2>1. /\ pc'[t] \in {"idle", "done"}
        /\ \A u \in Threads : u # t => pc'[u] = pc[u]
    BY <1>4 DEF StartTransfer, Returned
  <2>2. FlagShape' /\ SavedByStop'
    BY <1>4, <2>1
       DEF StartTransfer, SavedByStop, Stops, MutexHeld, Holding, stateVars,
           checkVars, fileVars, calls, Save
  <2>3. FinishesLast' /\ HaveBegun'
    BY <1>4, <2>1
       DEF StartTransfer, FinishesLast, HaveBegun, InCheck, checkVars
  <2> SUFFICES ASSUME OnlyStartsAndStops' PROVE Joined'
    BY <2>2, <2>3
  <2>4. Joined
    BY <1>4, <2>1 DEF StartTransfer, OnlyStartsAndStops, calls
  <2>5. RunningIsCurrent'
    BY <1>4, <2>1, <2>4
       DEF StartTransfer, Joined, RunningIsCurrent, RejectedIsJoined, InCheck,
           FinishesLast, checkVars
  <2>6. RejectedIsJoined'
    BY <1>4, <2>1, <2>4
       DEF StartTransfer, Joined, RejectedIsJoined, RunningIsCurrent, InCheck,
           ServiceTasks, MutexHeld, Holding, checkVars, OthersStopLate
  <2>7. CheckedWhenStarted'
    BY <1>4, <2>1, <2>4
       DEF StartTransfer, Joined, Starting, CheckedWhenStarted, SavedByStop,
           Stops, MutexHeld, Holding, TransferOrder, stateVars, checkVars
  <2>8. OthersStopLate' /\ NeverStarted'
    BY <1>4, <2>1, <2>4
       DEF StartTransfer, Joined, Starting, CheckedWhenStarted, OthersStopLate,
           NeverStarted, SavedByStop, Stops, MutexHeld, Holding, TransferOrder,
           stateVars, checkVars, fileVars, Save
  <2> QED  BY <2>5, <2>6, <2>7, <2>8 DEF Joined
<1>5. ASSUME NEW t \in Threads, EnterStop(t) PROVE JoinInv'
  <2>1. /\ pc'[t] \in {"idle", "done", "stop.files"}
        /\ \A u \in Threads : u # t => pc'[u] = pc[u]
    BY <1>5 DEF EnterStop, Returned
  <2>2. FlagShape' /\ SavedByStop'
    BY <1>5, <2>1
       DEF EnterStop, SavedByStop, Stops, MutexHeld, Holding, stateVars,
           checkVars, fileVars, calls, Save
  <2>3. FinishesLast' /\ HaveBegun'
    BY <1>5, <2>1 DEF EnterStop, FinishesLast, HaveBegun, InCheck, checkVars
  <2> SUFFICES ASSUME OnlyStartsAndStops' PROVE Joined'
    BY <2>2, <2>3
  <2>4. Joined
    BY <1>5, <2>1 DEF EnterStop, OnlyStartsAndStops, calls
  <2>5. RunningIsCurrent'
    BY <1>5, <2>1, <2>4
       DEF EnterStop, Joined, RunningIsCurrent, RejectedIsJoined, InCheck,
           FinishesLast, checkVars
  <2>6. RejectedIsJoined'
    BY <1>5, <2>1, <2>4
       DEF EnterStop, Joined, RejectedIsJoined, RunningIsCurrent, InCheck,
           ServiceTasks, MutexHeld, Holding, checkVars, OthersStopLate
  <2>7. CheckedWhenStarted'
    BY <1>5, <2>1, <2>4
       DEF EnterStop, Joined, Starting, CheckedWhenStarted, SavedByStop, Stops,
           MutexHeld, Holding, TransferOrder, stateVars, checkVars
  <2>8. OthersStopLate' /\ NeverStarted'
    BY <1>5, <2>1, <2>4
       DEF EnterStop, Joined, Starting, CheckedWhenStarted, OthersStopLate,
           NeverStarted, SavedByStop, Stops, MutexHeld, Holding, TransferOrder,
           stateVars, checkVars, fileVars, Save
  <2> QED  BY <2>5, <2>6, <2>7, <2>8 DEF Joined
<1>6. ASSUME NEW t \in Threads, StopFiles(t) PROVE JoinInv'
  <2>1. /\ pc'[t] \in {"idle", "done", "stop.end", "stop.service"}
        /\ \A u \in Threads : u # t => pc'[u] = pc[u]
    BY <1>6 DEF StopFiles, Returned
  <2>2. FlagShape' /\ SavedByStop'
    BY <1>6, <2>1
       DEF StopFiles, SavedByStop, Stops, MutexHeld, Holding, stateVars,
           checkVars, fileVars, calls, Save
  <2>3. FinishesLast' /\ HaveBegun'
    BY <1>6, <2>1 DEF StopFiles, FinishesLast, HaveBegun, InCheck, checkVars
  <2> SUFFICES ASSUME OnlyStartsAndStops' PROVE Joined'
    BY <2>2, <2>3
  <2>4. Joined
    BY <1>6, <2>1 DEF StopFiles, OnlyStartsAndStops, calls
  <2>5. RunningIsCurrent'
    <3> SUFFICES ASSUME NEW c \in Checks \ rejected', NEW i \in Shares,
                        pc'[<<c, i>>] \in InCheck
                 PROVE  FALSE
      BY DEF RunningIsCurrent
    <3>1. pc[<<c, i>>] \in InCheck
      BY <2>1 DEF InCheck
    <3>2. rejected \subseteq rejected' /\ (checking => checkState \in rejected' \cup {NoCheck})
      BY <1>6 DEF StopFiles
    <3>3. c \notin rejected /\ c # NoCheck
      BY <3>2
    <3>4. checking /\ checkState = c
      BY <2>4, <3>1, <3>3 DEF Joined, RunningIsCurrent
    <3> QED  BY <3>2, <3>3, <3>4
  <2>6. RejectedIsJoined'
    <3> SUFFICES ASSUME NEW c \in rejected', NEW i \in Shares,
                        pc'[<<c, i>>] \in InCheck
                 PROVE  ~ checking' /\ pc'[User] = "stop.service"
      BY DEF RejectedIsJoined
    <3>1. pc[<<c, i>>] \in InCheck /\ pc[t] = "stop.files" /\ stateMutex = Nobody
      BY <1>6, <2>1 DEF StopFiles, InCheck
    <3>2. \A u \in Threads : pc[u] \notin Holding
      BY <3>1 DEF MutexHeld
    <3>3. c \notin rejected
      BY <2>4, <3>1, <3>2 DEF Joined, RejectedIsJoined, Holding
    <3>4. checking
      BY <1>6, <3>3 DEF StopFiles
    <3>5. started
      BY <2>4, <3>1, <3>4 DEF Joined, CheckedWhenStarted, Starting
    <3>6. t = User /\ reason[t] # "Internal"
      BY <2>4, <3>1, <3>4 DEF Joined, OthersStopLate
    <3> QED  BY <1>6, <3>5, <3>6 DEF StopFiles
  <2>7. CheckedWhenStarted'
    BY <1>6, <2>1, <2>4
       DEF StopFiles, Joined, Starting, CheckedWhenStarted, SavedByStop, Stops,
           MutexHeld, Holding, TransferOrder, stateVars, checkVars
  <2>8. OthersStopLate' /\ NeverStarted'
    BY <1>6, <2>1, <2>4
       DEF StopFiles, Joined, Starting, CheckedWhenStarted, OthersStopLate,
           NeverStarted, SavedByStop, Stops, MutexHeld, Holding, TransferOrder,
           stateVars, checkVars, fileVars, Save
  <2> QED  BY <2>5, <2>6, <2>7, <2>8 DEF Joined
<1>7. ASSUME NEW t \in Threads, StopService(t) PROVE JoinInv'
  <2>1. /\ pc'[t] \in {"stop.join"}
        /\ \A u \in Threads : u # t => pc'[u] = pc[u]
    BY <1>7 DEF StopService
  <2>2. FlagShape' /\ SavedByStop'
    BY <1>7, <2>1
       DEF StopService, SavedByStop, Stops, MutexHeld, Holding, stateVars,
           checkVars, fileVars, calls, Save
  <2>3. FinishesLast' /\ HaveBegun'
    BY <1>7, <2>1 DEF StopService, FinishesLast, HaveBegun, InCheck, checkVars
  <2> SUFFICES ASSUME OnlyStartsAndStops' PROVE Joined'
    BY <2>2, <2>3
  <2>4. Joined
    BY <1>7, <2>1 DEF StopService, OnlyStartsAndStops, calls
  <2>5. RunningIsCurrent'
    BY <1>7, <2>1, <2>4
       DEF StopService, Joined, RunningIsCurrent, RejectedIsJoined, InCheck,
           FinishesLast, checkVars
  <2>6. RejectedIsJoined'
    BY <1>7, <2>1, <2>4
       DEF StopService, Joined, RejectedIsJoined, RunningIsCurrent, InCheck,
           ServiceTasks, MutexHeld, Holding, checkVars, OthersStopLate
  <2>7. CheckedWhenStarted'
    BY <1>7, <2>1, <2>4
       DEF StopService, Joined, Starting, CheckedWhenStarted, SavedByStop,
           Stops, MutexHeld, Holding, TransferOrder, stateVars, checkVars
  <2>8. OthersStopLate' /\ NeverStarted'
    BY <1>7, <2>1, <2>4
       DEF StopService, Joined, Starting, CheckedWhenStarted, OthersStopLate,
           NeverStarted, SavedByStop, Stops, MutexHeld, Holding, TransferOrder,
           stateVars, checkVars, fileVars, Save
  <2> QED  BY <2>5, <2>6, <2>7, <2>8 DEF Joined
<1>8. ASSUME NEW t \in Threads, JoinService(t) PROVE JoinInv'
  <2>1. /\ pc'[t] \in {"stop.end"}
        /\ \A u \in Threads : u # t => pc'[u] = pc[u]
    BY <1>8 DEF JoinService
  <2>2. FlagShape' /\ SavedByStop'
    BY <1>8, <2>1
       DEF JoinService, SavedByStop, Stops, MutexHeld, Holding, stateVars,
           checkVars, fileVars, calls, Save
  <2>3. FinishesLast' /\ HaveBegun'
    BY <1>8, <2>1 DEF JoinService, FinishesLast, HaveBegun, InCheck, checkVars
  <2> SUFFICES ASSUME OnlyStartsAndStops' PROVE Joined'
    BY <2>2, <2>3
  <2>4. Joined
    BY <1>8, <2>1 DEF JoinService, OnlyStartsAndStops, calls
  <2>5. RunningIsCurrent'
    BY <1>8, <2>1, <2>4
       DEF JoinService, Joined, RunningIsCurrent, RejectedIsJoined, InCheck,
           FinishesLast, checkVars
  <2>6. RejectedIsJoined'
    BY <1>8, <2>1, <2>4
       DEF JoinService, Joined, RejectedIsJoined, RunningIsCurrent, InCheck,
           ServiceTasks, MutexHeld, Holding, checkVars, OthersStopLate
  <2>7. CheckedWhenStarted'
    BY <1>8, <2>1, <2>4
       DEF JoinService, Joined, Starting, CheckedWhenStarted, SavedByStop,
           Stops, MutexHeld, Holding, TransferOrder, stateVars, checkVars
  <2>8. OthersStopLate' /\ NeverStarted'
    BY <1>8, <2>1, <2>4
       DEF JoinService, Joined, Starting, CheckedWhenStarted, OthersStopLate,
           NeverStarted, SavedByStop, Stops, MutexHeld, Holding, TransferOrder,
           stateVars, checkVars, fileVars, Save
  <2> QED  BY <2>5, <2>6, <2>7, <2>8 DEF Joined
<1>9. ASSUME NEW t \in Threads, EndStop(t) PROVE JoinInv'
  <2>1. /\ pc'[t] \in {"idle", "done"}
        /\ \A u \in Threads : u # t => pc'[u] = pc[u]
    BY <1>9 DEF EndStop, Returned
  <2>2. FlagShape' /\ SavedByStop'
    BY <1>9, <2>1
       DEF EndStop, SavedByStop, Stops, MutexHeld, Holding, stateVars,
           checkVars, fileVars, calls, Save
  <2>3. FinishesLast' /\ HaveBegun'
    BY <1>9, <2>1 DEF EndStop, FinishesLast, HaveBegun, InCheck, checkVars
  <2> SUFFICES ASSUME OnlyStartsAndStops' PROVE Joined'
    BY <2>2, <2>3
  <2>4. Joined
    BY <1>9, <2>1 DEF EndStop, OnlyStartsAndStops, calls
  <2>5. RunningIsCurrent'
    BY <1>9, <2>1, <2>4
       DEF EndStop, Joined, RunningIsCurrent, RejectedIsJoined, InCheck,
           FinishesLast, checkVars
  <2>6. RejectedIsJoined'
    BY <1>9, <2>1, <2>4
       DEF EndStop, Joined, RejectedIsJoined, RunningIsCurrent, InCheck,
           ServiceTasks, MutexHeld, Holding, checkVars, OthersStopLate
  <2>7. CheckedWhenStarted'
    BY <1>9, <2>1, <2>4
       DEF EndStop, Joined, Starting, CheckedWhenStarted, SavedByStop, Stops,
           MutexHeld, Holding, TransferOrder, stateVars, checkVars
  <2>8. OthersStopLate' /\ NeverStarted'
    BY <1>9, <2>1, <2>4
       DEF EndStop, Joined, Starting, CheckedWhenStarted, OthersStopLate,
           NeverStarted, SavedByStop, Stops, MutexHeld, Holding, TransferOrder,
           stateVars, checkVars, fileVars, Save
  <2> QED  BY <2>5, <2>6, <2>7, <2>8 DEF Joined
<1>10. ASSUME NEW c \in Checks, NEW i \in Shares, CheckPieces(c, i) PROVE JoinInv'
  <2>1. /\ pc'[<<c, i>>] \in {"load"}
        /\ \A u \in Threads : u # <<c, i>> => pc'[u] = pc[u]
    BY <1>10 DEF CheckPieces
  <2>2. FlagShape' /\ SavedByStop'
    BY <1>10, <2>1
       DEF CheckPieces, SavedByStop, Stops, MutexHeld, Holding, stateVars,
           checkVars, fileVars, calls, Save
  <2>3. FinishesLast' /\ HaveBegun'
    BY <1>10, <2>1 DEF CheckPieces, FinishesLast, HaveBegun, InCheck, checkVars
  <2> SUFFICES ASSUME OnlyStartsAndStops' PROVE Joined'
    BY <2>2, <2>3
  <2>4. Joined
    BY <1>10, <2>1 DEF CheckPieces, OnlyStartsAndStops, calls
  <2>5. RunningIsCurrent'
    BY <1>10, <2>1, <2>4
       DEF CheckPieces, Joined, RunningIsCurrent, RejectedIsJoined, InCheck,
           FinishesLast, checkVars
  <2>6. RejectedIsJoined'
    BY <1>10, <2>1, <2>4
       DEF CheckPieces, Joined, RejectedIsJoined, RunningIsCurrent, InCheck,
           ServiceTasks, MutexHeld, Holding, checkVars, OthersStopLate
  <2>7. CheckedWhenStarted'
    BY <1>10, <2>1, <2>4
       DEF CheckPieces, Joined, Starting, CheckedWhenStarted, SavedByStop,
           Stops, MutexHeld, Holding, TransferOrder, stateVars, checkVars
  <2>8. OthersStopLate' /\ NeverStarted'
    BY <1>10, <2>1, <2>4
       DEF CheckPieces, Joined, Starting, CheckedWhenStarted, OthersStopLate,
           NeverStarted, SavedByStop, Stops, MutexHeld, Holding, TransferOrder,
           stateVars, checkVars, fileVars, Save
  <2> QED  BY <2>5, <2>6, <2>7, <2>8 DEF Joined
<1>11. ASSUME NEW c \in Checks, NEW i \in Shares, LoadFinished(c, i) PROVE JoinInv'
  <2>1. /\ pc'[<<c, i>>] \in {"count"}
        /\ \A u \in Threads : u # <<c, i>> => pc'[u] = pc[u]
    BY <1>11 DEF LoadFinished
  <2>2. FlagShape' /\ SavedByStop'
    BY <1>11, <2>1
       DEF LoadFinished, SavedByStop, Stops, MutexHeld, Holding, stateVars,
           checkVars, fileVars, calls, Save
  <2>3. FinishesLast' /\ HaveBegun'
    BY <1>11, <2>1
       DEF LoadFinished, FinishesLast, HaveBegun, InCheck, checkVars
  <2> SUFFICES ASSUME OnlyStartsAndStops' PROVE Joined'
    BY <2>2, <2>3
  <2>4. Joined
    BY <1>11, <2>1 DEF LoadFinished, OnlyStartsAndStops, calls
  <2>5. RunningIsCurrent'
    BY <1>11, <2>1, <2>4
       DEF LoadFinished, Joined, RunningIsCurrent, RejectedIsJoined, InCheck,
           FinishesLast, checkVars
  <2>6. RejectedIsJoined'
    BY <1>11, <2>1, <2>4
       DEF LoadFinished, Joined, RejectedIsJoined, RunningIsCurrent, InCheck,
           ServiceTasks, MutexHeld, Holding, checkVars, OthersStopLate
  <2>7. CheckedWhenStarted'
    BY <1>11, <2>1, <2>4
       DEF LoadFinished, Joined, Starting, CheckedWhenStarted, SavedByStop,
           Stops, MutexHeld, Holding, TransferOrder, stateVars, checkVars
  <2>8. OthersStopLate' /\ NeverStarted'
    BY <1>11, <2>1, <2>4
       DEF LoadFinished, Joined, Starting, CheckedWhenStarted, OthersStopLate,
           NeverStarted, SavedByStop, Stops, MutexHeld, Holding, TransferOrder,
           stateVars, checkVars, fileVars, Save
  <2> QED  BY <2>5, <2>6, <2>7, <2>8 DEF Joined
<1>12. ASSUME NEW c \in Checks, NEW i \in Shares, CountFinished(c, i) PROVE JoinInv'
  <2>1. /\ pc'[<<c, i>>] \in {"finish", "done"}
        /\ \A u \in Threads : u # <<c, i>> => pc'[u] = pc[u]
    BY <1>12 DEF CountFinished
  <2>2. FlagShape' /\ SavedByStop'
    BY <1>12, <2>1
       DEF CountFinished, SavedByStop, Stops, MutexHeld, Holding, stateVars,
           checkVars, fileVars, calls, Save
  <2>3. FinishesLast' /\ HaveBegun'
    <3>1. HaveBegun'
      BY <1>12, <2>1 DEF CountFinished, HaveBegun
    <3>2. ASSUME pc'[<<c, i>>] = "finish", NEW j \in Shares \ {i}
          PROVE  pc[<<c, j>>] \notin InCheck
      <4>1. pc[<<c, i>>] = "count" /\ finished'[c] = WorkersCount
        BY <1>12, <3>2 DEF CountFinished
      <4>2. pc[<<c, j>>] \notin BeforeCount
        BY <1>12, <4>1, LastCounts
      <4>3. pc[<<c, j>>] # "finish"
        BY <4>1 DEF FinishesLast, InCheck
      <4> QED  BY <4>2, <4>3 DEF BeforeCount, InCheck
    <3>3. FinishesLast'
      BY <1>12, <2>1, <3>2 DEF CountFinished, FinishesLast, InCheck
    <3> QED  BY <3>1, <3>3
  <2> SUFFICES ASSUME OnlyStartsAndStops' PROVE Joined'
    BY <2>2, <2>3
  <2>4. Joined
    BY <1>12, <2>1 DEF CountFinished, OnlyStartsAndStops, calls
  <2>5. RunningIsCurrent'
    BY <1>12, <2>1, <2>4
       DEF CountFinished, Joined, RunningIsCurrent, RejectedIsJoined, InCheck,
           FinishesLast, checkVars
  <2>6. RejectedIsJoined'
    BY <1>12, <2>1, <2>4
       DEF CountFinished, Joined, RejectedIsJoined, RunningIsCurrent, InCheck,
           ServiceTasks, MutexHeld, Holding, checkVars, OthersStopLate
  <2>7. CheckedWhenStarted'
    BY <1>12, <2>1, <2>4
       DEF CountFinished, Joined, Starting, CheckedWhenStarted, SavedByStop,
           Stops, MutexHeld, Holding, TransferOrder, stateVars, checkVars
  <2>8. OthersStopLate' /\ NeverStarted'
    BY <1>12, <2>1, <2>4
       DEF CountFinished, Joined, Starting, CheckedWhenStarted, OthersStopLate,
           NeverStarted, SavedByStop, Stops, MutexHeld, Holding, TransferOrder,
           stateVars, checkVars, fileVars, Save
  <2> QED  BY <2>5, <2>6, <2>7, <2>8 DEF Joined
<1>13. ASSUME NEW c \in Checks, NEW i \in Shares, FinishCheck(c, i) PROVE JoinInv'
  <2>1. /\ pc'[<<c, i>>] \in {"refresh"}
        /\ \A u \in Threads : u # <<c, i>> => pc'[u] = pc[u]
    BY <1>13 DEF FinishCheck
  <2>2. FlagShape' /\ SavedByStop'
    BY <1>13, <2>1
       DEF FinishCheck, SavedByStop, Stops, MutexHeld, Holding, stateVars,
           checkVars, fileVars, calls, Save
  <2>3. FinishesLast' /\ HaveBegun'
    BY <1>13, <2>1 DEF FinishCheck, FinishesLast, HaveBegun, InCheck, checkVars
  <2> SUFFICES ASSUME OnlyStartsAndStops' PROVE Joined'
    BY <2>2, <2>3
  <2>4. Joined
    BY <1>13, <2>1 DEF FinishCheck, OnlyStartsAndStops, calls
  <2>5. RunningIsCurrent'
    BY <1>13, <2>1, <2>4
       DEF FinishCheck, Joined, RunningIsCurrent, RejectedIsJoined, InCheck,
           FinishesLast, checkVars
  <2>6. RejectedIsJoined'
    BY <1>13, <2>1, <2>4
       DEF FinishCheck, Joined, RejectedIsJoined, RunningIsCurrent, InCheck,
           ServiceTasks, MutexHeld, Holding, checkVars, OthersStopLate
  <2>7. CheckedWhenStarted'
    BY <1>13, <2>1, <2>4
       DEF FinishCheck, Joined, Starting, CheckedWhenStarted, SavedByStop,
           Stops, MutexHeld, Holding, TransferOrder, stateVars, checkVars
  <2>8. OthersStopLate' /\ NeverStarted'
    BY <1>13, <2>1, <2>4
       DEF FinishCheck, Joined, Starting, CheckedWhenStarted, OthersStopLate,
           NeverStarted, SavedByStop, Stops, MutexHeld, Holding, TransferOrder,
           stateVars, checkVars, fileVars, Save
  <2> QED  BY <2>5, <2>6, <2>7, <2>8 DEF Joined
<1>14. ASSUME NEW c \in Checks, NEW i \in Shares, RefreshAfterChecking(c, i) PROVE JoinInv'
  <2>1. /\ pc'[<<c, i>>] \in {"done", "start", "stop"}
        /\ \A u \in Threads : u # <<c, i>> => pc'[u] = pc[u]
    BY <1>14 DEF RefreshAfterChecking
  <2>2. FlagShape' /\ SavedByStop'
    <3>1. CASE c \in rejected
      BY <1>14, <2>1, <3>1
         DEF RefreshAfterChecking, SavedByStop, Stops, checkVars, calls
    <3>2. CASE c \notin rejected
      BY <1>14, <2>1, <3>2
         DEF RefreshAfterChecking, SavedByStop, Stops, checkVars, calls
    <3> QED  BY <3>1, <3>2
  <2>3. FinishesLast' /\ HaveBegun'
    BY <1>14, <2>1
       DEF RefreshAfterChecking, FinishesLast, HaveBegun, InCheck, checkVars
  <2> SUFFICES ASSUME OnlyStartsAndStops' PROVE Joined'
    BY <2>2, <2>3
  <2>4. Joined
    BY <1>14, <2>1 DEF RefreshAfterChecking, OnlyStartsAndStops, calls
  <2>5. RunningIsCurrent'
    BY <1>14, <2>1, <2>4
       DEF RefreshAfterChecking, Joined, RunningIsCurrent, RejectedIsJoined,
           InCheck, FinishesLast, checkVars
  <2>6. RejectedIsJoined'
    BY <1>14, <2>1, <2>4
       DEF RefreshAfterChecking, Joined, RejectedIsJoined, RunningIsCurrent,
           InCheck, ServiceTasks, MutexHeld, Holding, checkVars, OthersStopLate
  <2>7. CheckedWhenStarted'
    BY <1>14, <2>1, <2>4
       DEF RefreshAfterChecking, Joined, Starting, CheckedWhenStarted,
           SavedByStop, Stops, MutexHeld, Holding, TransferOrder, stateVars,
           checkVars
  <2>8. OthersStopLate' /\ NeverStarted'
    BY <1>14, <2>1, <2>4
       DEF RefreshAfterChecking, Joined, Starting, CheckedWhenStarted,
           OthersStopLate, NeverStarted, SavedByStop, Stops, MutexHeld,
           Holding, TransferOrder, stateVars, checkVars, fileVars, Save
  <2> QED  BY <2>5, <2>6, <2>7, <2>8 DEF Joined
<1>15. ASSUME PostInternalStop PROVE JoinInv'
  <2>1. pc'[Internal] = "stop" /\ \A u \in Threads : u # Internal => pc'[u] = pc[u]
    BY <1>15 DEF PostInternalStop
  <2>2. FlagShape' /\ SavedByStop'
    BY <1>15, <2>1
       DEF PostInternalStop, SavedByStop, Stops, stateVars, checkVars,
           fileVars, calls
  <2>3. FinishesLast' /\ HaveBegun'
    BY <1>15, <2>1
       DEF PostInternalStop, FinishesLast, HaveBegun, InCheck, checkVars
  <2> QED  BY <2>1, <2>2, <2>3 DEF OnlyStartsAndStops
<1>16. ASSUME NEW t \in Threads, NEW next \in {"idle", "activate"},
              CheckFiles(t, next), pc[t] \in {"idle", "start"}
       PROVE  /\ FinishesLast' /\ HaveBegun'
              /\ checkState' \notin rejected
              /\ pc'[t] = next
              /\ \A u \in Threads \ {t} :
                    pc'[u] = IF u \in Workers /\ u[1] = checkState' THEN "read"
                             ELSE pc[u]
  <2>1. PICK c \in Checks : checkState' = c /\ pc[<<c, 1>>] = "none"
    BY <1>16 DEF CheckFiles
  <2>2. \A u \in Workers : u[1] = c => pc[u] = "none" /\ u # t
    BY <1>16, <2>1 DEF PostedTogether, Workers
  <2>3. pc'[t] = next /\ rejected' = rejected
    BY <1>16, <2>1, <2>2 DEF CheckFiles
  <2>4. \A u \in Threads \ {t} :
           pc'[u] = IF u \in Workers /\ u[1] = checkState' THEN "read" ELSE pc[u]
    BY <1>16 DEF CheckFiles
  <2>5. \A d \in Checks, i \in Shares : <<d, i>>[1] = d
    OBVIOUS
  <2>6. FinishesLast'
    BY <1>16, <2>1, <2>2, <2>3, <2>4, <2>5 DEF FinishesLast, InCheck
  <2>7. HaveBegun'
    BY <1>16, <2>1, <2>2, <2>3, <2>4, <2>5 DEF HaveBegun
  <2> QED  BY <2>1, <2>3, <2>4, <2>6, <2>7 DEF HaveBegun
<1>17. ASSUME CallCheck PROVE JoinInv'
  <2>1. FlagShape' /\ SavedByStop' /\ ~ OnlyStartsAndStops'
    <3>1. \A u \in Threads : pc'[u] \in Stops => pc[u] \in Stops
      BY <1>17, <1>16 DEF CallCheck, Stops
    <3>2. checking' \in BOOLEAN /\ current' = current
      BY <1>17 DEF CallCheck, CheckFiles, checkVars, fileVars
    <3>3. FlagShape' /\ checkCalls' # 0
      BY <1>17, <3>2 DEF CallCheck, stateVars
    <3> QED  BY <1>17, <3>1, <3>3
         DEF CallCheck, SavedByStop, stateVars, OnlyStartsAndStops
  <2>2. FinishesLast' /\ HaveBegun'
    BY <1>17, <1>16 DEF CallCheck, checkVars, FinishesLast, HaveBegun
  <2> QED  BY <2>1, <2>2
<1>18. ASSUME NEW t \in Threads, StartFiles(t) PROVE JoinInv'
  <2>0. pc[t] = "start" /\ stateMutex = Nobody
    BY <1>18 DEF StartFiles
  <2>1. CASE ~ checking /\ ~ current /\ stateMutex' = t /\ CheckFiles(t, "activate")
    <3>1. /\ FinishesLast' /\ HaveBegun'
          /\ checkState' \notin rejected /\ rejected' = rejected
          /\ checkState' \in Checks /\ checking'
          /\ pc'[t] = "activate"
          /\ \A u \in Threads \ {t} :
                pc'[u] = IF u \in Workers /\ u[1] = checkState' THEN "read"
                         ELSE pc[u]
      BY <2>0, <2>1, <1>16 DEF CheckFiles
    <3>2. FlagShape' /\ SavedByStop'
      BY <1>18, <2>0, <2>1, <3>1
         DEF StartFiles, CheckFiles, SavedByStop, Stops, stateVars, calls
    <3> SUFFICES ASSUME OnlyStartsAndStops' PROVE Joined'
      BY <3>1, <3>2
    <3>3. Joined
      BY <1>18, <2>0, <3>1 DEF StartFiles, OnlyStartsAndStops, calls
    <3>4. \A u \in Threads : pc[u] \notin Holding
      BY <2>0 DEF MutexHeld
    <3>5. \A c \in Checks, i \in Shares : <<c, i>>[1] = c
      OBVIOUS
    <3>6. RunningIsCurrent' /\ RejectedIsJoined'
      BY <2>1, <3>1, <3>3, <3>4, <3>5
         DEF Joined, RunningIsCurrent, RejectedIsJoined, InCheck, Holding
    <3>7. CheckedWhenStarted'
      BY <2>1, <3>1, <3>4
         DEF CheckFiles, CheckedWhenStarted, Starting, Stops, Holding
    <3>8. OthersStopLate'
      BY <1>18, <2>0, <2>1, <3>1, <3>3, <3>4
         DEF StartFiles, Joined, OthersStopLate, NeverStarted, Starting,
             Holding, stateVars
    <3>9. NeverStarted'
      BY <2>1, <3>1 DEF NeverStarted, Starting
    <3> QED  BY <3>6, <3>7, <3>8, <3>9 DEF Joined
  <2>2. CASE /\ UNCHANGED <<checkVars, fileVars, transfer, work>>
             /\ \/ /\ stateMutex' = t /\ reason' = reason
                   /\ pc' = [pc EXCEPT ![t] = "activate"]
                \/ /\ ~ checking /\ current /\ stateMutex' = stateMutex
                   /\ pc' = [pc EXCEPT ![t] = "stop"]
                   /\ reason' = [reason EXCEPT ![t] = "Internal"]
    <3>1. /\ pc'[t] \in {"activate", "stop"}
          /\ \A u \in Threads : u # t => pc'[u] = pc[u]
      BY <2>2
    <3>2. FlagShape' /\ SavedByStop'
      BY <1>18, <2>2, <3>1
         DEF StartFiles, SavedByStop, Stops, stateVars, checkVars, fileVars,
             calls
    <3>3. FinishesLast' /\ HaveBegun'
      BY <2>0, <2>2, <3>1 DEF FinishesLast, HaveBegun, InCheck, checkVars
    <3> SUFFICES ASSUME OnlyStartsAndStops' PROVE Joined'
      BY <3>2, <3>3
    <3>4. Joined
      BY <1>18, <3>1 DEF StartFiles, OnlyStartsAndStops, calls
    <3>5. RunningIsCurrent' /\ RejectedIsJoined'
      BY <2>0, <2>2, <3>1, <3>4
         DEF Joined, RunningIsCurrent, RejectedIsJoined, InCheck, checkVars
    <3>6. CheckedWhenStarted'
      BY <1>18, <2>0, <2>2, <3>1, <3>4
         DEF StartFiles, Joined, CheckedWhenStarted, Starting, Stops,
             stateVars, checkVars
    <3>7. OthersStopLate' /\ NeverStarted'
      <4>1. /\ checking' = checking /\ started' = started /\ current' = current
            /\ pc'[t] = "stop" => current /\ ~ checking /\ stateMutex' = stateMutex
            /\ pc'[t] = "activate" => stateMutex' = t
            /\ \A u \in Threads : u # t => reason'[u] = reason[u]
        BY <1>18, <2>2, <3>1 DEF StartFiles, stateVars, checkVars, fileVars
      <4>2. OthersStopLate'
        BY <3>1, <3>4, <4>1 DEF Joined, OthersStopLate
      <4>3. NeverStarted'
        BY <2>0, <3>1, <3>4, <4>1 DEF Joined, NeverStarted, Starting
      <4> QED  BY <4>2, <4>3
    <3> QED  BY <3>5, <3>6, <3>7 DEF Joined
  <2> QED  BY <1>18, <2>1, <2>2 DEF StartFiles
<1>19. ASSUME UNCHANGED vars PROVE JoinInv'
  BY <1>19
     DEF vars, stateVars, checkVars, fileVars, calls, SavedByStop,
         FinishesLast, HaveBegun, OnlyStartsAndStops, Joined, RunningIsCurrent,
         RejectedIsJoined, CheckedWhenStarted, Starting, OthersStopLate,
         NeverStarted
<1>20. CASE Next
  BY <1>1, <1>2, <1>3, <1>4, <1>5, <1>6, <1>7, <1>8, <1>9, <1>10, <1>11, <1>12,
     <1>13, <1>14, <1>15, <1>17, <1>18, <1>20 DEF Next, StartStop, Worker
<1> QED  BY <1>19, <1>20

\* With starts and stops alone a stop leaves no worker of a check behind: one
\* check at most is not rejected and runs, the files are not downloaded into
\* while they are checked, a stopped torrent makes no work (Torrent::start,
\* Torrent::stop, Files::checkFiles).
THEOREM StopsJoinWorkers == Spec => []WorkersJoined
<1>1. ASSUME CheckInv, JoinInv, OnlyStartsAndStops
      PROVE  /\ \A c, d \in Checks \ rejected :
                   Reading(c) # {} /\ Reading(d) # {} => c = d
             /\ transfer => \A c \in Checks : Reading(c) = {}
             /\ State = "Stopped" => ~ transfer /\ \A c \in Checks : Reading(c) = {}
  <2>1. ASSUME NEW c \in Checks, Reading(c) # {}
        PROVE  /\ c \notin rejected => checking /\ checkState = c
               /\ c \in rejected => pc[User] \in Stops
    <3>1. PICK i \in Shares : pc[<<c, i>>] = "read"
      BY <2>1 DEF Reading
    <3> QED  BY <1>1, <3>1
         DEF JoinInv, Joined, RunningIsCurrent, RejectedIsJoined, InCheck,
             Stops
  <2>2. pc[User] \in Stops => ~ transfer /\ started
    BY <1>1, ThreadFacts
       DEF CheckInv, MutexInv, TransferOrder, JoinInv, SavedByStop, Stops
  <2>3. transfer => started /\ ~ checking
    BY <1>1
       DEF CheckInv, MutexInv, TransferOrder, JoinInv, Joined,
           CheckedWhenStarted
  <2>4. State = "Stopped" => ~ checking /\ ~ started
    BY DEF State
  <2> QED  BY <2>1, <2>2, <2>3, <2>4
<1>2. CheckInv /\ JoinInv => WorkersJoined
  BY <1>1 DEF WorkersJoined
<1> QED  BY <1>2, CheckInvInit, CheckInvNext, JoinInvInit, JoinInvNext, PTL
     DEF Spec

===============================================================================
