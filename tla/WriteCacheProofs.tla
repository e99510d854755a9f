--------------------------- MODULE WriteCacheProofs ---------------------------
(***************************************************************************)
(* Every group of the write cache has one flush at a time, and no stored    *)
(* block is lost, for any number of groups, blocks, threads and retries.    *)
(*                                                                          *)
(* A flush of a group is a task in the pool's queue or a thread at work.    *)
(* The invariant says that it is unique (OneAtATime), that a flush always   *)
(* has a listed group with blocks to write (FlushHasWork), and which groups *)
(* have one: the full ones while the storage runs, all that hold blocks     *)
(* while it drains (FlushIsPosted).  NothingLost needs, besides, that a     *)
(* group that was written is on disk with all its blocks.                   *)
(*                                                                          *)
(* The second half of the module is about Bandwidth: nobody who waits for   *)
(* quota is forgotten (NobodyIsForgotten).                                  *)
(***************************************************************************)
EXTENDS WriteCache, Bandwidth, ListTheorems, FiniteSetTheorems, SequenceTheorems,
        WellFoundedInduction, TLAPS

Stored == [at : Positions, data : Data]
Task == {FlushTask(g) : g \in Groups} \cup {CheckTask(p) : p \in Pieces}

Queued(k, g) == tasks[k] = FlushTask(g)
Holds(w, g) == worker[w].run \in {"flush", "written"} /\ worker[w].group = g
Pending(g) == (\E k \in DOMAIN tasks : Queued(k, g)) \/ (\E w \in Workers : Holds(w, g))
Listed(g) == \E k \in DOMAIN cacheGroups : cacheGroups[k] = g

ListTypes ==
    /\ cacheGroups \in Seq(Groups)
    /\ \A k, l \in DOMAIN cacheGroups : cacheGroups[k] = cacheGroups[l] => k = l
    /\ \A g \in Groups : ~ Listed(g) => blocks[g] = <<>>

BlockTypes ==
    /\ blocks \in [Groups -> Seq(Stored)]
    /\ \A g \in Groups : Len(blocks[g]) <= GroupSize

PoolTypes ==
    /\ tasks \in Seq(Task)
    /\ worker = [w \in Workers |-> worker[w]]
    /\ \A w \in Workers :
          /\ worker[w].run \in {"idle", "flush", "written", "check"}
          /\ worker[w].run \in {"flush", "written"} => worker[w].group \in Groups
          /\ worker[w].run = "check" => worker[w].piece \in Pieces
    /\ pool \in {"running", "draining", "stopped"}

DataTypes ==
    /\ disk \in [Positions -> Data \cup {NoData}]
    /\ latest \in [Positions -> Data \cup {NoData}]

PieceTypes ==
    /\ stage \in [Pieces -> {"requested", "checking", "received"}]
    /\ stored = [p \in Pieces |-> stored[p]]
    /\ \A p \in Pieces : stored[p] \subseteq Blocks[p]

CountTypes == badStored \in Nat /\ failed \in Nat

Types == ListTypes /\ BlockTypes /\ PoolTypes /\ DataTypes /\ PieceTypes /\ CountTypes

\* At most one flush of a group is queued or under way.
OneAtATime ==
    \A g \in Groups :
        /\ \A k, l \in DOMAIN tasks : Queued(k, g) /\ Queued(l, g) => k = l
        /\ \A v, w \in Workers : Holds(v, g) /\ Holds(w, g) => v = w
        /\ \A k \in DOMAIN tasks, w \in Workers : ~ (Queued(k, g) /\ Holds(w, g))

FlushHasWork == \A g \in Groups : Pending(g) => blocks[g] # <<>> /\ Listed(g)

FlushIsPosted ==
    \A g \in Groups :
        /\ Full(g) => Pending(g)
        /\ pool = "running" /\ Pending(g) => Full(g)
        /\ pool = "draining" /\ blocks[g] # <<>> => Pending(g)

StoppedIsEmpty ==
    pool = "stopped" =>
        /\ tasks = <<>> /\ \A w \in Workers : worker[w] = Idle
        /\ \A g \in Groups : blocks[g] = <<>>

FlushInv == Types /\ OneAtATime /\ FlushHasWork /\ FlushIsPosted /\ StoppedIsEmpty

\* A block was stored.
Known(at) == latest[at] # NoData
InGroup(g, at) == \E l \in DOMAIN blocks[g] : blocks[g][l].at = at
InCache(at) == \E g \in Groups : InGroup(g, at)

KeptIsKnown == \A at \in Positions : disk[at] # NoData \/ InCache(at) => Known(at)
KnownIsKept == failed = 0 => \A at \in Positions : Known(at) => disk[at] # NoData \/ InCache(at)

WrittenOnDisk ==
    failed = 0 => \A w \in Workers : worker[w].run = "written" =>
        \A at \in Positions : InGroup(worker[w].group, at) => disk[at] # NoData

AllGood ==
    badStored = 0 =>
        /\ \A at \in Positions : disk[at] # "bad" /\ latest[at] # "bad"
        /\ \A g \in Groups : \A l \in DOMAIN blocks[g] : blocks[g][l].data = "good"

KeepInv == FlushInv /\ KeptIsKnown /\ KnownIsKept /\ WrittenOnDisk /\ AllGood

-------------------------------------------------------------------------------
(* Sets of numbers, sequences, and the thread an action moves. *)

\* A set of natural numbers has a least element.
LEMMA LeastExists ==
    ASSUME NEW S, S \subseteq Nat, S # {}
    PROVE  \E k \in S : \A l \in S : k <= l
<1>1. PICK k \in S : \A l \in S : ~ (<<l, k>> \in OpToRel(<, Nat))
  BY NatLessThanWellFounded, WFMin
<1>2. ASSUME NEW l \in S, ~ (k <= l) PROVE FALSE
  <2>1. l \in Nat /\ k \in Nat /\ l < k
    BY <1>2
  <2>2. <<l, k>> \in OpToRel(<, Nat)
    BY <2>1 DEF OpToRel
  <2> QED BY <1>1, <2>2
<1> QED BY <1>2

\* A set of places of a sequence has a greatest element, which is what Max yields.
LEMMA MaxOfPlaces ==
    ASSUME NEW n \in Nat, NEW S, S \subseteq 1 .. n, S # {}
    PROVE  Max(S) \in S
<1> DEFINE T == {n - k : k \in S}
<1>1. T \subseteq Nat /\ T # {}
  <2>1. \A k \in S : k \in 1 .. n /\ n - k \in Nat
    OBVIOUS
  <2> QED BY <2>1
<1>2. PICK t \in T : \A u \in T : t <= u
  BY <1>1, LeastExists
<1>3. PICK k \in S : t = n - k
  OBVIOUS
<1>4. ASSUME NEW l \in S PROVE k >= l
  <2>1. n - l \in T /\ l \in Int /\ k \in Int
    OBVIOUS
  <2>2. n - k <= n - l
    BY <1>2, <1>3, <2>1
  <2> QED BY <2>1, <2>2
<1> QED BY <1>4 DEF Max

LEMMA WorkerSet ==
    ASSUME PoolTypes, NEW w \in Workers, NEW x, worker' = [worker EXCEPT ![w] = x]
    PROVE  /\ worker' = [v \in Workers |-> worker'[v]]
           /\ worker'[w] = x
           /\ \A v \in Workers : v # w => worker'[v] = worker[v]
BY DEF PoolTypes

LEMMA HeadTailTasks ==
    ASSUME tasks \in Seq(Task), tasks # <<>>, tasks' = Tail(tasks)
    PROVE  /\ Head(tasks) = tasks[1] /\ 1 \in DOMAIN tasks
           /\ Head(tasks) \in Task
           /\ tasks' \in Seq(Task)
           /\ \A k \in DOMAIN tasks' :
                 tasks'[k] = tasks[k + 1] /\ k + 1 \in DOMAIN tasks /\ k \in Nat \ {0}
           /\ \A k \in DOMAIN tasks :
                 k = 1 \/ (k - 1 \in DOMAIN tasks' /\ tasks'[k - 1] = tasks[k])
OBVIOUS

LEMMA FlushTaskIs ==
    ASSUME NEW task \in Task
    PROVE  /\ task.run = "flush" => task.group \in Groups /\ task = FlushTask(task.group)
           /\ task.run = "check" => task.piece \in Pieces /\ \A g : task # FlushTask(g)
           /\ task.run \in {"flush", "check"}
BY DEF Task, FlushTask, CheckTask

\* Sorting a group keeps its length and its blocks.
LEMMA SortedGroup ==
    ASSUME NEW seq \in Seq(Stored), NEW s \in Sortings(seq)
    PROVE  /\ s \in Seq(Stored) /\ Len(s) = Len(seq)
           /\ \A l \in DOMAIN s : \E k \in DOMAIN seq : s[l] = seq[k]
           /\ \A k \in DOMAIN seq : \E l \in DOMAIN s : s[l] = seq[k]
<1>1. PICK f \in Bijection(DOMAIN seq, DOMAIN seq) : s = [k \in DOMAIN seq |-> seq[f[k]]]
  BY DEF Sortings
<1>2. f \in [DOMAIN seq -> DOMAIN seq] /\ \A v \in DOMAIN seq : \E k \in DOMAIN seq : f[k] = v
  BY <1>1 DEF Bijection, Surjection, Injection
<1>3. \A k \in 1 .. Len(seq) : s[k] = seq[f[k]] /\ s[k] \in Stored
  BY <1>1, <1>2
<1>4. s \in Seq(Stored) /\ Len(s) = Len(seq) /\ DOMAIN s = DOMAIN seq
  <2> DEFINE n == Len(seq)
  <2>1. n \in Nat /\ DOMAIN seq = 1 .. n
    OBVIOUS
  <2>2. s = [k \in 1 .. n |-> s[k]]
    BY <1>1, <2>1
  <2>3. \A k \in 1 .. n : s[k] \in Stored
    BY <1>3
  <2> HIDE DEF n
  <2>4. s \in [1 .. n -> Stored]
    BY <2>2, <2>3
  <2>5. s \in Seq(Stored) /\ Len(s) = n /\ DOMAIN s = 1 .. n
    BY <2>1, <2>4
  <2> QED BY <2>1, <2>5 DEF n
<1> QED BY <1>1, <1>2, <1>4

\* What the files hold after a group was written.
LEMMA DiskAfterWrite ==
    ASSUME DataTypes, NEW seq \in Seq(Stored)
    PROVE  /\ DiskAfter(seq) \in [Positions -> Data \cup {NoData}]
           /\ \A at \in Positions :
                 \/ /\ DiskAfter(seq)[at] = disk[at]
                    /\ \A l \in DOMAIN seq : seq[l].at # at
                 \/ \E l \in DOMAIN seq : seq[l].at = at /\ DiskAfter(seq)[at] = seq[l].data
<1>1. ASSUME NEW at \in Positions
      PROVE  /\ DiskAfter(seq)[at] \in Data \cup {NoData}
             /\ \/ /\ DiskAfter(seq)[at] = disk[at]
                   /\ \A l \in DOMAIN seq : seq[l].at # at
                \/ \E l \in DOMAIN seq : seq[l].at = at /\ DiskAfter(seq)[at] = seq[l].data
  <2> DEFINE copies == {k \in DOMAIN seq : seq[k].at = at}
  <2>1. DiskAfter(seq)[at] = IF copies = {} THEN disk[at] ELSE seq[Max(copies)].data
    BY DEF DiskAfter
  <2>2. CASE copies = {}
    BY <2>1, <2>2 DEF DataTypes
  <2>3. CASE copies # {}
    <3>1. Max(copies) \in copies
      <4>1. Len(seq) \in Nat /\ copies \subseteq 1 .. Len(seq)
        OBVIOUS
      <4> QED BY <4>1, <2>3, MaxOfPlaces
    <3>2. seq[Max(copies)] \in Stored
      BY <3>1
    <3> QED BY <2>1, <2>3, <3>1, <3>2 DEF Stored
  <2> QED BY <2>2, <2>3
<1>2. DiskAfter(seq) \in [Positions -> Data \cup {NoData}]
  BY <1>1 DEF DiskAfter
<1> QED BY <1>1, <1>2

-------------------------------------------------------------------------------
(* The flushes through every step. *)

\* A thread takes a task: a queued flush becomes one under way.
LEMMA StartKeepsFlushes ==
    ASSUME FlushInv, NEW w \in Workers, StartTask(w)
    PROVE  FlushInv'
<1> USE DEF FlushInv
<1>1. /\ worker[w].run = "idle" /\ tasks # <<>> /\ pool # "stopped" /\ tasks' = Tail(tasks)
      /\ UNCHANGED <<cacheGroups, blocks, disk, pool, stage, stored, latest, boundVars>>
  BY DEF StartTask, Idle
<1>2. /\ Head(tasks) = tasks[1] /\ 1 \in DOMAIN tasks
      /\ Head(tasks) \in Task
      /\ tasks' \in Seq(Task)
      /\ \A k \in DOMAIN tasks' :
            tasks'[k] = tasks[k + 1] /\ k + 1 \in DOMAIN tasks /\ k \in Nat \ {0}
      /\ \A k \in DOMAIN tasks : k = 1 \/ (k - 1 \in DOMAIN tasks' /\ tasks'[k - 1] = tasks[k])
  BY <1>1, HeadTailTasks DEF Types, PoolTypes
<1>3. PICK x : /\ worker' = [worker EXCEPT ![w] = x]
               /\ \/ Head(tasks).run = "flush" /\ x = Flushing(Head(tasks).group, 0)
                  \/ Head(tasks).run = "check" /\ \E seen : x = Checking(Head(tasks).piece, seen)
  BY DEF StartTask
<1>4. /\ worker' = [v \in Workers |-> worker'[v]]
      /\ worker'[w] = x
      /\ \A v \in Workers : v # w => worker'[v] = worker[v]
  BY <1>3, WorkerSet DEF Types
<1>5. /\ x.run \in {"flush", "check"}
      /\ x.run = "flush" => x.group \in Groups /\ tasks[1] = FlushTask(x.group)
      /\ x.run = "check" => x.piece \in Pieces /\ \A g : tasks[1] # FlushTask(g)
  BY <1>2, <1>3, FlushTaskIs DEF Flushing, Checking
<1>6. Types'
  <2>1. PoolTypes'
    BY <1>1, <1>2, <1>4, <1>5 DEF Types, PoolTypes
  <2>2. ListTypes' /\ BlockTypes' /\ DataTypes' /\ PieceTypes' /\ CountTypes'
    BY <1>1
       DEF Types, ListTypes, Listed, BlockTypes, DataTypes, PieceTypes,
           CountTypes, boundVars
  <2> QED BY <2>1, <2>2 DEF Types
<1>7. \A g \in Groups : Holds(w, g)' <=> Queued(1, g)
  <2>1. \A g, h : FlushTask(g) = FlushTask(h) => g = h
    BY DEF FlushTask
  <2>2. CASE x.run = "flush"
    <3>1. \A g \in Groups : Holds(w, g)' <=> x.group = g
      BY <1>4, <2>2 DEF Holds
    <3> QED BY <1>5, <2>1, <2>2, <3>1 DEF Queued
  <2>3. CASE x.run = "check"
    BY <1>4, <1>5, <2>3 DEF Holds, Queued
  <2> QED BY <1>5, <2>2, <2>3
<1>8. \A v \in Workers, g \in Groups : v # w => (Holds(v, g)' <=> Holds(v, g))
  BY <1>4 DEF Holds
<1>9. \A g \in Groups : ~ Holds(w, g)
  BY <1>1 DEF Holds
<1>10. \A g \in Groups, k \in DOMAIN tasks' : Queued(k, g)' <=> Queued(k + 1, g)
  BY <1>2 DEF Queued
<1>11. \A g \in Groups : Pending(g)' <=> Pending(g)
  <2> TAKE g \in Groups
  <2>1. ASSUME NEW k \in DOMAIN tasks, Queued(k, g) PROVE Pending(g)'
    <3>1. CASE k = 1
      BY <1>7, <2>1, <3>1 DEF Pending
    <3>2. CASE k # 1
      <4>1. k - 1 \in DOMAIN tasks' /\ Queued(k - 1, g)'
        BY <1>2, <2>1, <3>2 DEF Queued
      <4> QED BY <4>1 DEF Pending
    <3> QED BY <3>1, <3>2
  <2>2. ASSUME NEW v \in Workers, Holds(v, g) PROVE Pending(g)'
    BY <1>8, <1>9, <2>2 DEF Pending
  <2>3. ASSUME NEW k \in DOMAIN tasks', Queued(k, g)' PROVE Pending(g)
    BY <1>2, <1>10, <2>3 DEF Pending
  <2>4. ASSUME NEW v \in Workers, Holds(v, g)' PROVE Pending(g)
    BY <1>2, <1>7, <1>8, <2>4 DEF Pending
  <2> QED BY <2>1, <2>2, <2>3, <2>4 DEF Pending
<1>12. OneAtATime'
  <2> SUFFICES ASSUME NEW g \in Groups
               PROVE  (/\ \A k, l \in DOMAIN tasks : Queued(k, g) /\ Queued(l, g) => k = l
                       /\ \A v, u \in Workers : Holds(v, g) /\ Holds(u, g) => v = u
                       /\ \A k \in DOMAIN tasks, u \in Workers :
                             ~ (Queued(k, g) /\ Holds(u, g)))'
    BY DEF OneAtATime
  <2>1. ASSUME NEW k \in DOMAIN tasks', NEW l \in DOMAIN tasks', Queued(k, g)', Queued(l, g)'
        PROVE  k = l
    <3>1. /\ k + 1 \in DOMAIN tasks
          /\ l + 1 \in DOMAIN tasks
          /\ Queued(k + 1, g)
          /\ Queued(l + 1, g)
      BY <1>2, <1>10, <2>1
    <3>2. k + 1 = l + 1
      BY <3>1 DEF OneAtATime
    <3> QED BY <1>2, <3>2
  <2>2. ASSUME NEW v \in Workers, NEW u \in Workers, Holds(v, g)', Holds(u, g)'
        PROVE  v = u
    BY <1>2, <1>7, <1>8, <2>2 DEF OneAtATime
  <2>3. ASSUME NEW k \in DOMAIN tasks', NEW u \in Workers, Queued(k, g)', Holds(u, g)'
        PROVE  FALSE
    <3>1. k + 1 \in DOMAIN tasks /\ Queued(k + 1, g) /\ k + 1 # 1
      BY <1>2, <1>10, <2>3
    <3> QED BY <1>2, <1>7, <1>8, <2>3, <3>1 DEF OneAtATime
  <2> QED BY <2>1, <2>2, <2>3
<1>13. FlushHasWork'
  BY <1>1, <1>11 DEF FlushHasWork, Listed
<1>14. FlushIsPosted'
  BY <1>1, <1>11 DEF FlushIsPosted, Full
<1>15. StoppedIsEmpty'
  BY <1>1 DEF StoppedIsEmpty
<1> QED BY <1>6, <1>12, <1>13, <1>14, <1>15

\* Steps of a thread that leave the queue alone and its flush as it is.
LEMMA FlushesStay ==
    ASSUME FlushInv, NEW w \in Workers, tasks' = tasks,
           \A v \in Workers : v # w => worker'[v] = worker[v],
           \A g \in Groups : Holds(w, g)' <=> Holds(w, g)
    PROVE  /\ \A g \in Groups, v \in Workers : Holds(v, g)' <=> Holds(v, g)
           /\ \A g \in Groups : Pending(g)' <=> Pending(g)
           /\ OneAtATime'
<1>1. \A g \in Groups, v \in Workers : Holds(v, g)' <=> Holds(v, g)
  BY DEF Holds
<1>2. \A k, g : Queued(k, g)' <=> Queued(k, g)
  BY DEF Queued
<1>3. \A g \in Groups : Pending(g)' <=> Pending(g)
  BY <1>1, <1>2 DEF Pending
<1>4. OneAtATime'
  BY <1>1, <1>2 DEF OneAtATime, FlushInv
<1> QED BY <1>1, <1>3, <1>4

LEMMA CheckKeepsFlushes ==
    ASSUME FlushInv, NEW w \in Workers, FinishCheck(w)
    PROVE  FlushInv'
<1> USE DEF FlushInv
<1>1. /\ worker[w].run = "check" /\ worker' = [worker EXCEPT ![w] = Idle]
      /\ UNCHANGED <<cacheGroups, blocks, disk, tasks, pool, latest, boundVars>>
  BY DEF FinishCheck
<1>2. /\ worker' = [v \in Workers |-> worker'[v]]
      /\ worker'[w].run = "idle"
      /\ \A v \in Workers : v # w => worker'[v] = worker[v]
  BY <1>1, WorkerSet DEF Types, Idle
<1>3. \A g \in Groups : Holds(w, g)' <=> Holds(w, g)
  BY <1>1, <1>2 DEF Holds
<1>4. Types'
  <2>1. PoolTypes'
    BY <1>1, <1>2 DEF Types, PoolTypes
  <2>2. PieceTypes'
    <3>1. worker[w].piece \in Pieces
      BY <1>1 DEF Types, PoolTypes
    <3>2. \E s \in BOOLEAN :
             /\ stage' = [stage EXCEPT ![worker[w].piece] = IF s THEN "received" ELSE "requested"]
             /\ stored' = [stored EXCEPT ![worker[w].piece] = IF s THEN @ ELSE {}]
      BY DEF FinishCheck
    <3> QED BY <3>1, <3>2 DEF Types, PieceTypes
  <2>3. ListTypes' /\ BlockTypes' /\ DataTypes' /\ CountTypes'
    BY <1>1
       DEF Types, ListTypes, Listed, BlockTypes, DataTypes, CountTypes,
           boundVars
  <2> QED BY <2>1, <2>2, <2>3 DEF Types
<1>5. OneAtATime' /\ \A g \in Groups : Pending(g)' <=> Pending(g)
  BY <1>1, <1>2, <1>3, FlushesStay
<1>6. FlushHasWork'
  BY <1>1, <1>5 DEF FlushHasWork, Listed
<1>7. FlushIsPosted'
  BY <1>1, <1>5 DEF FlushIsPosted, Full
<1>8. StoppedIsEmpty'
  BY <1>1 DEF StoppedIsEmpty, Idle
<1> QED BY <1>4, <1>5, <1>6, <1>7, <1>8

\* The files are written: the flush goes on or is about to end.
LEMMA WriteIs ==
    ASSUME FlushInv, NEW w \in Workers, FlushWrite(w)
    PROVE  /\ worker[w].run = "flush" /\ worker[w].group \in Groups
           /\ UNCHANGED <<cacheGroups, tasks, pool, stage, stored, latest, badStored, stops>>
           /\ \A v \in Workers : v # w => worker'[v] = worker[v]
           /\ worker' = [v \in Workers |-> worker'[v]]
           /\ worker'[w].run \in {"flush", "written"} /\ worker'[w].group = worker[w].group
           /\ \E seq \in Sortings(blocks[worker[w].group]) :
                 /\ blocks' = [blocks EXCEPT ![worker[w].group] = seq]
                 /\ \/ disk' = DiskAfter(seq) /\ failed' = failed
                    \/ disk' = disk /\ failed' = failed /\ worker'[w].run = "flush"
                    \/ disk' = disk /\ failed' = failed + 1
<1>1. /\ worker[w].run = "flush"
      /\ UNCHANGED <<cacheGroups, tasks, pool, stage, stored, latest, badStored, stops>>
  BY DEF FlushWrite
<1>2. worker[w].group \in Groups
  BY <1>1 DEF FlushInv, Types, PoolTypes
<1> DEFINE g == worker[w].group
<1>5. PICK seq \in Sortings(blocks[g]) :
         /\ blocks' = [blocks EXCEPT ![g] = seq]
         /\ \/ /\ disk' = DiskAfter(seq) /\ failed' = failed
               /\ worker' = [worker EXCEPT ![w] = Written(g)]
            \/ /\ disk' = disk /\ failed' = failed
               /\ worker' = [worker EXCEPT ![w] = Flushing(g, worker[w].retry + 1)]
            \/ /\ disk' = disk /\ failed' = failed + 1
               /\ worker' = [worker EXCEPT ![w] = Written(g)]
  BY DEF FlushWrite
<1>6. /\ Written(g).run = "written" /\ Written(g).group = g
      /\ \A r : Flushing(g, r).run = "flush" /\ Flushing(g, r).group = g
  BY DEF Written, Flushing
<1> HIDE DEF g
<1>3. \E x : /\ worker' = [worker EXCEPT ![w] = x]
             /\ x.run \in {"flush", "written"} /\ x.group = g
             /\ \/ disk' = DiskAfter(seq) /\ failed' = failed
                \/ disk' = disk /\ failed' = failed /\ x.run = "flush"
                \/ disk' = disk /\ failed' = failed + 1
  <2>1. CASE /\ disk' = DiskAfter(seq) /\ failed' = failed
             /\ worker' = [worker EXCEPT ![w] = Written(g)]
    BY <1>6, <2>1
  <2>2. CASE /\ disk' = disk /\ failed' = failed
             /\ worker' = [worker EXCEPT ![w] = Flushing(g, worker[w].retry + 1)]
    BY <1>6, <2>2
  <2>3. CASE /\ disk' = disk /\ failed' = failed + 1
             /\ worker' = [worker EXCEPT ![w] = Written(g)]
    BY <1>6, <2>3
  <2> QED BY <1>5, <2>1, <2>2, <2>3
<1>4. /\ worker' = [v \in Workers |-> worker'[v]]
      /\ \A v \in Workers : v # w => worker'[v] = worker[v]
      /\ worker'[w].run \in {"flush", "written"} /\ worker'[w].group = g
      /\ \/ disk' = DiskAfter(seq) /\ failed' = failed
         \/ disk' = disk /\ failed' = failed /\ worker'[w].run = "flush"
         \/ disk' = disk /\ failed' = failed + 1
  <2>1. PICK x : /\ worker' = [worker EXCEPT ![w] = x]
                 /\ x.run \in {"flush", "written"} /\ x.group = g
                 /\ \/ disk' = DiskAfter(seq) /\ failed' = failed
                    \/ disk' = disk /\ failed' = failed /\ x.run = "flush"
                    \/ disk' = disk /\ failed' = failed + 1
    BY <1>3
  <2>2. PoolTypes
    BY DEF FlushInv, Types
  <2>3. /\ worker' = [v \in Workers |-> worker'[v]]
        /\ worker'[w] = x
        /\ \A v \in Workers : v # w => worker'[v] = worker[v]
    BY <2>1, <2>2, WorkerSet
  <2> QED BY <2>1, <2>3
<1> QED BY <1>1, <1>2, <1>4, <1>5 DEF g

\* What a step that sorts the blocks of group h keeps of the groups.
LEMMA GroupSorted ==
    ASSUME BlockTypes, NEW h \in Groups, NEW seq \in Sortings(blocks[h]),
           blocks' = [blocks EXCEPT ![h] = seq]
    PROVE  /\ BlockTypes'
           /\ \A g \in Groups : Len(blocks'[g]) = Len(blocks[g])
           /\ \A g \in Groups : (blocks'[g] = <<>>) <=> (blocks[g] = <<>>)
           /\ \A g \in Groups : \A at : InGroup(g, at)' <=> InGroup(g, at)
           /\ \A g \in Groups : \A l \in DOMAIN blocks'[g] :
                 \E k \in DOMAIN blocks[g] : blocks'[g][l] = blocks[g][k]
<1>1. blocks[h] \in Seq(Stored)
  BY DEF BlockTypes
<1>2. /\ seq \in Seq(Stored) /\ Len(seq) = Len(blocks[h])
      /\ \A l \in DOMAIN seq : \E k \in DOMAIN blocks[h] : seq[l] = blocks[h][k]
      /\ \A k \in DOMAIN blocks[h] : \E l \in DOMAIN seq : seq[l] = blocks[h][k]
  BY <1>1, SortedGroup
<1>3. /\ blocks' \in [Groups -> Seq(Stored)]
      /\ blocks'[h] = seq /\ \A g \in Groups : g # h => blocks'[g] = blocks[g]
  BY <1>2 DEF BlockTypes
<1>4. \A g \in Groups : Len(blocks'[g]) = Len(blocks[g])
  BY <1>2, <1>3
<1>5. BlockTypes'
  BY <1>3, <1>4 DEF BlockTypes
<1>6. \A g \in Groups : (blocks'[g] = <<>>) <=> (blocks[g] = <<>>)
  <2>1. \A g \in Groups : blocks[g] \in Seq(Stored) /\ blocks'[g] \in Seq(Stored)
    BY <1>3 DEF BlockTypes
  <2>2. \A s \in Seq(Stored) : s = <<>> <=> Len(s) = 0
    OBVIOUS
  <2> QED BY <1>4, <2>1, <2>2
<1>7. \A g \in Groups : \A at : InGroup(g, at)' <=> InGroup(g, at)
  <2> TAKE g \in Groups
  <2> TAKE at
  <2>1. CASE g # h
    BY <1>3, <2>1 DEF InGroup
  <2>2. CASE g = h
    BY <1>2, <1>3, <2>2 DEF InGroup
  <2> QED BY <2>1, <2>2
<1>8. \A g \in Groups : \A l \in DOMAIN blocks'[g] :
         \E k \in DOMAIN blocks[g] : blocks'[g][l] = blocks[g][k]
  BY <1>2, <1>3
<1> QED BY <1>4, <1>5, <1>6, <1>7, <1>8

LEMMA WriteKeepsFlushes ==
    ASSUME FlushInv, NEW w \in Workers, FlushWrite(w)
    PROVE  FlushInv'
<1> USE DEF FlushInv
<1>1. /\ worker[w].run = "flush" /\ worker[w].group \in Groups
      /\ UNCHANGED <<cacheGroups, tasks, pool, stage, stored, latest, badStored, stops>>
      /\ \A v \in Workers : v # w => worker'[v] = worker[v]
      /\ worker' = [v \in Workers |-> worker'[v]]
      /\ worker'[w].run \in {"flush", "written"} /\ worker'[w].group = worker[w].group
  BY WriteIs
<1>2. PICK seq \in Sortings(blocks[worker[w].group]) :
         /\ blocks' = [blocks EXCEPT ![worker[w].group] = seq]
         /\ \/ disk' = DiskAfter(seq) /\ failed' = failed
            \/ disk' = disk /\ failed' = failed /\ worker'[w].run = "flush"
            \/ disk' = disk /\ failed' = failed + 1
  BY WriteIs
<1>3. /\ BlockTypes'
      /\ \A g \in Groups : Len(blocks'[g]) = Len(blocks[g])
      /\ \A g \in Groups : (blocks'[g] = <<>>) <=> (blocks[g] = <<>>)
  BY <1>1, <1>2, GroupSorted DEF Types
<1>4. seq \in Seq(Stored)
  BY <1>1, <1>2, SortedGroup DEF Types, BlockTypes
<1>5. Types'
  <2>1. PoolTypes'
    BY <1>1 DEF Types, PoolTypes
  <2>2. ListTypes'
    BY <1>1, <1>3 DEF Types, ListTypes, Listed
  <2>3. DataTypes' /\ CountTypes'
    BY <1>1, <1>2, <1>4, DiskAfterWrite DEF Types, DataTypes, CountTypes
  <2>4. PieceTypes'
    BY <1>1 DEF Types, PieceTypes
  <2> QED BY <1>3, <2>1, <2>2, <2>3, <2>4 DEF Types
<1>6. \A g \in Groups : Holds(w, g)' <=> Holds(w, g)
  BY <1>1 DEF Holds
<1>7. OneAtATime' /\ \A g \in Groups : Pending(g)' <=> Pending(g)
  BY <1>1, <1>6, FlushesStay
<1>8. FlushHasWork'
  BY <1>1, <1>3, <1>7 DEF FlushHasWork, Listed
<1>9. FlushIsPosted'
  BY <1>1, <1>3, <1>7 DEF FlushIsPosted, Full
<1>10. StoppedIsEmpty'
  <2>1. pool # "stopped"
    BY <1>1 DEF StoppedIsEmpty, Idle
  <2> QED BY <1>1, <2>1 DEF StoppedIsEmpty
<1> QED BY <1>5, <1>7, <1>8, <1>9, <1>10

\* A group moves from its place to the end of the list.
LEMMA MovedToEnd ==
    ASSUME cacheGroups \in Seq(Groups),
           \A k, l \in DOMAIN cacheGroups : cacheGroups[k] = cacheGroups[l] => k = l,
           NEW m \in DOMAIN cacheGroups,
           cacheGroups' = Append(RemoveAt(cacheGroups, m), cacheGroups[m])
    PROVE  /\ cacheGroups' \in Seq(Groups)
           /\ \A k, l \in DOMAIN cacheGroups' : cacheGroups'[k] = cacheGroups'[l] => k = l
           /\ \A g \in Groups : Listed(g)' <=> Listed(g)
<1>1. PICK n \in Nat : n = Len(cacheGroups) /\ m \in 1 .. n /\ DOMAIN cacheGroups = 1 .. n
  OBVIOUS
<1> DEFINE At == [k \in 1 .. n |-> IF k = n THEN m ELSE IF k < m THEN k ELSE k + 1]
<1>2. /\ cacheGroups' \in Seq(Groups) /\ DOMAIN cacheGroups' = 1 .. n
      /\ \A k \in 1 .. n : cacheGroups'[k] = cacheGroups[At[k]]
  <2> DEFINE front == SubSeq(cacheGroups, 1, m - 1)
             back == SubSeq(cacheGroups, m + 1, n)
  <2>1. /\ front \in Seq(Groups) /\ Len(front) = m - 1
        /\ \A k \in 1 .. m - 1 : front[k] = cacheGroups[k]
    BY <1>1
  <2>2. /\ back \in Seq(Groups) /\ Len(back) = n - m
        /\ \A k \in 1 .. n - m : back[k] = cacheGroups[k + m]
    BY <1>1
  <2>3. cacheGroups' = Append(front \o back, cacheGroups[m])
    BY <1>1 DEF RemoveAt
  <2> HIDE DEF front, back
  <2> DEFINE both == front \o back
  <2>4. both \in Seq(Groups) /\ Len(both) = n - 1
    <3>1. both \in Seq(Groups) /\ Len(both) = Len(front) + Len(back)
      BY <2>1, <2>2, ConcatProperties
    <3>2. (m - 1) + (n - m) = n - 1
      BY <1>1
    <3> QED BY <2>1, <2>2, <3>1, <3>2
  <2>5. ASSUME NEW k \in 1 .. n - 1
        PROVE both[k] = IF k < m THEN cacheGroups[k] ELSE cacheGroups[k + 1]
    <3>1. CASE k < m
      BY <1>1, <2>1, <2>2, <3>1
    <3>2. CASE ~ (k < m)
      <4>1. both[k] = back[k - (m - 1)]
        BY <1>1, <2>1, <2>2, <3>2
      <4>2. k - (m - 1) \in 1 .. n - m /\ (k - (m - 1)) + m = k + 1
        BY <1>1, <3>2
      <4> QED BY <2>2, <3>2, <4>1, <4>2
    <3> QED BY <3>1, <3>2
  <2>6. cacheGroups[m] \in Groups /\ cacheGroups' = Append(both, cacheGroups[m])
    BY <1>1, <2>3
  <2> HIDE DEF both
  <2>7. /\ cacheGroups' \in Seq(Groups) /\ Len(cacheGroups') = (n - 1) + 1
        /\ cacheGroups'[(n - 1) + 1] = cacheGroups[m]
        /\ \A k \in 1 .. n - 1 : cacheGroups'[k] = both[k]
    <3>1. /\ cacheGroups' \in Seq(Groups) /\ Len(cacheGroups') = Len(both) + 1
          /\ cacheGroups'[Len(both) + 1] = cacheGroups[m]
          /\ \A k \in 1 .. Len(both) : cacheGroups'[k] = both[k]
      BY <2>4, <2>6, AppendProperties
    <3> QED BY <2>4, <3>1
  <2>8. (n - 1) + 1 = n
    BY <1>1
  <2>9. ASSUME NEW k \in 1 .. n PROVE cacheGroups'[k] = cacheGroups[At[k]]
    <3>1. CASE k = n
      BY <1>1, <2>7, <2>8, <3>1
    <3>2. CASE k # n
      <4>1. k \in 1 .. n - 1
        BY <1>1, <3>2
      <4> QED BY <1>1, <2>5, <2>7, <3>2, <4>1
    <3> QED BY <3>1, <3>2
  <2> QED BY <2>7, <2>8, <2>9
<1>3. \A k \in 1 .. n : At[k] \in 1 .. n
  BY <1>1
<1>4. \A k, l \in 1 .. n : At[k] = At[l] => k = l
  BY <1>1
<1>5. \A j \in 1 .. n : \E k \in 1 .. n : At[k] = j
  <2> TAKE j \in 1 .. n
  <2>1. CASE j = m
    <3>1. n \in 1 .. n /\ At[n] = j
      BY <1>1, <2>1
    <3> QED BY <3>1
  <2>2. CASE j < m
    <3>1. At[j] = j
      BY <1>1, <2>2
    <3> QED BY <3>1
  <2>3. CASE j > m
    <3>1. j - 1 \in 1 .. n /\ At[j - 1] = j
      BY <1>1, <2>3
    <3> QED BY <3>1
  <2> QED BY <1>1, <2>1, <2>2, <2>3
<1> HIDE DEF At
<1>6. ASSUME NEW k \in DOMAIN cacheGroups', NEW l \in DOMAIN cacheGroups', cacheGroups'[k] = cacheGroups'[l]
      PROVE  k = l
  <2>1. k \in 1 .. n /\ l \in 1 .. n
    BY <1>2
  <2>2. cacheGroups[At[k]] = cacheGroups[At[l]] /\ At[k] \in 1 .. n /\ At[l] \in 1 .. n
    BY <1>2, <1>3, <1>6, <2>1
  <2>3. At[k] = At[l]
    BY <1>1, <2>2
  <2> QED BY <1>4, <2>1, <2>3
<1>7. \A g \in Groups : Listed(g)' <=> Listed(g)
  <2> TAKE g \in Groups
  <2>1. ASSUME NEW k \in 1 .. n, cacheGroups[k] = g PROVE Listed(g)'
    <3>1. PICK j \in 1 .. n : At[j] = k
      BY <1>5
    <3> QED BY <1>2, <2>1, <3>1 DEF Listed
  <2>2. ASSUME NEW k \in 1 .. n, cacheGroups'[k] = g PROVE Listed(g)
    BY <1>1, <1>2, <1>3, <2>2 DEF Listed
  <2> QED BY <1>1, <1>2, <2>1, <2>2 DEF Listed
<1> QED BY <1>2, <1>6, <1>7

\* The flush of a group ends: the group is empty and has none.
LEMMA EndKeepsFlushes ==
    ASSUME FlushInv, NEW w \in Workers, FlushEnd(w)
    PROVE  FlushInv'
<1> USE DEF FlushInv
<1>0. worker[w].run = "written"
  BY DEF FlushEnd
<1>2. PICK h \in Groups : h = worker[w].group
  BY <1>0 DEF Types, PoolTypes
<1>1. /\ worker[w].run = "written" /\ worker' = [worker EXCEPT ![w] = Idle]
      /\ blocks' = [blocks EXCEPT ![h] = <<>>]
      /\ UNCHANGED <<disk, tasks, pool, stage, stored, latest, boundVars>>
  BY <1>2 DEF FlushEnd
<1>3. PICK m \in DOMAIN cacheGroups :
         cacheGroups[m] = h /\ cacheGroups' = Append(RemoveAt(cacheGroups, m), h)
  BY <1>2 DEF FlushEnd
<1>4. /\ cacheGroups' \in Seq(Groups)
      /\ \A k, l \in DOMAIN cacheGroups' : cacheGroups'[k] = cacheGroups'[l] => k = l
      /\ \A g \in Groups : Listed(g)' <=> Listed(g)
  BY <1>3, MovedToEnd DEF Types, ListTypes
<1>5. /\ worker' = [v \in Workers |-> worker'[v]]
      /\ worker'[w].run = "idle"
      /\ \A v \in Workers : v # w => worker'[v] = worker[v]
  BY <1>1, WorkerSet DEF Types, Idle
<1>6. /\ blocks'[h] = <<>> /\ \A g \in Groups : g # h => blocks'[g] = blocks[g]
      /\ blocks' \in [Groups -> Seq(Stored)]
  <2>1. <<>> \in Seq(Stored)
    OBVIOUS
  <2> QED BY <1>1, <1>2, <2>1 DEF Types, BlockTypes
<1>7. Types'
  <2>1. PoolTypes'
    BY <1>1, <1>5 DEF Types, PoolTypes
  <2>2. ListTypes'
    BY <1>4, <1>6 DEF Types, ListTypes
  <2>3. BlockTypes'
    <3>1. ASSUME NEW g \in Groups PROVE Len(blocks'[g]) <= GroupSize
      <4>1. CASE g = h
        BY <1>6, <4>1, BoundsAssumption
      <4>2. CASE g # h
        BY <1>6, <4>2 DEF Types, BlockTypes
      <4> QED BY <4>1, <4>2
    <3> QED BY <1>6, <3>1 DEF BlockTypes
  <2>4. DataTypes' /\ PieceTypes' /\ CountTypes'
    BY <1>1 DEF Types, DataTypes, PieceTypes, CountTypes, boundVars
  <2> QED BY <2>1, <2>2, <2>3, <2>4 DEF Types
<1>8. \A g \in Groups : ~ Holds(w, g)' /\ (Holds(w, g) <=> g = h)
  BY <1>1, <1>2, <1>5 DEF Holds
<1>9. \A g \in Groups, v \in Workers : v # w => (Holds(v, g)' <=> Holds(v, g))
  BY <1>5 DEF Holds
<1>10. \A k, g : Queued(k, g)' <=> Queued(k, g)
  BY <1>1 DEF Queued
<1>11. OneAtATime'
  BY <1>1, <1>8, <1>9, <1>10 DEF OneAtATime
<1>17. Holds(w, h)
  BY <1>2, <1>8
<1>12. ~ Pending(h)'
  <2>1. \A k \in DOMAIN tasks' : ~ Queued(k, h)'
    BY <1>1, <1>2, <1>10, <1>17 DEF OneAtATime
  <2>2. \A v \in Workers : ~ Holds(v, h)'
    BY <1>2, <1>8, <1>9, <1>17 DEF OneAtATime
  <2> QED BY <2>1, <2>2 DEF Pending
<1>13. \A g \in Groups : g # h => (Pending(g)' <=> Pending(g))
  BY <1>1, <1>8, <1>9, <1>10 DEF Pending
<1>14. FlushHasWork'
  <2> SUFFICES ASSUME NEW g \in Groups, Pending(g)' PROVE (blocks[g] # <<>> /\ Listed(g))'
    BY DEF FlushHasWork
  <2>1. g # h
    BY <1>12
  <2> QED BY <1>4, <1>6, <1>13, <2>1 DEF FlushHasWork
<1>15. FlushIsPosted'
  <2> SUFFICES ASSUME NEW g \in Groups
               PROVE  (/\ Full(g) => Pending(g)
                       /\ pool = "running" /\ Pending(g) => Full(g)
                       /\ pool = "draining" /\ blocks[g] # <<>> => Pending(g))'
    BY DEF FlushIsPosted
  <2>1. CASE g = h
    <3>1. ~ Full(g)'
      BY <1>6, <2>1, BoundsAssumption DEF Full
    <3>2. ~ Pending(g)'
      BY <1>12, <2>1
    <3> QED BY <1>6, <2>1, <3>1, <3>2
  <2>2. CASE g # h
    BY <1>1, <1>6, <1>13, <2>2 DEF FlushIsPosted, Full
  <2> QED BY <2>1, <2>2
<1>16. StoppedIsEmpty'
  <2>1. pool # "stopped"
    BY <1>1 DEF StoppedIsEmpty, Idle
  <2> QED BY <1>1, <2>1 DEF StoppedIsEmpty
<1> QED BY <1>7, <1>11, <1>14, <1>15, <1>16

\* Tasks at the end of the queue: their flushes are of groups that had none.
LEMMA FlushesPosted ==
    ASSUME FlushInv, NEW more \in Seq(Task), tasks' = tasks \o more, worker' = worker,
           \A j, l \in DOMAIN more, g \in Groups :
              more[j] = FlushTask(g) /\ more[l] = FlushTask(g) => j = l,
           \A j \in DOMAIN more, g \in Groups : more[j] = FlushTask(g) => ~ Pending(g)
    PROVE  /\ tasks' \in Seq(Task)
           /\ \A g \in Groups :
                 Pending(g)' <=> Pending(g) \/ \E j \in DOMAIN more : more[j] = FlushTask(g)
           /\ OneAtATime'
<1>1. PICK n \in Nat : n = Len(tasks) /\ DOMAIN tasks = 1 .. n /\ tasks \in Seq(Task)
  BY DEF FlushInv, Types, PoolTypes
<1>2. /\ tasks' \in Seq(Task)
      /\ \A k \in DOMAIN tasks : k \in DOMAIN tasks' /\ tasks'[k] = tasks[k]
      /\ \A j \in DOMAIN more : j + n \in DOMAIN tasks' /\ tasks'[j + n] = more[j]
      /\ \A k \in DOMAIN tasks' :
            k \in DOMAIN tasks \/ (k - n \in DOMAIN more /\ tasks'[k] = more[k - n] /\ k \in Nat)
  <2>1. PICK m \in Nat : m = Len(more) /\ DOMAIN more = 1 .. m
    OBVIOUS
  <2>2. /\ tasks' \in Seq(Task) /\ Len(tasks') = n + m
        /\ \A k \in 1 .. n + m : tasks'[k] = IF k <= n THEN tasks[k] ELSE more[k - n]
    BY <1>1, <2>1, ConcatProperties
  <2>3. DOMAIN tasks' = 1 .. n + m
    BY <2>2
  <2>4. \A k \in 1 .. n : k \in 1 .. n + m /\ k <= n
    BY <2>1
  <2>5. \A j \in 1 .. m : j + n \in 1 .. n + m /\ ~ (j + n <= n) /\ (j + n) - n = j
    BY <1>1, <2>1
  <2>6. \A k \in 1 .. n + m : k \in Nat /\ (k \in 1 .. n \/ (~ (k <= n) /\ k - n \in 1 .. m))
    BY <1>1, <2>1
  <2> QED BY <1>1, <2>1, <2>2, <2>3, <2>4, <2>5, <2>6
<1>3. \A k \in DOMAIN tasks : \A g : Queued(k, g)' <=> Queued(k, g)
  BY <1>2 DEF Queued
<1>4. \A v \in Workers : \A g : Holds(v, g)' <=> Holds(v, g)
  BY DEF Holds
<1>5. ASSUME NEW g \in Groups
      PROVE  Pending(g)' <=> Pending(g) \/ \E j \in DOMAIN more : more[j] = FlushTask(g)
  <2>1. ASSUME NEW j \in DOMAIN more, more[j] = FlushTask(g) PROVE Pending(g)'
    <3>1. j + n \in DOMAIN tasks' /\ Queued(j + n, g)'
      BY <1>2, <2>1 DEF Queued
    <3> QED BY <3>1 DEF Pending
  <2>2. Pending(g) => Pending(g)'
    BY <1>2, <1>3, <1>4 DEF Pending
  <2>3. ASSUME NEW k \in DOMAIN tasks', Queued(k, g)', k \notin DOMAIN tasks
        PROVE  \E j \in DOMAIN more : more[j] = FlushTask(g)
    BY <1>2, <2>3 DEF Queued
  <2>4. Pending(g)' => Pending(g) \/ \E j \in DOMAIN more : more[j] = FlushTask(g)
    BY <1>3, <1>4, <2>3 DEF Pending
  <2> QED BY <2>1, <2>2, <2>4
<1>6. ASSUME NEW g \in Groups, NEW k \in DOMAIN tasks', Queued(k, g)', k \notin DOMAIN tasks
      PROVE  /\ ~ Pending(g) /\ k \in Nat
             /\ k - n \in DOMAIN more /\ more[k - n] = FlushTask(g)
  BY <1>2, <1>6 DEF Queued
<1>7. OneAtATime'
  <2> SUFFICES ASSUME NEW g \in Groups
               PROVE  (/\ \A k, l \in DOMAIN tasks : Queued(k, g) /\ Queued(l, g) => k = l
                       /\ \A v, u \in Workers : Holds(v, g) /\ Holds(u, g) => v = u
                       /\ \A k \in DOMAIN tasks, u \in Workers :
                             ~ (Queued(k, g) /\ Holds(u, g)))'
    BY DEF OneAtATime
  <2>1. ASSUME NEW k \in DOMAIN tasks', NEW l \in DOMAIN tasks', Queued(k, g)', Queued(l, g)'
        PROVE  k = l
    <3>1. CASE k \in DOMAIN tasks /\ l \in DOMAIN tasks
      BY <1>3, <2>1, <3>1 DEF FlushInv, OneAtATime
    <3>2. CASE k \in DOMAIN tasks /\ l \notin DOMAIN tasks
      BY <1>3, <1>6, <2>1, <3>2 DEF Pending
    <3>3. CASE k \notin DOMAIN tasks /\ l \in DOMAIN tasks
      BY <1>3, <1>6, <2>1, <3>3 DEF Pending
    <3>4. CASE k \notin DOMAIN tasks /\ l \notin DOMAIN tasks
      <4>1. k - n = l - n /\ k \in Nat /\ l \in Nat
        BY <1>6, <2>1, <3>4
      <4> QED BY <1>1, <4>1
    <3> QED BY <3>1, <3>2, <3>3, <3>4
  <2>2. ASSUME NEW v \in Workers, NEW u \in Workers, Holds(v, g)', Holds(u, g)'
        PROVE  v = u
    BY <1>4, <2>2 DEF FlushInv, OneAtATime
  <2>3. ASSUME NEW k \in DOMAIN tasks', NEW u \in Workers, Queued(k, g)', Holds(u, g)'
        PROVE  FALSE
    <3>1. CASE k \in DOMAIN tasks
      BY <1>3, <1>4, <2>3, <3>1 DEF FlushInv, OneAtATime
    <3>2. CASE k \notin DOMAIN tasks
      BY <1>4, <1>6, <2>3, <3>2 DEF Pending
    <3> QED BY <3>1, <3>2
  <2> QED BY <2>1, <2>2, <2>3
<1> QED BY <1>2, <1>5, <1>7

\* The group a block goes to has room, and is in the list afterwards.
LEMMA GroupHasRoom ==
    ASSUME FlushInv, NEW g \in Groups, GroupFor(g)
    PROVE  /\ ~ Full(g)
           /\ cacheGroups' \in Seq(Groups)
           /\ \A k, l \in DOMAIN cacheGroups' : cacheGroups'[k] = cacheGroups'[l] => k = l
           /\ \A h \in Groups : Listed(h)' <=> Listed(h) \/ h = g
<1> DEFINE room == {k \in DOMAIN cacheGroups : ~ Full(cacheGroups[k])}
<1>0. ListTypes /\ BlockTypes
  BY DEF FlushInv, Types
<1>1. CASE room # {}
  <2>1. /\ g = cacheGroups[CHOOSE k \in room : \A l \in room : k <= l]
        /\ cacheGroups' = cacheGroups
    BY <1>1 DEF GroupFor
  <2>2. room \subseteq Nat
    BY <1>0 DEF ListTypes
  <2>3. \E k \in room : \A l \in room : k <= l
    BY <1>1, <2>2, LeastExists
  <2>4. (CHOOSE k \in room : \A l \in room : k <= l) \in room
    BY <2>3
  <2>5. ~ Full(g) /\ Listed(g)
    BY <2>1, <2>4 DEF Listed
  <2> HIDE DEF room
  <2> QED BY <1>0, <2>1, <2>5 DEF ListTypes, Listed
<1>2. CASE room = {}
  <2>1. /\ Groups \ ToSet(cacheGroups) # {}
        /\ g = CHOOSE n \in Groups \ ToSet(cacheGroups) : TRUE
        /\ cacheGroups' = <<g>> \o cacheGroups
    BY <1>2 DEF GroupFor
  <2>2. g \notin ToSet(cacheGroups)
    BY <2>1
  <2>3. ~ Listed(g)
    BY <2>2 DEF Listed, ToSet
  <2>4. ~ Full(g)
    BY <1>0, <2>3, BoundsAssumption DEF ListTypes, Full
  <2>5. PICK n \in Nat : n = Len(cacheGroups) /\ DOMAIN cacheGroups = 1 .. n
    BY <1>0 DEF ListTypes
  <2>6. /\ cacheGroups' \in Seq(Groups) /\ DOMAIN cacheGroups' = 1 .. n + 1
        /\ cacheGroups'[1] = g
        /\ \A k \in 2 .. n + 1 : cacheGroups'[k] = cacheGroups[k - 1]
    <3>1. <<g>> \in Seq(Groups) /\ Len(<<g>>) = 1 /\ <<g>>[1] = g
      OBVIOUS
    <3>2. cacheGroups \in Seq(Groups)
      BY <1>0 DEF ListTypes
    <3>3. /\ cacheGroups' \in Seq(Groups) /\ Len(cacheGroups') = 1 + n
          /\ \A k \in 1 .. 1 + n :
                cacheGroups'[k] = IF k <= 1 THEN <<g>>[k] ELSE cacheGroups[k - 1]
      BY <2>1, <2>5, <3>1, <3>2, ConcatProperties
    <3> HIDE DEF room
    <3>4. /\ 1 + n = n + 1 /\ 1 \in 1 .. n + 1
          /\ \A k \in 2 .. n + 1 : k \in 1 .. n + 1 /\ ~ (k <= 1)
      OBVIOUS
    <3> QED BY <3>1, <3>3, <3>4
  <2> HIDE DEF room
  <2>7. \A k \in 1 .. n + 1 : k = 1 \/ (k \in 2 .. n + 1 /\ k - 1 \in 1 .. n)
    OBVIOUS
  <2>8. \A j \in 1 .. n : j + 1 \in 2 .. n + 1 /\ (j + 1) - 1 = j /\ j + 1 \in 1 .. n + 1
    OBVIOUS
  <2>9. ASSUME NEW k \in 2 .. n + 1 PROVE cacheGroups'[k] # g
    BY <2>3, <2>5, <2>6, <2>7 DEF Listed
  <2>10. ASSUME NEW k \in 1 .. n + 1, NEW l \in 1 .. n + 1, cacheGroups'[k] = cacheGroups'[l]
         PROVE  k = l
    <3>1. CASE k = 1 /\ l = 1
      BY <3>1
    <3>2. CASE k = 1 /\ l # 1
      BY <2>6, <2>7, <2>9, <2>10, <3>2
    <3>3. CASE k # 1 /\ l = 1
      BY <2>6, <2>7, <2>9, <2>10, <3>3
    <3>4. CASE k # 1 /\ l # 1
      <4>1. /\ k - 1 \in 1 .. n
            /\ l - 1 \in 1 .. n
            /\ cacheGroups[k - 1] = cacheGroups[l - 1]
        BY <2>6, <2>7, <2>10, <3>4
      <4>2. k - 1 = l - 1
        BY <1>0, <2>5, <4>1 DEF ListTypes
      <4> QED BY <4>2
    <3> QED BY <3>1, <3>2, <3>3, <3>4
  <2>11. ASSUME NEW h \in Groups PROVE Listed(h)' <=> Listed(h) \/ h = g
    <3>1. ASSUME NEW j \in 1 .. n, cacheGroups[j] = h PROVE Listed(h)'
      BY <2>6, <2>8, <3>1 DEF Listed
    <3>2. h = g => Listed(h)'
      <4>1. 1 \in 1 .. n + 1
        OBVIOUS
      <4> QED BY <2>6, <4>1 DEF Listed
    <3>3. ASSUME NEW k \in 1 .. n + 1, cacheGroups'[k] = h, h # g PROVE Listed(h)
      BY <2>5, <2>6, <2>7, <3>3 DEF Listed
    <3> QED BY <2>5, <2>6, <3>1, <3>2, <3>3 DEF Listed
  <2> QED BY <2>4, <2>6, <2>10, <2>11
<1> QED BY <1>1, <1>2

LEMMA PositionIs ==
    ASSUME NEW p \in Pieces, NEW b \in Blocks[p]
    PROVE  <<p, b>> \in Positions
BY DEF Positions

\* A block is stored at the end of a group with room; a group that is full is
\* posted, and then the check of a piece that is complete.
PostsItsFlush(g, more) ==
    /\ tasks' = tasks \o more
    /\ \A j \in DOMAIN more, h \in Groups :
          more[j] = FlushTask(h) => j = 1 /\ h = g /\ Full(g)'
    /\ Full(g)' => 1 \in DOMAIN more /\ more[1] = FlushTask(g)

StoredIn(p, b, data) ==
    /\ pool = "running"
    /\ UNCHANGED <<disk, worker, pool, locked, failed, stops>>
    /\ badStored' \in Nat /\ (badStored' = 0 => badStored = 0 /\ data # "bad")
    /\ latest' = [latest EXCEPT ![<<p, b>>] = data]
    /\ PieceTypes'
    /\ \E g \in Groups, more \in Seq(Task) :
          /\ GroupFor(g)
          /\ blocks' = [blocks EXCEPT ![g] = Append(blocks[g], [at |-> <<p, b>>, data |-> data])]
          /\ PostsItsFlush(g, more)

LEMMA StoreIs ==
    ASSUME FlushInv, NEW p \in Pieces, NEW b \in Blocks[p], NEW data \in Data,
           StoreBlock(p, b, data)
    PROVE  StoredIn(p, b, data)
<1>1. /\ pool = "running"
      /\ UNCHANGED <<disk, worker, pool, locked, failed, stops>>
      /\ latest' = [latest EXCEPT ![<<p, b>>] = data]
  BY DEF StoreBlock
<1>2. badStored' \in Nat /\ (badStored' = 0 => badStored = 0 /\ data # "bad")
  BY DEF StoreBlock, FlushInv, Types, CountTypes
<1>3. PieceTypes'
  <2>1. /\ stored' = [stored EXCEPT ![p] = stored[p] \cup {b}]
        /\ \E s \in BOOLEAN :
              stage' = [stage EXCEPT ![p] = IF s THEN "checking" ELSE stage[p]]
    BY DEF StoreBlock
  <2> QED BY <2>1 DEF FlushInv, Types, PieceTypes
<1>4. PICK g \in Groups :
         /\ GroupFor(g)
         /\ blocks' = [blocks EXCEPT ![g] = Append(blocks[g], [at |-> <<p, b>>, data |-> data])]
         /\ tasks' = tasks
                \o (IF Full(g)' THEN <<FlushTask(g)>> ELSE <<>>)
                \o (IF stage'[p] = "checking" THEN <<CheckTask(p)>> ELSE <<>>)
  BY DEF StoreBlock
<1> DEFINE posted == IF Full(g)' THEN <<FlushTask(g)>> ELSE <<>>
           check == IF stage'[p] = "checking" THEN <<CheckTask(p)>> ELSE <<>>
<1>5. FlushTask(g) \in Task /\ CheckTask(p) \in Task /\ \A h : FlushTask(h) # CheckTask(p)
  BY DEF Task, FlushTask, CheckTask
<1>6. \A h : FlushTask(h) = FlushTask(g) => h = g
  BY DEF FlushTask
<1>7. PICK flush : flush = FlushTask(g)
  OBVIOUS
<1>8. PICK piece : piece = CheckTask(p)
  OBVIOUS
<1>9. tasks \in Seq(Task)
  BY DEF FlushInv, Types, PoolTypes
<1>10. \E more \in Seq(Task) :
         /\ tasks' = tasks \o more
         /\ \A j \in DOMAIN more : more[j] = piece \/ (j = 1 /\ more[j] = flush /\ Full(g)')
         /\ Full(g)' => 1 \in DOMAIN more /\ more[1] = flush
  <2>1. flush \in Task /\ piece \in Task
    BY <1>5, <1>7, <1>8
  <2>2. CASE Full(g)' /\ stage'[p] = "checking"
    <3>1. tasks' = (tasks \o <<flush>>) \o <<piece>>
      BY <1>4, <1>7, <1>8, <2>2
    <3>2. tasks' = tasks \o <<flush, piece>>
      BY <1>9, <2>1, <3>1
    <3>3. PICK more : more = <<flush, piece>>
      OBVIOUS
    <3>4. /\ more \in Seq(Task)
          /\ DOMAIN more = 1 .. 2
          /\ more[1] = flush
          /\ more[2] = piece
      BY <2>1, <3>3
    <3>5. tasks' = tasks \o more
      BY <3>2, <3>3
    <3>6. \A j \in DOMAIN more : more[j] = piece \/ (j = 1 /\ more[j] = flush)
      BY <3>4
    <3>7. 1 \in DOMAIN more
      BY <3>4
    <3> QED BY <2>2, <3>4, <3>5, <3>6, <3>7
  <2>3. CASE Full(g)' /\ stage'[p] # "checking"
    <3>1. tasks' = (tasks \o <<flush>>) \o <<>>
      BY <1>4, <1>7, <2>3
    <3>2. tasks' = tasks \o <<flush>>
      BY <1>9, <2>1, <3>1
    <3>3. PICK more : more = <<flush>>
      OBVIOUS
    <3>4. more \in Seq(Task) /\ DOMAIN more = 1 .. 1 /\ more[1] = flush
      BY <2>1, <3>3
    <3>5. tasks' = tasks \o more
      BY <3>2, <3>3
    <3> QED BY <2>3, <3>4, <3>5
  <2>4. CASE ~ Full(g)' /\ stage'[p] = "checking"
    <3>1. tasks' = (tasks \o <<>>) \o <<piece>>
      BY <1>4, <1>8, <2>4
    <3>2. tasks' = tasks \o <<piece>>
      BY <1>9, <2>1, <3>1
    <3>3. PICK more : more = <<piece>>
      OBVIOUS
    <3>4. more \in Seq(Task) /\ DOMAIN more = 1 .. 1 /\ more[1] = piece
      BY <2>1, <3>3
    <3>5. tasks' = tasks \o more
      BY <3>2, <3>3
    <3> QED BY <2>4, <3>4, <3>5
  <2>5. CASE ~ Full(g)' /\ stage'[p] # "checking"
    <3>1. tasks' = (tasks \o <<>>) \o <<>>
      BY <1>4, <2>5
    <3>2. tasks' = tasks \o <<>>
      BY <1>9, <3>1
    <3>3. <<>> \in Seq(Task) /\ DOMAIN <<>> = {}
      OBVIOUS
    <3> QED BY <2>5, <3>2, <3>3
  <2> QED BY <2>2, <2>3, <2>4, <2>5
<1>11. PICK more \in Seq(Task) :
         /\ tasks' = tasks \o more
         /\ \A j \in DOMAIN more : more[j] = piece \/ (j = 1 /\ more[j] = flush /\ Full(g)')
         /\ Full(g)' => 1 \in DOMAIN more /\ more[1] = flush
  BY <1>10
<1>12. \A j \in DOMAIN more, h \in Groups :
          more[j] = FlushTask(h) => j = 1 /\ h = g /\ Full(g)'
  BY <1>5, <1>6, <1>7, <1>8, <1>11
<1> QED BY <1>1, <1>2, <1>3, <1>4, <1>7, <1>11, <1>12
     DEF StoredIn, PostsItsFlush

LEMMA StoreKeepsFlushes ==
    ASSUME FlushInv, NEW p \in Pieces, NEW b \in Blocks[p], NEW data \in Data,
           StoreBlock(p, b, data)
    PROVE  FlushInv'
<1>0. StoredIn(p, b, data)
  BY StoreIs
<1>1. /\ pool = "running"
      /\ UNCHANGED <<disk, worker, pool, locked, failed, stops>>
      /\ badStored' \in Nat
      /\ latest' = [latest EXCEPT ![<<p, b>>] = data]
      /\ PieceTypes'
  BY <1>0 DEF StoredIn
<1>20. PICK g \in Groups, more \in Seq(Task) :
         /\ GroupFor(g)
         /\ blocks' = [blocks EXCEPT ![g] = Append(blocks[g], [at |-> <<p, b>>, data |-> data])]
         /\ PostsItsFlush(g, more)
  BY <1>0 DEF StoredIn
<1>2. /\ GroupFor(g)
      /\ blocks' = [blocks EXCEPT ![g] = Append(blocks[g], [at |-> <<p, b>>, data |-> data])]
      /\ tasks' = tasks \o more
      /\ \A j \in DOMAIN more, h \in Groups :
            more[j] = FlushTask(h) => j = 1 /\ h = g /\ Full(g)'
      /\ Full(g)' => 1 \in DOMAIN more /\ more[1] = FlushTask(g)
  BY <1>20 DEF PostsItsFlush
<1>3. /\ ~ Full(g)
      /\ cacheGroups' \in Seq(Groups)
      /\ \A k, l \in DOMAIN cacheGroups' : cacheGroups'[k] = cacheGroups'[l] => k = l
      /\ \A h \in Groups : Listed(h)' <=> Listed(h) \/ h = g
  BY <1>2, GroupHasRoom
<1>4. ~ Pending(g)
  BY <1>1, <1>3 DEF FlushInv, FlushIsPosted
<1>5. [at |-> <<p, b>>, data |-> data] \in Stored
  BY PositionIs DEF Stored
<1>6. /\ blocks' \in [Groups -> Seq(Stored)]
      /\ Len(blocks'[g]) = Len(blocks[g]) + 1 /\ blocks'[g] # <<>>
      /\ \A h \in Groups : h # g => blocks'[h] = blocks[h]
  <2>1. blocks \in [Groups -> Seq(Stored)] /\ blocks[g] \in Seq(Stored)
    BY DEF FlushInv, Types, BlockTypes
  <2>2. PICK new : new = Append(blocks[g], [at |-> <<p, b>>, data |-> data])
    OBVIOUS
  <2>3. new \in Seq(Stored) /\ Len(new) = Len(blocks[g]) + 1 /\ new # <<>>
    BY <1>5, <2>1, <2>2, AppendProperties
  <2> QED BY <1>2, <2>1, <2>2, <2>3
<1>7. /\ tasks' \in Seq(Task)
      /\ \A h \in Groups : Pending(h)'
            <=> Pending(h) \/ \E j \in DOMAIN more : more[j] = FlushTask(h)
      /\ OneAtATime'
  BY <1>1, <1>2, <1>4, FlushesPosted
<1>8. Pending(g)' <=> Full(g)'
  BY <1>2, <1>4, <1>7
<1>9. \A h \in Groups : h # g => (Pending(h)' <=> Pending(h))
  BY <1>2, <1>7
<1>10. \A h \in Groups : h # g => (Full(h)' <=> Full(h))
  BY <1>6 DEF Full
<1>11. Types'
  <2>1. PoolTypes'
    BY <1>1, <1>7 DEF FlushInv, Types, PoolTypes
  <2>2. ListTypes'
    BY <1>3, <1>6 DEF FlushInv, Types, ListTypes
  <2>3. BlockTypes'
    <3>1. Len(blocks[g]) \in Nat /\ Len(blocks[g]) < GroupSize
      BY <1>3, BoundsAssumption DEF FlushInv, Types, BlockTypes, Full
    <3>2. Len(blocks[g]) + 1 <= GroupSize
      BY <3>1, BoundsAssumption
    <3> QED BY <1>6, <3>2 DEF FlushInv, Types, BlockTypes
  <2>4. DataTypes'
    BY <1>1, PositionIs DEF FlushInv, Types, DataTypes
  <2>5. CountTypes'
    BY <1>1 DEF FlushInv, Types, CountTypes
  <2> QED BY <1>1, <2>1, <2>2, <2>3, <2>4, <2>5 DEF Types
<1>12. FlushHasWork'
  <2> SUFFICES ASSUME NEW h \in Groups, Pending(h)' PROVE (blocks[h] # <<>> /\ Listed(h))'
    BY DEF FlushHasWork
  <2>1. CASE h = g
    BY <1>3, <1>6, <2>1
  <2>2. CASE h # g
    BY <1>3, <1>6, <1>9, <2>2 DEF FlushInv, FlushHasWork
  <2> QED BY <2>1, <2>2
<1>13. FlushIsPosted'
  <2> SUFFICES ASSUME NEW h \in Groups
               PROVE  (/\ Full(h) => Pending(h)
                       /\ pool = "running" /\ Pending(h) => Full(h)
                       /\ pool = "draining" /\ blocks[h] # <<>> => Pending(h))'
    BY DEF FlushIsPosted
  <2>1. CASE h = g
    BY <1>1, <1>8, <2>1
  <2>2. CASE h # g
    BY <1>1, <1>9, <1>10, <2>2 DEF FlushInv, FlushIsPosted
  <2> QED BY <2>1, <2>2
<1>14. StoppedIsEmpty'
  BY <1>1 DEF StoppedIsEmpty
<1> QED BY <1>7, <1>11, <1>12, <1>13, <1>14 DEF FlushInv

\* The stop of the storage posts every group that holds blocks and is not posted.
LEMMA StopKeepsFlushes ==
    ASSUME FlushInv, Stop
    PROVE  FlushInv'
<1>1. /\ pool = "running" /\ pool' = "draining"
      /\ UNCHANGED <<cacheGroups, blocks, disk, worker, stage, stored, latest,
                     badStored, locked, failed>>
  BY DEF Stop
<1>2. PICK order \in [1 .. Cardinality(OpenGroups) -> OpenGroups] :
         /\ InListOrder(order)
         /\ tasks' = tasks \o [k \in DOMAIN order |-> FlushTask(cacheGroups[order[k]])]
  BY DEF Stop
<1>3. /\ cacheGroups \in Seq(Groups)
      /\ \A k, l \in DOMAIN cacheGroups : cacheGroups[k] = cacheGroups[l] => k = l
  BY DEF FlushInv, Types, ListTypes
<1>4. OpenGroups \subseteq 1 .. Len(cacheGroups) /\ Len(cacheGroups) \in Nat
  BY <1>3 DEF OpenGroups
<1>5. PICK n \in Nat : n = Cardinality(OpenGroups)
  <2>1. IsFiniteSet(1 .. Len(cacheGroups))
    BY <1>4, FS_Interval
  <2>2. IsFiniteSet(OpenGroups)
    BY <1>4, <2>1, FS_Subset
  <2> QED BY <2>2, FS_CardinalityType
<1>6. PICK more : more = [k \in 1 .. n |-> FlushTask(cacheGroups[order[k]])]
  OBVIOUS
<1>7. /\ order \in [1 .. n -> OpenGroups]
      /\ DOMAIN order = 1 .. n
      /\ tasks' = tasks \o more
  BY <1>2, <1>5, <1>6
<1>8. \A k \in OpenGroups : /\ k \in DOMAIN cacheGroups /\ cacheGroups[k] \in Groups
                            /\ ~ Full(cacheGroups[k]) /\ blocks[cacheGroups[k]] # <<>>
  BY <1>3 DEF OpenGroups
<1>9. \A k, l \in 1 .. n : order[k] = order[l] => k = l
  <2>1. \A k, l \in 1 .. n : k < l => order[k] < order[l]
    BY <1>2, <1>7 DEF InListOrder
  <2>2. \A k \in 1 .. n : order[k] \in Nat
    <3>1. \A k \in 1 .. n : order[k] \in OpenGroups
      BY <1>7
    <3>2. OpenGroups \subseteq Nat
      BY <1>4
    <3> QED BY <3>1, <3>2
  <2>3. \A k, l \in 1 .. n : k < l \/ l < k \/ k = l
    OBVIOUS
  <2> QED BY <2>1, <2>2, <2>3
<1>10. \A k \in OpenGroups : \E j \in 1 .. n : order[j] = k
  BY <1>2, <1>7 DEF InListOrder, ToSet
<1>11. more \in Seq(Task) /\ DOMAIN more = 1 .. n
  <2>1. \A k \in 1 .. n : FlushTask(cacheGroups[order[k]]) \in Task
    BY <1>7, <1>8 DEF Task
  <2>2. more \in [1 .. n -> Task]
    BY <1>6, <2>1
  <2> QED BY <1>5, <2>2
<1>12. \A g, h : FlushTask(g) = FlushTask(h) => g = h
  BY DEF FlushTask
<1>13. \A j \in 1 .. n : \A g \in Groups : more[j] = FlushTask(g) <=> cacheGroups[order[j]] = g
  BY <1>6, <1>12
<1>14. ASSUME NEW j \in DOMAIN more, NEW l \in DOMAIN more, NEW g \in Groups,
              more[j] = FlushTask(g), more[l] = FlushTask(g)
       PROVE  j = l
  <2>1. /\ cacheGroups[order[j]] = cacheGroups[order[l]]
        /\ order[j] \in DOMAIN cacheGroups /\ order[l] \in DOMAIN cacheGroups
    BY <1>7, <1>8, <1>11, <1>13, <1>14
  <2> QED BY <1>3, <1>9, <1>11, <2>1
<1>15. ASSUME NEW j \in DOMAIN more, NEW g \in Groups, more[j] = FlushTask(g)
       PROVE  ~ Pending(g) /\ blocks[g] # <<>> /\ Listed(g)
  <2>1. order[j] \in OpenGroups /\ cacheGroups[order[j]] = g
    BY <1>7, <1>11, <1>13, <1>15
  <2>2. ~ Full(g) /\ blocks[g] # <<>> /\ Listed(g)
    BY <1>8, <2>1 DEF Listed
  <2> QED BY <1>1, <2>2 DEF FlushInv, FlushIsPosted
<1>16. /\ tasks' \in Seq(Task)
       /\ \A g \in Groups : Pending(g)'
             <=> Pending(g) \/ \E j \in DOMAIN more : more[j] = FlushTask(g)
       /\ OneAtATime'
  BY <1>1, <1>7, <1>11, <1>14, <1>15, FlushesPosted
<1>17. Types'
  <2>1. PoolTypes'
    BY <1>1, <1>16 DEF FlushInv, Types, PoolTypes
  <2>2. ListTypes' /\ BlockTypes' /\ DataTypes' /\ PieceTypes' /\ CountTypes'
    BY <1>1
       DEF FlushInv, Types, ListTypes, Listed, BlockTypes, DataTypes,
           PieceTypes, CountTypes
  <2> QED BY <2>1, <2>2 DEF Types
<1>18. \A g \in Groups : Listed(g)' <=> Listed(g)
  BY <1>1 DEF Listed
<1>19. FlushHasWork'
  BY <1>1, <1>15, <1>16, <1>18 DEF FlushInv, FlushHasWork
<1>20. ASSUME NEW g \in Groups, blocks[g] # <<>> PROVE Pending(g)'
  <2>1. CASE Full(g)
    BY <1>16, <2>1 DEF FlushInv, FlushIsPosted
  <2>2. CASE ~ Full(g)
    <3>1. PICK k \in DOMAIN cacheGroups : cacheGroups[k] = g
      BY <1>20 DEF FlushInv, Types, ListTypes, Listed
    <3>2. k \in OpenGroups
      BY <1>20, <2>2, <3>1 DEF OpenGroups
    <3>3. PICK j \in 1 .. n : order[j] = k
      BY <1>10, <3>2
    <3>4. more[j] = FlushTask(g)
      BY <1>13, <3>1, <3>3
    <3> QED BY <1>11, <1>16, <3>4
  <2> QED BY <2>1, <2>2
<1>21. FlushIsPosted'
  <2>1. \A g \in Groups : Full(g)' => Full(g)
    BY <1>1 DEF Full
  <2> QED BY <1>1, <1>16, <1>20, <2>1 DEF FlushInv, FlushIsPosted
<1>22. StoppedIsEmpty'
  BY <1>1 DEF StoppedIsEmpty
<1> QED BY <1>16, <1>17, <1>19, <1>21, <1>22 DEF FlushInv

LEMMA StoppedKeepsFlushes ==
    ASSUME FlushInv, Stopped
    PROVE  FlushInv' /\ (\A g \in Groups : blocks[g] = <<>> /\ blocks'[g] = <<>>)
<1>1. /\ pool = "draining" /\ tasks = <<>> /\ (\A w \in Workers : worker[w] = Idle)
      /\ pool' = "stopped" /\ cacheGroups' = <<>> /\ blocks' = [g \in Groups |-> <<>>]
      /\ UNCHANGED <<disk, tasks, worker, stage, stored, latest, boundVars>>
  BY DEF Stopped
<1>2. \A g \in Groups : ~ Pending(g) /\ ~ Pending(g)'
  BY <1>1 DEF Pending, Queued, Holds, Idle
<1>3. \A g \in Groups : blocks[g] = <<>> /\ blocks'[g] = <<>> /\ ~ Full(g)'
  BY <1>1, <1>2, BoundsAssumption DEF FlushInv, FlushIsPosted, Full
<1>4. Types'
  <2>1. PoolTypes'
    BY <1>1 DEF FlushInv, Types, PoolTypes
  <2>2. ListTypes' /\ BlockTypes'
    BY <1>1, <1>3, BoundsAssumption DEF FlushInv, Types, ListTypes, BlockTypes
  <2>3. DataTypes' /\ PieceTypes' /\ CountTypes'
    BY <1>1 DEF FlushInv, Types, DataTypes, PieceTypes, CountTypes, boundVars
  <2> QED BY <2>1, <2>2, <2>3 DEF Types
<1>5. OneAtATime'
  BY <1>1 DEF OneAtATime, Queued, Holds, Idle
<1>6. FlushHasWork' /\ FlushIsPosted'
  BY <1>1, <1>2, <1>3 DEF FlushHasWork, FlushIsPosted
<1>7. StoppedIsEmpty'
  BY <1>1, <1>3 DEF StoppedIsEmpty, Idle
<1> QED BY <1>3, <1>4, <1>5, <1>6, <1>7 DEF FlushInv

LEMMA RestartKeepsFlushes ==
    ASSUME FlushInv, Start
    PROVE  FlushInv'
<1>1. /\ pool = "stopped" /\ pool' = "running"
      /\ UNCHANGED <<cacheGroups, blocks, disk, tasks, worker, stage, stored, latest, boundVars>>
  BY DEF Start
<1>2. tasks = <<>> /\ \A w \in Workers : worker[w] = Idle
  BY <1>1 DEF FlushInv, StoppedIsEmpty
<1>3. \A g \in Groups : ~ Pending(g) /\ ~ Pending(g)'
  BY <1>1, <1>2 DEF Pending, Queued, Holds, Idle
<1>4. Types'
  BY <1>1
     DEF FlushInv, Types, ListTypes, Listed, BlockTypes, PoolTypes, DataTypes,
              PieceTypes, CountTypes, boundVars
<1>5. OneAtATime'
  BY <1>1, <1>2 DEF OneAtATime, Queued, Holds, Idle
<1>6. \A g \in Groups : Full(g)' => Full(g)
  BY <1>1 DEF Full
<1>7. FlushHasWork' /\ FlushIsPosted' /\ StoppedIsEmpty'
  BY <1>1, <1>3, <1>6 DEF FlushInv, FlushHasWork, FlushIsPosted, StoppedIsEmpty
<1> QED BY <1>4, <1>5, <1>7 DEF FlushInv

LEMMA InitFlushes == Init => FlushInv
<1> SUFFICES ASSUME Init PROVE FlushInv
  OBVIOUS
<1>1. /\ cacheGroups = <<>> /\ tasks = <<>> /\ pool = "running"
      /\ blocks = [g \in Groups |-> <<>>] /\ worker = [w \in Workers |-> Idle]
      /\ disk = [at \in Positions |-> NoData] /\ latest = [at \in Positions |-> NoData]
      /\ stage = [p \in Pieces |-> "requested"] /\ stored = [p \in Pieces |-> {}]
      /\ badStored = 0 /\ failed = 0
  BY DEF Init
<1>2. \A w \in Workers : worker[w].run = "idle"
  BY <1>1 DEF Idle
<1>3. \A g \in Groups : blocks[g] = <<>> /\ ~ Full(g) /\ ~ Pending(g)
  BY <1>1, <1>2, BoundsAssumption DEF Full, Pending, Queued, Holds
<1>4. Types
  <2>1. ListTypes /\ BlockTypes
    BY <1>1, <1>3, BoundsAssumption DEF ListTypes, BlockTypes
  <2>2. PoolTypes
    BY <1>1, <1>2 DEF PoolTypes
  <2>3. DataTypes /\ PieceTypes /\ CountTypes
    BY <1>1 DEF DataTypes, PieceTypes, CountTypes
  <2> QED BY <2>1, <2>2, <2>3 DEF Types
<1>5. OneAtATime
  BY <1>1, <1>2 DEF OneAtATime, Queued, Holds
<1>6. FlushHasWork /\ FlushIsPosted /\ StoppedIsEmpty
  BY <1>1, <1>3 DEF FlushHasWork, FlushIsPosted, StoppedIsEmpty
<1> QED BY <1>4, <1>5, <1>6 DEF FlushInv

LEMMA NextFlushes == FlushInv /\ [Next]_vars => FlushInv'
<1> SUFFICES ASSUME FlushInv, [Next]_vars PROVE FlushInv'
  OBVIOUS
<1>1. CASE \E p \in Pieces : \E b \in Blocks[p], data \in Data : StoreBlock(p, b, data)
  BY <1>1, StoreKeepsFlushes
<1>2. ASSUME NEW w \in Workers, Work(w) PROVE FlushInv'
  BY <1>2, StartKeepsFlushes, CheckKeepsFlushes, WriteKeepsFlushes,
     EndKeepsFlushes DEF Work
<1>3. CASE Stop
  BY <1>3, StopKeepsFlushes
<1>4. CASE Stopped
  BY <1>4, StoppedKeepsFlushes
<1>5. CASE Start
  BY <1>5, RestartKeepsFlushes
<1>6. CASE UNCHANGED vars
  <2>1. UNCHANGED <<cacheGroups, blocks, disk, tasks, worker, pool, stage, stored, latest>>
        /\ UNCHANGED <<badStored, failed>>
    BY <1>6 DEF vars, boundVars
  <2> QED BY <2>1
       DEF FlushInv, Types, ListTypes, Listed, BlockTypes, PoolTypes,
           DataTypes,
                      PieceTypes, CountTypes, OneAtATime, FlushHasWork, FlushIsPosted,
                      StoppedIsEmpty, Pending, Queued, Holds, Full
<1> QED BY <1>1, <1>2, <1>3, <1>4, <1>5, <1>6 DEF Next

\* The number of flushes of a group, from their uniqueness.
LEMMA FlushCount ==
    ASSUME FlushInv, NEW g \in Groups
    PROVE  Flushes(g) = IF Pending(g) THEN 1 ELSE 0
<1> DEFINE queue == {k \in DOMAIN tasks : tasks[k] = FlushTask(g)}
           held == {w \in Workers : /\ worker[w].run \in {"flush", "written"}
                                    /\ worker[w].group = g}
<1>1. Flushes(g) = Cardinality(queue) + Cardinality(held)
  BY DEF Flushes
<1>2. /\ queue = {k \in DOMAIN tasks : Queued(k, g)}
      /\ held = {w \in Workers : Holds(w, g)}
  BY DEF Queued, Holds
<1> HIDE DEF queue, held
<1>3. \A x : Cardinality({x}) = 1
  BY FS_Singleton
<1>4. Cardinality({}) = 0
  BY FS_EmptySet
<1>5. CASE \E k \in DOMAIN tasks : Queued(k, g)
  <2>1. PICK k \in DOMAIN tasks : Queued(k, g)
    BY <1>5
  <2>2. /\ \A j \in DOMAIN tasks : Queued(j, g) => j = k
        /\ \A w \in Workers : ~ Holds(w, g)
    BY <2>1 DEF FlushInv, OneAtATime
  <2>3. queue = {k} /\ held = {}
    BY <1>2, <2>1, <2>2
  <2>4. Pending(g)
    BY <2>1 DEF Pending
  <2>5. Cardinality(queue) = 1 /\ Cardinality(held) = 0
    BY <1>3, <1>4, <2>3
  <2> QED BY <1>1, <2>4, <2>5
<1>6. CASE ~ (\E k \in DOMAIN tasks : Queued(k, g)) /\ \E w \in Workers : Holds(w, g)
  <2>1. PICK w \in Workers : Holds(w, g)
    BY <1>6
  <2>2. \A v \in Workers : Holds(v, g) => v = w
    BY <2>1 DEF FlushInv, OneAtATime
  <2>3. queue = {} /\ held = {w}
    BY <1>2, <1>6, <2>1, <2>2
  <2>4. Pending(g)
    BY <2>1 DEF Pending
  <2>5. Cardinality(queue) = 0 /\ Cardinality(held) = 1
    BY <1>3, <1>4, <2>3
  <2> QED BY <1>1, <2>4, <2>5
<1>7. CASE ~ (\E k \in DOMAIN tasks : Queued(k, g)) /\ ~ \E w \in Workers : Holds(w, g)
  <2>1. queue = {} /\ held = {}
    BY <1>2, <1>7
  <2> QED BY <1>1, <1>4, <1>7, <2>1 DEF Pending
<1> QED BY <1>5, <1>6, <1>7

LEMMA FlushInvTypes == FlushInv => TypeOK
<1> SUFFICES ASSUME FlushInv PROVE TypeOK
  OBVIOUS
<1>1. ToSet(cacheGroups) \subseteq Groups
  BY DEF FlushInv, Types, ListTypes, ToSet
<1>2. \A g \in Groups : /\ Len(blocks[g]) <= GroupSize
                        /\ ToSet(blocks[g]) \subseteq [at : Positions, data : Data]
  <2>1. \A g \in Groups : blocks[g] \in Seq(Stored) /\ Len(blocks[g]) <= GroupSize
    BY DEF FlushInv, Types, BlockTypes
  <2>2. \A s \in Seq(Stored) : ToSet(s) \subseteq Stored
    BY DEF ToSet
  <2> QED BY <2>1, <2>2 DEF Stored
<1> QED BY <1>1, <1>2
     DEF TypeOK, FlushInv, Types, PoolTypes, DataTypes, PieceTypes

\* A group has one flush at a time, and has it while it is full or the storage is
\* stopping, for any number of groups, blocks in a group, pieces and threads
\* (WriteCache::storeBlock and both WriteCache::flush).
THEOREM GroupsFlushOnce == Spec => []OneFlush
<1>1. FlushInv => OneFlush
  <2> SUFFICES ASSUME FlushInv PROVE OneFlush
    OBVIOUS
  <2>1. \A g \in Groups : Listed(g) <=> g \in ToSet(cacheGroups)
    BY DEF Listed, ToSet
  <2>2. ASSUME NEW g \in Groups
        PROVE  /\ Flushes(g) <= 1
               /\ Flushes(g) = 1 => blocks[g] # <<>> /\ g \in ToSet(cacheGroups)
               /\ Full(g) => Flushes(g) = 1
               /\ pool = "running" /\ Flushes(g) = 1 => Full(g)
    <3>1. Flushes(g) = IF Pending(g) THEN 1 ELSE 0
      BY FlushCount
    <3>2. CASE Pending(g)
      <4>1. blocks[g] # <<>> /\ Listed(g) /\ (pool = "running" => Full(g))
        BY <3>2 DEF FlushInv, FlushHasWork, FlushIsPosted
      <4> QED BY <2>1, <3>1, <3>2, <4>1
    <3>3. CASE ~ Pending(g)
      <4>1. ~ Full(g)
        BY <3>3 DEF FlushInv, FlushIsPosted
      <4> QED BY <3>1, <3>3, <4>1
    <3> QED BY <3>2, <3>3
  <2> QED BY <2>2, FlushInvTypes DEF OneFlush
<1> QED BY <1>1, InitFlushes, NextFlushes, PTL DEF Spec

-------------------------------------------------------------------------------
(* The blocks through every step. *)

LEMMA StoredIsData ==
    ASSUME NEW seq \in Seq(Stored)
    PROVE  \A l \in DOMAIN seq : seq[l].data # NoData
<1>1. \A x \in Stored : x.data # NoData
  BY DEF Stored, Data, NoData
<1> QED BY <1>1

\* A step that changes no data.
LEMMA SameData ==
    ASSUME KeepInv, UNCHANGED <<blocks, disk, latest, badStored, failed>>,
           \A w \in Workers : worker'[w].run = "written" =>
              worker[w].run = "written" /\ worker'[w].group = worker[w].group
    PROVE  (KeptIsKnown /\ KnownIsKept /\ WrittenOnDisk /\ AllGood)'
<1>1. \A g, at : InGroup(g, at)' <=> InGroup(g, at)
  BY DEF InGroup
<1>2. \A at : (InCache(at)' <=> InCache(at)) /\ (Known(at)' <=> Known(at))
  BY <1>1 DEF InCache, Known
<1>3. KeptIsKnown' /\ KnownIsKept'
  BY <1>2 DEF KeepInv, KeptIsKnown, KnownIsKept
<1>4. WrittenOnDisk'
  BY <1>1 DEF KeepInv, WrittenOnDisk
<1>5. AllGood'
  BY DEF KeepInv, AllGood
<1> QED BY <1>3, <1>4, <1>5

LEMMA StartKeepsBlocks ==
    ASSUME KeepInv, NEW w \in Workers, StartTask(w)
    PROVE  (KeptIsKnown /\ KnownIsKept /\ WrittenOnDisk /\ AllGood)'
<1>1. UNCHANGED <<blocks, disk, latest, badStored, failed>>
  BY DEF StartTask, boundVars
<1>2. PICK x : /\ worker' = [worker EXCEPT ![w] = x]
               /\ \/ x = Flushing(Head(tasks).group, 0)
                  \/ \E seen : x = Checking(Head(tasks).piece, seen)
  BY DEF StartTask
<1>3. x.run # "written"
  BY <1>2 DEF Flushing, Checking
<1>4. worker'[w] = x /\ \A v \in Workers : v # w => worker'[v] = worker[v]
  BY <1>2, WorkerSet DEF KeepInv, FlushInv, Types
<1> QED BY <1>1, <1>3, <1>4, SameData

LEMMA CheckKeepsBlocks ==
    ASSUME KeepInv, NEW w \in Workers, FinishCheck(w)
    PROVE  (KeptIsKnown /\ KnownIsKept /\ WrittenOnDisk /\ AllGood)'
<1>1. /\ UNCHANGED <<blocks, disk, latest, badStored, failed>>
      /\ worker' = [worker EXCEPT ![w] = Idle]
  BY DEF FinishCheck, boundVars
<1>2. worker'[w] = Idle /\ \A v \in Workers : v # w => worker'[v] = worker[v]
  BY <1>1, WorkerSet DEF KeepInv, FlushInv, Types
<1>3. Idle.run # "written"
  BY DEF Idle
<1> QED BY <1>1, <1>2, <1>3, SameData

\* A group is written: its blocks are in the files then, or the write goes on or
\* has failed for good.
LEMMA WriteKeepsBlocks ==
    ASSUME KeepInv, NEW w \in Workers, FlushWrite(w)
    PROVE  (KeptIsKnown /\ KnownIsKept /\ WrittenOnDisk /\ AllGood)'
<1> FlushInv
  BY DEF KeepInv
<1>1. /\ worker[w].run = "flush" /\ worker[w].group \in Groups
      /\ UNCHANGED <<cacheGroups, tasks, pool, stage, stored, latest, badStored, stops>>
      /\ \A v \in Workers : v # w => worker'[v] = worker[v]
      /\ worker' = [v \in Workers |-> worker'[v]]
      /\ worker'[w].run \in {"flush", "written"} /\ worker'[w].group = worker[w].group
  BY WriteIs
<1>2. PICK h \in Groups : h = worker[w].group
  BY <1>1
<1>3. PICK seq \in Sortings(blocks[h]) :
         /\ blocks' = [blocks EXCEPT ![h] = seq]
         /\ \/ disk' = DiskAfter(seq) /\ failed' = failed
            \/ disk' = disk /\ failed' = failed /\ worker'[w].run = "flush"
            \/ disk' = disk /\ failed' = failed + 1
  BY <1>2, WriteIs
<1>4. BlockTypes /\ DataTypes /\ blocks[h] \in Seq(Stored)
  BY DEF FlushInv, Types, BlockTypes
<1>5. /\ \A g \in Groups : \A at : InGroup(g, at)' <=> InGroup(g, at)
      /\ \A g \in Groups : \A l \in DOMAIN blocks'[g] :
            \E k \in DOMAIN blocks[g] : blocks'[g][l] = blocks[g][k]
  BY <1>3, <1>4, GroupSorted
<1>6. seq \in Seq(Stored) /\ blocks'[h] = seq
  BY <1>3, <1>4, SortedGroup DEF BlockTypes
<1>7. \A at : InCache(at)' <=> InCache(at)
  BY <1>5 DEF InCache
<1>8. \A at \in Positions :
         \/ disk'[at] = disk[at]
         \/ InCache(at) /\ \E l \in DOMAIN blocks'[h] : disk'[at] = blocks'[h][l].data
  <2> TAKE at \in Positions
  <2>1. CASE disk' = disk
    BY <2>1
  <2>2. CASE disk' = DiskAfter(seq)
    <3>1. \/ DiskAfter(seq)[at] = disk[at]
          \/ \E l \in DOMAIN seq : seq[l].at = at /\ DiskAfter(seq)[at] = seq[l].data
      BY <1>4, <1>6, DiskAfterWrite
    <3>2. \A l \in DOMAIN seq : seq[l].at = at => InCache(at)
      BY <1>5, <1>6 DEF InCache, InGroup
    <3> QED BY <1>6, <2>2, <3>1, <3>2
  <2> QED BY <1>3, <2>1, <2>2
<1>9. \A at \in Positions : disk[at] # NoData => disk'[at] # NoData
  BY <1>6, <1>8, StoredIsData
<1>10. \A at \in Positions : Known(at)' <=> Known(at)
  BY <1>1 DEF Known
<1>11. failed' = 0 => failed = 0
  BY <1>3 DEF FlushInv, Types, CountTypes
<1>12. KeptIsKnown'
  BY <1>7, <1>8, <1>10 DEF KeepInv, KeptIsKnown
<1>13. KnownIsKept'
  BY <1>7, <1>9, <1>10, <1>11 DEF KeepInv, KnownIsKept
<1>14. WrittenOnDisk'
  <2> SUFFICES ASSUME failed' = 0, NEW v \in Workers, worker'[v].run = "written",
                      NEW g, g = worker'[v].group, NEW at \in Positions, InGroup(g, at)'
               PROVE  disk'[at] # NoData
    BY DEF WrittenOnDisk, InGroup
  <2>1. CASE v = w
    <3>1. disk' = DiskAfter(seq)
      BY <1>3, <2>1 DEF FlushInv, Types, CountTypes
    <3>2. \E l \in DOMAIN seq : seq[l].at = at
      BY <1>1, <1>2, <1>6, <2>1 DEF InGroup
    <3>3. \E l \in DOMAIN seq : DiskAfter(seq)[at] = seq[l].data
      BY <1>4, <1>6, <3>2, DiskAfterWrite
    <3>4. \A l \in DOMAIN seq : seq[l].data # NoData
      BY <1>6, StoredIsData
    <3> QED BY <3>1, <3>3, <3>4
  <2>2. CASE v # w
    <3>1. worker[v].run = "written" /\ g = worker[v].group
      BY <1>1, <2>2
    <3>2. g \in Groups
      BY <3>1 DEF FlushInv, Types, PoolTypes
    <3>3. InGroup(g, at)
      BY <1>5, <3>2
    <3> QED BY <1>9, <1>11, <3>1, <3>3 DEF KeepInv, WrittenOnDisk
  <2> QED BY <2>1, <2>2
<1>15. AllGood'
  <2> SUFFICES ASSUME badStored = 0
               PROVE  /\ \A at \in Positions : disk'[at] # "bad" /\ latest'[at] # "bad"
                      /\ \A g \in Groups : \A l \in DOMAIN blocks'[g] :
                            blocks'[g][l].data = "good"
    BY <1>1 DEF AllGood
  <2>1. \A g \in Groups : \A l \in DOMAIN blocks'[g] : blocks'[g][l].data = "good"
    BY <1>5 DEF KeepInv, AllGood
  <2>2. \A at \in Positions : disk'[at] # "bad"
    BY <1>8, <2>1 DEF KeepInv, AllGood
  <2> QED BY <1>1, <2>1, <2>2 DEF KeepInv, AllGood
<1> QED BY <1>12, <1>13, <1>14, <1>15

\* A group that was written is emptied: what it held is in the files.
LEMMA EndKeepsBlocks ==
    ASSUME KeepInv, NEW w \in Workers, FlushEnd(w)
    PROVE  (KeptIsKnown /\ KnownIsKept /\ WrittenOnDisk /\ AllGood)'
<1> FlushInv
  BY DEF KeepInv
<1>1. /\ worker[w].run = "written" /\ worker' = [worker EXCEPT ![w] = Idle]
      /\ UNCHANGED <<disk, latest, badStored, failed>>
  BY DEF FlushEnd, boundVars
<1>2. PICK h \in Groups : h = worker[w].group
  BY <1>1 DEF FlushInv, Types, PoolTypes
<1>3. /\ blocks'[h] = <<>> /\ \A g \in Groups : g # h => blocks'[g] = blocks[g]
  BY <1>2 DEF FlushEnd, FlushInv, Types, BlockTypes
<1>4. worker'[w] = Idle /\ \A v \in Workers : v # w => worker'[v] = worker[v]
  BY <1>1, WorkerSet DEF FlushInv, Types
<1>5. Idle.run # "written"
  BY DEF Idle
<1>6. \A at : ~ InGroup(h, at)'
  BY <1>3 DEF InGroup
<1>7. \A g \in Groups : \A at : g # h => (InGroup(g, at)' <=> InGroup(g, at))
  BY <1>3 DEF InGroup
<1>8. \A at : InCache(at)' => InCache(at)
  BY <1>6, <1>7 DEF InCache
<1>9. failed = 0 => \A at \in Positions : InCache(at) => InCache(at)' \/ disk[at] # NoData
  BY <1>1, <1>2, <1>7 DEF InCache, KeepInv, WrittenOnDisk
<1>10. \A at \in Positions : Known(at)' <=> Known(at)
  BY <1>1 DEF Known
<1>11. KeptIsKnown' /\ KnownIsKept'
  BY <1>1, <1>8, <1>9, <1>10 DEF KeepInv, KeptIsKnown, KnownIsKept
<1>12. WrittenOnDisk'
  <2> SUFFICES ASSUME failed = 0, NEW v \in Workers, worker'[v].run = "written",
                      NEW g, g = worker'[v].group, NEW at \in Positions, InGroup(g, at)'
               PROVE  disk[at] # NoData
    BY <1>1 DEF WrittenOnDisk, InGroup
  <2>1. v # w /\ worker[v].run = "written" /\ g = worker[v].group
    BY <1>4, <1>5
  <2>2. g \in Groups
    BY <2>1 DEF FlushInv, Types, PoolTypes
  <2>3. InGroup(g, at)
    BY <1>6, <1>7, <2>2
  <2> QED BY <2>1, <2>3 DEF KeepInv, WrittenOnDisk
<1>13. AllGood'
  <2>1. \A g \in Groups : \A l \in DOMAIN blocks'[g] : g # h
    BY <1>3
  <2> QED BY <1>1, <1>3, <2>1 DEF KeepInv, AllGood
<1> QED BY <1>11, <1>12, <1>13

\* A stored block is in the group it went to, and no group that was written takes
\* blocks.
LEMMA StoreKeepsBlocks ==
    ASSUME KeepInv, NEW p \in Pieces, NEW b \in Blocks[p], NEW data \in Data,
           StoreBlock(p, b, data)
    PROVE  (KeptIsKnown /\ KnownIsKept /\ WrittenOnDisk /\ AllGood)'
<1> FlushInv
  BY DEF KeepInv
<1>0. StoredIn(p, b, data)
  BY StoreIs
<1>1. /\ pool = "running" /\ UNCHANGED <<disk, worker, failed>>
      /\ badStored' = 0 => badStored = 0 /\ data # "bad"
      /\ latest' = [latest EXCEPT ![<<p, b>>] = data]
  BY <1>0 DEF StoredIn
<1>2. PICK new : /\ new = [at |-> <<p, b>>, data |-> data]
                 /\ \E g \in Groups : /\ GroupFor(g)
                                      /\ blocks' = [blocks EXCEPT ![g] = Append(blocks[g], new)]
  BY <1>0 DEF StoredIn
<1>2a. PICK g \in Groups : GroupFor(g) /\ blocks' = [blocks EXCEPT ![g] = Append(blocks[g], new)]
  BY <1>2
<1>3. new \in Stored /\ new.at = <<p, b>> /\ new.data = data /\ <<p, b>> \in Positions
  BY <1>2, PositionIs DEF Stored
<1>4. ~ Pending(g)
  <2>1. ~ Full(g)
    BY <1>2a, GroupHasRoom
  <2> QED BY <1>1, <2>1 DEF FlushInv, FlushIsPosted
<1>5. blocks \in [Groups -> Seq(Stored)] /\ blocks[g] \in Seq(Stored)
  BY DEF FlushInv, Types, BlockTypes
<1>6. /\ blocks'[g] = Append(blocks[g], new)
      /\ \A h \in Groups : h # g => blocks'[h] = blocks[h]
  BY <1>2a, <1>5
<1>7. /\ \A l \in DOMAIN blocks[g] : l \in DOMAIN blocks'[g] /\ blocks'[g][l] = blocks[g][l]
      /\ \E l \in DOMAIN blocks'[g] : blocks'[g][l] = new
      /\ \A l \in DOMAIN blocks'[g] :
            blocks'[g][l] = new \/ (l \in DOMAIN blocks[g] /\ blocks'[g][l] = blocks[g][l])
  <2>1. PICK n \in Nat : n = Len(blocks[g]) /\ DOMAIN blocks[g] = 1 .. n
    BY <1>5
  <2>2. /\ blocks'[g] \in Seq(Stored) /\ Len(blocks'[g]) = n + 1
        /\ blocks'[g][n + 1] = new /\ \A l \in 1 .. n : blocks'[g][l] = blocks[g][l]
    BY <1>3, <1>5, <1>6, <2>1, AppendProperties
  <2>3. DOMAIN blocks'[g] = 1 .. n + 1
    BY <2>2
  <2>4. n + 1 \in 1 .. n + 1 /\ \A l \in 1 .. n : l \in 1 .. n + 1
    OBVIOUS
  <2>5. \A l \in 1 .. n + 1 : l = n + 1 \/ l \in 1 .. n
    OBVIOUS
  <2> QED BY <2>1, <2>2, <2>3, <2>4, <2>5
<1>8. \A h \in Groups : \A at : InGroup(h, at)' <=> InGroup(h, at) \/ (h = g /\ at = <<p, b>>)
  <2> TAKE h \in Groups
  <2> TAKE at
  <2>1. CASE h # g
    BY <1>6, <2>1 DEF InGroup
  <2>2. CASE h = g
    BY <1>3, <1>7, <2>2 DEF InGroup
  <2> QED BY <2>1, <2>2
<1>9. \A at : InCache(at)' <=> InCache(at) \/ at = <<p, b>>
  BY <1>8 DEF InCache
<1>10. \A at \in Positions : Known(at)' <=> Known(at) \/ at = <<p, b>>
  <2>1. data # NoData
    BY DEF Data, NoData
  <2>2. latest \in [Positions -> Data \cup {NoData}]
    BY DEF FlushInv, Types, DataTypes
  <2> QED BY <1>1, <1>3, <2>1, <2>2 DEF Known
<1>11. KeptIsKnown' /\ KnownIsKept'
  BY <1>1, <1>9, <1>10 DEF KeepInv, KeptIsKnown, KnownIsKept
<1>12. WrittenOnDisk'
  <2> SUFFICES ASSUME failed = 0, NEW v \in Workers, worker[v].run = "written",
                      NEW h, h = worker[v].group, NEW at \in Positions, InGroup(h, at)'
               PROVE  disk[at] # NoData
    BY <1>1 DEF WrittenOnDisk, InGroup
  <2>1. h \in Groups
    BY DEF FlushInv, Types, PoolTypes
  <2>2. h # g
    BY <1>4 DEF Pending, Holds
  <2>3. InGroup(h, at)
    BY <1>8, <2>1, <2>2
  <2> QED BY <2>3 DEF KeepInv, WrittenOnDisk
<1>13. AllGood'
  <2> SUFFICES ASSUME badStored' = 0
               PROVE  /\ \A at \in Positions : disk'[at] # "bad" /\ latest'[at] # "bad"
                      /\ \A h \in Groups : \A l \in DOMAIN blocks'[h] :
                            blocks'[h][l].data = "good"
    BY DEF AllGood
  <2>1. badStored = 0 /\ data = "good"
    BY <1>1 DEF Data
  <2>2. \A at \in Positions : disk'[at] # "bad"
    BY <1>1, <2>1 DEF KeepInv, AllGood
  <2>3. \A at \in Positions : latest'[at] # "bad"
    BY <1>1, <2>1 DEF KeepInv, AllGood, FlushInv, Types, DataTypes
  <2>4. ASSUME NEW h \in Groups, NEW l \in DOMAIN blocks'[h] PROVE blocks'[h][l].data = "good"
    <3>1. CASE h # g
      BY <1>6, <2>1, <3>1 DEF KeepInv, AllGood
    <3>2. CASE h = g
      BY <1>3, <1>7, <2>1, <3>2 DEF KeepInv, AllGood
    <3> QED BY <3>1, <3>2
  <2> QED BY <2>2, <2>3, <2>4
<1> QED BY <1>11, <1>12, <1>13

\* The stop ends with groups that are empty; nothing else touches the data.
LEMMA PoolKeepsBlocks ==
    ASSUME KeepInv, Stop \/ Stopped \/ Start
    PROVE  (KeptIsKnown /\ KnownIsKept /\ WrittenOnDisk /\ AllGood)'
<1>1. CASE Stop \/ Start
  <2>1. UNCHANGED <<blocks, disk, latest, badStored, failed, worker>>
    BY <1>1 DEF Stop, Start, boundVars
  <2> QED BY <2>1, SameData
<1>2. CASE Stopped
  <2>1. \A g \in Groups : blocks[g] = <<>> /\ blocks'[g] = <<>>
    BY <1>2, StoppedKeepsFlushes DEF KeepInv
  <2>2. UNCHANGED <<disk, latest, badStored, failed, worker>>
    BY <1>2 DEF Stopped, boundVars
  <2>3. \A g \in Groups : \A at : ~ InGroup(g, at) /\ ~ InGroup(g, at)'
    BY <2>1 DEF InGroup
  <2>4. \A at : ~ InCache(at) /\ ~ InCache(at)'
    BY <2>3 DEF InCache
  <2>5. \A at : Known(at)' <=> Known(at)
    BY <2>2 DEF Known
  <2>6. KeptIsKnown' /\ KnownIsKept'
    BY <2>2, <2>4, <2>5 DEF KeepInv, KeptIsKnown, KnownIsKept
  <2>7. WrittenOnDisk'
    <3>1. \A w \in Workers : worker'[w].run # "written"
      BY <1>2 DEF Stopped, Idle
    <3> QED BY <3>1 DEF WrittenOnDisk
  <2>8. AllGood'
    BY <2>1, <2>2 DEF KeepInv, AllGood
  <2> QED BY <2>6, <2>7, <2>8
<1> QED BY <1>1, <1>2

LEMMA InitKeeps == Init => KeepInv
<1> SUFFICES ASSUME Init PROVE KeepInv
  OBVIOUS
<1>1. FlushInv
  BY InitFlushes
<1>2. /\ blocks = [g \in Groups |-> <<>>] /\ worker = [w \in Workers |-> Idle]
      /\ disk = [at \in Positions |-> NoData] /\ latest = [at \in Positions |-> NoData]
  BY DEF Init
<1>3. \A g \in Groups : \A at : ~ InGroup(g, at)
  BY <1>2 DEF InGroup
<1>4. KeptIsKnown /\ KnownIsKept
  BY <1>2, <1>3 DEF KeptIsKnown, KnownIsKept, Known, InCache
<1>5. WrittenOnDisk
  BY <1>2 DEF WrittenOnDisk, Idle
<1>6. AllGood
  BY <1>2 DEF AllGood, NoData
<1> QED BY <1>1, <1>4, <1>5, <1>6 DEF KeepInv

LEMMA NextKeeps == KeepInv /\ [Next]_vars => KeepInv'
<1> SUFFICES ASSUME KeepInv, [Next]_vars
    PROVE (KeptIsKnown /\ KnownIsKept /\ WrittenOnDisk /\ AllGood)'
  BY NextFlushes DEF KeepInv
<1>1. CASE \E p \in Pieces : \E b \in Blocks[p], data \in Data : StoreBlock(p, b, data)
  BY <1>1, StoreKeepsBlocks
<1>2. ASSUME NEW w \in Workers, Work(w)
      PROVE  (KeptIsKnown /\ KnownIsKept /\ WrittenOnDisk /\ AllGood)'
  BY <1>2, StartKeepsBlocks, CheckKeepsBlocks, WriteKeepsBlocks, EndKeepsBlocks
     DEF Work
<1>3. CASE Stop \/ Stopped \/ Start
  BY <1>3, PoolKeepsBlocks
<1>4. CASE UNCHANGED vars
  <2>1. UNCHANGED <<blocks, disk, latest, badStored, failed, worker>>
    BY <1>4 DEF vars, boundVars
  <2> QED BY <2>1, SameData
<1> QED BY <1>1, <1>2, <1>3, <1>4 DEF Next

\* No stored block is lost as long as no write fails for good, and a storage that
\* has stopped has all blocks in the files, for any number of groups, blocks,
\* pieces, threads and retries (WriteCache::storeBlock, both WriteCache::flush,
\* DownloadStorage::stop).
THEOREM BlocksAreKept == Spec => []NothingLost
<1>1. KeepInv => NothingLost
  <2> SUFFICES ASSUME KeepInv, failed = 0
               PROVE  /\ \A at \in Positions :
                            latest[at] = NoData \/ disk[at] # NoData
                               \/ \E g \in ToSet(cacheGroups) : \E l \in DOMAIN blocks[g] :
                                     blocks[g][l].at = at
                      /\ pool = "stopped" /\ badStored = 0 => disk = latest
    BY DEF NothingLost
  <2>1. \A at \in Positions : Known(at) => disk[at] # NoData \/ InCache(at)
    BY DEF KeepInv, KnownIsKept
  <2>2. ASSUME NEW at \in Positions, InCache(at)
        PROVE  \E g \in ToSet(cacheGroups) : \E l \in DOMAIN blocks[g] : blocks[g][l].at = at
    <3>1. PICK g \in Groups : InGroup(g, at)
      BY <2>2 DEF InCache
    <3>2. blocks[g] # <<>>
      BY <3>1 DEF InGroup
    <3>3. Listed(g)
      BY <3>2 DEF KeepInv, FlushInv, Types, ListTypes
    <3>4. g \in ToSet(cacheGroups)
      BY <3>3 DEF Listed, ToSet
    <3> QED BY <3>1, <3>4 DEF InGroup
  <2>3. ASSUME pool = "stopped", badStored = 0 PROVE disk = latest
    <3>1. /\ disk \in [Positions -> Data \cup {NoData}]
          /\ latest \in [Positions -> Data \cup {NoData}]
      BY DEF KeepInv, FlushInv, Types, DataTypes
    <3>2. \A at : ~ InCache(at)
      BY <2>3 DEF KeepInv, FlushInv, StoppedIsEmpty, InCache, InGroup
    <3>3. \A at \in Positions : disk[at] # NoData <=> latest[at] # NoData
      BY <2>1, <3>2 DEF KeepInv, KeptIsKnown, Known
    <3>4. \A at \in Positions : disk[at] # "bad" /\ latest[at] # "bad"
      BY <2>3 DEF KeepInv, AllGood
    <3>5. \A at \in Positions : disk[at] = latest[at]
      <4> TAKE at \in Positions
      <4>1. /\ disk[at] \in {"good", "bad", NoData}
            /\ latest[at] \in {"good", "bad", NoData}
        BY <3>1 DEF Data
      <4> QED BY <3>3, <3>4, <4>1
    <3> QED BY <3>1, <3>5
  <2> QED BY <2>1, <2>2, <2>3 DEF Known
<1> QED BY <1>1, InitKeeps, NextKeeps, PTL DEF Spec

-------------------------------------------------------------------------------
(* Bandwidth.  Nobody who waits for quota is forgotten, for any streams, peers,  *)
(* limits and sizes.  UsersAwake counts the requests of a stream; the invariant  *)
(* BandwidthHolds says where they are: once in the queue or once among what a    *)
(* round gives (StreamWaits), neither unless it waits.  A round picks requests   *)
(* out of the queue (Picked), so it neither loses nor doubles one, and its equal *)
(* shares are together no more than the quota (SharesFacts).  For the uploader   *)
(* it says who is to send the blocks that wait (BlocksCovered).                  *)

Block == [peer : Peers, length : Sizes, no : Nat]

\* What was picked out of a sequence: every element from a place of its own.
Picked(some, seq) ==
    \E at \in [1 .. Len(some) -> 1 .. Len(seq)] :
        \A i, j \in 1 .. Len(some) : some[i] = seq[at[i]] /\ (i # j => at[i] # at[j])

\* Total adds one amount after the other.
Sums(sum, seq) ==
    /\ sum \in [0 .. Len(seq) -> Nat]
    /\ sum[0] = 0 /\ \A k \in 0 .. Len(seq) - 1 : sum[k + 1] = sum[k] + seq[k + 1]
    /\ Total(seq) = sum[Len(seq)]

LEMMA TotalSums ==
    ASSUME NEW seq \in Seq(Nat)
    PROVE  \E sum : Sums(sum, seq)
<1> DEFINE n == Len(seq)
           Op(sum, amount) == sum + amount
           body(f) == [s \in SUBSET (DOMAIN seq) |->
                          IF s = {} THEN 0
                          ELSE LET x == Max(s) IN Op(f[s \ {x}], seq[x])]
           it == CHOOSE f : f = body(f)
           U == Nat
           R == [x \in U \X (1 .. n) |-> Op(x[1], seq[x[2]])]
           sum == [k \in 0 .. n |-> it[1 .. k]]
<1>1. n \in Nat /\ DOMAIN seq = 1 .. n
  OBVIOUS
<1>2. Total(seq) = it[DOMAIN seq]
  BY DEF Total, FoldLeft, MapThenFoldSet
<1>3. 0 \in U
  OBVIOUS
<1>4. R \in [U \X (1 .. n) -> U]
  OBVIOUS
<1>5. it = body(it)
  <2>1. PICK f \in [SUBSET (1 .. n) -> U] : FoldOf(f, 0, R, n)
    <3> HIDE DEF R, n, U
    <3> QED
      BY <1>1, <1>3, <1>4, FoldExists
  <2>2. ASSUME NEW s \in SUBSET (1 .. n)
        PROVE  f[s] = IF s = {} THEN 0 ELSE Op(f[s \ {Max(s)}], seq[Max(s)])
    <3> HIDE DEF Op
    <3>1. CASE s = {}
      BY <2>1, <3>1 DEF FoldOf
    <3>2. CASE s # {}
      <4>1. Max(s) \in 1 .. n /\ f[s \ {Max(s)}] \in U
        <5>1. Max(s) \in s
          BY <1>1, <3>2, LastPosition
        <5> HIDE DEF U
        <5> QED
          BY <2>1, <5>1
      <4>2. f[s] = R[<<f[s \ {Max(s)}], Max(s)>>]
        BY <2>1, <3>2 DEF FoldOf
      <4> QED
        BY <3>2, <4>1, <4>2
    <3> QED
      BY <3>1, <3>2
  <2>3. f = body(f)
    <3> HIDE DEF Op
    <3> QED
      BY <1>1, <2>1, <2>2
  <2> HIDE DEF body
  <2> QED
    BY <2>3
<1>6. \A s \in SUBSET (1 .. n) :
         it[s] = IF s = {} THEN 0 ELSE Op(it[s \ {Max(s)}], seq[Max(s)])
  <2>1. \A s \in SUBSET (1 .. n) : it[s] = body(it)[s]
    <3> HIDE DEF it, body
    <3> QED
      BY <1>5
  <2> HIDE DEF it, Op
  <2> QED
    BY <1>1, <2>1
<1> HIDE DEF it
<1>7. sum[0] = 0
  <2>1. it[{}] = 0
    BY <1>6
  <2>2. 1 .. 0 = {} /\ 0 \in 0 .. n
    BY <1>1
  <2> HIDE DEF n
  <2> QED
    BY <2>1, <2>2
<1>8. ASSUME NEW k \in 0 .. n - 1 PROVE sum[k + 1] = sum[k] + seq[k + 1]
  <2>1. 1 .. k + 1 \in SUBSET (1 .. n) /\ k \in Nat /\ k \in 0 .. n /\ k + 1 \in 0 .. n
    BY <1>1
  <2>2. it[1 .. k + 1] = Op(it[1 .. k], seq[k + 1])
    <3> HIDE DEF n, Op
    <3> QED
      BY <1>6, <2>1, LastOfPrefix
  <2> HIDE DEF n
  <2> QED
    BY <2>1, <2>2
<1> HIDE DEF sum
<1>9. sum \in [0 .. n -> Nat]
  <2> SUFFICES ASSUME NEW m \in 0 .. n PROVE sum[m] \in Nat
    BY DEF sum
  <2> DEFINE P == {k \in Nat : k <= m => sum[k] \in Nat}
  <2>1. 0 \in P
    BY <1>7
  <2>2. ASSUME NEW k \in 0 .. m - 1, k \in P PROVE k + 1 \in P
    <3>1. k \in 0 .. n - 1 /\ k + 1 \in 1 .. n /\ k <= m
      BY <1>1
    <3>2. seq[k + 1] \in Nat /\ sum[k] \in Nat
      BY <2>2, <3>1
    <3> QED
      BY <1>8, <3>1, <3>2
  <2>3. m \in Nat
    BY <1>1
  <2> HIDE DEF P
  <2>4. m \in P
    BY <2>1, <2>2, <2>3, UpTo
  <2> QED
    BY <2>4 DEF P
<1>10. Total(seq) = sum[n]
  BY <1>1, <1>2 DEF sum
<1> QED
  BY <1>7, <1>8, <1>9, <1>10 DEF Sums

LEMMA TotalFacts ==
    ASSUME NEW seq \in Seq(Nat)
    PROVE  /\ Total(seq) \in Nat
           /\ \A c \in Nat : (\A i \in 1 .. Len(seq) : seq[i] <= c) => Total(seq) <= Len(seq) * c
<1> DEFINE n == Len(seq)
<1>1. PICK sum : Sums(sum, seq)
  BY TotalSums
<1>2. n \in Nat /\ sum \in [0 .. n -> Nat] /\ n \in 0 .. n /\ 0 \in 0 .. n
  BY <1>1 DEF Sums
<1>3. ASSUME NEW c \in Nat, \A i \in 1 .. n : seq[i] <= c PROVE sum[n] <= n * c
  <2> DEFINE P == {k \in 0 .. n : sum[k] <= k * c}
  <2>1. 0 \in P
    BY <1>1, <1>2 DEF Sums
  <2>2. ASSUME NEW k \in 0 .. n - 1, k \in P PROVE k + 1 \in P
    <3>1. k \in 0 .. n /\ k + 1 \in 0 .. n /\ k + 1 \in 1 .. n /\ k \in Nat
      BY <1>2
    <3>2. sum[k + 1] = sum[k] + seq[k + 1] /\ sum[k] <= k * c /\ seq[k + 1] <= c
      BY <1>1, <1>3, <2>2, <3>1 DEF Sums
    <3>3. sum[k] \in Nat /\ seq[k + 1] \in Nat
      BY <1>2, <3>1
    <3>4. (k + 1) * c = k * c + c /\ k * c \in Nat
      BY <3>1
    <3> QED
      BY <3>1, <3>2, <3>3, <3>4
  <2> HIDE DEF P
  <2>3. n \in P
    BY <1>2, <2>1, <2>2, UpTo
  <2> QED
    BY <2>3 DEF P
<1> QED
  BY <1>1, <1>2, <1>3 DEF Sums

LEMMA ThoseFacts ==
    ASSUME NEW A, NEW seq \in Seq(A), NEW S
    PROVE  /\ Those(seq, S) \in Seq(A)
           /\ Picked(Those(seq, S), seq)
           /\ Range(Those(seq, S)) = Range(seq) \cap S
<1> DEFINE n == Len(seq)
           Op(kept, r) == IF r \in S THEN Append(kept, r) ELSE kept
           body(f) == [s \in SUBSET (DOMAIN seq) |->
                          IF s = {} THEN <<>>
                          ELSE LET x == Max(s) IN Op(f[s \ {x}], seq[x])]
           it == CHOOSE f : f = body(f)
           U == Seq(A)
           R == [x \in U \X (1 .. n) |-> Op(x[1], seq[x[2]])]
           Kept(k) == {q \in U : /\ Range(q) = {seq[i] : i \in 1 .. k} \cap S
                                 /\ \E at \in [1 .. Len(q) -> 1 .. k] :
                                      \A i, j \in 1 .. Len(q) :
                                         q[i] = seq[at[i]] /\ (i # j => at[i] # at[j])}
           T == [k \in 0 .. n |-> Kept(k)]
<1>1. n \in Nat /\ DOMAIN seq = 1 .. n
  OBVIOUS
<1>2. Those(seq, S) = it[DOMAIN seq]
  BY DEF Those, FoldLeft, MapThenFoldSet
<1>3. <<>> \in U
  OBVIOUS
<1>4. R \in [U \X (1 .. n) -> U]
  OBVIOUS
<1>5. it = body(it)
  <2>1. PICK f \in [SUBSET (1 .. n) -> U] : FoldOf(f, <<>>, R, n)
    <3> HIDE DEF R, n, U
    <3> QED
      BY <1>1, <1>3, <1>4, FoldExists
  <2>2. ASSUME NEW s \in SUBSET (1 .. n)
        PROVE  f[s] = IF s = {} THEN <<>> ELSE Op(f[s \ {Max(s)}], seq[Max(s)])
    <3> HIDE DEF Op
    <3>1. CASE s = {}
      BY <2>1, <3>1 DEF FoldOf
    <3>2. CASE s # {}
      <4>1. Max(s) \in 1 .. n /\ f[s \ {Max(s)}] \in U
        <5>1. Max(s) \in s
          BY <1>1, <3>2, LastPosition
        <5> HIDE DEF U
        <5> QED
          BY <2>1, <5>1
      <4>2. f[s] = R[<<f[s \ {Max(s)}], Max(s)>>]
        BY <2>1, <3>2 DEF FoldOf
      <4> QED
        BY <3>2, <4>1, <4>2
    <3> QED
      BY <3>1, <3>2
  <2>3. f = body(f)
    <3> HIDE DEF Op
    <3> QED
      BY <1>1, <2>1, <2>2
  <2> HIDE DEF body
  <2> QED
    BY <2>3
<1>6. \A s \in SUBSET (1 .. n) :
         it[s] = IF s = {} THEN <<>> ELSE Op(it[s \ {Max(s)}], seq[Max(s)])
  <2>1. \A s \in SUBSET (1 .. n) : it[s] = body(it)[s]
    <3> HIDE DEF it, body
    <3> QED
      BY <1>5
  <2> HIDE DEF it, Op
  <2> QED
    BY <1>1, <2>1
<1> HIDE DEF it
<1>7. it[{}] \in T[0]
  <2>1. it[{}] = <<>>
    BY <1>6
  <2>2. Range(<<>>) = {}
    BY DEF Range
  <2>3. \E at \in [1 .. 0 -> 1 .. 0] : TRUE
    <3> WITNESS [i \in 1 .. 0 |-> i] \in [1 .. 0 -> 1 .. 0]
    <3> QED
      OBVIOUS
  <2> QED
    BY <2>1, <2>2, <2>3
<1>8. ASSUME NEW k \in 0 .. n - 1, NEW q \in T[k]
      PROVE  Op(q, seq[k + 1]) \in T[k + 1]
  <2>0. T[k + 1] = Kept(k + 1) /\ T[k] = Kept(k)
    <3> HIDE DEF Kept
    <3> QED
      BY <1>1
  <2>1. /\ q \in Seq(A) /\ seq[k + 1] \in A /\ k \in Nat
        /\ {seq[i] : i \in 1 .. k + 1} = {seq[i] : i \in 1 .. k} \cup {seq[k + 1]}
    <3>1. 1 .. k + 1 = (1 .. k) \cup {k + 1}
      OBVIOUS
    <3>2. q \in U
      BY <2>0
    <3> QED
      BY <3>1, <3>2
  <2>2. PICK at \in [1 .. Len(q) -> 1 .. k] :
           \A i, j \in 1 .. Len(q) : q[i] = seq[at[i]] /\ (i # j => at[i] # at[j])
    BY <2>0
  <2> DEFINE B == {seq[i] : i \in 1 .. k} C == {seq[i] : i \in 1 .. k + 1}
  <2>3. Range(q) = B \cap S
    BY <2>0
  <2> HIDE DEF B, C
  <2>4. CASE seq[k + 1] \in S
    <3> DEFINE new == Append(q, seq[k + 1])
               on == [i \in 1 .. Len(q) + 1 |-> IF i = Len(q) + 1 THEN k + 1 ELSE at[i]]
    <3>1. new \in U /\ Range(new) = Range(q) \cup {seq[k + 1]} /\ Len(new) = Len(q) + 1
      BY <2>1, AppendFacts
    <3>2. on \in [1 .. Len(q) + 1 -> 1 .. k + 1]
      BY <2>1
    <3>3. ASSUME NEW i \in 1 .. Len(q) + 1, NEW j \in 1 .. Len(q) + 1
          PROVE  new[i] = seq[on[i]] /\ (i # j => on[i] # on[j])
      <4>0. Len(q) \in Nat
        BY <2>1
      <4>1. \A l \in 1 .. Len(q) : on[l] = at[l] /\ at[l] \in 1 .. k /\ new[l] = q[l]
        <5>1. \A l \in 1 .. Len(q) : new[l] = q[l]
          BY <2>1
        <5>2. \A l \in 1 .. Len(q) : l \in 1 .. Len(q) + 1 /\ l # Len(q) + 1
          BY <4>0
        <5> HIDE DEF new
        <5> QED
          BY <5>1, <5>2
      <4>2. on[Len(q) + 1] = k + 1 /\ new[Len(q) + 1] = seq[k + 1] /\ k + 1 \notin 1 .. k
        BY <2>1
      <4>3. \A l \in 1 .. Len(q) + 1 : l \in 1 .. Len(q) \/ l = Len(q) + 1
        BY <2>1
      <4> HIDE DEF on, new
      <4> QED
        <5>1. CASE i \in 1 .. Len(q) /\ j \in 1 .. Len(q)
          <6>1. \A l \in 1 .. Len(q) : on[l] = at[l] /\ new[l] = q[l] /\ q[l] = seq[at[l]]
            BY <2>2, <4>1
          <6>2. i # j => at[i] # at[j]
            BY <2>2, <5>1
          <6> QED
            BY <5>1, <6>1, <6>2
        <5>2. CASE i = Len(q) + 1 \/ j = Len(q) + 1
          BY <2>2, <4>1, <4>2, <4>3, <5>2
        <5> QED
          BY <4>3, <5>1, <5>2
    <3> HIDE DEF new, on
    <3>4. Range(new) = C \cap S
      BY <2>1, <2>3, <2>4, <3>1 DEF B, C
    <3>5. Op(q, seq[k + 1]) = new
      BY <2>4 DEF new
    <3> HIDE DEF T, Op, U
    <3>6. \E f \in [1 .. Len(new) -> 1 .. k + 1] :
             \A i, j \in 1 .. Len(new) : new[i] = seq[f[i]] /\ (i # j => f[i] # f[j])
      BY <3>1, <3>2, <3>3
    <3>7. new \in Kept(k + 1)
      BY <3>1, <3>4, <3>6 DEF C
    <3> HIDE DEF Kept
    <3> QED
      BY <2>0, <3>5, <3>7
  <2>5. CASE seq[k + 1] \notin S
    <3>1. Range(q) = C \cap S
      BY <2>1, <2>3, <2>5 DEF B, C
    <3>2. at \in [1 .. Len(q) -> 1 .. k + 1]
      BY <2>1
    <3>3. Op(q, seq[k + 1]) = q
      BY <2>5
    <3> HIDE DEF T, Op
    <3>4. q \in U /\ \E f \in [1 .. Len(q) -> 1 .. k + 1] :
             \A i, j \in 1 .. Len(q) : q[i] = seq[f[i]] /\ (i # j => f[i] # f[j])
      BY <2>1, <2>2, <3>2 DEF U
    <3>5. q \in Kept(k + 1)
      BY <3>1, <3>4 DEF C
    <3> HIDE DEF Kept
    <3> QED
      BY <2>0, <3>3, <3>5
  <2> QED
    BY <2>4, <2>5
<1>9. it[1 .. n] \in T[n]
  <2>1. ASSUME NEW k \in 0 .. n - 1, it[1 .. k] \in T[k],
               NEW s \in SUBSET (1 .. n), s # {}, Max(s) = k + 1, s \ {Max(s)} = 1 .. k
        PROVE  it[s] \in T[k + 1]
    <3> HIDE DEF Op, T, n
    <3>1. it[s] = Op(it[1 .. k], seq[k + 1])
      BY <1>6, <2>1
    <3> QED
      BY <1>8, <2>1, <3>1
  <2> HIDE DEF T, n
  <2> QED
    BY <1>1, <1>7, <2>1, FoldStays
<1>10. {seq[i] : i \in 1 .. n} = Range(seq)
  BY DEF Range
<1>11. it[1 .. n] \in Kept(n)
  <2> HIDE DEF Kept, it
  <2> QED
    BY <1>1, <1>9
<1> QED
  BY <1>1, <1>2, <1>10, <1>11 DEF Picked

LEMMA SentFacts ==
    ASSUME NEW up, up.pending \in Seq(Block), up.available \in Nat
    PROVE  /\ Sent(up) \in [available : Nat, delayed : Seq(Block), wanted : Nat]
           /\ \A i \in 1 .. Len(Sent(up).delayed) : Sent(up).delayed[i].length <= Sent(up).wanted
           /\ Sent(up).available <= up.available
           /\ Sent(up).delayed # <<>> => Sent(up).wanted > Sent(up).available
<1> DEFINE seq == up.pending
           first == [available |-> up.available, delayed |-> <<>>, wanted |-> 0]
           Acc == [available : Nat, delayed : Seq(Block), wanted : Nat]
           n == Len(seq)
           Op(acc, r) == IF ~ established[r.peer] THEN acc
                         ELSE IF acc.available >= r.length
                         THEN [acc EXCEPT !.available = @ - r.length]
                         ELSE [available |-> acc.available, delayed |-> Append(acc.delayed, r),
                               wanted |-> acc.wanted + r.length]
           body(f) == [s \in SUBSET (DOMAIN seq) |->
                          IF s = {} THEN first
                          ELSE LET x == Max(s) IN Op(f[s \ {x}], seq[x])]
           it == CHOOSE f : f = body(f)
           U == Acc
           R == [x \in U \X (1 .. n) |-> Op(x[1], seq[x[2]])]
           Kept(k) == {acc \in Acc :
                          /\ acc.available <= up.available
                          /\ \A i \in 1 .. Len(acc.delayed) : acc.delayed[i].length <= acc.wanted
                          /\ acc.delayed # <<>> => acc.wanted > acc.available}
           T == [k \in 0 .. n |-> Kept(k)]
<1>1. n \in Nat /\ DOMAIN seq = 1 .. n
  OBVIOUS
<1>2. Sent(up) = it[DOMAIN seq]
  BY DEF Sent, FoldLeft, MapThenFoldSet
<1>3. first \in U
  OBVIOUS
<1>4. R \in [U \X (1 .. n) -> U]
  <2>1. ASSUME NEW x \in U \X (1 .. n) PROVE Op(x[1], seq[x[2]]) \in U
    <3> DEFINE acc == x[1]
               r == seq[x[2]]
    <3>1. acc \in Acc /\ r \in Block
      BY <1>1
    <3>2. r.length \in Nat
      BY <3>1, BandwidthAssumption DEF Block
    <3> HIDE DEF acc, r
    <3>3. Op(acc, r) \in U
      <4>1. Append(acc.delayed, r) \in Seq(Block)
        BY <3>1
      <4>2. CASE ~ established[r.peer]
        BY <3>1, <4>2
      <4>3. CASE established[r.peer] /\ acc.available >= r.length
        <5>1. Op(acc, r) = [acc EXCEPT !.available = @ - r.length]
          BY <4>3
        <5>2. acc.available >= r.length
          BY <4>3
        <5>3. [acc EXCEPT !.available = @ - r.length] \in U
          <6> DEFINE l == r.length
          <6>1. l \in Nat /\ acc.available >= l
            BY <3>2, <5>2
          <6> HIDE DEF l
          <6>2. [acc EXCEPT !.available = @ - l] \in U
            BY <3>1, <6>1
          <6> QED
            BY <6>2 DEF l
        <5> HIDE DEF Op
        <5> QED
          BY <5>1, <5>3
      <4>4. CASE established[r.peer] /\ ~ (acc.available >= r.length)
        <5>1. Op(acc, r) = [available |-> acc.available, delayed |-> Append(acc.delayed, r),
                            wanted |-> acc.wanted + r.length]
          BY <4>4
        <5> HIDE DEF Op
        <5> QED
          BY <3>1, <3>2, <4>1, <5>1
      <4> QED
        BY <4>2, <4>3, <4>4
    <3> QED
      BY <3>3 DEF acc, r
  <2> HIDE DEF Op, U
  <2> QED
    BY <2>1
<1>5. it = body(it)
  <2>1. PICK f \in [SUBSET (1 .. n) -> U] : FoldOf(f, first, R, n)
    <3> HIDE DEF R, n, U
    <3> QED
      BY <1>1, <1>3, <1>4, FoldExists
  <2>2. ASSUME NEW s \in SUBSET (1 .. n)
        PROVE  f[s] = IF s = {} THEN first ELSE Op(f[s \ {Max(s)}], seq[Max(s)])
    <3> HIDE DEF Op
    <3>1. CASE s = {}
      BY <2>1, <3>1 DEF FoldOf
    <3>2. CASE s # {}
      <4>1. Max(s) \in 1 .. n /\ f[s \ {Max(s)}] \in U
        <5>1. Max(s) \in s
          BY <1>1, <3>2, LastPosition
        <5> HIDE DEF U
        <5> QED
          BY <2>1, <5>1
      <4>2. f[s] = R[<<f[s \ {Max(s)}], Max(s)>>]
        BY <2>1, <3>2 DEF FoldOf
      <4> QED
        BY <3>2, <4>1, <4>2
    <3> QED
      BY <3>1, <3>2
  <2>3. f = body(f)
    <3> HIDE DEF Op
    <3> QED
      BY <1>1, <2>1, <2>2
  <2> HIDE DEF body
  <2> QED
    BY <2>3
<1>6. \A s \in SUBSET (1 .. n) :
         it[s] = IF s = {} THEN first ELSE Op(it[s \ {Max(s)}], seq[Max(s)])
  <2>1. \A s \in SUBSET (1 .. n) : it[s] = body(it)[s]
    <3> HIDE DEF it, body
    <3> QED
      BY <1>5
  <2> HIDE DEF it, Op
  <2> QED
    BY <1>1, <2>1
<1> HIDE DEF it
<1>7. it[{}] \in T[0]
  <2>1. it[{}] = first
    BY <1>6
  <2>2. first \in Kept(0)
    OBVIOUS
  <2>3. T[0] = Kept(0)
    <3> HIDE DEF Kept
    <3> QED
      BY <1>1
  <2> HIDE DEF T, Kept
  <2> QED
    BY <2>1, <2>2, <2>3
<1>8. ASSUME NEW k \in 0 .. n - 1, NEW q \in T[k]
      PROVE  Op(q, seq[k + 1]) \in T[k + 1]
  <2>0. T[k + 1] = Kept(k + 1) /\ T[k] = Kept(k)
    <3> HIDE DEF Kept
    <3> QED
      BY <1>1
  <2> DEFINE r == seq[k + 1]
  <2>1. q \in Acc /\ r \in Block /\ r.length \in Nat \ {0} /\ q \in Kept(k)
    <3>1. r \in Block
      BY <1>1
    <3>2. q \in Kept(k)
      BY <2>0
    <3> HIDE DEF r
    <3>3. r.length \in Sizes
      BY <3>1 DEF Block
    <3> QED
      BY <3>1, <3>2, <3>3, BandwidthAssumption
  <2> HIDE DEF T, r
  <2>2. CASE ~ established[r.peer]
    BY <2>0, <2>1, <2>2 DEF r
  <2>3. CASE established[r.peer] /\ q.available >= r.length
    <3>1. Op(q, r) = [q EXCEPT !.available = @ - r.length]
      BY <2>3
    <3>2. [q EXCEPT !.available = @ - r.length] \in Kept(k + 1)
      BY <2>1, <2>3
    <3> HIDE DEF Op, Kept
    <3> QED
      BY <2>0, <3>1, <3>2 DEF r
  <2>4. CASE established[r.peer] /\ ~ (q.available >= r.length)
    <3> DEFINE new == [available |-> q.available, delayed |-> Append(q.delayed, r),
                       wanted |-> q.wanted + r.length]
    <3>1. Op(q, r) = new
      BY <2>4
    <3>2. new \in Acc /\ new.available = q.available /\ new.wanted = q.wanted + r.length
      <4>1. q.delayed \in Seq(Block) /\ Append(q.delayed, r) \in Seq(Block)
        BY <2>1
      <4> QED
        BY <2>1, <4>1
    <3>3. /\ new.delayed \in Seq(Block) /\ Len(new.delayed) = Len(q.delayed) + 1
          /\ new.delayed[Len(q.delayed) + 1] = r
          /\ \A i \in 1 .. Len(q.delayed) : new.delayed[i] = q.delayed[i]
      BY <2>1
    <3>4. ASSUME NEW i \in 1 .. Len(new.delayed) PROVE new.delayed[i].length <= new.wanted
      <4>1. CASE i = Len(q.delayed) + 1
        BY <2>1, <3>2, <3>3, <4>1
      <4>2. CASE i \in 1 .. Len(q.delayed)
        <5>1. q.delayed[i].length <= q.wanted /\ new.delayed[i] = q.delayed[i]
          <6> HIDE DEF new
          <6> QED
            BY <2>1, <3>3, <4>2
        <5>2. q.delayed[i] \in Block
          BY <2>1, <4>2
        <5>3. q.delayed[i].length \in Nat
          BY <5>2, BandwidthAssumption DEF Block
        <5> HIDE DEF new
        <5> QED
          BY <2>1, <3>2, <5>1, <5>3
      <4> HIDE DEF new
      <4> QED
        BY <2>1, <3>3, <4>1, <4>2
    <3>5. new.wanted > new.available /\ new.available <= up.available
      BY <2>1, <2>4, <3>2
    <3> HIDE DEF Op, new, Acc
    <3> QED
      BY <2>0, <3>1, <3>2, <3>4, <3>5 DEF r
  <2> QED
    BY <2>2, <2>3, <2>4 DEF r
<1>9. it[1 .. n] \in T[n]
  <2>1. ASSUME NEW k \in 0 .. n - 1, it[1 .. k] \in T[k],
               NEW s \in SUBSET (1 .. n), s # {}, Max(s) = k + 1, s \ {Max(s)} = 1 .. k
        PROVE  it[s] \in T[k + 1]
    <3> HIDE DEF Op, T, n
    <3>1. it[s] = Op(it[1 .. k], seq[k + 1])
      BY <1>6, <2>1
    <3> QED
      BY <1>8, <2>1, <3>1
  <2> HIDE DEF T, n
  <2> QED
    BY <1>1, <1>7, <2>1, FoldStays
<1>11. it[1 .. n] \in Kept(n)
  <2> HIDE DEF Kept, it
  <2> QED
    BY <1>1, <1>9
<1> QED
  BY <1>1, <1>2, <1>11

LEMMA MinOfTwo ==
    ASSUME NEW a \in Nat, NEW b \in Nat
    PROVE  Min({a, b}) \in Nat /\ Min({a, b}) <= a /\ Min({a, b}) <= b
<1> DEFINE S == {a, b}
<1>1. PICK x \in S : \A y \in S : x <= y
  <2>1. a <= b \/ b <= a
    OBVIOUS
  <2> QED
    BY <2>1
<1>2. Min(S) \in S /\ \A y \in S : Min(S) <= y
  BY <1>1 DEF Min
<1> QED
  BY <1>2

LEMMA MaxWithZero ==
    ASSUME NEW a \in Nat
    PROVE  Max({a, 0}) = a
<1> DEFINE S == {a, 0}
<1>1. PICK x \in S : \A y \in S : x >= y
  <2>1. a >= 0
    OBVIOUS
  <2> QED
    BY <2>1
<1>2. Max(S) \in S /\ \A y \in S : Max(S) >= y
  BY <1>1 DEF Max
<1> QED
  BY <1>2

-------------------------------------------------------------------------------
(* Who has a request among some, and who has only one. *)

Grant == {r \in [user : Users, requestSize : Nat \ {0}, assigned : Nat, ttl : 0 .. Rounds] :
             r.assigned <= r.requestSize}

Asks(requests, u) == \E i \in 1 .. Len(requests) : requests[i].user = u
Once(requests, u) ==
    \A i, j \in 1 .. Len(requests) : requests[i].user = u /\ requests[j].user = u => i = j

LEMMA PickedOnce ==
    ASSUME NEW A, NEW some \in Seq(A), NEW seq \in Seq(A), Picked(some, seq), NEW u
    PROVE  (Once(seq, u) => Once(some, u)) /\ (Asks(some, u) => Asks(seq, u))
<1>1. PICK at \in [1 .. Len(some) -> 1 .. Len(seq)] :
         \A i, j \in 1 .. Len(some) : some[i] = seq[at[i]] /\ (i # j => at[i] # at[j])
  BY DEF Picked
<1>2. ASSUME Once(seq, u) PROVE Once(some, u)
  <2> SUFFICES ASSUME NEW i \in 1 .. Len(some), NEW j \in 1 .. Len(some),
                      some[i].user = u, some[j].user = u
               PROVE  i = j
    BY DEF Once
  <2>1. at[i] \in 1 .. Len(seq) /\ at[j] \in 1 .. Len(seq) /\ some[i] = seq[at[i]] /\ some[j] = seq[at[j]]
    BY <1>1
  <2>2. at[i] = at[j]
    BY <1>2, <2>1 DEF Once
  <2> QED
    BY <1>1, <2>2
<1>3. ASSUME Asks(some, u) PROVE Asks(seq, u)
  BY <1>1, <1>3 DEF Asks
<1> QED
  BY <1>2, <1>3

LEMMA AsksInRange ==
    ASSUME NEW A, NEW seq \in Seq(A), NEW u
    PROVE  Asks(seq, u) <=> \E r \in Range(seq) : r.user = u
BY DEF Asks, Range

LEMMA AppendAsks ==
    ASSUME NEW A, NEW seq \in Seq(A), NEW r \in A, NEW u
    PROVE  /\ Asks(Append(seq, r), u) <=> Asks(seq, u) \/ r.user = u
           /\ r.user # u /\ Once(seq, u) => Once(Append(seq, r), u)
           /\ Once(seq, u) /\ ~ Asks(seq, u) => Once(Append(seq, r), u)
<1> DEFINE new == Append(seq, r)
           n == Len(seq)
<1>1. /\ n \in Nat /\ Len(new) = n + 1 /\ new[n + 1] = r
      /\ \A i \in 1 .. n : new[i] = seq[i]
  OBVIOUS
<1>2. /\ \A i \in 1 .. n + 1 : i \in 1 .. n \/ i = n + 1
      /\ \A i \in 1 .. n : i \in 1 .. n + 1
      /\ n + 1 \in 1 .. n + 1
  BY <1>1
<1> HIDE DEF new
<1>3. Asks(new, u) <=> Asks(seq, u) \/ r.user = u
  BY <1>1, <1>2 DEF Asks
<1>4. ASSUME Once(seq, u), r.user # u \/ ~ Asks(seq, u) PROVE Once(new, u)
  <2> SUFFICES ASSUME NEW i \in 1 .. n + 1, NEW j \in 1 .. n + 1, new[i].user = u, new[j].user = u
               PROVE  i = j
    BY <1>1 DEF Once
  <2>1. CASE i \in 1 .. n /\ j \in 1 .. n
    BY <1>1, <1>4, <2>1 DEF Once
  <2>2. CASE i = n + 1 /\ j = n + 1
    BY <2>2
  <2>3. CASE (i \in 1 .. n /\ j = n + 1) \/ (i = n + 1 /\ j \in 1 .. n)
    <3>1. r.user = u
      BY <1>1, <2>3
    <3>2. Asks(seq, u)
      BY <1>1, <2>3 DEF Asks
    <3> QED
      BY <1>4, <3>1, <3>2
  <2> QED
    BY <1>2, <2>1, <2>2, <2>3
<1> QED
  BY <1>3, <1>4 DEF new

LEMMA FrontAsks ==
    ASSUME NEW A, NEW seq \in Seq(A), seq # <<>>, NEW u
    PROVE  /\ Front(seq) \in Seq(A) /\ Last(seq) \in A
           /\ Asks(seq, u) <=> Asks(Front(seq), u) \/ Last(seq).user = u
           /\ Once(seq, u) => Once(Front(seq), u)
           /\ Once(seq, u) /\ Last(seq).user = u => ~ Asks(Front(seq), u)
<1> DEFINE n == Len(seq)
           few == Front(seq)
<1>1. n \in Nat \ {0}
  OBVIOUS
<1>2. few \in Seq(A) /\ Len(few) = n - 1 /\ \A i \in 1 .. n - 1 : few[i] = seq[i]
  <2>1. few = SubSeq(seq, 1, n - 1)
    BY DEF Front
  <2>2. few \in Seq(A) /\ Len(few) = n - 1
    <3>1. \A i \in 1 .. n - 1 : seq[i] \in A
      BY <1>1
    <3>2. Len(SubSeq(seq, 1, n - 1)) = n - 1
      BY <1>1
    <3>3. SubSeq(seq, 1, n - 1) \in Seq(A)
      BY <1>1, <3>1
    <3> HIDE DEF few
    <3> QED
      BY <2>1, <3>2, <3>3
  <2>3. ASSUME NEW i \in 1 .. n - 1 PROVE few[i] = seq[i]
    BY <1>1, <2>1
  <2> HIDE DEF few
  <2> QED
    BY <2>2, <2>3
<1>3. Last(seq) = seq[n] /\ seq[n] \in A
  BY <1>1 DEF Last
<1>4. \A i \in 1 .. n : i \in 1 .. n - 1 \/ i = n
  BY <1>1
<1>5. \A i \in 1 .. n - 1 : i \in 1 .. n /\ i # n
  BY <1>1
<1>6. n \in 1 .. n
  BY <1>1
<1> HIDE DEF few, n
<1>7. Asks(seq, u) <=> Asks(few, u) \/ Last(seq).user = u
  BY <1>2, <1>3, <1>4, <1>5, <1>6 DEF Asks, n
<1>8. Once(seq, u) => Once(few, u)
  BY <1>2, <1>5 DEF Once, n
<1>9. Once(seq, u) /\ Last(seq).user = u => ~ Asks(few, u)
  BY <1>2, <1>3, <1>5, <1>6 DEF Asks, Once, n
<1> QED
  BY <1>2, <1>3, <1>7, <1>8, <1>9 DEF few

LEMMA ConcatAsks ==
    ASSUME NEW A, NEW a \in Seq(A), NEW b \in Seq(A), NEW u
    PROVE  /\ a \o b \in Seq(A)
           /\ Asks(a \o b, u) <=> Asks(a, u) \/ Asks(b, u)
           /\ Once(a, u) /\ Once(b, u) /\ ~ (Asks(a, u) /\ Asks(b, u)) => Once(a \o b, u)
<1> DEFINE m == Len(a)
           n == Len(b)
           c == a \o b
<1>1. m \in Nat /\ n \in Nat /\ c \in Seq(A) /\ Len(c) = m + n
  OBVIOUS
<1>2. \A i \in 1 .. m : i \in 1 .. m + n /\ c[i] = a[i]
  BY <1>1
<1>3. \A i \in 1 .. n : m + i \in 1 .. m + n /\ c[m + i] = b[i]
  BY <1>1
<1>4. \A i \in 1 .. m + n : i \in 1 .. m \/ (i - m \in 1 .. n /\ c[i] = b[i - m])
  BY <1>1
<1> HIDE DEF m, n, c
<1>5. Asks(c, u) <=> Asks(a, u) \/ Asks(b, u)
  <2>1. ASSUME Asks(c, u) PROVE Asks(a, u) \/ Asks(b, u)
    <3>1. PICK i \in 1 .. m + n : c[i].user = u
      BY <1>1, <2>1 DEF Asks
    <3> QED
      BY <1>2, <1>4, <3>1 DEF Asks, m, n
  <2>2. ASSUME Asks(a, u) PROVE Asks(c, u)
    BY <1>1, <1>2, <2>2 DEF Asks, m
  <2>3. ASSUME Asks(b, u) PROVE Asks(c, u)
    BY <1>1, <1>3, <2>3 DEF Asks, n
  <2> QED
    BY <2>1, <2>2, <2>3
<1>6. ASSUME Once(a, u), Once(b, u), ~ (Asks(a, u) /\ Asks(b, u)) PROVE Once(c, u)
  <2> SUFFICES ASSUME NEW i \in 1 .. m + n, NEW j \in 1 .. m + n, c[i].user = u, c[j].user = u
               PROVE  i = j
    BY <1>1 DEF Once
  <2>1. CASE i \in 1 .. m /\ j \in 1 .. m
    BY <1>2, <1>6, <2>1 DEF Once, m
  <2>2. CASE i \notin 1 .. m /\ j \notin 1 .. m
    <3>1. i - m \in 1 .. n /\ j - m \in 1 .. n /\ b[i - m].user = u /\ b[j - m].user = u
      BY <1>4, <2>2
    <3>2. i - m = j - m
      BY <1>6, <3>1 DEF Once, n
    <3> QED
      BY <1>1, <3>2
  <2>3. CASE (i \in 1 .. m /\ j \notin 1 .. m) \/ (i \notin 1 .. m /\ j \in 1 .. m)
    <3>1. Asks(a, u) /\ Asks(b, u)
      BY <1>2, <1>4, <2>3 DEF Asks, m, n
    <3> QED
      BY <1>6, <3>1
  <2> QED
    BY <2>1, <2>2, <2>3
<1> QED
  BY <1>1, <1>5, <1>6 DEF c

\* A change of the requests, each of which keeps its user.
LEMMA SameUsersAsk ==
    ASSUME NEW a, NEW b, Len(a) = Len(b), \A i \in 1 .. Len(b) : a[i].user = b[i].user, NEW u
    PROVE  (Asks(a, u) <=> Asks(b, u)) /\ (Once(a, u) <=> Once(b, u))
BY DEF Asks, Once

-------------------------------------------------------------------------------
(* Requests to the manager, and the streams that make them. *)

ManagerState == [left : [Channels -> Nat], queue : Seq(Grant), granted : Nat]
StreamState == [connected : BOOLEAN, quota : Nat, expecting : Expecting,
                waitingBw : BOOLEAN, waitingData : BOOLEAN]
StreamPart == [m : ManagerState, stream : StreamState]

\* A stream of state x waits for quota exactly when it has a request, and has only one.
StreamWaits(x, queue, given, s) ==
    /\ Once(queue, s) /\ Once(given, s)
    /\ ~ (Asks(queue, s) /\ Asks(given, s))
    /\ x.waitingBw <=> Asks(queue, s) \/ Asks(given, s)

\* What the requests of s changed is nothing to the others.
OthersAsk(old, new, s) ==
    \A u \in Users \ {s} : (Asks(new, u) <=> Asks(old, u)) /\ (Once(old, u) => Once(new, u))

LEMMA ChannelOfUser ==
    ASSUME NEW u
    PROVE  ChannelOf(u) \in Channels
BY DEF ChannelOf, Channels

LEMMA RequestFacts ==
    ASSUME limit \in [Channels -> Nat], NEW m \in ManagerState, NEW user \in Users, NEW amount \in Nat \ {0}
    PROVE  /\ RequestBandwidth(m, user, amount) \in ManagerState
           /\ BandwidthRequest(user, amount) \in Grant
           /\ \/ /\ RequestBandwidth(m, user, amount).granted = 0
                 /\ RequestBandwidth(m, user, amount).queue = Append(m.queue, BandwidthRequest(user, amount))
              \/ /\ RequestBandwidth(m, user, amount).granted = amount
                 /\ RequestBandwidth(m, user, amount).queue = m.queue
<1> DEFINE channel == ChannelOf(user)
           r == BandwidthRequest(user, amount)
           new == RequestBandwidth(m, user, amount)
<1>1. channel \in Channels /\ limit[channel] \in Nat /\ m.left[channel] \in Nat
  <2>1. channel \in Channels
    BY ChannelOfUser
  <2> HIDE DEF channel
  <2> QED
    BY <2>1 DEF ManagerState
<1>2. r \in Grant
  BY BandwidthAssumption DEF BandwidthRequest, Grant
<1>3. m.queue \in Seq(Grant) /\ m.left \in [Channels -> Nat]
  BY DEF ManagerState
<1> HIDE DEF r, channel
<1>4. CASE NeedQueueing(m, channel, amount)
  <2>1. new = [m EXCEPT !.queue = Append(m.queue, r), !.granted = 0]
    BY <1>4 DEF RequestBandwidth, channel, r
  <2>2. Append(m.queue, r) \in Seq(Grant)
    BY <1>2, <1>3
  <2>3. \A q \in Seq(Grant), g \in Nat :
           /\ [m EXCEPT !.queue = q, !.granted = g] \in ManagerState
           /\ [m EXCEPT !.queue = q, !.granted = g].queue = q
           /\ [m EXCEPT !.queue = q, !.granted = g].granted = g
    BY DEF ManagerState
  <2> HIDE DEF new
  <2>4. new \in ManagerState /\ new.queue = Append(m.queue, r) /\ new.granted = 0
    <3> DEFINE q == Append(m.queue, r)
    <3> HIDE DEF q
    <3>1. q \in Seq(Grant) /\ new = [m EXCEPT !.queue = q, !.granted = 0] /\ 0 \in Nat
      BY <2>1, <2>2 DEF q
    <3>2. new \in ManagerState /\ new.queue = q /\ new.granted = 0
      BY <2>3, <3>1
    <3> QED
      BY <3>2 DEF q
  <2> QED
    BY <1>2, <2>4 DEF new, r
<1>5. CASE ~ NeedQueueing(m, channel, amount)
  <2> DEFINE left == Use(m.left, channel, amount)
  <2>1. new = [m EXCEPT !.left = left, !.granted = amount]
    BY <1>5 DEF RequestBandwidth, channel
  <2>2. left \in [Channels -> Nat]
    <3>1. CASE limit[channel] = 0
      BY <1>3, <3>1 DEF Use
    <3>2. CASE limit[channel] # 0
      <4>1. m.left[channel] - amount >= limit[channel]
        BY <1>1, <1>5, <3>2 DEF NeedQueueing
      <4>2. m.left[channel] - amount \in Nat
        BY <1>1, <4>1
      <4>3. left = [m.left EXCEPT ![channel] = m.left[channel] - amount]
        BY <3>2 DEF Use
      <4> HIDE DEF left
      <4> QED
        BY <1>1, <1>3, <4>2, <4>3
    <3> QED
      BY <3>1, <3>2
  <2>3. \A l \in [Channels -> Nat], g \in Nat :
           /\ [m EXCEPT !.left = l, !.granted = g] \in ManagerState
           /\ [m EXCEPT !.left = l, !.granted = g].queue = m.queue
           /\ [m EXCEPT !.left = l, !.granted = g].granted = g
    BY DEF ManagerState
  <2> HIDE DEF new, left
  <2>4. new \in ManagerState /\ new.queue = m.queue /\ new.granted = amount
    BY <2>1, <2>2, <2>3
  <2> QED
    BY <1>2, <2>4 DEF new, r
<1> QED
  BY <1>4, <1>5

LEMMA AskFacts ==
    ASSUME limit \in [Channels -> Nat], NEW st \in StreamPart, NEW s \in Streams, NEW bytes \in Nat,
           NEW given, StreamWaits(st.stream, st.m.queue, given, s)
    PROVE  /\ Ask(st, s, bytes) \in StreamPart
           /\ Ask(st, s, bytes).stream.connected = st.stream.connected
           /\ Ask(st, s, bytes).stream.waitingData = st.stream.waitingData
           /\ OthersAsk(st.m.queue, Ask(st, s, bytes).m.queue, s)
           /\ StreamWaits(Ask(st, s, bytes).stream, Ask(st, s, bytes).m.queue, given, s)
<1> DEFINE x == st.stream
           new == Ask(st, s, bytes)
<1>1. x \in StreamState /\ st.m \in ManagerState /\ x.quota \in Nat
  BY DEF StreamPart, StreamState
<1>2. CASE x.waitingBw \/ x.quota >= bytes
  <2>1. new = st
    BY <1>2 DEF Ask
  <2> QED
    BY <2>1 DEF OthersAsk
<1>3. CASE ~ (x.waitingBw \/ x.quota >= bytes)
  <2> DEFINE amount == bytes - x.quota
             m == RequestBandwidth(st.m, s, amount)
             r == BandwidthRequest(s, amount)
  <2>1. amount \in Nat \ {0} /\ s \in Users
    BY <1>1, <1>3 DEF Users
  <2>2. /\ m \in ManagerState /\ r \in Grant
        /\ \/ m.granted = 0 /\ m.queue = Append(st.m.queue, r)
           \/ m.granted = amount /\ m.queue = st.m.queue
    <3> HIDE DEF amount
    <3> QED
      BY <1>1, <2>1, RequestFacts
  <2>3. new = [m |-> m, stream |-> IF m.granted = 0 THEN [x EXCEPT !.waitingBw = TRUE]
                                   ELSE [x EXCEPT !.quota = @ + m.granted]]
    BY <1>3 DEF Ask
  <2>4. st.m.queue \in Seq(Grant) /\ r.user = s
    BY <1>1 DEF ManagerState, BandwidthRequest
  <2> HIDE DEF m, r, new, amount, x
  <2>5. CASE m.granted = 0
    <3>1. m.queue = Append(st.m.queue, r)
      BY <2>1, <2>2, <2>5
    <3>2. [x EXCEPT !.waitingBw = TRUE] \in StreamState
      BY <1>1 DEF StreamState
    <3>3. /\ new.m = m /\ new.stream = [x EXCEPT !.waitingBw = TRUE]
          /\ new \in StreamPart
      BY <2>2, <2>3, <2>5, <3>2 DEF StreamPart
    <3>4. /\ new.stream.connected = x.connected /\ new.stream.waitingData = x.waitingData
          /\ new.stream.waitingBw
      BY <1>1, <3>3 DEF StreamState
    <3>5. OthersAsk(st.m.queue, m.queue, s)
      BY <2>2, <2>4, <3>1, AppendAsks DEF OthersAsk
    <3>6. ~ Asks(st.m.queue, s) /\ ~ Asks(given, s)
      BY <1>3 DEF StreamWaits, x
    <3>7. Once(m.queue, s) /\ Asks(m.queue, s)
      <4>1. Once(st.m.queue, s)
        BY DEF StreamWaits
      <4> QED
        BY <2>2, <2>4, <3>1, <3>6, <4>1, AppendAsks
    <3>8. StreamWaits(new.stream, m.queue, given, s)
      BY <3>4, <3>6, <3>7 DEF StreamWaits
    <3> QED
      BY <3>3, <3>4, <3>5, <3>8 DEF new, x
  <2>6. CASE m.granted # 0
    <3>1. m.queue = st.m.queue /\ m.granted \in Nat
      BY <2>1, <2>2, <2>6
    <3>2. [x EXCEPT !.quota = x.quota + m.granted] \in StreamState
      <4>1. x.quota + m.granted \in Nat
        BY <1>1, <3>1
      <4> QED
        BY <1>1, <4>1 DEF StreamState
    <3>3. /\ new.m = m /\ new.stream = [x EXCEPT !.quota = x.quota + m.granted]
          /\ new \in StreamPart
      BY <2>2, <2>3, <2>6, <3>2 DEF StreamPart
    <3>4. /\ new.stream.connected = x.connected /\ new.stream.waitingData = x.waitingData
          /\ new.stream.waitingBw = x.waitingBw
      BY <1>1, <3>3 DEF StreamState
    <3>5. OthersAsk(st.m.queue, m.queue, s)
      BY <3>1 DEF OthersAsk
    <3>6. StreamWaits(new.stream, m.queue, given, s)
      BY <3>1, <3>4 DEF StreamWaits, x
    <3> QED
      BY <3>3, <3>4, <3>5, <3>6 DEF new, x
  <2> QED
    BY <2>5, <2>6
<1> QED
  BY <1>2, <1>3

LEMMA OthersAskTwice ==
    ASSUME NEW a, NEW b, NEW c, NEW s, OthersAsk(a, b, s), OthersAsk(b, c, s)
    PROVE  OthersAsk(a, c, s)
BY DEF OthersAsk

LEMMA StartReceiveFacts ==
    ASSUME limit \in [Channels -> Nat], NEW st \in StreamPart, NEW s \in Streams,
           NEW given, StreamWaits(st.stream, st.m.queue, given, s)
    PROVE  /\ StartReceive(st, s) \in StreamPart
           /\ OthersAsk(st.m.queue, StartReceive(st, s).m.queue, s)
           /\ StreamWaits(StartReceive(st, s).stream, StartReceive(st, s).m.queue, given, s)
           /\ StartReceive(st, s).stream.connected =>
                 StartReceive(st, s).stream.waitingData \/ StartReceive(st, s).stream.waitingBw
<1> DEFINE bytes == st.stream.expecting
           a == Ask(st, s, bytes)
           new == StartReceive(st, s)
<1>1. st.stream \in StreamState /\ bytes \in Nat
  BY BandwidthAssumption DEF StreamPart, StreamState
<1>2. /\ a \in StreamPart
      /\ a.stream.connected = st.stream.connected
      /\ a.stream.waitingData = st.stream.waitingData
      /\ OthersAsk(st.m.queue, a.m.queue, s)
      /\ StreamWaits(a.stream, a.m.queue, given, s)
  <2> HIDE DEF bytes
  <2> QED
    BY <1>1, AskFacts
<1>3. CASE ~ st.stream.connected
  <2>1. new = st
    BY <1>3 DEF StartReceive
  <2> QED
    BY <1>3, <2>1 DEF OthersAsk
<1>4. CASE st.stream.connected /\ (a.stream.waitingData \/ a.stream.waitingBw)
  <2>1. new = a
    BY <1>4 DEF StartReceive
  <2> HIDE DEF new, a
  <2> QED
    BY <1>2, <1>4, <2>1 DEF new
<1>5. CASE st.stream.connected /\ ~ (a.stream.waitingData \/ a.stream.waitingBw)
  <2>1. new = [a EXCEPT !.stream.waitingData = TRUE]
    BY <1>5 DEF StartReceive
  <2> HIDE DEF new, a
  <2>2. a.stream \in StreamState /\ a.m \in ManagerState
    BY <1>2 DEF StreamPart
  <2>3. /\ new.m = a.m /\ new.stream = [a.stream EXCEPT !.waitingData = TRUE]
    BY <1>2, <2>1 DEF StreamPart
  <2>4. [a.stream EXCEPT !.waitingData = TRUE] \in StreamState
    BY <2>2 DEF StreamState
  <2>5. new \in StreamPart
    BY <1>2, <2>1, <2>4 DEF StreamPart
  <2>6. new.stream.waitingData /\ new.stream.waitingBw = a.stream.waitingBw
    BY <2>2, <2>3 DEF StreamState
  <2>7. StreamWaits(new.stream, a.m.queue, given, s)
    BY <1>2, <2>6 DEF StreamWaits
  <2> QED
    BY <1>2, <2>3, <2>5, <2>6, <2>7 DEF new
<1> QED
  BY <1>3, <1>4, <1>5

UploaderState == [pending : Seq(Block), requesting : BOOLEAN, available : Nat, posted : Nat,
                  atOnce : BOOLEAN]
PlanState == [streams : SUBSET Streams, limits : SUBSET Nat, changes : Nat, requests : Nat,
              closes : Nat, stops : Nat, chokes : Nat]

BandwidthTypes ==
    /\ limit \in [Channels -> Nat]
    /\ quotaLeft \in [Channels -> Nat]
    /\ requestsQueue \in Seq(Grant)
    /\ assigning \in Seq(Grant)
    /\ stream \in [Streams -> StreamState]
    /\ uploader \in UploaderState
    /\ established \in [Peers -> BOOLEAN]
    /\ plan \in PlanState

-------------------------------------------------------------------------------
(* A round of the manager: no channel gives out more than it has. *)

LEMMA OfChannelFacts ==
    ASSUME NEW q \in Seq(Grant), NEW channel
    PROVE  /\ OfChannel(q, channel) \in Seq(Grant)
           /\ Range(OfChannel(q, channel)) = {r \in Range(q) : ChannelOf(r.user) = channel}
<1> DEFINE S == {r \in ToSet(q) : ChannelOf(r.user) = channel}
<1>1. Those(q, S) \in Seq(Grant) /\ Range(Those(q, S)) = Range(q) \cap S
  <2> HIDE DEF S
  <2> QED
    BY ThoseFacts
<1>2. Range(q) \cap S = {r \in Range(q) : ChannelOf(r.user) = channel}
  BY DEF Range, ToSet
<1> QED
  BY <1>1, <1>2 DEF OfChannel

LEMMA ActiveFacts ==
    ASSUME NEW q \in Seq(Grant)
    PROVE  /\ Active(q) \in Seq(Grant) /\ Inactive(q) \in Seq(Grant)
           /\ Picked(Active(q), q) /\ Picked(Inactive(q), q)
           /\ Range(Active(q)) = {r \in Range(q) : IsActive(r.user)}
           /\ Range(Inactive(q)) = {r \in Range(q) : ~ IsActive(r.user)}
<1> DEFINE S == {r \in ToSet(q) : IsActive(r.user)}
           T == {r \in ToSet(q) : ~ IsActive(r.user)}
<1>1. /\ Those(q, S) \in Seq(Grant) /\ Picked(Those(q, S), q) /\ Range(Those(q, S)) = Range(q) \cap S
      /\ Those(q, T) \in Seq(Grant) /\ Picked(Those(q, T), q) /\ Range(Those(q, T)) = Range(q) \cap T
  <2> HIDE DEF S, T
  <2> QED
    BY ThoseFacts
<1>2. /\ Range(q) \cap S = {r \in Range(q) : IsActive(r.user)}
      /\ Range(q) \cap T = {r \in Range(q) : ~ IsActive(r.user)}
  BY DEF Range, ToSet
<1> QED
  BY <1>1, <1>2 DEF Active, Inactive

LEMMA AmountsAreNat ==
    ASSUME NEW q \in Seq(Grant)
    PROVE  AssignedSum(q) \in Nat
<1> DEFINE amounts == [i \in DOMAIN q |-> q[i].assigned]
<1>1. amounts \in [1 .. Len(q) -> Nat] /\ Len(q) \in Nat
  BY DEF Grant
<1>2. amounts \in Seq(Nat)
  <2> HIDE DEF amounts
  <2> QED
    BY <1>1, FunctionIsSeq
<1>3. Total(amounts) \in Nat
  <2> HIDE DEF amounts
  <2> QED
    BY <1>2, TotalFacts
<1> QED
  BY <1>3 DEF AssignedSum

LEMMA QuotaFacts ==
    ASSUME BandwidthTypes, NEW channel \in Channels
    PROVE  UpdateQuota(channel) \in Nat
<1> DEFINE sum == AssignedSum(Inactive(QueueOf(channel)))
           q == quotaLeft[channel]
           l == limit[channel]
<1>1. sum \in Nat
  BY OfChannelFacts, ActiveFacts, AmountsAreNat DEF BandwidthTypes, QueueOf
<1>2. q \in Nat /\ l \in Nat /\ RoundQuota \in Nat
  BY BandwidthAssumption DEF BandwidthTypes
<1>3. Returned(channel) = IF l = 0 THEN q ELSE q - (0 - sum)
  BY DEF Returned, Use, BandwidthTypes
<1> HIDE DEF sum, q, l
<1>4. Returned(channel) \in Nat
  BY <1>1, <1>2, <1>3
<1>5. Returned(channel) + RoundQuota \in Nat /\ l * 3 \in Nat
  BY <1>2, <1>4
<1> QED
  BY <1>4, <1>5 DEF UpdateQuota, l

LEMMA ShareFacts ==
    ASSUME BandwidthTypes, NEW r \in Range(Active(requestsQueue))
    PROVE  LET channel == ChannelOf(r.user)
               n == Len(Active(QueueOf(channel)))
           IN /\ r \in Grant /\ Share(r) \in 0 .. r.requestSize - r.assigned
              /\ n \in Nat \ {0}
              /\ limit[channel] # 0 => Share(r) <= UpdateQuota(channel) \div n
<1> DEFINE channel == ChannelOf(r.user)
           served == Active(QueueOf(channel))
           n == Len(served)
           wanted == r.requestSize - r.assigned
           quota == UpdateQuota(channel)
<1>1. requestsQueue \in Seq(Grant)
  BY DEF BandwidthTypes
<1>2. r \in Range(requestsQueue) /\ IsActive(r.user)
  BY <1>1, ActiveFacts
<1>3. r \in Grant
  BY <1>1, <1>2 DEF Range
<1>4. channel \in Channels
  BY ChannelOfUser
<1>5. served \in Seq(Grant) /\ r \in Range(served)
  <2>1. QueueOf(channel) \in Seq(Grant) /\ r \in Range(QueueOf(channel))
    BY <1>1, <1>2, OfChannelFacts DEF QueueOf
  <2> HIDE DEF channel
  <2> QED
    BY <1>2, <2>1, ActiveFacts
<1>6. n \in Nat \ {0}
  <2> HIDE DEF served
  <2> QED
    BY <1>5 DEF Range
<1>7. wanted \in Nat /\ quota \in Nat
  <2>1. wanted \in Nat
    BY <1>3 DEF Grant
  <2>2. quota \in Nat
    <3> HIDE DEF channel
    <3> QED
      BY <1>4, QuotaFacts
  <2> QED
    BY <2>1, <2>2
<1>8. Share(r) = IF limit[channel] = 0 THEN wanted ELSE Min({wanted, Max({quota, 0}) \div n})
  BY DEF Share
<1> HIDE DEF channel, served, n, wanted, quota
<1>9. quota \div n \in Nat /\ Max({quota, 0}) = quota
  <2>1. quota \div n \in Nat
    BY <1>6, <1>7
  <2> QED
    BY <1>7, <2>1, MaxWithZero
<1>10. /\ Min({wanted, quota \div n}) \in Nat /\ Min({wanted, quota \div n}) <= wanted
       /\ Min({wanted, quota \div n}) <= quota \div n
  BY <1>7, <1>9, MinOfTwo
<1>11. Share(r) \in 0 .. wanted /\ (limit[channel] # 0 => Share(r) <= quota \div n)
  BY <1>7, <1>8, <1>9, <1>10
<1> QED
  BY <1>3, <1>6, <1>11 DEF channel, served, n, wanted, quota

LEMMA SharesFacts ==
    ASSUME BandwidthTypes, NEW channel \in Channels, limit[channel] # 0
    PROVE  UpdateQuota(channel) - Shares(channel) \in Nat
<1> DEFINE served == Active(QueueOf(channel))
           n == Len(served)
           quota == UpdateQuota(channel)
           shares == [i \in DOMAIN served |-> Share(served[i])]
<1>1. quota \in Nat
  BY QuotaFacts
<1>2. served \in Seq(Grant) /\ n \in Nat
  BY OfChannelFacts, ActiveFacts DEF BandwidthTypes, QueueOf
<1>3. ASSUME NEW i \in 1 .. n
      PROVE  Share(served[i]) \in Nat /\ n # 0 /\ Share(served[i]) <= quota \div n
  <2> DEFINE r == served[i]
  <2>1. r \in Range(served)
    <3> HIDE DEF served
    <3> QED
      BY <1>2 DEF Range
  <2>2. QueueOf(channel) \in Seq(Grant)
    BY OfChannelFacts DEF BandwidthTypes, QueueOf
  <2>3. r \in Range(QueueOf(channel)) /\ IsActive(r.user)
    BY <2>1, <2>2, ActiveFacts
  <2>4. r \in Range(requestsQueue) /\ ChannelOf(r.user) = channel
    BY <2>3, OfChannelFacts DEF BandwidthTypes, QueueOf
  <2>5. r \in Range(Active(requestsQueue))
    BY <2>3, <2>4, ActiveFacts DEF BandwidthTypes
  <2> HIDE DEF r
  <2>6. Share(r) \in 0 .. r.requestSize - r.assigned /\ r \in Grant /\ n # 0 /\ Share(r) <= quota \div n
    BY <2>4, <2>5, ShareFacts
  <2> QED
    BY <2>6 DEF r, Grant
<1> HIDE DEF served, quota
<1>4. shares \in [1 .. n -> Nat] /\ \A i \in 1 .. n : shares[i] = Share(served[i])
  BY <1>2, <1>3
<1>5. shares \in Seq(Nat) /\ Len(shares) = n
  <2> HIDE DEF shares, n
  <2> QED
    BY <1>2, <1>4, FunctionIsSeq
<1> HIDE DEF shares, n
<1>6. /\ Total(shares) \in Nat
      /\ \A c \in Nat : (\A i \in 1 .. n : shares[i] <= c) => Total(shares) <= n * c
  BY <1>5, TotalFacts
<1>7. Total(shares) <= quota
  <2>1. CASE n = 0
    <3>1. Total(shares) <= 0 * 0
      BY <1>6, <2>1
    <3> QED
      BY <1>1, <1>6, <3>1
  <2>2. CASE n # 0
    <3>1. quota \div n \in Nat /\ n * (quota \div n) <= quota
      BY <1>1, <1>2, <2>2
    <3>2. Total(shares) <= n * (quota \div n)
      BY <1>3, <1>4, <1>6, <3>1
    <3>3. n * (quota \div n) \in Nat
      BY <1>2, <3>1
    <3> QED
      BY <1>1, <1>6, <3>1, <3>2, <3>3
  <2> QED
    BY <2>1, <2>2
<1> QED
  BY <1>1, <1>6, <1>7 DEF Shares, served, shares, quota

LEMMA AssignedFacts ==
    ASSUME BandwidthTypes, NEW r \in Range(Active(requestsQueue))
    PROVE  Assigned(r) \in Grant /\ Assigned(r).user = r.user
<1> DEFINE share == Share(r)
           ttl == IF r.ttl > 0 THEN r.ttl - 1 ELSE 0
           sum == r.assigned + share
<1>1. r \in Grant /\ share \in 0 .. r.requestSize - r.assigned
  BY ShareFacts
<1>2. /\ r.requestSize \in Nat /\ r.assigned \in Nat /\ r.assigned <= r.requestSize
      /\ r.ttl \in 0 .. Rounds /\ Rounds \in Nat
  BY <1>1, BandwidthAssumption DEF Grant
<1> HIDE DEF share
<1>3. sum \in Nat /\ sum <= r.requestSize /\ ttl \in 0 .. Rounds
  BY <1>1, <1>2
<1>4. Assigned(r) = [r EXCEPT !.assigned = sum, !.ttl = ttl]
  BY DEF Assigned, share
<1> HIDE DEF sum, ttl
<1> QED
  BY <1>1, <1>3, <1>4 DEF Grant

LEMMA RoundFacts ==
    ASSUME BandwidthTypes, UpdateQuotas
    PROVE  /\ requestsQueue' \in Seq(Grant) /\ assigning' \in Seq(Grant)
           /\ \A u \in Users :
                 /\ Asks(requestsQueue, u) <=> Asks(requestsQueue', u) \/ Asks(assigning', u)
                 /\ Once(requestsQueue, u) =>
                       /\ Once(requestsQueue', u) /\ Once(assigning', u)
                       /\ ~ (Asks(requestsQueue', u) /\ Asks(assigning', u))
<1> DEFINE active == Active(requestsQueue)
           inactive == Inactive(requestsQueue)
           round == [i \in DOMAIN active |-> Assigned(active[i])]
           gone == [i \in DOMAIN inactive |-> [inactive[i] EXCEPT !.assigned = 0]]
           waits == {r \in ToSet(round) : ~ IsServed(r)}
           served == {r \in ToSet(round) : IsServed(r)}
           some == Those(round, waits)
           rest == Those(round, served)
<1>1. requestsQueue' = some /\ assigning' = gone \o rest
  BY DEF UpdateQuotas
<1>2. requestsQueue \in Seq(Grant)
  BY DEF BandwidthTypes
<1>3. /\ active \in Seq(Grant) /\ inactive \in Seq(Grant)
      /\ Picked(active, requestsQueue) /\ Picked(inactive, requestsQueue)
      /\ Range(active) = {r \in Range(requestsQueue) : IsActive(r.user)}
      /\ Range(inactive) = {r \in Range(requestsQueue) : ~ IsActive(r.user)}
  BY <1>2, ActiveFacts
<1>4. /\ round \in Seq(Grant) /\ Len(round) = Len(active)
      /\ \A i \in 1 .. Len(active) : round[i].user = active[i].user
  <2>1. ASSUME NEW i \in 1 .. Len(active)
        PROVE  Assigned(active[i]) \in Grant /\ Assigned(active[i]).user = active[i].user
    <3>1. active[i] \in Range(active)
      <4> HIDE DEF active
      <4> QED
        BY <1>3 DEF Range
    <3> QED
      BY <3>1, AssignedFacts
  <2> HIDE DEF active
  <2>2. DOMAIN active = 1 .. Len(active) /\ Len(active) \in Nat
    BY <1>3
  <2>3. round \in [1 .. Len(active) -> Grant]
    BY <2>1, <2>2
  <2>4. \A i \in 1 .. Len(active) : round[i].user = active[i].user
    BY <2>1, <2>2
  <2> HIDE DEF round
  <2> QED
    BY <2>2, <2>3, <2>4, FunctionIsSeq
<1>5. /\ gone \in Seq(Grant) /\ Len(gone) = Len(inactive)
      /\ \A i \in 1 .. Len(inactive) : gone[i].user = inactive[i].user
  <2> HIDE DEF inactive
  <2>1. ASSUME NEW i \in 1 .. Len(inactive)
        PROVE  /\ [inactive[i] EXCEPT !.assigned = 0] \in Grant
               /\ [inactive[i] EXCEPT !.assigned = 0].user = inactive[i].user
    <3>1. inactive[i] \in Grant
      BY <1>3
    <3>2. \A r \in Grant : [r EXCEPT !.assigned = 0] \in Grant /\ [r EXCEPT !.assigned = 0].user = r.user
      BY DEF Grant
    <3> QED
      BY <3>1, <3>2
  <2>2. DOMAIN inactive = 1 .. Len(inactive) /\ Len(inactive) \in Nat
    BY <1>3
  <2>3. gone \in [1 .. Len(inactive) -> Grant]
    BY <2>1, <2>2
  <2>4. \A i \in 1 .. Len(inactive) : gone[i].user = inactive[i].user
    BY <2>1, <2>2
  <2> HIDE DEF gone
  <2> QED
    BY <2>2, <2>3, <2>4, FunctionIsSeq
<1> HIDE DEF active, inactive, round, gone
<1>6. /\ some \in Seq(Grant) /\ Picked(some, round) /\ Range(some) = Range(round) \cap waits
      /\ rest \in Seq(Grant) /\ Picked(rest, round) /\ Range(rest) = Range(round) \cap served
  <2> HIDE DEF waits, served
  <2> QED
    BY <1>4, ThoseFacts
<1>7. /\ Range(round) \cap waits = {r \in Range(round) : ~ IsServed(r)}
      /\ Range(round) \cap served = {r \in Range(round) : IsServed(r)}
  BY DEF Range, ToSet
<1> HIDE DEF some, rest, waits, served
<1>8. requestsQueue' \in Seq(Grant) /\ assigning' \in Seq(Grant)
  BY <1>1, <1>5, <1>6, ConcatAsks
<1>9. ASSUME NEW u \in Users
      PROVE  /\ Asks(requestsQueue, u) <=> Asks(some, u) \/ Asks(gone, u) \/ Asks(rest, u)
             /\ Once(requestsQueue, u) =>
                   /\ Once(some, u) /\ Once(gone, u) /\ Once(rest, u)
                   /\ ~ (Asks(some, u) /\ Asks(gone, u))
                   /\ ~ (Asks(some, u) /\ Asks(rest, u))
                   /\ ~ (Asks(gone, u) /\ Asks(rest, u))
  <2>1. /\ Asks(round, u) <=> Asks(active, u)
        /\ Once(round, u) <=> Once(active, u)
        /\ Asks(gone, u) <=> Asks(inactive, u)
        /\ Once(gone, u) <=> Once(inactive, u)
    BY <1>4, <1>5, SameUsersAsk
  <2>2. Asks(requestsQueue, u) <=> Asks(active, u) \/ Asks(inactive, u)
    BY <1>2, <1>3, AsksInRange
  <2>3. Asks(round, u) <=> Asks(some, u) \/ Asks(rest, u)
    BY <1>4, <1>6, <1>7, AsksInRange
  <2>4. ~ (Asks(active, u) /\ Asks(inactive, u))
    BY <1>3, AsksInRange
  <2>5. ASSUME Once(requestsQueue, u)
        PROVE  Once(active, u) /\ Once(inactive, u)
    BY <1>2, <1>3, <2>5, PickedOnce
  <2>6. ASSUME Once(round, u)
        PROVE  Once(some, u) /\ Once(rest, u) /\ ~ (Asks(some, u) /\ Asks(rest, u))
    <3>1. Once(some, u) /\ Once(rest, u)
      BY <1>4, <1>6, <2>6, PickedOnce
    <3>2. SUFFICES ASSUME Asks(some, u), Asks(rest, u) PROVE FALSE
      BY <3>1
    <3>3. PICK r \in Range(round) : r.user = u /\ ~ IsServed(r)
      BY <1>6, <1>7, <3>2, AsksInRange
    <3>4. PICK t \in Range(round) : t.user = u /\ IsServed(t)
      BY <1>6, <1>7, <3>2, AsksInRange
    <3>5. PICK i \in 1 .. Len(round), j \in 1 .. Len(round) : r = round[i] /\ t = round[j]
      BY <1>4 DEF Range
    <3>6. i = j
      BY <2>6, <3>3, <3>4, <3>5 DEF Once
    <3> QED
      BY <3>3, <3>4, <3>5, <3>6
  <2> QED
    BY <2>1, <2>2, <2>3, <2>4, <2>5, <2>6
<1>10. ASSUME NEW u \in Users
       PROVE  /\ Asks(assigning', u) <=> Asks(gone, u) \/ Asks(rest, u)
              /\ Once(gone, u) /\ Once(rest, u) /\ ~ (Asks(gone, u) /\ Asks(rest, u)) => Once(assigning', u)
  BY <1>1, <1>5, <1>6, ConcatAsks
<1> QED
  BY <1>1, <1>8, <1>9, <1>10

StreamsHold ==
    \A s \in Streams :
        /\ StreamWaits(stream[s], requestsQueue, assigning, s)
        /\ stream[s].connected => stream[s].waitingData \/ stream[s].waitingBw

UploaderWaits(up, queue, given) ==
    up.requesting => Asks(queue, Uploader) \/ Asks(given, Uploader)

\* Somebody will send the blocks of the uploader: a call, the next grant, nobody
\* because sendRequests has the bytes already, or nobody because the peers are gone.
BlocksCovered(up) ==
    \/ up.posted > 0 \/ up.requesting
    \/ up.atOnce /\ \A i \in 1 .. Len(up.pending) : up.pending[i].length <= up.available
    \/ \A i \in 1 .. Len(up.pending) : ~ established[up.pending[i].peer]

UploaderHolds == UploaderWaits(uploader, requestsQueue, assigning) /\ BlocksCovered(uploader)

BandwidthHolds == BandwidthTypes /\ StreamsHold /\ UploaderHolds

-------------------------------------------------------------------------------
(* The uploader's requests. *)

UploaderPart == [up : UploaderState, m : ManagerState]

LEMMA RequestBytesFacts ==
    ASSUME limit \in [Channels -> Nat], NEW up \in UploaderState, NEW m \in ManagerState,
           NEW amount \in Nat, NEW given, UploaderWaits(up, m.queue, given)
    PROVE  LET new == RequestBytes(up, m, amount)
           IN /\ new \in UploaderPart
              /\ OthersAsk(m.queue, new.m.queue, Uploader)
              /\ UploaderWaits(new.up, new.m.queue, given)
              /\ new.up.pending = up.pending /\ new.up.posted = up.posted
              /\ new.up.requesting \/ new.up.available >= amount
<1> DEFINE new == RequestBytes(up, m, amount)
<1>0. up.available \in Nat /\ up.requesting \in BOOLEAN
  BY DEF UploaderState
<1>1. CASE amount <= up.available \/ up.requesting
  <2>1. new = [up |-> up, m |-> m]
    BY <1>1 DEF RequestBytes
  <2>2. new.up = up /\ new.m = m /\ new \in UploaderPart
    BY <2>1 DEF UploaderPart
  <2> HIDE DEF new
  <2> QED
    BY <1>0, <1>1, <2>2 DEF OthersAsk, new
<1>2. CASE ~ (amount <= up.available \/ up.requesting)
  <2> DEFINE more == amount - up.available
             g == RequestBandwidth(m, Uploader, more)
             r == BandwidthRequest(Uploader, more)
  <2>1. more \in Nat \ {0} /\ Uploader \in Users
    BY <1>0, <1>2 DEF Users
  <2>2. /\ g \in ManagerState /\ r \in Grant
        /\ \/ g.granted = 0 /\ g.queue = Append(m.queue, r)
           \/ g.granted = more /\ g.queue = m.queue
    <3> HIDE DEF more
    <3> QED
      BY <2>1, RequestFacts
  <2>3. new = [m |-> g, up |-> IF g.granted = 0 THEN [up EXCEPT !.requesting = TRUE]
                               ELSE [up EXCEPT !.available = @ + g.granted]]
    BY <1>2 DEF RequestBytes
  <2>4. m.queue \in Seq(Grant) /\ r.user = Uploader
    BY DEF ManagerState, BandwidthRequest
  <2>5. up.available + more = amount
    BY <1>0
  <2> HIDE DEF g, r, new, more
  <2>6. CASE g.granted = 0
    <3>1. g.queue = Append(m.queue, r)
      BY <2>1, <2>2, <2>6
    <3>2. new.m = g /\ new.up = [up EXCEPT !.requesting = TRUE]
      BY <2>3, <2>6
    <3>3. /\ new.up \in UploaderState /\ new.up.requesting
          /\ new.up.pending = up.pending /\ new.up.posted = up.posted
      BY <3>2 DEF UploaderState
    <3>4. new \in UploaderPart
      BY <2>2, <2>3, <2>6, <3>2, <3>3 DEF UploaderPart
    <3>5. OthersAsk(m.queue, g.queue, Uploader) /\ Asks(g.queue, Uploader)
      BY <2>2, <2>4, <3>1, AppendAsks DEF OthersAsk
    <3> QED
      BY <3>2, <3>3, <3>4, <3>5 DEF UploaderWaits, new
  <2>7. CASE g.granted # 0
    <3>1. g.queue = m.queue /\ g.granted = more
      BY <2>2, <2>7
    <3>2. new.m = g /\ new.up = [up EXCEPT !.available = amount]
      BY <2>3, <2>5, <2>7, <3>1
    <3>3. /\ new.up \in UploaderState /\ new.up.available = amount
          /\ new.up.requesting = up.requesting
          /\ new.up.pending = up.pending /\ new.up.posted = up.posted
      BY <3>2 DEF UploaderState
    <3>4. new \in UploaderPart
      BY <2>2, <2>3, <2>7, <3>2, <3>3 DEF UploaderPart
    <3>5. OthersAsk(m.queue, g.queue, Uploader)
      BY <3>1 DEF OthersAsk
    <3> QED
      BY <3>1, <3>2, <3>3, <3>4, <3>5 DEF UploaderWaits, new
  <2> QED
    BY <2>6, <2>7
<1> QED
  BY <1>1, <1>2

-------------------------------------------------------------------------------
(* The initial states, and every step. *)

LEMMA ManagerFacts ==
    ASSUME BandwidthTypes
    PROVE  Manager \in ManagerState /\ Manager.queue = requestsQueue /\ Manager.left = quotaLeft
BY DEF Manager, ManagerState, BandwidthTypes

LEMMA RoundHolds ==
    ASSUME BandwidthHolds, UpdateQuotas
    PROVE  BandwidthHolds'
<1>1. BandwidthTypes
  BY DEF BandwidthHolds
<1>2. /\ requestsQueue' \in Seq(Grant) /\ assigning' \in Seq(Grant)
      /\ \A u \in Users :
            /\ Asks(requestsQueue, u) <=> Asks(requestsQueue', u) \/ Asks(assigning', u)
            /\ Once(requestsQueue, u) =>
                  /\ Once(requestsQueue', u) /\ Once(assigning', u)
                  /\ ~ (Asks(requestsQueue', u) /\ Asks(assigning', u))
  BY <1>1, RoundFacts
<1>3. quotaLeft' \in [Channels -> Nat]
  <2>1. ASSUME NEW channel \in Channels
        PROVE  (IF limit[channel] = 0 THEN quotaLeft[channel]
                ELSE UpdateQuota(channel) - Shares(channel)) \in Nat
    <3>1. CASE limit[channel] = 0
      BY <1>1, <3>1 DEF BandwidthTypes
    <3>2. CASE limit[channel] # 0
      BY <1>1, <3>2, SharesFacts
    <3> QED
      BY <3>1, <3>2
  <2> QED
    BY <2>1 DEF UpdateQuotas
<1>4. UNCHANGED <<limit, stream, uploader, established, plan>>
  BY DEF UpdateQuotas
<1>5. BandwidthTypes'
  BY <1>1, <1>2, <1>3, <1>4 DEF BandwidthTypes
<1>6. \A u \in Users : ~ Asks(assigning, u)
  <2>1. Len(assigning) = 0
    BY DEF UpdateQuotas
  <2> QED
    BY <2>1 DEF Asks
<1>7. StreamsHold'
  <2> SUFFICES ASSUME NEW s \in Streams
               PROVE  /\ StreamWaits(stream[s], requestsQueue', assigning', s)
                      /\ stream[s].connected => stream[s].waitingData \/ stream[s].waitingBw
    BY <1>4 DEF StreamsHold, StreamWaits, Asks, Once
  <2>1. /\ StreamWaits(stream[s], requestsQueue, assigning, s)
        /\ stream[s].connected => stream[s].waitingData \/ stream[s].waitingBw
    BY DEF BandwidthHolds, StreamsHold
  <2>2. s \in Users
    BY DEF Users
  <2> QED
    BY <1>2, <1>6, <2>1, <2>2 DEF StreamWaits
<1>8. UploaderHolds'
  <2>1. UploaderWaits(uploader, requestsQueue, assigning) /\ BlocksCovered(uploader)
    BY DEF BandwidthHolds, UploaderHolds
  <2>2. Uploader \in Users
    BY DEF Users
  <2>3. uploader.requesting => Asks(requestsQueue', Uploader) \/ Asks(assigning', Uploader)
    BY <1>2, <1>6, <2>1, <2>2 DEF UploaderWaits
  <2>4. uploader' = uploader /\ established' = established
    BY <1>4
  <2>5. UploaderWaits(uploader, requestsQueue, assigning)'
    BY <2>3, <2>4 DEF UploaderWaits, Asks
  <2>6. BlocksCovered(uploader)'
    BY <2>1, <2>4 DEF BlocksCovered
  <2> QED
    BY <2>5, <2>6 DEF UploaderHolds
<1> QED
  BY <1>5, <1>7, <1>8 DEF BandwidthHolds

LEMMA StreamsFrame ==
    ASSUME StreamsHold, UNCHANGED <<stream, requestsQueue, assigning>>
    PROVE  StreamsHold'
BY DEF StreamsHold, StreamWaits, Asks, Once

LEMMA UploaderFrame ==
    ASSUME UploaderHolds, UNCHANGED <<uploader, requestsQueue, assigning, established>>
    PROVE  UploaderHolds'
<1>1. /\ uploader' = uploader /\ requestsQueue' = requestsQueue /\ assigning' = assigning
      /\ established' = established
  OBVIOUS
<1> QED
  BY <1>1 DEF UploaderHolds, UploaderWaits, BlocksCovered, Asks

\* A step of one stream, and of what is given to it.
LEMMA StreamStep ==
    ASSUME BandwidthHolds, NEW s \in Streams, NEW st \in StreamPart, SetStream(s, st),
           UNCHANGED <<limit, uploader, established, plan>>, assigning' \in Seq(Grant),
           OthersAsk(requestsQueue, st.m.queue, s), OthersAsk(assigning, assigning', s),
           StreamWaits(st.stream, st.m.queue, assigning', s),
           st.stream.connected => st.stream.waitingData \/ st.stream.waitingBw
    PROVE  BandwidthHolds'
<1>1. /\ stream' = [stream EXCEPT ![s] = st.stream] /\ quotaLeft' = st.m.left
      /\ requestsQueue' = st.m.queue
  BY DEF SetStream
<1>2. /\ st.stream \in StreamState /\ st.m.left \in [Channels -> Nat] /\ st.m.queue \in Seq(Grant)
  BY DEF StreamPart, ManagerState
<1>3. BandwidthTypes /\ stream \in [Streams -> StreamState]
  BY DEF BandwidthHolds, BandwidthTypes
<1>4. BandwidthTypes'
  BY <1>1, <1>2, <1>3 DEF BandwidthTypes
<1>5. /\ stream'[s] = st.stream
      /\ \A t \in Streams \ {s} : stream'[t] = stream[t]
  BY <1>1, <1>3
<1>6. OthersAsk(requestsQueue, requestsQueue', s)
  BY <1>1
<1>7. StreamsHold'
  <2> SUFFICES ASSUME NEW t \in Streams
               PROVE  /\ StreamWaits(stream'[t], requestsQueue', assigning', t)
                      /\ stream'[t].connected => stream'[t].waitingData \/ stream'[t].waitingBw
    BY DEF StreamsHold, StreamWaits, Asks, Once
  <2>1. CASE t = s
    BY <1>1, <1>5, <2>1
  <2>2. CASE t # s
    <3>1. t \in Users \ {s}
      BY <2>2 DEF Users
    <3>2. /\ StreamWaits(stream[t], requestsQueue, assigning, t)
          /\ stream[t].connected => stream[t].waitingData \/ stream[t].waitingBw
      BY DEF BandwidthHolds, StreamsHold
    <3>3. /\ Asks(requestsQueue', t) <=> Asks(requestsQueue, t)
          /\ Once(requestsQueue, t) => Once(requestsQueue', t)
          /\ Asks(assigning', t) <=> Asks(assigning, t)
          /\ Once(assigning, t) => Once(assigning', t)
      BY <1>6, <3>1 DEF OthersAsk
    <3>4. stream'[t] = stream[t]
      BY <1>5, <2>2
    <3> QED
      BY <3>2, <3>3, <3>4 DEF StreamWaits
  <2> QED
    BY <2>1, <2>2
<1>8. UploaderHolds'
  <2>1. Uploader \in Users \ {s}
    BY BandwidthAssumption DEF Users
  <2>2. /\ Asks(requestsQueue', Uploader) <=> Asks(requestsQueue, Uploader)
        /\ Asks(assigning', Uploader) <=> Asks(assigning, Uploader)
    BY <1>6, <2>1 DEF OthersAsk
  <2>3. uploader' = uploader /\ established' = established
    OBVIOUS
  <2>4. uploader.requesting => Asks(requestsQueue', Uploader) \/ Asks(assigning', Uploader)
    BY <2>2 DEF BandwidthHolds, UploaderHolds, UploaderWaits
  <2>5. UploaderWaits(uploader, requestsQueue, assigning)'
    BY <2>3, <2>4 DEF UploaderWaits, Asks
  <2>6. BlocksCovered(uploader)'
    BY <2>3 DEF BandwidthHolds, UploaderHolds, BlocksCovered
  <2> QED
    BY <2>5, <2>6 DEF UploaderHolds
<1> QED
  BY <1>4, <1>7, <1>8 DEF BandwidthHolds

LEMMA ReadAvailableFacts ==
    ASSUME limit \in [Channels -> Nat], NEW st \in StreamPart, NEW s \in Streams, NEW available \in Nat,
           NEW given, StreamWaits(st.stream, st.m.queue, given, s)
    PROVE  /\ ReadAvailable(st, s, available) \in StreamPart
           /\ OthersAsk(st.m.queue, ReadAvailable(st, s, available).m.queue, s)
           /\ StreamWaits(ReadAvailable(st, s, available).stream,
                          ReadAvailable(st, s, available).m.queue, given, s)
<1> DEFINE a == Ask(st, s, available)
           new == ReadAvailable(st, s, available)
<1>1. /\ a \in StreamPart
      /\ OthersAsk(st.m.queue, a.m.queue, s)
      /\ StreamWaits(a.stream, a.m.queue, given, s)
  BY AskFacts
<1>2. CASE available > 0 /\ a.stream.quota > 0
  <2>1. new = [a EXCEPT !.stream.quota = 0]
    BY <1>2 DEF ReadAvailable
  <2> HIDE DEF a, new
  <2>2. a.stream \in StreamState /\ a.m \in ManagerState
    BY <1>1 DEF StreamPart
  <2>3. new.m = a.m /\ new.stream = [a.stream EXCEPT !.quota = 0]
    BY <1>1, <2>1 DEF StreamPart
  <2>4. [a.stream EXCEPT !.quota = 0] \in StreamState
    BY <2>2 DEF StreamState
  <2>5. new \in StreamPart
    BY <1>1, <2>1, <2>4 DEF StreamPart
  <2>6. new.stream.waitingBw = a.stream.waitingBw
    BY <2>2, <2>3 DEF StreamState
  <2>7. StreamWaits(new.stream, a.m.queue, given, s)
    BY <1>1, <2>6 DEF StreamWaits
  <2> QED
    BY <1>1, <2>3, <2>5, <2>7 DEF new
<1>3. CASE ~ (available > 0 /\ a.stream.quota > 0)
  <2>1. new = a
    BY <1>3 DEF ReadAvailable
  <2> HIDE DEF a, new
  <2> QED
    BY <1>1, <2>1 DEF new
<1> QED
  BY <1>2, <1>3

LEMMA HandleReceiveHolds ==
    ASSUME BandwidthHolds, NEW s \in Streams, HandleReceive(s)
    PROVE  BandwidthHolds'
<1> DEFINE x == [stream[s] EXCEPT !.waitingData = FALSE, !.quota = 0]
           first == [m |-> Manager, stream |-> x]
<1>1. BandwidthTypes /\ stream[s] \in StreamState /\ limit \in [Channels -> Nat]
  BY DEF BandwidthHolds, BandwidthTypes
<1>2. PICK bytes \in 1 .. stream[s].quota, more \in Sizes \cup {0} :
         SetStream(s, StartReceive(IF bytes = stream[s].quota THEN ReadAvailable(first, s, more)
                                   ELSE first, s))
  BY DEF HandleReceive
<1>3. x \in StreamState /\ x.waitingBw = stream[s].waitingBw
  BY <1>1 DEF StreamState
<1>4. Manager \in ManagerState /\ Manager.queue = requestsQueue
  BY <1>1, ManagerFacts
<1> HIDE DEF x
<1>5. first \in StreamPart /\ first.stream = x /\ first.m = Manager
  BY <1>3, <1>4 DEF StreamPart
<1>6. StreamWaits(first.stream, first.m.queue, assigning, s)
  <2>1. StreamWaits(stream[s], requestsQueue, assigning, s)
    BY DEF BandwidthHolds, StreamsHold
  <2> QED
    BY <1>3, <1>4, <1>5, <2>1 DEF StreamWaits
<1>7. more \in Nat
  BY BandwidthAssumption
<1> DEFINE read == IF bytes = stream[s].quota THEN ReadAvailable(first, s, more) ELSE first
<1>8. /\ read \in StreamPart
      /\ OthersAsk(requestsQueue, read.m.queue, s)
      /\ StreamWaits(read.stream, read.m.queue, assigning, s)
  <2>1. OthersAsk(requestsQueue, first.m.queue, s)
    BY <1>4, <1>5 DEF OthersAsk
  <2>2. /\ ReadAvailable(first, s, more) \in StreamPart
        /\ OthersAsk(first.m.queue, ReadAvailable(first, s, more).m.queue, s)
        /\ StreamWaits(ReadAvailable(first, s, more).stream, ReadAvailable(first, s, more).m.queue,
                       assigning, s)
    <3> HIDE DEF first
    <3> QED
      BY <1>1, <1>5, <1>6, <1>7, ReadAvailableFacts
  <2>3. first.m.queue = requestsQueue
    BY <1>4, <1>5
  <2> HIDE DEF first
  <2>4. CASE bytes = stream[s].quota
    BY <2>2, <2>3, <2>4
  <2>5. CASE bytes # stream[s].quota
    BY <1>5, <1>6, <2>1, <2>5
  <2> QED
    BY <2>4, <2>5
<1> DEFINE st == StartReceive(read, s)
<1>9. SetStream(s, st)
  BY <1>2
<1> HIDE DEF read
<1>10. /\ st \in StreamPart
       /\ OthersAsk(read.m.queue, st.m.queue, s)
       /\ StreamWaits(st.stream, st.m.queue, assigning, s)
       /\ st.stream.connected => st.stream.waitingData \/ st.stream.waitingBw
  BY <1>1, <1>8, StartReceiveFacts
<1> HIDE DEF st
<1>11. OthersAsk(requestsQueue, st.m.queue, s)
  BY <1>8, <1>10, OthersAskTwice
<1>12. UNCHANGED <<limit, uploader, established, plan>> /\ assigning' = assigning
  BY DEF HandleReceive
<1>13. assigning' \in Seq(Grant) /\ OthersAsk(assigning, assigning', s)
  BY <1>1, <1>12 DEF BandwidthTypes, OthersAsk
<1>14. StreamWaits(st.stream, st.m.queue, assigning', s)
  BY <1>10, <1>12
<1> QED
  BY <1>9, <1>10, <1>11, <1>12, <1>13, <1>14, StreamStep

LEMMA AssignStreamHolds ==
    ASSUME BandwidthHolds, AssignBandwidth, Last(assigning).user # Uploader
    PROVE  BandwidthHolds'
<1> DEFINE r == Last(assigning)
           s == r.user
           x == [stream[s] EXCEPT !.waitingBw = FALSE, !.quota = @ + r.assigned]
           first == [m |-> Manager, stream |-> x]
           st == StartReceive(first, s)
<1>1. BandwidthTypes /\ assigning \in Seq(Grant) /\ assigning # <<>> /\ limit \in [Channels -> Nat]
  BY DEF BandwidthHolds, BandwidthTypes, AssignBandwidth
<1>2. /\ assigning' = Front(assigning) /\ SetStream(s, st)
      /\ UNCHANGED <<limit, uploader, established, plan>>
  BY DEF AssignBandwidth, AssignStream
<1>3. \A u : /\ Front(assigning) \in Seq(Grant) /\ r \in Grant
             /\ Asks(assigning, u) <=> Asks(Front(assigning), u) \/ r.user = u
             /\ Once(assigning, u) => Once(Front(assigning), u)
             /\ Once(assigning, u) /\ r.user = u => ~ Asks(Front(assigning), u)
  BY <1>1, FrontAsks
<1>4. r \in Grant /\ s \in Streams /\ r.assigned \in Nat
  BY <1>3 DEF Grant, Users
<1>5. stream[s] \in StreamState /\ StreamWaits(stream[s], requestsQueue, assigning, s)
  <2> HIDE DEF s
  <2> QED
    BY <1>1, <1>4 DEF BandwidthHolds, BandwidthTypes, StreamsHold
<1>6. x \in StreamState /\ ~ x.waitingBw
  <2> HIDE DEF r, s
  <2>1. stream[s].quota + r.assigned \in Nat
    BY <1>4, <1>5 DEF StreamState
  <2>2. \A q \in Nat : /\ [stream[s] EXCEPT !.waitingBw = FALSE, !.quota = q] \in StreamState
                       /\ [stream[s] EXCEPT !.waitingBw = FALSE, !.quota = q].waitingBw = FALSE
    BY <1>5 DEF StreamState
  <2> QED
    BY <2>1, <2>2
<1>7. Manager \in ManagerState /\ Manager.queue = requestsQueue
  BY <1>1, ManagerFacts
<1> HIDE DEF r, s, x
<1>8. first \in StreamPart /\ first.stream = x /\ first.m = Manager
  BY <1>6, <1>7 DEF StreamPart
<1>9. StreamWaits(x, requestsQueue, Front(assigning), s)
  <2>1. Asks(assigning, s) /\ ~ Asks(Front(assigning), s) /\ Once(Front(assigning), s)
    BY <1>3, <1>5 DEF StreamWaits, s
  <2> QED
    BY <1>5, <1>6, <2>1 DEF StreamWaits
<1> HIDE DEF first
<1>10. /\ st \in StreamPart
       /\ OthersAsk(first.m.queue, st.m.queue, s)
       /\ StreamWaits(st.stream, st.m.queue, Front(assigning), s)
       /\ st.stream.connected => st.stream.waitingData \/ st.stream.waitingBw
  BY <1>1, <1>4, <1>7, <1>8, <1>9, StartReceiveFacts
<1> HIDE DEF st
<1>11. OthersAsk(requestsQueue, st.m.queue, s)
  BY <1>7, <1>8, <1>10
<1>12. assigning' \in Seq(Grant) /\ OthersAsk(assigning, assigning', s)
  BY <1>2, <1>3 DEF OthersAsk, s
<1>13. StreamWaits(st.stream, st.m.queue, assigning', s)
  BY <1>2, <1>10
<1> QED
  BY <1>2, <1>4, <1>10, <1>11, <1>12, <1>13, StreamStep

\* A step of the uploader, and of what is given to it.
LEMMA UploaderStep ==
    ASSUME BandwidthHolds, NEW up \in UploaderState, NEW m \in ManagerState,
           uploader' = up, quotaLeft' = m.left, requestsQueue' = m.queue,
           UNCHANGED <<limit, stream, established>>, plan' \in PlanState, assigning' \in Seq(Grant),
           OthersAsk(requestsQueue, m.queue, Uploader), OthersAsk(assigning, assigning', Uploader),
           UploaderWaits(up, m.queue, assigning'), BlocksCovered(up)
    PROVE  BandwidthHolds'
<1>1. /\ limit' = limit /\ stream' = stream /\ established' = established
      /\ m.left \in [Channels -> Nat] /\ m.queue \in Seq(Grant)
  BY DEF ManagerState
<1>2. BandwidthTypes'
  BY <1>1 DEF BandwidthHolds, BandwidthTypes
<1>3. StreamsHold'
  <2> SUFFICES ASSUME NEW s \in Streams
               PROVE  /\ StreamWaits(stream[s], requestsQueue', assigning', s)
                      /\ stream[s].connected => stream[s].waitingData \/ stream[s].waitingBw
    BY <1>1 DEF StreamsHold, StreamWaits, Asks, Once
  <2>1. s \in Users \ {Uploader}
    BY BandwidthAssumption DEF Users
  <2>2. /\ StreamWaits(stream[s], requestsQueue, assigning, s)
        /\ stream[s].connected => stream[s].waitingData \/ stream[s].waitingBw
    BY DEF BandwidthHolds, StreamsHold
  <2>3. /\ Asks(requestsQueue', s) <=> Asks(requestsQueue, s)
        /\ Once(requestsQueue, s) => Once(requestsQueue', s)
        /\ Asks(assigning', s) <=> Asks(assigning, s)
        /\ Once(assigning, s) => Once(assigning', s)
    BY <2>1 DEF OthersAsk
  <2> QED
    BY <2>2, <2>3 DEF StreamWaits
<1>4. UploaderHolds'
  <2>1. up.requesting => Asks(requestsQueue', Uploader) \/ Asks(assigning', Uploader)
    BY DEF UploaderWaits
  <2>2. UploaderWaits(uploader, requestsQueue, assigning)'
    BY <2>1 DEF UploaderWaits, Asks
  <2>3. BlocksCovered(uploader)'
    BY <1>1 DEF BlocksCovered
  <2> QED
    BY <2>2, <2>3 DEF UploaderHolds
<1> QED
  BY <1>2, <1>3, <1>4 DEF BandwidthHolds

LEMMA SpentPlan ==
    ASSUME plan \in PlanState
    PROVE  /\ plan.changes > 0 => [plan EXCEPT !.changes = @ - 1] \in PlanState
           /\ plan.requests > 0 => [plan EXCEPT !.requests = @ - 1] \in PlanState
           /\ plan.closes > 0 => [plan EXCEPT !.closes = @ - 1] \in PlanState
           /\ plan.stops > 0 => [plan EXCEPT !.stops = @ - 1] \in PlanState
           /\ plan.chokes > 0 => [plan EXCEPT !.chokes = @ - 1] \in PlanState
<1>1. /\ plan.changes \in Nat /\ plan.requests \in Nat /\ plan.closes \in Nat
      /\ plan.stops \in Nat /\ plan.chokes \in Nat
  BY DEF PlanState
<1>2. \A n \in Nat : n > 0 => n - 1 \in Nat
  OBVIOUS
<1>3. \A n \in Nat : /\ [plan EXCEPT !.changes = n] \in PlanState
                     /\ [plan EXCEPT !.requests = n] \in PlanState
                     /\ [plan EXCEPT !.closes = n] \in PlanState
                     /\ [plan EXCEPT !.stops = n] \in PlanState
                     /\ [plan EXCEPT !.chokes = n] \in PlanState
  BY DEF PlanState
<1> QED
  BY <1>1, <1>2, <1>3

LEMMA SetLimitHolds ==
    ASSUME BandwidthHolds, SetLimit
    PROVE  BandwidthHolds'
<1>1. PICK channel \in Channels, l \in plan.limits \cup {0} : limit' = [limit EXCEPT ![channel] = l]
  BY DEF SetLimit
<1>2. BandwidthTypes /\ plan \in PlanState
  BY DEF BandwidthHolds, BandwidthTypes
<1>3. limit' \in [Channels -> Nat]
  BY <1>1, <1>2 DEF BandwidthTypes, PlanState
<1>4. plan' \in PlanState /\ UNCHANGED <<quotaLeft, requestsQueue, assigning, stream, uploader, established>>
  BY <1>2, SpentPlan DEF SetLimit
<1>5. BandwidthTypes'
  BY <1>2, <1>3, <1>4 DEF BandwidthTypes
<1> QED
  BY <1>4, <1>5, StreamsFrame, UploaderFrame DEF BandwidthHolds

LEMMA PostFailHolds ==
    ASSUME BandwidthHolds, NEW s \in Streams, PostFail(s)
    PROVE  BandwidthHolds'
<1> DEFINE x == [stream[s] EXCEPT !.connected = FALSE, !.waitingData = FALSE]
<1>1. BandwidthTypes /\ plan \in PlanState /\ stream \in [Streams -> StreamState]
  BY DEF BandwidthHolds, BandwidthTypes
<1>2. x \in StreamState /\ ~ x.connected /\ x.waitingBw = stream[s].waitingBw
  BY <1>1 DEF StreamState
<1>3. /\ stream' = [stream EXCEPT ![s] = x] /\ plan' \in PlanState
      /\ UNCHANGED <<limit, quotaLeft, requestsQueue, assigning, uploader, established>>
  BY <1>1, SpentPlan DEF PostFail
<1> HIDE DEF x
<1>4. BandwidthTypes'
  BY <1>1, <1>2, <1>3 DEF BandwidthTypes
<1>5. StreamsHold'
  <2> SUFFICES ASSUME NEW t \in Streams
               PROVE  /\ StreamWaits(stream'[t], requestsQueue, assigning, t)
                      /\ stream'[t].connected => stream'[t].waitingData \/ stream'[t].waitingBw
    BY <1>3 DEF StreamsHold, StreamWaits, Asks, Once
  <2>1. /\ StreamWaits(stream[t], requestsQueue, assigning, t)
        /\ stream[t].connected => stream[t].waitingData \/ stream[t].waitingBw
    BY DEF BandwidthHolds, StreamsHold
  <2>2. stream'[t] = IF t = s THEN x ELSE stream[t]
    BY <1>1, <1>3
  <2> QED
    BY <1>2, <2>1, <2>2 DEF StreamWaits
<1> QED
  BY <1>3, <1>4, <1>5, UploaderFrame DEF BandwidthHolds

LEMMA SetMinimumHolds ==
    ASSUME BandwidthHolds, NEW s \in Streams, SetMinBandwidthRequest(s)
    PROVE  BandwidthHolds'
<1>1. PICK e \in Expecting : stream' = [stream EXCEPT ![s].expecting = e]
  BY DEF SetMinBandwidthRequest
<1> DEFINE x == [stream[s] EXCEPT !.expecting = e]
<1>2. BandwidthTypes /\ plan \in PlanState /\ stream \in [Streams -> StreamState]
  BY DEF BandwidthHolds, BandwidthTypes
<1>3. /\ x \in StreamState /\ x.connected = stream[s].connected
      /\ x.waitingBw = stream[s].waitingBw /\ x.waitingData = stream[s].waitingData
  BY <1>2 DEF StreamState
<1>4. /\ stream' = [stream EXCEPT ![s] = x] /\ plan' \in PlanState
      /\ UNCHANGED <<limit, quotaLeft, requestsQueue, assigning, uploader, established>>
  BY <1>1, <1>2, SpentPlan DEF SetMinBandwidthRequest
<1> HIDE DEF x
<1>5. BandwidthTypes'
  BY <1>2, <1>3, <1>4 DEF BandwidthTypes
<1>6. StreamsHold'
  <2> SUFFICES ASSUME NEW t \in Streams
               PROVE  /\ StreamWaits(stream'[t], requestsQueue, assigning, t)
                      /\ stream'[t].connected => stream'[t].waitingData \/ stream'[t].waitingBw
    BY <1>4 DEF StreamsHold, StreamWaits, Asks, Once
  <2>1. /\ StreamWaits(stream[t], requestsQueue, assigning, t)
        /\ stream[t].connected => stream[t].waitingData \/ stream[t].waitingBw
    BY DEF BandwidthHolds, StreamsHold
  <2>2. stream'[t] = IF t = s THEN x ELSE stream[t]
    BY <1>2, <1>4
  <2> QED
    BY <1>3, <2>1, <2>2 DEF StreamWaits
<1> QED
  BY <1>4, <1>5, <1>6, UploaderFrame DEF BandwidthHolds

LEMMA AssignUploaderHolds ==
    ASSUME BandwidthHolds, AssignBandwidth, Last(assigning).user = Uploader
    PROVE  BandwidthHolds'
<1> DEFINE r == Last(assigning)
           posted == IF uploader.pending # <<>> THEN uploader.posted + 1 ELSE uploader.posted
           sum == uploader.available + r.assigned
           up == [uploader EXCEPT !.requesting = FALSE, !.available = sum, !.posted = posted]
<1>1. BandwidthTypes /\ assigning \in Seq(Grant) /\ assigning # <<>> /\ uploader \in UploaderState
  BY DEF BandwidthHolds, BandwidthTypes, AssignBandwidth
<1>2. /\ assigning' = Front(assigning) /\ uploader' = up
      /\ UNCHANGED <<quotaLeft, requestsQueue, stream, limit, established, plan>>
  BY DEF AssignBandwidth, AssignUploader
<1>3. \A u : /\ Front(assigning) \in Seq(Grant) /\ r \in Grant
             /\ Asks(assigning, u) <=> Asks(Front(assigning), u) \/ r.user = u
             /\ Once(assigning, u) => Once(Front(assigning), u)
  BY <1>1, FrontAsks
<1>4. /\ posted \in Nat /\ sum \in Nat /\ uploader.posted \in Nat
      /\ uploader.pending # <<>> => posted > 0
  <2>1. r.assigned \in Nat
    BY <1>3 DEF Grant
  <2> HIDE DEF r
  <2> QED
    BY <1>1, <2>1 DEF UploaderState
<1> HIDE DEF posted, sum
<1>5. /\ up \in UploaderState /\ ~ up.requesting /\ up.posted = posted
      /\ up.pending = uploader.pending
  BY <1>1, <1>4 DEF UploaderState
<1> HIDE DEF up
<1>6. BlocksCovered(up)
  BY <1>4, <1>5 DEF BlocksCovered
<1>7. UploaderWaits(up, requestsQueue, assigning')
  BY <1>5 DEF UploaderWaits
<1>8. /\ Manager \in ManagerState /\ Manager.queue = requestsQueue /\ Manager.left = quotaLeft
  BY <1>1, ManagerFacts
<1>9. /\ assigning' \in Seq(Grant) /\ OthersAsk(assigning, assigning', Uploader)
      /\ OthersAsk(requestsQueue, Manager.queue, Uploader)
  BY <1>2, <1>3, <1>8 DEF OthersAsk
<1>10. plan' \in PlanState
  BY <1>1, <1>2 DEF BandwidthTypes
<1> QED
  BY <1>2, <1>5, <1>6, <1>7, <1>8, <1>9, <1>10, UploaderStep

LEMMA StopHolds ==
    ASSUME BandwidthHolds, StopUploader
    PROVE  BandwidthHolds'
<1> DEFINE up == [uploader EXCEPT !.pending = <<>>, !.requesting = FALSE, !.available = 0]
<1>1. BandwidthTypes /\ uploader \in UploaderState /\ plan \in PlanState
  BY DEF BandwidthHolds, BandwidthTypes
<1>2. /\ uploader' = up /\ plan' \in PlanState
      /\ UNCHANGED <<limit, quotaLeft, requestsQueue, assigning, stream, established>>
  BY <1>1, SpentPlan DEF StopUploader
<1>3. up \in UploaderState /\ ~ up.requesting /\ Len(up.pending) = 0
  <2>1. <<>> \in Seq(Block)
    OBVIOUS
  <2> QED
    BY <1>1, <2>1 DEF UploaderState
<1> HIDE DEF up
<1>4. BlocksCovered(up) /\ UploaderWaits(up, requestsQueue, assigning)
  BY <1>3 DEF BlocksCovered, UploaderWaits
<1>5. /\ Manager \in ManagerState /\ Manager.queue = requestsQueue /\ Manager.left = quotaLeft
  BY <1>1, ManagerFacts
<1>6. OthersAsk(assigning, assigning', Uploader) /\ OthersAsk(requestsQueue, Manager.queue, Uploader)
  BY <1>2, <1>5 DEF OthersAsk
<1>7. assigning' \in Seq(Grant)
  BY <1>1, <1>2 DEF BandwidthTypes
<1> QED
  BY <1>2, <1>3, <1>4, <1>5, <1>6, <1>7, UploaderStep

LEMMA SendRequestsHolds ==
    ASSUME BandwidthHolds, SendRequests
    PROVE  BandwidthHolds'
<1> DEFINE sent == Sent(uploader)
           up == [uploader EXCEPT !.posted = @ - 1, !.available = sent.available,
                                  !.pending = sent.delayed]
           st == IF sent.wanted > 0 THEN RequestBytes(up, Manager, sent.wanted)
                 ELSE [up |-> up, m |-> Manager]
           atOnce == sent.wanted > 0 /\ ~ st.up.requesting
           new == [st EXCEPT !.up.atOnce = atOnce]
<1>1. /\ BandwidthTypes /\ uploader \in UploaderState /\ limit \in [Channels -> Nat]
      /\ uploader.posted > 0 /\ uploader.posted \in Nat
  BY DEF BandwidthHolds, BandwidthTypes, UploaderState, SendRequests
<1>2. SetUploader(new) /\ UNCHANGED <<limit, assigning, stream, established, plan>>
  BY DEF SendRequests
<1>3. /\ sent \in [available : Nat, delayed : Seq(Block), wanted : Nat]
      /\ \A i \in 1 .. Len(sent.delayed) : sent.delayed[i].length <= sent.wanted
      /\ sent.delayed # <<>> => sent.wanted > sent.available
  <2>1. uploader.pending \in Seq(Block) /\ uploader.available \in Nat
    BY <1>1 DEF UploaderState
  <2> QED
    BY <2>1, SentFacts
<1> HIDE DEF sent
<1>4. up \in UploaderState /\ up.pending = sent.delayed /\ up.requesting = uploader.requesting
  <2>1. uploader.posted - 1 \in Nat
    BY <1>1
  <2> DEFINE n == uploader.posted - 1
             a == sent.available
             d == sent.delayed
  <2>2. n \in Nat /\ a \in Nat /\ d \in Seq(Block)
    BY <1>3, <2>1
  <2>3. up = [uploader EXCEPT !.posted = n, !.available = a, !.pending = d]
    OBVIOUS
  <2> HIDE DEF n, a, up
  <2> QED
    BY <1>1, <2>2, <2>3 DEF UploaderState
<1> HIDE DEF up
<1>5. /\ Manager \in ManagerState /\ Manager.queue = requestsQueue /\ Manager.left = quotaLeft
  BY <1>1, ManagerFacts
<1>6. UploaderWaits(up, Manager.queue, assigning)
  BY <1>4, <1>5 DEF UploaderWaits, BandwidthHolds, UploaderHolds
<1>7. /\ st \in UploaderPart
      /\ OthersAsk(Manager.queue, st.m.queue, Uploader)
      /\ UploaderWaits(st.up, st.m.queue, assigning)
      /\ st.up.pending = sent.delayed
      /\ sent.wanted > 0 => st.up.requesting \/ st.up.available >= sent.wanted
  <2>1. CASE sent.wanted > 0
    <3>1. st = RequestBytes(up, Manager, sent.wanted)
      BY <2>1
    <3> HIDE DEF st
    <3> QED
      BY <1>1, <1>3, <1>4, <1>5, <1>6, <3>1, RequestBytesFacts
  <2>2. CASE ~ (sent.wanted > 0)
    <3>1. st = [up |-> up, m |-> Manager]
      BY <2>2
    <3> HIDE DEF st
    <3> QED
      BY <1>4, <1>5, <1>6, <2>2, <3>1 DEF UploaderPart, OthersAsk
  <2> QED
    BY <2>1, <2>2
<1> HIDE DEF st
<1>8. st.up \in UploaderState /\ st.m \in ManagerState /\ atOnce \in BOOLEAN
  BY <1>7 DEF UploaderPart
<1>9. new.m = st.m /\ new.up = [st.up EXCEPT !.atOnce = atOnce]
  BY <1>7 DEF UploaderPart
<1>10. /\ new.up \in UploaderState /\ new.up.atOnce = atOnce
       /\ new.up.pending = sent.delayed /\ new.up.requesting = st.up.requesting
       /\ new.up.available = st.up.available
  <2> HIDE DEF atOnce
  <2> QED
    BY <1>7, <1>8, <1>9 DEF UploaderState
<1> DEFINE newUp == new.up
<1> HIDE DEF new
<1>11. BlocksCovered(newUp)
  <2>1. CASE new.up.requesting
    BY <2>1 DEF BlocksCovered
  <2>2. CASE ~ new.up.requesting /\ sent.wanted > 0
    <3>1. atOnce /\ new.up.available >= sent.wanted
      BY <1>7, <1>10, <2>2
    <3>2. new.up.available \in Nat /\ sent.wanted \in Nat
      BY <1>3, <1>10 DEF UploaderState
    <3>3. ASSUME NEW i \in 1 .. Len(new.up.pending)
          PROVE  new.up.pending[i].length <= new.up.available
      <4>1. sent.delayed[i] \in Block /\ sent.delayed[i].length <= sent.wanted
        BY <1>3, <1>10
      <4>2. sent.delayed[i].length \in Nat
        BY <4>1, BandwidthAssumption DEF Block
      <4> QED
        BY <1>10, <3>1, <3>2, <4>1, <4>2
    <3> QED
      BY <1>10, <3>1, <3>3 DEF BlocksCovered
  <2>3. CASE ~ (sent.wanted > 0)
    <3>1. Len(sent.delayed) = 0
      <4> SUFFICES ASSUME Len(sent.delayed) # 0 PROVE FALSE
        OBVIOUS
      <4>1. sent.delayed \in Seq(Block)
        BY <1>3
      <4>2. 1 \in 1 .. Len(sent.delayed) /\ sent.delayed[1] \in Block
        BY <4>1
      <4>3. sent.delayed[1].length <= sent.wanted /\ sent.wanted \in Nat
        BY <1>3, <4>2
      <4>4. sent.delayed[1].length \in Nat \ {0}
        BY <4>2, BandwidthAssumption DEF Block
      <4> QED
        BY <2>3, <4>3, <4>4
    <3> QED
      BY <1>10, <3>1 DEF BlocksCovered
  <2> QED
    BY <2>1, <2>2, <2>3
<1>12. UploaderWaits(newUp, st.m.queue, assigning)
  BY <1>7, <1>10 DEF UploaderWaits
<1>13. /\ uploader' = newUp /\ quotaLeft' = st.m.left /\ requestsQueue' = st.m.queue
       /\ assigning' = assigning /\ plan' = plan
       /\ UNCHANGED <<limit, stream, established>>
  BY <1>2, <1>9 DEF SetUploader
<1>14. /\ OthersAsk(requestsQueue, st.m.queue, Uploader)
       /\ OthersAsk(assigning, assigning', Uploader)
       /\ UploaderWaits(newUp, st.m.queue, assigning')
  BY <1>5, <1>7, <1>12, <1>13 DEF OthersAsk
<1>15. plan' \in PlanState /\ assigning' \in Seq(Grant)
  BY <1>1, <1>13 DEF BandwidthTypes
<1> HIDE DEF newUp
<1>16. newUp \in UploaderState
  BY <1>10 DEF newUp
<1> QED
  BY <1>8, <1>11, <1>13, <1>14, <1>15, <1>16, UploaderStep

LEMMA PieceRequestHolds ==
    ASSUME BandwidthHolds, NEW p \in Peers, PieceRequest(p)
    PROVE  BandwidthHolds'
<1>1. PICK length \in Sizes :
         LET st == RequestBytes(uploader, Manager, length)
         IN SetUploader([st EXCEPT
               !.up.pending = Append(@, [peer |-> p, length |-> length, no |-> plan.requests]),
               !.up.posted = IF st.up.requesting THEN @ ELSE @ + 1])
  BY DEF PieceRequest
<1> DEFINE block == [peer |-> p, length |-> length, no |-> plan.requests]
           st == RequestBytes(uploader, Manager, length)
           posted == IF st.up.requesting THEN st.up.posted ELSE st.up.posted + 1
           pending == Append(st.up.pending, block)
           new == [st EXCEPT !.up.pending = pending, !.up.posted = posted]
           newUp == [st.up EXCEPT !.pending = pending, !.posted = posted]
<1>2. SetUploader(new) /\ plan.requests > 0
  BY <1>1 DEF PieceRequest
<1>3. /\ BandwidthTypes /\ uploader \in UploaderState /\ limit \in [Channels -> Nat]
      /\ plan \in PlanState
  BY DEF BandwidthHolds, BandwidthTypes
<1>4. block \in Block
  BY <1>3 DEF Block, PlanState
<1>5. /\ Manager \in ManagerState /\ Manager.queue = requestsQueue /\ Manager.left = quotaLeft
  BY <1>3, ManagerFacts
<1>6. UploaderWaits(uploader, Manager.queue, assigning)
  BY <1>5 DEF BandwidthHolds, UploaderHolds
<1>7. /\ st \in UploaderPart
      /\ OthersAsk(Manager.queue, st.m.queue, Uploader)
      /\ UploaderWaits(st.up, st.m.queue, assigning)
  <2>1. length \in Nat
    BY BandwidthAssumption
  <2> QED
    BY <1>3, <1>5, <1>6, <2>1, RequestBytesFacts
<1> HIDE DEF block, st
<1>8. st.up \in UploaderState /\ st.m \in ManagerState
  BY <1>7 DEF UploaderPart
<1>9. posted \in Nat /\ (st.up.requesting \/ posted > 0) /\ pending \in Seq(Block)
  <2>1. st.up.posted \in Nat /\ st.up.pending \in Seq(Block)
    BY <1>8 DEF UploaderState
  <2> QED
    BY <1>4, <2>1
<1> HIDE DEF posted, pending
<1>10. new.m = st.m /\ new.up = newUp
  BY <1>7 DEF UploaderPart
<1> HIDE DEF new
<1>11. /\ newUp \in UploaderState /\ newUp.posted = posted /\ newUp.requesting = st.up.requesting
  BY <1>8, <1>9 DEF UploaderState
<1> HIDE DEF newUp
<1>12. BlocksCovered(newUp) /\ UploaderWaits(newUp, st.m.queue, assigning)
  BY <1>7, <1>9, <1>11 DEF BlocksCovered, UploaderWaits
<1>13. /\ uploader' = newUp /\ quotaLeft' = st.m.left /\ requestsQueue' = st.m.queue
       /\ assigning' = assigning /\ plan' \in PlanState
       /\ UNCHANGED <<limit, stream, established>>
  BY <1>2, <1>3, <1>10, SpentPlan DEF SetUploader, PieceRequest
<1>14. /\ OthersAsk(requestsQueue, st.m.queue, Uploader)
       /\ OthersAsk(assigning, assigning', Uploader)
       /\ UploaderWaits(newUp, st.m.queue, assigning')
  BY <1>5, <1>7, <1>12, <1>13 DEF OthersAsk
<1>15. assigning' \in Seq(Grant)
  BY <1>3, <1>13 DEF BandwidthTypes
<1> QED
  BY <1>8, <1>11, <1>12, <1>13, <1>14, <1>15, UploaderStep

LEMMA PeerClosesHolds ==
    ASSUME BandwidthHolds, NEW p \in Peers, PeerCloses(p)
    PROVE  BandwidthHolds'
<1>1. BandwidthTypes /\ plan \in PlanState /\ established \in [Peers -> BOOLEAN]
      /\ uploader \in UploaderState
  BY DEF BandwidthHolds, BandwidthTypes
<1>2. /\ established' = [established EXCEPT ![p] = FALSE] /\ plan' \in PlanState
      /\ UNCHANGED <<limit, quotaLeft, requestsQueue, assigning, stream, uploader>>
  BY <1>1, SpentPlan DEF PeerCloses
<1>3. established' \in [Peers -> BOOLEAN] /\ \A q \in Peers : ~ established[q] => ~ established'[q]
  BY <1>1, <1>2
<1>4. BandwidthTypes'
  BY <1>1, <1>2, <1>3 DEF BandwidthTypes
<1>5. UploaderHolds'
  <2>1. UploaderWaits(uploader, requestsQueue, assigning)'
    BY <1>2 DEF BandwidthHolds, UploaderHolds, UploaderWaits, Asks
  <2>2. \A i \in 1 .. Len(uploader.pending) : uploader.pending[i].peer \in Peers
    <3>1. \A i \in 1 .. Len(uploader.pending) : uploader.pending[i] \in Block
      BY <1>1 DEF UploaderState
    <3> QED
      BY <3>1 DEF Block
  <2>3. BlocksCovered(uploader) /\ uploader' = uploader
    BY <1>2 DEF BandwidthHolds, UploaderHolds
  <2>4. BlocksCovered(uploader)'
    BY <1>3, <2>2, <2>3 DEF BlocksCovered
  <2> QED
    BY <2>1, <2>4 DEF UploaderHolds
<1> QED
  BY <1>2, <1>4, <1>5, StreamsFrame DEF BandwidthHolds

LEMMA CancelHolds ==
    ASSUME BandwidthHolds, NEW p \in Peers, CancelRequests(p)
    PROVE  BandwidthHolds'
<1> DEFINE rest == Without(p)
           up == [uploader EXCEPT !.pending = rest]
           S == {r \in ToSet(uploader.pending) : r.peer # p}
<1>1. BandwidthTypes /\ uploader \in UploaderState /\ uploader.pending \in Seq(Block)
  BY DEF BandwidthHolds, BandwidthTypes, UploaderState
<1>2. /\ uploader' = up
      /\ UNCHANGED <<limit, quotaLeft, requestsQueue, assigning, stream, established, plan>>
  BY DEF CancelRequests
<1>3. rest \in Seq(Block) /\ Picked(rest, uploader.pending)
  <2> HIDE DEF S
  <2>1. Those(uploader.pending, S) \in Seq(Block) /\ Picked(Those(uploader.pending, S), uploader.pending)
    BY <1>1, ThoseFacts
  <2> QED
    BY <2>1 DEF Without, S
<1> HIDE DEF rest
<1>4. /\ up \in UploaderState /\ up.pending = rest /\ up.requesting = uploader.requesting
      /\ up.posted = uploader.posted /\ up.atOnce = uploader.atOnce
      /\ up.available = uploader.available
  BY <1>1, <1>3 DEF UploaderState
<1> HIDE DEF up
<1>5. PICK at \in [1 .. Len(rest) -> 1 .. Len(uploader.pending)] :
         \A i \in 1 .. Len(rest) : rest[i] = uploader.pending[at[i]]
  BY <1>3 DEF Picked
<1>6. BlocksCovered(up)
  BY <1>4, <1>5 DEF BlocksCovered, BandwidthHolds, UploaderHolds
<1>7. UploaderWaits(up, requestsQueue, assigning)
  BY <1>4 DEF UploaderWaits, BandwidthHolds, UploaderHolds
<1>8. /\ Manager \in ManagerState /\ Manager.queue = requestsQueue /\ Manager.left = quotaLeft
  BY <1>1, ManagerFacts
<1>9. /\ OthersAsk(assigning, assigning', Uploader) /\ OthersAsk(requestsQueue, Manager.queue, Uploader)
      /\ assigning' = assigning
  BY <1>2, <1>8 DEF OthersAsk
<1>10. assigning' \in Seq(Grant) /\ plan' \in PlanState
  BY <1>1, <1>2 DEF BandwidthTypes
<1> QED
  BY <1>2, <1>4, <1>6, <1>7, <1>8, <1>9, <1>10, UploaderStep

\* An order of a finite set has every element, once.
LEMMA OrderFacts ==
    ASSUME NEW S, IsFiniteSet(S), NEW order \in SetToSeqs(S)
    PROVE  /\ order \in Seq(S) /\ Len(order) = Cardinality(S) /\ Cardinality(S) \in Nat
           /\ \A i, j \in 1 .. Len(order) : order[i] = order[j] => i = j
           /\ \A x \in S : \E i \in 1 .. Len(order) : order[i] = x
<1> DEFINE n == Cardinality(S)
           D == 1 .. n
<1>1. n \in Nat
  BY FS_CardinalityType
<1>2. order \in [D -> S] /\ \A i, j \in D : i # j => order[i] # order[j]
  BY DEF SetToSeqs
<1>3. order \in Seq(S) /\ Len(order) = n
  <2> HIDE DEF n
  <2> QED
    BY <1>1, <1>2, FunctionIsSeq
<1>4. order \in Injection(D, S)
  BY <1>2 DEF Injection, IsInjective
<1>5. Cardinality(D) = n /\ IsFiniteSet(D)
  <2> HIDE DEF n
  <2> QED
    BY <1>1, FS_Interval
<1>6. order \in Surjection(D, S)
  BY <1>4, <1>5, FS_Injection
<1>7. \A x \in S : \E i \in D : order[i] = x
  BY <1>6 DEF Surjection
<1> QED
  BY <1>1, <1>2, <1>3, <1>7

LEMMA InitHolds ==
    ASSUME BandwidthInit
    PROVE  BandwidthHolds
<1>1. PICK e \in Expecting, order \in SetToSeqs(plan.streams) :
         /\ stream = [s \in Streams |->
               [connected |-> s \in plan.streams, expecting |-> e,
                quota |-> IF limit[Download] = 0 THEN e ELSE 0,
                waitingBw |-> s \in plan.streams /\ limit[Download] # 0,
                waitingData |-> s \in plan.streams /\ limit[Download] = 0]]
         /\ requestsQueue = IF limit[Download] = 0 THEN <<>>
                            ELSE [i \in DOMAIN order |-> BandwidthRequest(order[i], e)]
  BY DEF BandwidthInit
<1>2. plan \in PlanState /\ e \in Nat \ {0}
  BY BandwidthAssumption DEF BandwidthInit, PlanState
<1>3. /\ plan.streams \in SUBSET Streams /\ plan.limits \in SUBSET Nat
  BY <1>2 DEF PlanState
<1>4. limit \in [Channels -> Nat] /\ limit[Download] \in Nat
  <2>1. limit \in [Channels -> Nat]
    BY <1>3 DEF BandwidthInit
  <2> QED
    BY <2>1 DEF Channels
<1>5. /\ order \in Seq(plan.streams) /\ Len(order) \in Nat
      /\ \A i, j \in 1 .. Len(order) : order[i] = order[j] => i = j
      /\ \A x \in plan.streams : \E i \in 1 .. Len(order) : order[i] = x
  <2>1. IsFiniteSet(plan.streams)
    BY <1>3, FS_Subset, BandwidthAssumption
  <2> QED
    BY <2>1, OrderFacts
<1>6. assigning = <<>> /\ assigning \in Seq(Grant) /\ \A u : ~ Asks(assigning, u) /\ Once(assigning, u)
  BY DEF BandwidthInit, Asks, Once
<1>7. CASE limit[Download] = 0
  <2>1. requestsQueue = <<>> /\ requestsQueue \in Seq(Grant)
    BY <1>1, <1>7
  <2>2. \A u : ~ Asks(requestsQueue, u) /\ Once(requestsQueue, u)
    BY <2>1 DEF Asks, Once
  <2>3. stream \in [Streams -> StreamState]
    BY <1>1, <1>2, <1>7 DEF StreamState
  <2>4. BandwidthTypes
    BY <1>2, <1>4, <1>6, <2>1, <2>3 DEF BandwidthTypes, BandwidthInit, UploaderState
  <2>5. StreamsHold
    BY <1>1, <1>6, <1>7, <2>2 DEF StreamsHold, StreamWaits
  <2>6. UploaderHolds
    BY DEF BandwidthInit, UploaderHolds, UploaderWaits, BlocksCovered
  <2> QED
    BY <2>4, <2>5, <2>6 DEF BandwidthHolds
<1>8. CASE limit[Download] # 0
  <2>1. requestsQueue = [i \in 1 .. Len(order) |-> BandwidthRequest(order[i], e)]
    BY <1>1, <1>5, <1>8
  <2>2. ASSUME NEW i \in 1 .. Len(order)
        PROVE  BandwidthRequest(order[i], e) \in Grant /\ BandwidthRequest(order[i], e).user = order[i]
    <3>1. order[i] \in Users
      BY <1>3, <1>5 DEF Users
    <3> QED
      BY <1>2, <3>1, BandwidthAssumption DEF BandwidthRequest, Grant
  <2>3. /\ requestsQueue \in Seq(Grant) /\ Len(requestsQueue) = Len(order)
    <3>1. requestsQueue \in [1 .. Len(order) -> Grant]
      BY <2>1, <2>2
    <3> QED
      BY <1>5, <3>1, FunctionIsSeq
  <2>4. \A i \in 1 .. Len(requestsQueue) : requestsQueue[i].user = order[i]
    BY <2>1, <2>2, <2>3
  <2>5. \A u : Once(requestsQueue, u)
    BY <1>5, <2>3, <2>4 DEF Once
  <2>6. \A s \in Streams : Asks(requestsQueue, s) <=> s \in plan.streams
    <3> TAKE s \in Streams
    <3>1. ASSUME Asks(requestsQueue, s) PROVE s \in plan.streams
      BY <1>5, <2>3, <2>4, <3>1 DEF Asks
    <3>2. ASSUME s \in plan.streams PROVE Asks(requestsQueue, s)
      BY <1>5, <2>3, <2>4, <3>2 DEF Asks
    <3> QED
      BY <3>1, <3>2
  <2>7. stream \in [Streams -> StreamState]
    BY <1>1, <1>2, <1>8 DEF StreamState
  <2>8. BandwidthTypes
    BY <1>2, <1>4, <1>6, <2>3, <2>7 DEF BandwidthTypes, BandwidthInit, UploaderState
  <2>9. StreamsHold
    <3> SUFFICES ASSUME NEW s \in Streams
                 PROVE  /\ StreamWaits(stream[s], requestsQueue, assigning, s)
                        /\ stream[s].connected => stream[s].waitingData \/ stream[s].waitingBw
      BY DEF StreamsHold
    <3>1. /\ stream[s].waitingBw <=> s \in plan.streams
          /\ stream[s].connected <=> s \in plan.streams
      BY <1>1, <1>8
    <3> QED
      BY <1>6, <2>5, <2>6, <3>1 DEF StreamWaits
  <2>10. UploaderHolds
    BY DEF BandwidthInit, UploaderHolds, UploaderWaits, BlocksCovered
  <2> QED
    BY <2>8, <2>9, <2>10 DEF BandwidthHolds
<1> QED
  BY <1>7, <1>8

LEMMA BandwidthStep ==
    ASSUME BandwidthHolds, [BandwidthNext]_bandwidthVars
    PROVE  BandwidthHolds'
<1>1. CASE UpdateQuotas
  BY <1>1, RoundHolds
<1>2. CASE SetLimit
  BY <1>2, SetLimitHolds
<1>3. CASE AssignBandwidth
  BY <1>3, AssignStreamHolds, AssignUploaderHolds
<1>4. CASE SendRequests
  BY <1>4, SendRequestsHolds
<1>5. CASE StopUploader
  BY <1>5, StopHolds
<1>6. ASSUME NEW s \in Streams, HandleReceive(s) PROVE BandwidthHolds'
  BY <1>6, HandleReceiveHolds
<1>7. ASSUME NEW s \in Streams, PostFail(s) PROVE BandwidthHolds'
  BY <1>7, PostFailHolds
<1>8. ASSUME NEW s \in Streams, SetMinBandwidthRequest(s) PROVE BandwidthHolds'
  BY <1>8, SetMinimumHolds
<1>9. ASSUME NEW p \in Peers, PieceRequest(p) PROVE BandwidthHolds'
  BY <1>9, PieceRequestHolds
<1>10. ASSUME NEW p \in Peers, PeerCloses(p) PROVE BandwidthHolds'
  BY <1>10, PeerClosesHolds
<1>11. ASSUME NEW p \in Peers, CancelRequests(p) PROVE BandwidthHolds'
  BY <1>11, CancelHolds
<1>12. CASE UNCHANGED bandwidthVars
  <2>1. /\ UNCHANGED <<stream, requestsQueue, assigning>>
        /\ UNCHANGED <<uploader, requestsQueue, assigning, established>>
        /\ UNCHANGED <<limit, quotaLeft, plan>>
    BY <1>12 DEF bandwidthVars
  <2>2. BandwidthTypes'
    BY <2>1 DEF BandwidthHolds, BandwidthTypes
  <2> QED
    BY <2>1, <2>2, StreamsFrame, UploaderFrame DEF BandwidthHolds
<1> QED
  BY <1>1, <1>2, <1>3, <1>4, <1>5, <1>6, <1>7, <1>8, <1>9, <1>10, <1>11, <1>12 DEF BandwidthNext

-------------------------------------------------------------------------------
(* What it says of the users. *)

LEMMA OneWaits ==
    ASSUME BandwidthTypes, NEW s \in Streams, StreamWaits(stream[s], requestsQueue, assigning, s)
    PROVE  stream[s].waitingBw <=> Cardinality(Waiting(s)) = 1
<1>1. /\ requestsQueue \in Seq(Grant) /\ assigning \in Seq(Grant)
  BY DEF BandwidthTypes
<1>2. /\ DOMAIN requestsQueue = 1 .. Len(requestsQueue) /\ DOMAIN assigning = 1 .. Len(assigning)
  BY <1>1
<1> DEFINE A == {i \in 1 .. Len(requestsQueue) : requestsQueue[i].user = s}
           B == {i \in 1 .. Len(assigning) : assigning[i].user = s}
<1>3. Waiting(s) = A \cup {0 - i : i \in B}
  BY <1>2 DEF Waiting
<1>4. CASE Asks(requestsQueue, s)
  <2>1. PICK i \in 1 .. Len(requestsQueue) : requestsQueue[i].user = s
    BY <1>4 DEF Asks
  <2>2. A = {i}
    BY <2>1 DEF StreamWaits, Once
  <2>3. B = {}
    BY <1>4 DEF StreamWaits, Asks
  <2>4. Waiting(s) = {i}
    BY <1>3, <2>2, <2>3
  <2>5. Cardinality(Waiting(s)) = 1
    BY <2>4, FS_Singleton
  <2> QED
    BY <1>4, <2>5 DEF StreamWaits
<1>5. CASE Asks(assigning, s)
  <2>1. PICK i \in 1 .. Len(assigning) : assigning[i].user = s
    BY <1>5 DEF Asks
  <2>2. B = {i}
    BY <2>1 DEF StreamWaits, Once
  <2>3. A = {}
    BY <1>5 DEF StreamWaits, Asks
  <2>4. Waiting(s) = {0 - i}
    BY <1>3, <2>2, <2>3
  <2>5. Cardinality(Waiting(s)) = 1
    BY <2>4, FS_Singleton
  <2> QED
    BY <1>5, <2>5 DEF StreamWaits
<1>6. CASE ~ Asks(requestsQueue, s) /\ ~ Asks(assigning, s)
  <2>1. A = {} /\ B = {}
    BY <1>6 DEF Asks
  <2>2. Waiting(s) = {}
    BY <1>3, <2>1
  <2>3. Cardinality(Waiting(s)) # 1
    BY <2>2, FS_EmptySet
  <2> QED
    BY <1>6, <2>3 DEF StreamWaits
<1> QED
  BY <1>4, <1>5, <1>6

LEMMA AwakeWhenItHolds ==
    ASSUME BandwidthHolds
    PROVE  UsersAwake
<1>1. BandwidthTypes
  BY DEF BandwidthHolds
<1>2. BandwidthTypeOK
  <2>1. ASSUME NEW r \in ToSet(requestsQueue) \cup ToSet(assigning)
        PROVE  r \in [user : Users, requestSize : Nat \ {0}, assigned : 0 .. r.requestSize,
                      ttl : 0 .. Rounds]
    <3>1. r \in Grant
      BY <1>1 DEF BandwidthTypes, ToSet
    <3>2. r \in [user : Users, requestSize : Nat \ {0}, assigned : Nat, ttl : 0 .. Rounds]
          /\ r.assigned <= r.requestSize
      BY <3>1 DEF Grant
    <3>3. r.assigned \in 0 .. r.requestSize
      BY <3>2
    <3> QED
      BY <3>2, <3>3
  <2>2. /\ uploader.pending \in Seq([peer : Peers, length : Sizes, no : Nat])
        /\ uploader.requesting \in BOOLEAN /\ uploader.atOnce \in BOOLEAN
        /\ uploader.available \in Nat /\ uploader.posted \in Nat
    BY <1>1 DEF BandwidthTypes, UploaderState, Block
  <2> QED
    BY <1>1, <2>1, <2>2 DEF BandwidthTypes, BandwidthTypeOK, StreamState
<1>3. \A s \in Streams :
         /\ stream[s].connected => stream[s].waitingData \/ stream[s].waitingBw
         /\ stream[s].waitingBw <=> Cardinality(Waiting(s)) = 1
  BY <1>1, OneWaits DEF BandwidthHolds, StreamsHold
<1>4. UploaderAwake
  <2>1. uploader.requesting => Waiting(Uploader) # {}
    <3>1. /\ DOMAIN requestsQueue = 1 .. Len(requestsQueue) /\ DOMAIN assigning = 1 .. Len(assigning)
      BY <1>1 DEF BandwidthTypes
    <3>2. ASSUME uploader.requesting
          PROVE  Asks(requestsQueue, Uploader) \/ Asks(assigning, Uploader)
      BY <3>2 DEF BandwidthHolds, UploaderHolds, UploaderWaits
    <3> QED
      BY <3>1, <3>2 DEF Waiting, Asks
  <2>2. uploader.pending \in Seq(Block) /\ uploader.posted \in Nat /\ uploader.available \in Nat
    BY <1>1 DEF BandwidthTypes, UploaderState
  <2>3. ToSet(uploader.pending) = {uploader.pending[i] : i \in 1 .. Len(uploader.pending)}
    BY <2>2 DEF ToSet
  <2>4. \A i \in 1 .. Len(uploader.pending) : uploader.pending[i].length \in Nat
    <3>1. \A i \in 1 .. Len(uploader.pending) : uploader.pending[i] \in Block
      BY <2>2
    <3> QED
      BY <3>1, BandwidthAssumption DEF Block
  <2>5. BlocksCovered(uploader)
    BY DEF BandwidthHolds, UploaderHolds
  <2>6. CASE uploader.posted > 0 \/ uploader.requesting
    BY <2>1, <2>6 DEF UploaderAwake
  <2>7. CASE ~ (uploader.posted > 0) /\ uploader.atOnce
             /\ \A i \in 1 .. Len(uploader.pending) : uploader.pending[i].length <= uploader.available
    <3>1. CASE \E i \in 1 .. Len(uploader.pending) : TRUE
      <4>1. PICK i \in 1 .. Len(uploader.pending) : TRUE
        BY <3>1
      <4>2. uploader.available >= uploader.pending[i].length /\ uploader.posted = 0
        BY <2>2, <2>4, <2>7
      <4>3. GrantedAtOnce
        BY <2>3, <2>7, <4>2 DEF GrantedAtOnce
      <4> QED
        BY <4>3 DEF UploaderAwake
    <3>2. CASE ~ \E i \in 1 .. Len(uploader.pending) : TRUE
      BY <2>3, <3>2 DEF UploaderAwake
    <3> QED
      BY <3>1, <3>2
  <2>8. CASE \A i \in 1 .. Len(uploader.pending) : ~ established[uploader.pending[i].peer]
    BY <2>3, <2>8 DEF UploaderAwake
  <2> QED
    BY <2>5, <2>6, <2>7, <2>8 DEF BlocksCovered
<1> QED
  BY <1>2, <1>3, <1>4 DEF UsersAwake

\* Whatever closes, stops, changes or is granted at once, nobody who waits for
\* quota is forgotten (Bandwidth.cpp:145-256, TcpAsyncStream.cpp:451-513,
\* Uploader.cpp:20-150): a connected stream reads or has exactly one request with
\* the manager, blocks to send have a call, a request or the stated exception, and
\* no channel ever has less than nothing to give.
THEOREM NobodyIsForgotten == BandwidthSpec => []UsersAwake
<1>1. BandwidthInit => BandwidthHolds
  BY InitHolds
<1>2. BandwidthHolds /\ [BandwidthNext]_bandwidthVars => BandwidthHolds'
  BY BandwidthStep
<1>3. BandwidthHolds => UsersAwake
  BY AwakeWhenItHolds
<1> QED
  BY <1>1, <1>2, <1>3, PTL DEF BandwidthSpec

-------------------------------------------------------------------------------
(* The limit holds.  Sums over requests are compared by what each request weighs:  *)
(* weights of the same requests add up (WeightAdds), a part of them weighs what it *)
(* weighs in the whole (ThoseWeight).  What a channel has given (Given) is such a  *)
(* weight, and so is what a round shares out (ShareOf), so that a round, a request *)
(* and a grant each move quota from one summand of Outstanding to another.         *)

\* Those appends the elements it keeps, one after the other.
Keeps(kept, seq, S, A) ==
    /\ kept \in [0 .. Len(seq) -> Seq(A)]
    /\ kept[0] = <<>>
    /\ \A k \in 0 .. Len(seq) - 1 :
          kept[k + 1] = IF seq[k + 1] \in S THEN Append(kept[k], seq[k + 1]) ELSE kept[k]
    /\ Those(seq, S) = kept[Len(seq)]

LEMMA ThoseKeeps ==
    ASSUME NEW A, NEW seq \in Seq(A), NEW S
    PROVE  \E kept : Keeps(kept, seq, S, A)
<1> DEFINE n == Len(seq)
           Op(kept, r) == IF r \in S THEN Append(kept, r) ELSE kept
           body(f) == [s \in SUBSET (DOMAIN seq) |->
                          IF s = {} THEN <<>>
                          ELSE LET x == Max(s) IN Op(f[s \ {x}], seq[x])]
           it == CHOOSE f : f = body(f)
           U == Seq(A)
           R == [x \in U \X (1 .. n) |-> Op(x[1], seq[x[2]])]
           kept == [k \in 0 .. n |-> it[1 .. k]]
<1>1. n \in Nat /\ DOMAIN seq = 1 .. n
  OBVIOUS
<1>2. Those(seq, S) = it[DOMAIN seq]
  BY DEF Those, FoldLeft, MapThenFoldSet
<1>3. <<>> \in U
  OBVIOUS
<1>4. R \in [U \X (1 .. n) -> U]
  OBVIOUS
<1>5. it = body(it)
  <2>1. PICK f \in [SUBSET (1 .. n) -> U] : FoldOf(f, <<>>, R, n)
    <3> HIDE DEF R, n, U
    <3> QED
      BY <1>1, <1>3, <1>4, FoldExists
  <2>2. ASSUME NEW s \in SUBSET (1 .. n)
        PROVE  f[s] = IF s = {} THEN <<>> ELSE Op(f[s \ {Max(s)}], seq[Max(s)])
    <3> HIDE DEF Op
    <3>1. CASE s = {}
      BY <2>1, <3>1 DEF FoldOf
    <3>2. CASE s # {}
      <4>1. Max(s) \in 1 .. n /\ f[s \ {Max(s)}] \in U
        <5>1. Max(s) \in s
          BY <1>1, <3>2, LastPosition
        <5> HIDE DEF U
        <5> QED
          BY <2>1, <5>1
      <4>2. f[s] = R[<<f[s \ {Max(s)}], Max(s)>>]
        BY <2>1, <3>2 DEF FoldOf
      <4> QED
        BY <3>2, <4>1, <4>2
    <3> QED
      BY <3>1, <3>2
  <2>3. f = body(f)
    <3> HIDE DEF Op
    <3> QED
      BY <1>1, <2>1, <2>2
  <2> HIDE DEF body
  <2> QED
    BY <2>3
<1>6. \A s \in SUBSET (1 .. n) :
         it[s] = IF s = {} THEN <<>> ELSE Op(it[s \ {Max(s)}], seq[Max(s)])
  <2>1. \A s \in SUBSET (1 .. n) : it[s] = body(it)[s]
    <3> HIDE DEF it, body
    <3> QED
      BY <1>5
  <2> HIDE DEF it, Op
  <2> QED
    BY <1>1, <2>1
<1> HIDE DEF it
<1>7. kept[0] = <<>>
  <2>1. it[{}] = <<>>
    BY <1>6
  <2>2. 1 .. 0 = {} /\ 0 \in 0 .. n
    BY <1>1
  <2> HIDE DEF n
  <2> QED
    BY <2>1, <2>2
<1>8. ASSUME NEW k \in 0 .. n - 1 PROVE kept[k + 1] = Op(kept[k], seq[k + 1])
  <2>1. 1 .. k + 1 \in SUBSET (1 .. n) /\ k \in Nat /\ k \in 0 .. n /\ k + 1 \in 0 .. n
    BY <1>1
  <2> HIDE DEF n, Op
  <2>2. it[1 .. k + 1] = Op(it[1 .. k], seq[k + 1])
    BY <1>6, <2>1, LastOfPrefix
  <2> QED
    BY <2>1, <2>2
<1> HIDE DEF kept
<1>9. kept \in [0 .. n -> Seq(A)]
  <2> SUFFICES ASSUME NEW m \in 0 .. n PROVE kept[m] \in Seq(A)
    BY DEF kept
  <2> DEFINE P == {k \in Nat : k <= m => kept[k] \in Seq(A)}
  <2>1. 0 \in P
    BY <1>3, <1>7
  <2>2. ASSUME NEW k \in 0 .. m - 1, k \in P PROVE k + 1 \in P
    <3>1. k \in 0 .. n - 1 /\ k + 1 \in 1 .. n /\ k <= m
      BY <1>1
    <3>2. seq[k + 1] \in A /\ kept[k] \in Seq(A)
      BY <2>2, <3>1
    <3>3. Op(kept[k], seq[k + 1]) \in Seq(A)
      BY <3>2
    <3>4. k + 1 \in Nat
      BY <3>1
    <3> HIDE DEF Op, n
    <3> QED
      BY <1>8, <3>1, <3>3, <3>4
  <2>3. m \in Nat
    BY <1>1
  <2> HIDE DEF P
  <2>4. m \in P
    BY <2>1, <2>2, <2>3, UpTo
  <2> QED
    BY <2>4 DEF P
<1>10. Those(seq, S) = kept[n]
  BY <1>1, <1>2 DEF kept
<1> QED
  BY <1>7, <1>8, <1>9, <1>10 DEF Keeps

\* What the elements of a sequence weigh together, and the sums that lead to it.
Scales == [Grant -> Nat]
Weight(f, seq) == Total([i \in 1 .. Len(seq) |-> f[seq[i]]])

Weighs(sum, f, seq) ==
    /\ sum \in [0 .. Len(seq) -> Nat]
    /\ sum[0] = 0 /\ \A k \in 0 .. Len(seq) - 1 : sum[k + 1] = sum[k] + f[seq[k + 1]]
    /\ Weight(f, seq) = sum[Len(seq)]

LEMMA WeightSums ==
    ASSUME NEW f \in Scales, NEW seq \in Seq(Grant)
    PROVE  \E sum : Weighs(sum, f, seq)
<1> USE DEF Scales
<1> DEFINE n == Len(seq)
           w == [i \in 1 .. n |-> f[seq[i]]]
<1>1. n \in Nat /\ \A i \in 1 .. n : f[seq[i]] \in Nat
  OBVIOUS
<1>2. w \in Seq(Nat) /\ Len(w) = n /\ \A k \in 0 .. n - 1 : w[k + 1] = f[seq[k + 1]]
  <2>1. w \in [1 .. n -> Nat]
    BY <1>1
  <2>2. \A k \in 0 .. n - 1 : k + 1 \in 1 .. n
    BY <1>1
  <2> HIDE DEF n
  <2>3. \A k \in 0 .. n - 1 : w[k + 1] = f[seq[k + 1]]
    BY <2>2
  <2> HIDE DEF w
  <2> QED
    BY <1>1, <2>1, <2>3, FunctionIsSeq
<1>3. Weight(f, seq) = Total(w)
  BY DEF Weight
<1> HIDE DEF w
<1>4. PICK sum : Sums(sum, w)
  BY <1>2, TotalSums
<1> QED
  BY <1>2, <1>3, <1>4 DEF Sums, Weighs

\* Weights are counts; no request weighs nothing.
LEMMA WeightIsNat ==
    ASSUME NEW f \in Scales, NEW seq \in Seq(Grant)
    PROVE  Weight(f, seq) \in Nat
<1> USE DEF Scales
<1>1. PICK sum : Weighs(sum, f, seq)
  BY WeightSums
<1>2. Len(seq) \in 0 .. Len(seq)
  OBVIOUS
<1> QED
  BY <1>1, <1>2 DEF Weighs

LEMMA EmptyWeight ==
    ASSUME NEW f \in Scales
    PROVE  Weight(f, <<>>) = 0
<1> USE DEF Scales
<1>1. <<>> \in Seq(Grant) /\ Len(<<>>) = 0
  OBVIOUS
<1>2. PICK sum : Weighs(sum, f, <<>>)
  BY <1>1, WeightSums
<1> QED
  BY <1>1, <1>2 DEF Weighs

\* Sequences of one length, where what each element weighs in one is what two
\* weigh in the others.
AddsUp(f, a, g, b, h, c) ==
    /\ Len(a) = Len(c) /\ Len(b) = Len(c)
    /\ \A i \in 1 .. Len(c) : h[c[i]] = f[a[i]] + g[b[i]]

LEMMA WeightAdds ==
    ASSUME NEW a \in Seq(Grant), NEW f \in Scales,
           NEW b \in Seq(Grant), NEW g \in Scales,
           NEW c \in Seq(Grant), NEW h \in Scales, AddsUp(f, a, g, b, h, c)
    PROVE  Weight(h, c) = Weight(f, a) + Weight(g, b)
<1> USE DEF Scales
<1> DEFINE n == Len(c)
<1>1. PICK x : Weighs(x, f, a)
  BY WeightSums
<1>2. PICK y : Weighs(y, g, b)
  BY WeightSums
<1>3. PICK z : Weighs(z, h, c)
  BY WeightSums
<1>4. n \in Nat /\ n \in 0 .. n /\ 0 \in 0 .. n
  OBVIOUS
<1> HIDE DEF n
<1>4a. /\ x \in [0 .. n -> Nat] /\ y \in [0 .. n -> Nat] /\ z \in [0 .. n -> Nat]
       /\ x[0] = 0 /\ y[0] = 0 /\ z[0] = 0
       /\ Weight(f, a) = x[n] /\ Weight(g, b) = y[n] /\ Weight(h, c) = z[n]
  BY <1>1, <1>2, <1>3 DEF Weighs, n, AddsUp
<1>4b. ASSUME NEW k \in 0 .. n - 1
       PROVE  /\ x[k + 1] = x[k] + f[a[k + 1]] /\ y[k + 1] = y[k] + g[b[k + 1]]
              /\ z[k + 1] = z[k] + h[c[k + 1]]
  BY <1>1, <1>2, <1>3 DEF Weighs, n, AddsUp
<1> DEFINE P == {k \in 0 .. n : z[k] = x[k] + y[k]}
<1>5. 0 \in P
  BY <1>4, <1>4a
<1>6. ASSUME NEW k \in 0 .. n - 1, k \in P PROVE k + 1 \in P
  <2>1. k \in 0 .. n /\ k + 1 \in 0 .. n /\ k + 1 \in 1 .. n
    BY <1>4
  <2>2. f[a[k + 1]] \in Nat /\ g[b[k + 1]] \in Nat
    <3>0. \A q \in Seq(Grant) : \A i \in 1 .. Len(q) : q[i] \in Grant
      OBVIOUS
    <3>1. k + 1 \in 1 .. Len(a) /\ k + 1 \in 1 .. Len(b)
      BY <2>1 DEF n, AddsUp
    <3>2. a[k + 1] \in Grant /\ b[k + 1] \in Grant
      BY <3>0, <3>1
    <3> QED
      BY <3>2
  <2>2a. h[c[k + 1]] = f[a[k + 1]] + g[b[k + 1]]
    BY <2>1 DEF n, AddsUp
  <2>3. x[k] \in Nat /\ y[k] \in Nat /\ z[k] = x[k] + y[k]
    BY <1>4a, <1>6, <2>1
  <2>4. z[k + 1] = z[k] + h[c[k + 1]] /\ x[k + 1] = x[k] + f[a[k + 1]] /\ y[k + 1] = y[k] + g[b[k + 1]]
    BY <1>4b
  <2>5. z[k + 1] = x[k + 1] + y[k + 1]
    <3> DEFINE p == f[a[k + 1]]
               q == g[b[k + 1]]
    <3>1. p \in Nat /\ q \in Nat /\ z[k + 1] = z[k] + (p + q)
      BY <2>2, <2>2a, <2>4
    <3>2. x[k + 1] = x[k] + p /\ y[k + 1] = y[k] + q
      BY <2>4
    <3> HIDE DEF p, q
    <3> QED
      BY <2>3, <3>1, <3>2
  <2> QED
    BY <2>1, <2>5
<1> HIDE DEF P
<1>7. n \in P
  BY <1>4, <1>5, <1>6, UpTo
<1> QED
  BY <1>4a, <1>7 DEF P

\* One more request weighs what it weighs; two queues weigh what both do.
LEMMA AppendWeight ==
    ASSUME NEW f \in Scales, NEW seq \in Seq(Grant), NEW r \in Grant
    PROVE  Weight(f, Append(seq, r)) = Weight(f, seq) + f[r]
<1> USE DEF Scales
<1> DEFINE n == Len(seq)
           new == Append(seq, r)
<1>1. /\ n \in Nat /\ new \in Seq(Grant) /\ Len(new) = n + 1 /\ new[n + 1] = r
      /\ \A i \in 1 .. n : new[i] = seq[i]
  OBVIOUS
<1>2. PICK x : Weighs(x, f, seq)
  BY WeightSums
<1> HIDE DEF new
<1>3. PICK y : Weighs(y, f, new)
  BY <1>1, WeightSums
<1> HIDE DEF n
<1>3a. /\ x \in [0 .. n -> Nat] /\ x[0] = 0 /\ Weight(f, seq) = x[n]
       /\ y \in [0 .. n + 1 -> Nat] /\ y[0] = 0 /\ Weight(f, new) = y[n + 1]
  BY <1>1, <1>2, <1>3 DEF Weighs, n, AddsUp
<1>3b. ASSUME NEW k \in 0 .. n
       PROVE  /\ k # n => x[k + 1] = x[k] + f[seq[k + 1]]
              /\ y[k + 1] = y[k] + f[new[k + 1]]
  <2>1. k \in 0 .. Len(new) - 1 /\ (k # n => k \in 0 .. Len(seq) - 1)
    BY <1>1 DEF n
  <2> QED
    BY <1>2, <1>3, <2>1 DEF Weighs
<1> DEFINE P == {k \in 0 .. n : y[k] = x[k]}
<1>4. 0 \in P
  BY <1>1, <1>3a
<1>5. ASSUME NEW k \in 0 .. n - 1, k \in P PROVE k + 1 \in P
  <2>1. k \in 0 .. n /\ k + 1 \in 0 .. n /\ k + 1 \in 1 .. n
    BY <1>1
  <2>2. new[k + 1] = seq[k + 1] /\ y[k] = x[k] /\ k # n
    BY <1>1, <1>5, <2>1
  <2> QED
    BY <1>3b, <2>1, <2>2
<1> HIDE DEF P
<1>6. n \in P
  BY <1>1, <1>4, <1>5, UpTo
<1>7. n \in 0 .. n /\ y[n + 1] = y[n] + f[r]
  BY <1>1, <1>3b
<1> QED
  BY <1>3a, <1>6, <1>7 DEF P, new

\* The elements in S weigh the same, the others nothing.
OnlyIn(f, g, seq, S) ==
    \A i \in 1 .. Len(seq) :
        (seq[i] \in S => g[seq[i]] = f[seq[i]]) /\ (seq[i] \notin S => g[seq[i]] = 0)

LEMMA ThoseWeight ==
    ASSUME NEW f \in Scales, NEW g \in Scales, NEW seq \in Seq(Grant), NEW S,
           OnlyIn(f, g, seq, S)
    PROVE  Weight(f, Those(seq, S)) = Weight(g, seq)
<1> USE DEF Scales
<1> DEFINE n == Len(seq)
<1>1. PICK kept : Keeps(kept, seq, S, Grant)
  BY ThoseKeeps
<1>2. PICK x : Weighs(x, g, seq)
  BY WeightSums
<1>3. n \in Nat /\ n \in 0 .. n /\ 0 \in 0 .. n /\ \A k \in 1 .. n : seq[k] \in Grant
  OBVIOUS
<1> HIDE DEF n
<1>4. /\ kept \in [0 .. n -> Seq(Grant)] /\ kept[0] = <<>> /\ Those(seq, S) = kept[n]
      /\ x \in [0 .. n -> Nat] /\ x[0] = 0 /\ Weight(g, seq) = x[n]
  BY <1>1, <1>2 DEF Keeps, Weighs, n
<1>5. ASSUME NEW k \in 0 .. n - 1
      PROVE  /\ kept[k + 1] = IF seq[k + 1] \in S THEN Append(kept[k], seq[k + 1]) ELSE kept[k]
             /\ x[k + 1] = x[k] + g[seq[k + 1]]
  BY <1>1, <1>2 DEF Keeps, Weighs, n
<1> DEFINE P == {k \in 0 .. n : Weight(f, kept[k]) = x[k]}
<1>6. 0 \in P
  BY <1>3, <1>4, EmptyWeight
<1>7. ASSUME NEW k \in 0 .. n - 1, k \in P PROVE k + 1 \in P
  <2> DEFINE r == seq[k + 1]
  <2>1. k \in 0 .. n /\ k + 1 \in 0 .. n /\ k + 1 \in 1 .. n
    BY <1>3
  <2>2. /\ r \in Grant /\ kept[k] \in Seq(Grant) /\ Weight(f, kept[k]) = x[k]
        /\ (r \in S => g[r] = f[r]) /\ (r \notin S => g[r] = 0)
    BY <1>3, <1>4, <1>7, <2>1 DEF OnlyIn, n
  <2>3. x[k] \in Nat
    BY <1>4, <2>1
  <2>4. CASE r \in S
    <3>1. kept[k + 1] = Append(kept[k], r) /\ x[k + 1] = x[k] + f[r]
      BY <1>5, <2>2, <2>4
    <3> HIDE DEF r
    <3>2. Weight(f, Append(kept[k], r)) = Weight(f, kept[k]) + f[r]
      BY <2>2, AppendWeight
    <3>3. Weight(f, kept[k + 1]) = x[k + 1]
      BY <2>2, <3>1, <3>2
    <3> QED
      BY <2>1, <3>3
  <2>5. CASE r \notin S
    <3>1. kept[k + 1] = kept[k] /\ x[k + 1] = x[k] + 0
      BY <1>5, <2>2, <2>5
    <3> QED
      BY <2>1, <2>2, <2>3, <3>1
  <2> QED
    BY <2>4, <2>5
<1> HIDE DEF P
<1>8. n \in P
  BY <1>3, <1>6, <1>7, UpTo
<1> QED
  BY <1>4, <1>8 DEF P

LEMMA ConcatWeight ==
    ASSUME NEW f \in Scales, NEW a \in Seq(Grant), NEW b \in Seq(Grant)
    PROVE  Weight(f, a \o b) = Weight(f, a) + Weight(f, b)
<1> USE DEF Scales
<1> DEFINE m == Len(a)
           n == Len(b)
           c == a \o b
<1>1. /\ m \in Nat /\ n \in Nat /\ c \in Seq(Grant) /\ Len(c) = m + n
      /\ \A i \in 1 .. m : c[i] = a[i]
      /\ \A i \in 1 .. n : c[m + i] = b[i]
      /\ \A i \in 1 .. n : b[i] \in Grant
  OBVIOUS
<1>2. PICK x : Weighs(x, f, a)
  BY WeightSums
<1>3. PICK y : Weighs(y, f, b)
  BY WeightSums
<1> HIDE DEF c
<1>4. PICK z : Weighs(z, f, c)
  BY <1>1, WeightSums
<1> HIDE DEF m, n
<1>5. /\ x \in [0 .. m -> Nat] /\ x[0] = 0 /\ Weight(f, a) = x[m]
      /\ y \in [0 .. n -> Nat] /\ y[0] = 0 /\ Weight(f, b) = y[n]
      /\ z \in [0 .. m + n -> Nat] /\ z[0] = 0 /\ Weight(f, c) = z[m + n]
  BY <1>1, <1>2, <1>3, <1>4 DEF Weighs, m, n
<1>6. ASSUME NEW k \in 0 .. m - 1 PROVE x[k + 1] = x[k] + f[a[k + 1]]
  BY <1>2 DEF Weighs, m
<1>7. ASSUME NEW k \in 0 .. n - 1 PROVE y[k + 1] = y[k] + f[b[k + 1]]
  BY <1>3 DEF Weighs, n
<1>8. ASSUME NEW k \in 0 .. (m + n) - 1 PROVE z[k + 1] = z[k] + f[c[k + 1]]
  BY <1>1, <1>4 DEF Weighs
<1> DEFINE P == {k \in 0 .. m : z[k] = x[k]}
           Q == {k \in 0 .. n : z[m + k] = x[m] + y[k]}
<1>9. 0 \in P
  BY <1>1, <1>5
<1>10. ASSUME NEW k \in 0 .. m - 1, k \in P PROVE k + 1 \in P
  <2>1. k + 1 \in 0 .. m /\ k + 1 \in 1 .. m /\ k \in 0 .. (m + n) - 1
    BY <1>1
  <2>2. c[k + 1] = a[k + 1] /\ z[k] = x[k]
    BY <1>1, <1>10, <2>1
  <2> QED
    BY <1>6, <1>8, <2>1, <2>2
<1>11. m \in P
  <2> HIDE DEF P
  <2> QED
    BY <1>1, <1>9, <1>10, UpTo
<1>12. z[m] = x[m] /\ x[m] \in Nat
  BY <1>1, <1>5, <1>11
<1>13. 0 \in Q
  BY <1>1, <1>5, <1>12
<1>14. ASSUME NEW k \in 0 .. n - 1, k \in Q PROVE k + 1 \in Q
  <2>1. k + 1 \in 0 .. n /\ k + 1 \in 1 .. n /\ k \in 0 .. n /\ m + k \in 0 .. (m + n) - 1
    BY <1>1
  <2>2. c[(m + k) + 1] = b[k + 1] /\ z[m + k] = x[m] + y[k]
    <3>1. (m + k) + 1 = m + (k + 1)
      BY <1>1
    <3> QED
      BY <1>1, <1>14, <2>1, <3>1
  <2>3. b[k + 1] \in Grant /\ f[b[k + 1]] \in Nat /\ y[k] \in Nat
    BY <1>1, <1>5, <2>1
  <2>4. z[(m + k) + 1] = x[m] + y[k] + f[b[k + 1]] /\ y[k + 1] = y[k] + f[b[k + 1]]
    BY <1>7, <1>8, <2>1, <2>2
  <2>5. z[m + (k + 1)] = x[m] + y[k + 1]
    <3>1. (m + k) + 1 = m + (k + 1)
      BY <1>1
    <3> QED
      BY <1>12, <2>3, <2>4, <3>1
  <2> QED
    BY <2>1, <2>5
<1>15. n \in Q
  <2> HIDE DEF Q
  <2> QED
    BY <1>1, <1>13, <1>14, UpTo
<1> QED
  BY <1>5, <1>15 DEF c

\* What every sum over the streams is: of one stream after the other, always the
\* same one of those that are left.
AnyOf(s) == CHOOSE x \in s : TRUE
QuotaOf(st) == MapThenSumSet(LAMBDA s : st[s].quota, Streams)
Quotas(st) == [s \in Streams |-> st[s].quota]

SumsUp(it, f, T) ==
    \A s \in T : it[s] = IF s = {} THEN 0 ELSE f[AnyOf(s)] + it[s \ {AnyOf(s)}]

LEMMA SumExists ==
    ASSUME NEW T, IsFiniteSet(T), NEW f \in [T -> Nat]
    PROVE  \E it \in [SUBSET T -> Nat] : SumsUp(it, f, SUBSET T)
<1> DEFINE Small(k) == {s \in SUBSET T : Cardinality(s) <= k}
           P == {k \in Nat : \E it \in [Small(k) -> Nat] : SumsUp(it, f, Small(k))}
           n == Cardinality(T)
<1>1. /\ n \in Nat
      /\ \A s \in SUBSET T : IsFiniteSet(s) /\ Cardinality(s) \in Nat /\ Cardinality(s) <= n
  BY FS_CardinalityType, FS_Subset
<1>2. \A s \in SUBSET T : s # {} =>
         /\ AnyOf(s) \in s /\ s \ {AnyOf(s)} \in SUBSET T
         /\ Cardinality(s \ {AnyOf(s)}) = Cardinality(s) - 1
  BY <1>1, FS_RemoveElement DEF AnyOf
<1>3. 0 \in P
  <2> DEFINE it == [s \in Small(0) |-> 0]
  <2>1. \A s \in Small(0) : s = {}
    <3>1. \A s \in SUBSET T : s # {} => Cardinality(s) # 0
      BY <1>1, FS_EmptySet
    <3> QED
      BY <1>1, <3>1
  <2>2. it \in [Small(0) -> Nat] /\ SumsUp(it, f, Small(0))
    BY <2>1 DEF SumsUp
  <2> QED
    BY <2>2
<1>4. ASSUME NEW k \in 0 .. n - 1, k \in P PROVE k + 1 \in P
  <2>1. PICK it \in [Small(k) -> Nat] : SumsUp(it, f, Small(k))
    BY <1>4
  <2> DEFINE more == [s \in Small(k + 1) |->
                         IF s = {} THEN 0 ELSE f[AnyOf(s)] + it[s \ {AnyOf(s)}]]
  <2>2. k \in Nat /\ k + 1 \in Nat
    BY <1>1
  <2>3. ASSUME NEW s \in Small(k + 1), s # {}
        PROVE  /\ s \ {AnyOf(s)} \in Small(k) /\ AnyOf(s) \in T
               /\ s \ {AnyOf(s)} \in Small(k + 1)
    BY <1>1, <1>2, <2>2, <2>3
  <2>4. \A s \in Small(k) : it[s] = IF s = {} THEN 0 ELSE f[AnyOf(s)] + it[s \ {AnyOf(s)}]
    BY <2>1 DEF SumsUp
  <2>5. \A s \in Small(k) : s \in Small(k + 1)
    BY <1>1, <2>2
  <2> HIDE DEF Small
  <2>6. more \in [Small(k + 1) -> Nat]
    <3> SUFFICES ASSUME NEW s \in Small(k + 1)
                 PROVE  (IF s = {} THEN 0 ELSE f[AnyOf(s)] + it[s \ {AnyOf(s)}]) \in Nat
      OBVIOUS
    <3>1. s # {} => f[AnyOf(s)] \in Nat /\ it[s \ {AnyOf(s)}] \in Nat
      BY <2>3
    <3> QED
      BY <3>1
  <2>7. \A s \in Small(k) : more[s] = it[s]
    BY <2>4, <2>5
  <2>8. SumsUp(more, f, Small(k + 1))
    BY <2>3, <2>7 DEF SumsUp
  <2> QED
    BY <2>2, <2>6, <2>8 DEF Small
<1>5. n \in P
  <2> HIDE DEF P
  <2> QED
    BY <1>1, <1>3, <1>4, UpTo
<1>6. Small(n) = SUBSET T
  BY <1>1
<1> QED
  BY <1>5, <1>6

\* The sum of what the streams hold is one of these.
LEMMA SumIsThis ==
    ASSUME NEW st \in [Streams -> StreamState]
    PROVE  /\ Quotas(st) \in [Streams -> Nat]
           /\ \E it : SumsUp(it, Quotas(st), SUBSET Streams) /\ QuotaOf(st) = it[Streams]
<1> DEFINE body(h) == [s \in SUBSET Streams |->
                          IF s = {} THEN 0 ELSE LET x == AnyOf(s) IN st[x].quota + h[s \ {x}]]
           it == CHOOSE h : h = body(h)
           f == Quotas(st)
<1>0. f \in [Streams -> Nat]
  BY DEF Quotas, StreamState
<1>1. QuotaOf(st) = it[Streams]
  BY DEF QuotaOf, MapThenSumSet, MapThenFoldSet, AnyOf
<1>1a. \A s \in SUBSET Streams : s # {} => st[AnyOf(s)].quota = f[AnyOf(s)]
  BY DEF Quotas, AnyOf
<1> HIDE DEF f
<1>2. PICK h \in [SUBSET Streams -> Nat] : SumsUp(h, f, SUBSET Streams)
  BY <1>0, SumExists, BandwidthAssumption
<1>3. h = body(h)
  BY <1>1a, <1>2 DEF SumsUp
<1>4. it = body(it)
  <2> HIDE DEF body
  <2> QED
    BY <1>3
<1>5. \A s \in SUBSET Streams : it[s] = body(it)[s]
  <2> HIDE DEF it, body
  <2> QED
    BY <1>4
<1> HIDE DEF it
<1>6. SumsUp(it, f, SUBSET Streams)
  BY <1>1a, <1>5 DEF SumsUp
<1> QED
  BY <1>0, <1>1, <1>6 DEF f

\* When what one stream has changes, the sum changes by as much.
LEMMA SumChanges ==
    ASSUME NEW st \in [Streams -> StreamState], NEW new \in [Streams -> StreamState],
           NEW x \in Streams, \A s \in Streams \ {x} : st[s] = new[s]
    PROVE  /\ QuotaOf(st) \in Nat /\ QuotaOf(new) \in Nat
           /\ QuotaOf(new) + st[x].quota = QuotaOf(st) + new[x].quota
<1> DEFINE f == Quotas(st)
           g == Quotas(new)
<1>0. /\ f \in [Streams -> Nat] /\ g \in [Streams -> Nat]
      /\ \A s \in Streams : f[s] = st[s].quota /\ g[s] = new[s].quota
  BY SumIsThis DEF Quotas
<1>1. PICK a : SumsUp(a, f, SUBSET Streams) /\ QuotaOf(st) = a[Streams]
  BY SumIsThis
<1>2. PICK b : SumsUp(b, g, SUBSET Streams) /\ QuotaOf(new) = b[Streams]
  BY SumIsThis
<1>0a. \A s \in Streams \ {x} : f[s] = g[s]
  BY <1>0
<1> HIDE DEF f, g
<1> DEFINE n == Cardinality(Streams)
           Good(s) == /\ a[s] \in Nat /\ b[s] \in Nat
                      /\ IF x \in s THEN b[s] + f[x] = a[s] + g[x] ELSE a[s] = b[s]
           P == {k \in Nat : \A s \in SUBSET Streams : Cardinality(s) <= k => Good(s)}
<1>3. /\ n \in Nat
      /\ \A s \in SUBSET Streams : IsFiniteSet(s) /\ Cardinality(s) \in Nat /\ Cardinality(s) <= n
  BY BandwidthAssumption, FS_CardinalityType, FS_Subset
<1>4. \A s \in SUBSET Streams : s # {} =>
         /\ AnyOf(s) \in s /\ s \ {AnyOf(s)} \in SUBSET Streams
         /\ Cardinality(s \ {AnyOf(s)}) = Cardinality(s) - 1
  BY <1>3, FS_RemoveElement DEF AnyOf
<1>5. Good({})
  <2>1. a[{}] = 0 /\ b[{}] = 0
    BY <1>1, <1>2 DEF SumsUp
  <2> QED
    BY <2>1
<1>6. ASSUME NEW s \in SUBSET Streams, s # {}, Good(s \ {AnyOf(s)}) PROVE Good(s)
  <2> DEFINE y == AnyOf(s)
             rest == s \ {y}
  <2>1. y \in s /\ y \in Streams /\ rest \in SUBSET Streams
    BY <1>4, <1>6
  <2>2. a[s] = f[y] + a[rest] /\ b[s] = g[y] + b[rest]
    BY <1>1, <1>2, <1>6 DEF SumsUp
  <2>3. x \in s <=> x = y \/ x \in rest
    BY <2>1
  <2>4. y \notin rest
    OBVIOUS
  <2> HIDE DEF y, rest
  <2>5. Good(rest)
    BY <1>6 DEF rest, y
  <2>6. f[y] \in Nat /\ g[y] \in Nat /\ f[x] \in Nat /\ g[x] \in Nat /\ (x # y => f[y] = g[y])
    BY <1>0, <1>0a, <2>1
  <2>7. CASE x = y
    BY <2>1, <2>2, <2>4, <2>5, <2>6, <2>7
  <2>8. CASE x # y
    BY <2>2, <2>3, <2>5, <2>6, <2>8
  <2> QED
    BY <2>7, <2>8
<1> HIDE DEF Good
<1>7. 0 \in P
  <2>1. \A s \in SUBSET Streams : Cardinality(s) <= 0 => s = {}
    BY <1>3, FS_EmptySet
  <2> QED
    BY <1>5, <2>1
<1>8. ASSUME NEW k \in 0 .. n - 1, k \in P PROVE k + 1 \in P
  <2> SUFFICES ASSUME NEW s \in SUBSET Streams, Cardinality(s) <= k + 1 PROVE Good(s)
    BY <1>3
  <2>1. CASE s = {}
    BY <1>5, <2>1
  <2>2. CASE s # {}
    <3>1. s \ {AnyOf(s)} \in SUBSET Streams /\ Cardinality(s \ {AnyOf(s)}) <= k
      BY <1>3, <1>4, <2>2
    <3> QED
      BY <1>6, <1>8, <2>2, <3>1
  <2> QED
    BY <2>1, <2>2
<1>9. n \in P
  <2> HIDE DEF P
  <2> QED
    BY <1>3, <1>7, <1>8, UpTo
<1>10. Good(Streams)
  BY <1>3, <1>9
<1> QED
  BY <1>0, <1>1, <1>2, <1>10 DEF Good

-------------------------------------------------------------------------------
(* What is outstanding, as weights. *)

\* What the requests of a channel have been assigned.
OnChannel(channel) == [r \in Grant |-> IF ChannelOf(r.user) = channel THEN r.assigned ELSE 0]
Given(channel, requests) == Weight(OnChannel(channel), requests)

LEMMA OnChannelIsNat ==
    ASSUME NEW channel
    PROVE  OnChannel(channel) \in Scales
BY DEF OnChannel, Grant, Scales

\* What a channel has given, as the model sums it.
LEMMA AssignedIsGiven ==
    ASSUME NEW requests \in Seq(Grant), NEW channel
    PROVE  /\ AssignedSum(OfChannel(requests, channel)) = Given(channel, requests)
           /\ Given(channel, requests) \in Nat
<1> DEFINE S == {r \in ToSet(requests) : ChannelOf(r.user) = channel}
           f == [r \in Grant |-> r.assigned]
           some == OfChannel(requests, channel)
<1>1. f \in Scales /\ OnChannel(channel) \in Scales
  BY OnChannelIsNat DEF Grant, Scales
<1>2. some \in Seq(Grant) /\ some = Those(requests, S)
  BY OfChannelFacts DEF OfChannel
<1>3. AssignedSum(some) = Weight(f, some)
  <2> HIDE DEF some
  <2>0. some \in Seq(Grant)
    BY <1>2
  <2>1. DOMAIN some = 1 .. Len(some) /\ \A i \in 1 .. Len(some) : some[i] \in Grant
    BY <2>0
  <2>2. [i \in DOMAIN some |-> some[i].assigned] = [i \in 1 .. Len(some) |-> f[some[i]]]
    BY <2>1
  <2> QED
    BY <2>2 DEF AssignedSum, Weight
<1>4. OnlyIn(f, OnChannel(channel), requests, S)
  <2> SUFFICES ASSUME NEW i \in 1 .. Len(requests)
               PROVE  /\ requests[i] \in S => OnChannel(channel)[requests[i]] = f[requests[i]]
                      /\ requests[i] \notin S => OnChannel(channel)[requests[i]] = 0
    BY DEF OnlyIn
  <2>1. requests[i] \in Grant /\ requests[i] \in ToSet(requests)
    BY DEF ToSet
  <2> QED
    BY <2>1 DEF OnChannel
<1> HIDE DEF S, f, some
<1>5. Weight(f, Those(requests, S)) = Weight(OnChannel(channel), requests)
  BY <1>1, <1>4, ThoseWeight
<1>6. Weight(OnChannel(channel), requests) \in Nat
  BY <1>1, WeightIsNat
<1> QED
  BY <1>2, <1>3, <1>5, <1>6 DEF Given, some

LEMMA AppendGiven ==
    ASSUME NEW requests \in Seq(Grant), NEW r \in Grant, NEW channel
    PROVE  Given(channel, Append(requests, r)) = Given(channel, requests) + OnChannel(channel)[r]
BY OnChannelIsNat, AppendWeight DEF Given

\* One request less: what it was assigned is no more with the manager.
LEMMA FrontGiven ==
    ASSUME NEW requests \in Seq(Grant), requests # <<>>, NEW channel
    PROVE  Given(channel, requests) =
              Given(channel, Front(requests)) + OnChannel(channel)[Last(requests)]
<1>1. /\ Front(requests) \in Seq(Grant) /\ Last(requests) \in Grant
  BY FrontAsks
<1>2. requests = Append(Front(requests), Last(requests))
  <2> DEFINE n == Len(requests)
             few == Front(requests)
             new == Append(few, Last(requests))
  <2>1. n \in Nat /\ n # 0 /\ DOMAIN requests = 1 .. n
    OBVIOUS
  <2>2. few = [i \in 1 .. n - 1 |-> requests[i]]
    BY DEF Front
  <2>3. Len(few) = n - 1 /\ \A i \in 1 .. n - 1 : few[i] = requests[i]
    <3>1. n - 1 \in Nat
      BY <2>1
    <3> QED
      BY <2>2, <3>1, FunctionIsSeq
  <2> HIDE DEF few
  <2>4. few \in Seq(Grant) /\ Last(requests) = requests[n]
    BY <1>1 DEF few, Last
  <2>5. /\ Len(new) = Len(few) + 1 /\ new \in Seq(Grant) /\ new[Len(few) + 1] = Last(requests)
        /\ \A i \in 1 .. Len(few) : new[i] = few[i]
    BY <1>1, <2>4
  <2> HIDE DEF new, n
  <2>6. Len(few) + 1 = n /\ \A i \in 1 .. n : i = n \/ i \in 1 .. n - 1
    BY <2>1, <2>3
  <2>7. Len(new) = n /\ \A i \in 1 .. n : new[i] = requests[i]
    BY <2>3, <2>4, <2>5, <2>6
  <2>8. new = requests
    BY <2>5, <2>7 DEF n
  <2> QED
    BY <2>8 DEF few, new
<1> QED
  BY <1>1, <1>2, AppendGiven

LEMMA ConcatGiven ==
    ASSUME NEW a \in Seq(Grant), NEW b \in Seq(Grant), NEW channel
    PROVE  Given(channel, a \o b) = Given(channel, a) + Given(channel, b)
BY OnChannelIsNat, ConcatWeight DEF Given

\* Users that gave up get nothing.
LEMMA NothingGiven ==
    ASSUME NEW a \in Seq(Grant), NEW channel, \A i \in 1 .. Len(a) : a[i].assigned = 0
    PROVE  Given(channel, a) = 0
<1> DEFINE f == OnChannel(channel)
<1>1. \A i \in 1 .. Len(a) : f[a[i]] = f[a[i]] + f[a[i]]
  <2>1. \A i \in 1 .. Len(a) : a[i] \in Grant
    OBVIOUS
  <2> QED
    BY <2>1 DEF OnChannel
<1> HIDE DEF f
<1>2. AddsUp(f, a, f, a, f, a)
  BY <1>1 DEF AddsUp
<1>3. f \in Scales
  BY OnChannelIsNat DEF f
<1>4. Weight(f, a) = Weight(f, a) + Weight(f, a) /\ Weight(f, a) \in Nat
  BY <1>2, <1>3, WeightAdds, WeightIsNat
<1> QED
  BY <1>4 DEF Given, f

\* Every element is in one of two sets.
Splits(q, S, T) == \A i \in 1 .. Len(q) : q[i] \in S <=> q[i] \notin T

LEMMA PartsGiven ==
    ASSUME NEW q \in Seq(Grant), NEW S, NEW T, NEW channel,
           Splits(q, S, T)
    PROVE  Given(channel, Those(q, S)) + Given(channel, Those(q, T)) = Given(channel, q)
<1> DEFINE f == OnChannel(channel)
           g == [r \in Grant |-> IF r \in S THEN f[r] ELSE 0]
           h == [r \in Grant |-> IF r \in T THEN f[r] ELSE 0]
<1>1. f \in Scales
  BY OnChannelIsNat
<1> HIDE DEF f
<1>2. g \in Scales /\ h \in Scales
  BY <1>1 DEF Scales
<1>3. \A i \in 1 .. Len(q) : q[i] \in Grant /\ f[q[i]] \in Nat
  BY <1>1 DEF Scales
<1>4. OnlyIn(f, g, q, S) /\ OnlyIn(f, h, q, T)
  BY <1>3 DEF OnlyIn
<1>5. AddsUp(g, q, h, q, f, q)
  BY <1>3 DEF AddsUp, Splits
<1> HIDE DEF g, h
<1>6. Weight(f, Those(q, S)) = Weight(g, q)
  BY <1>1, <1>2, <1>4, ThoseWeight
<1>7. Weight(f, Those(q, T)) = Weight(h, q)
  BY <1>1, <1>2, <1>4, ThoseWeight
<1>8. Weight(f, q) = Weight(g, q) + Weight(h, q)
  BY <1>1, <1>2, <1>5, WeightAdds
<1> QED
  BY <1>6, <1>7, <1>8 DEF Given, f

\* The share of every request that a round serves, on a channel.
ShareOf(channel) ==
    [r \in Grant |-> IF r \in Range(Active(requestsQueue)) /\ ChannelOf(r.user) = channel
                     THEN Share(r) ELSE 0]

\* What a round shares out, counted in the whole queue.
LEMMA SharesAreGiven ==
    ASSUME BandwidthTypes, NEW channel \in Channels
    PROVE  /\ ShareOf(channel) \in Scales
           /\ Shares(channel) = Weight(ShareOf(channel), Active(requestsQueue))
<1> DEFINE queue == requestsQueue
           active == Active(queue)
           some == QueueOf(channel)
           served == Active(some)
           f == [r \in Grant |-> IF r \in Range(active) THEN Share(r) ELSE 0]
           g == ShareOf(channel)
           S == {r \in ToSet(queue) : ChannelOf(r.user) = channel}
           A == {r \in ToSet(queue) : IsActive(r.user)}
           B == {r \in ToSet(some) : IsActive(r.user)}
<1>1. /\ queue \in Seq(Grant) /\ some \in Seq(Grant) /\ served \in Seq(Grant)
      /\ active \in Seq(Grant)
  BY OfChannelFacts, ActiveFacts DEF BandwidthTypes, QueueOf
<1>2. \A r \in Range(active) : r \in Grant /\ Share(r) \in Nat
  <2> SUFFICES ASSUME NEW r \in Range(active) PROVE r \in Grant /\ Share(r) \in Nat
    OBVIOUS
  <2>1. r \in Grant /\ Share(r) \in 0 .. r.requestSize - r.assigned
    BY ShareFacts
  <2> QED
    BY <2>1 DEF Grant
<1>3. f \in Scales /\ g \in Scales
  BY <1>2 DEF ShareOf, Scales
<1>4. /\ Range(active) = {r \in Range(queue) : IsActive(r.user)}
      /\ Range(some) = {r \in Range(queue) : ChannelOf(r.user) = channel}
      /\ Range(served) = {r \in Range(some) : IsActive(r.user)}
  BY <1>1, OfChannelFacts, ActiveFacts DEF QueueOf
<1>5. /\ active = Those(queue, A) /\ some = Those(queue, S) /\ served = Those(some, B)
  BY DEF Active, QueueOf, OfChannel
<1>6. \A q \in Seq(Grant) : \A i \in 1 .. Len(q) :
         q[i] \in Grant /\ q[i] \in Range(q) /\ q[i] \in ToSet(q)
  BY DEF Range, ToSet
<1>7. \A r \in Grant : /\ f[r] = IF r \in Range(active) THEN Share(r) ELSE 0
                       /\ g[r] = IF ChannelOf(r.user) = channel THEN f[r] ELSE 0
  BY DEF ShareOf
<1>8. Shares(channel) = Weight(f, served)
  <2>1. \A i \in 1 .. Len(served) : f[served[i]] = Share(served[i])
    <3> SUFFICES ASSUME NEW i \in 1 .. Len(served) PROVE f[served[i]] = Share(served[i])
      OBVIOUS
    <3> DEFINE r == served[i]
    <3>1. r \in Grant /\ r \in Range(served)
      <4> HIDE DEF served
      <4> QED
        BY <1>1, <1>6
    <3> HIDE DEF r
    <3>2. r \in Range(active)
      BY <1>4, <3>1
    <3> HIDE DEF f
    <3>3. f[r] = Share(r)
      BY <1>7, <3>1, <3>2
    <3> QED
      BY <3>3 DEF r
  <2> HIDE DEF f
  <2>2. DOMAIN served = 1 .. Len(served)
    BY <1>1
  <2>3. [i \in DOMAIN served |-> Share(served[i])] = [i \in 1 .. Len(served) |-> f[served[i]]]
    BY <2>1, <2>2
  <2> QED
    BY <2>3 DEF Shares, Weight
<1> HIDE DEF f, g, active, some, served, queue
<1>9. OnlyIn(f, f, some, B)
  <2> SUFFICES ASSUME NEW i \in 1 .. Len(some), some[i] \notin B PROVE f[some[i]] = 0
    BY DEF OnlyIn
  <2>1. some[i] \in Grant /\ some[i] \in ToSet(some)
    BY <1>1, <1>6
  <2>2. some[i] \notin Range(active)
    BY <1>4, <2>1
  <2> QED
    BY <1>7, <2>1, <2>2
<1>10. OnlyIn(f, g, queue, S)
  <2> SUFFICES ASSUME NEW i \in 1 .. Len(queue)
               PROVE  /\ queue[i] \in S => g[queue[i]] = f[queue[i]]
                      /\ queue[i] \notin S => g[queue[i]] = 0
    BY DEF OnlyIn
  <2>1. queue[i] \in Grant /\ queue[i] \in ToSet(queue)
    BY <1>1, <1>6
  <2> QED
    BY <1>7, <2>1
<1>11. OnlyIn(g, g, queue, A)
  <2> SUFFICES ASSUME NEW i \in 1 .. Len(queue), queue[i] \notin A PROVE g[queue[i]] = 0
    BY DEF OnlyIn
  <2>1. queue[i] \in Grant /\ queue[i] \in ToSet(queue)
    BY <1>1, <1>6
  <2>2. queue[i] \notin Range(active)
    BY <1>4, <2>1
  <2> QED
    BY <1>7, <2>1, <2>2
<1> HIDE DEF A, B, S
<1>12. Weight(f, Those(some, B)) = Weight(f, some)
  BY <1>1, <1>3, <1>9, ThoseWeight
<1>13. Weight(f, Those(queue, S)) = Weight(g, queue)
  BY <1>1, <1>3, <1>10, ThoseWeight
<1>14. Weight(g, Those(queue, A)) = Weight(g, queue)
  BY <1>1, <1>3, <1>11, ThoseWeight
<1>15. Shares(channel) = Weight(g, active)
  BY <1>5, <1>8, <1>12, <1>13, <1>14
<1> QED
  BY <1>3, <1>15 DEF g, active, queue

\* What users that gave up had been assigned, counted in the whole queue.
LEMMA ReturnsAreGiven ==
    ASSUME BandwidthTypes, NEW channel \in Channels
    PROVE  AssignedSum(Inactive(QueueOf(channel))) = Given(channel, Inactive(requestsQueue))
<1> DEFINE queue == requestsQueue
           some == QueueOf(channel)
           gone == Inactive(some)
           all == [r \in Grant |-> r.assigned]
           f == [r \in Grant |-> IF IsActive(r.user) THEN 0 ELSE r.assigned]
           g == [r \in Grant |-> IF ~ IsActive(r.user) /\ ChannelOf(r.user) = channel
                                 THEN r.assigned ELSE 0]
           h == OnChannel(channel)
           S == {r \in ToSet(queue) : ChannelOf(r.user) = channel}
           A == {r \in ToSet(queue) : ~ IsActive(r.user)}
           B == {r \in ToSet(some) : ~ IsActive(r.user)}
<1>1. queue \in Seq(Grant) /\ some \in Seq(Grant) /\ gone \in Seq(Grant)
  BY OfChannelFacts, ActiveFacts DEF BandwidthTypes, QueueOf
<1>2. all \in Scales /\ f \in Scales /\ g \in Scales /\ h \in Scales
  BY OnChannelIsNat DEF Scales, Grant
<1>3. some = Those(queue, S) /\ gone = Those(some, B) /\ Inactive(queue) = Those(queue, A)
  BY DEF Inactive, QueueOf, OfChannel
<1>4. \A q \in Seq(Grant) : \A i \in 1 .. Len(q) : q[i] \in Grant /\ q[i] \in ToSet(q)
  BY DEF ToSet
<1>5. AssignedSum(gone) = Weight(all, gone)
  <2> HIDE DEF gone
  <2>1. DOMAIN gone = 1 .. Len(gone) /\ \A i \in 1 .. Len(gone) : all[gone[i]] = gone[i].assigned
    BY <1>1, <1>4
  <2>2. [i \in DOMAIN gone |-> gone[i].assigned] = [i \in 1 .. Len(gone) |-> all[gone[i]]]
    BY <2>1
  <2> QED
    BY <2>2 DEF AssignedSum, Weight
<1>6. \A r \in Grant :
         /\ r.assigned \in Nat
         /\ all[r] = r.assigned
         /\ f[r] = IF IsActive(r.user) THEN 0 ELSE r.assigned
         /\ g[r] = IF ~ IsActive(r.user) /\ ChannelOf(r.user) = channel THEN r.assigned ELSE 0
         /\ h[r] = IF ChannelOf(r.user) = channel THEN r.assigned ELSE 0
  BY DEF Grant, OnChannel
<1> HIDE DEF queue, some, gone, all, f, g, h
<1>7. OnlyIn(all, f, some, B)
  BY <1>1, <1>4, <1>6 DEF OnlyIn
<1>8. OnlyIn(f, g, queue, S)
  BY <1>1, <1>4, <1>6 DEF OnlyIn
<1>9. OnlyIn(h, g, queue, A)
  BY <1>1, <1>4, <1>6 DEF OnlyIn
<1> HIDE DEF A, B, S
<1>10. Weight(all, Those(some, B)) = Weight(f, some)
  BY <1>1, <1>2, <1>7, ThoseWeight
<1>11. Weight(f, Those(queue, S)) = Weight(g, queue)
  BY <1>1, <1>2, <1>8, ThoseWeight
<1>12. Weight(h, Those(queue, A)) = Weight(g, queue)
  BY <1>1, <1>2, <1>9, ThoseWeight
<1>13. AssignedSum(gone) = Weight(h, Inactive(queue))
  BY <1>3, <1>5, <1>10, <1>11, <1>12
<1> QED
  BY <1>13 DEF Given, gone, some, queue, h

\* A channel that is limited gets what was returned, and no more than a round's quota.
LEMMA UpdateAdds ==
    ASSUME BandwidthTypes, NEW channel \in Channels, limit[channel] # 0
    PROVE  UpdateQuota(channel) <=
              quotaLeft[channel] + Given(channel, Inactive(requestsQueue)) + RoundQuota
<1> DEFINE sum == Given(channel, Inactive(requestsQueue))
           q == quotaLeft[channel]
           l == limit[channel]
<1>0. Inactive(requestsQueue) \in Seq(Grant)
  BY ActiveFacts DEF BandwidthTypes
<1>1. sum \in Nat /\ AssignedSum(Inactive(QueueOf(channel))) = sum
  BY <1>0, AssignedIsGiven, ReturnsAreGiven
<1>2. q \in Nat /\ l \in Nat /\ RoundQuota \in Nat
  BY BandwidthAssumption DEF BandwidthTypes
<1>3. Returned(channel) = q - (0 - sum)
  BY <1>1 DEF Returned, Use, BandwidthTypes
<1> HIDE DEF sum, q, l
<1>4. Returned(channel) = q + sum
  BY <1>1, <1>2, <1>3
<1>5. ASSUME NEW filled \in Nat, filled \div 3 > l
      PROVE  l * 3 <= filled
  BY <1>2, <1>5
<1>6. UpdateQuota(channel) <= Returned(channel) + RoundQuota
  <2>1. /\ Returned(channel) \in Nat /\ Returned(channel) + RoundQuota \in Nat
        /\ Returned(channel) <= Returned(channel) + RoundQuota
    BY <1>1, <1>2, <1>4
  <2> QED
    BY <1>5, <2>1 DEF UpdateQuota, l
<1> QED
  BY <1>4, <1>6 DEF q, sum

\* A round gives its shares to those that are active.
LEMMA RoundIsGiven ==
    ASSUME BandwidthTypes, NEW channel \in Channels,
           NEW round \in Seq(Grant), Len(round) = Len(Active(requestsQueue)),
           \A i \in 1 .. Len(round) : round[i] = Assigned(Active(requestsQueue)[i])
    PROVE  Given(channel, round) = Given(channel, Active(requestsQueue)) + Shares(channel)
<1> DEFINE active == Active(requestsQueue)
           h == OnChannel(channel)
           g == ShareOf(channel)
<1>1. active \in Seq(Grant)
  BY ActiveFacts DEF BandwidthTypes
<1>2. h \in Scales /\ g \in Scales
  BY OnChannelIsNat, SharesAreGiven
<1>3. ASSUME NEW i \in 1 .. Len(round) PROVE h[round[i]] = h[active[i]] + g[active[i]]
  <2> DEFINE r == active[i]
             t == round[i]
  <2>1. r \in Grant /\ r \in Range(active) /\ t = Assigned(r) /\ t \in Grant
    <3>1. i \in 1 .. Len(active)
      OBVIOUS
    <3> HIDE DEF active
    <3>2. active[i] \in Grant /\ active[i] \in Range(active)
      BY <1>1, <3>1 DEF Range
    <3> QED
      BY <3>2 DEF active
  <2>2. t.user = r.user
    BY <2>1, AssignedFacts
  <2>3. t.assigned = r.assigned + Share(r)
    <3> HIDE DEF r, t
    <3>1. t = [r EXCEPT !.assigned = r.assigned + Share(r), !.ttl = IF r.ttl > 0 THEN r.ttl - 1 ELSE 0]
      BY <2>1 DEF Assigned
    <3>2. r \in [user : Users, requestSize : Nat \ {0}, assigned : Nat, ttl : 0 .. Rounds]
      BY <2>1 DEF Grant
    <3> QED
      BY <3>1, <3>2
  <2>4. g[r] = IF ChannelOf(r.user) = channel THEN Share(r) ELSE 0
    <3> HIDE DEF r
    <3> QED
      BY <2>1 DEF ShareOf
  <2>5. /\ h[r] = IF ChannelOf(r.user) = channel THEN r.assigned ELSE 0
        /\ h[t] = IF ChannelOf(t.user) = channel THEN t.assigned ELSE 0
    <3> HIDE DEF r, t
    <3> QED
      BY <2>1 DEF OnChannel
  <2> HIDE DEF r, t, g, h, active
  <2>6. h[t] = h[r] + g[r]
    BY <2>2, <2>3, <2>4, <2>5
  <2> QED
    BY <2>6 DEF r, t
<1> HIDE DEF active, h, g
<1>4. AddsUp(h, active, g, active, h, round)
  BY <1>3 DEF AddsUp, active
<1>5. Weight(h, round) = Weight(h, active) + Weight(g, active)
  BY <1>1, <1>2, <1>4, WeightAdds
<1> QED
  BY <1>5, SharesAreGiven DEF Given, h, g, active

\* A round adds no more than its quota to what a channel has and has given.
LEMMA RoundAdds ==
    ASSUME BandwidthTypes, UpdateQuotas, NEW channel \in Channels, limit[channel] # 0
    PROVE  quotaLeft'[channel] + Given(channel, requestsQueue') + Given(channel, assigning') <=
              quotaLeft[channel] + Given(channel, requestsQueue) + RoundQuota
<1> DEFINE active == Active(requestsQueue)
           inactive == Inactive(requestsQueue)
           round == [i \in DOMAIN active |-> Assigned(active[i])]
           gone == [i \in DOMAIN inactive |-> [inactive[i] EXCEPT !.assigned = 0]]
           waits == {r \in ToSet(round) : ~ IsServed(r)}
           served == {r \in ToSet(round) : IsServed(r)}
           some == Those(round, waits)
           rest == Those(round, served)
           A == {r \in ToSet(requestsQueue) : IsActive(r.user)}
           B == {r \in ToSet(requestsQueue) : ~ IsActive(r.user)}
<1>1. requestsQueue' = some /\ assigning' = gone \o rest
  BY DEF UpdateQuotas
<1>2. requestsQueue \in Seq(Grant)
  BY DEF BandwidthTypes
<1>3. /\ active \in Seq(Grant) /\ inactive \in Seq(Grant)
      /\ active = Those(requestsQueue, A) /\ inactive = Those(requestsQueue, B)
  BY <1>2, ActiveFacts DEF Active, Inactive
<1>4. round \in Seq(Grant) /\ Len(round) = Len(active) /\ \A i \in 1 .. Len(active) : round[i] = Assigned(active[i])
  <2>1. ASSUME NEW i \in 1 .. Len(active)
        PROVE  Assigned(active[i]) \in Grant
    <3>1. active[i] \in Range(active)
      <4>1. active \in Seq(Grant)
        BY <1>3
      <4> HIDE DEF active
      <4> QED
        BY <4>1 DEF Range
    <3> QED
      BY <3>1, AssignedFacts
  <2> HIDE DEF active
  <2>2. DOMAIN active = 1 .. Len(active) /\ Len(active) \in Nat
    BY <1>3
  <2>3. round \in [1 .. Len(active) -> Grant]
    BY <2>1, <2>2
  <2>4. \A i \in 1 .. Len(active) : round[i] = Assigned(active[i])
    BY <2>2
  <2> HIDE DEF round
  <2> QED
    BY <2>2, <2>3, <2>4, FunctionIsSeq
<1>5. gone \in Seq(Grant) /\ \A i \in 1 .. Len(gone) : gone[i].assigned = 0
  <2> HIDE DEF inactive
  <2>1. ASSUME NEW i \in 1 .. Len(inactive)
        PROVE  /\ [inactive[i] EXCEPT !.assigned = 0] \in Grant
               /\ [inactive[i] EXCEPT !.assigned = 0].assigned = 0
    <3>1. inactive[i] \in Grant
      BY <1>3
    <3>2. \A r \in Grant : [r EXCEPT !.assigned = 0] \in Grant /\ [r EXCEPT !.assigned = 0].assigned = 0
      BY DEF Grant
    <3> QED
      BY <3>1, <3>2
  <2>2. DOMAIN inactive = 1 .. Len(inactive) /\ Len(inactive) \in Nat
    BY <1>3
  <2>3. gone \in [1 .. Len(inactive) -> Grant]
    BY <2>1, <2>2
  <2>4. \A i \in 1 .. Len(inactive) : gone[i].assigned = 0
    BY <2>1, <2>2
  <2> HIDE DEF gone
  <2> QED
    BY <2>2, <2>3, <2>4, FunctionIsSeq
<1>6. Splits(requestsQueue, A, B) /\ Splits(round, waits, served)
  <2>1. \A i \in 1 .. Len(requestsQueue) : requestsQueue[i] \in ToSet(requestsQueue)
    BY <1>2 DEF ToSet
  <2>2. \A i \in 1 .. Len(round) : round[i] \in ToSet(round)
    <3> HIDE DEF round
    <3> QED
      BY <1>4 DEF ToSet
  <2> HIDE DEF round
  <2> QED
    BY <2>1, <2>2 DEF Splits
<1>7. Given(channel, round) = Given(channel, active) + Shares(channel)
  <2> HIDE DEF round
  <2> QED
    BY <1>4, RoundIsGiven
<1> HIDE DEF active, inactive, round, gone
<1>8. some \in Seq(Grant) /\ rest \in Seq(Grant)
  <2> HIDE DEF waits, served
  <2> QED
    BY <1>4, ThoseFacts
<1>9. Given(channel, active) + Given(channel, inactive) = Given(channel, requestsQueue)
  <2> HIDE DEF A, B
  <2> QED
    BY <1>2, <1>3, <1>6, PartsGiven
<1>10. Given(channel, some) + Given(channel, rest) = Given(channel, round)
  <2> HIDE DEF waits, served
  <2> QED
    BY <1>4, <1>6, PartsGiven
<1> HIDE DEF some, rest
<1>11. Given(channel, assigning') = Given(channel, rest)
  <2>1. Given(channel, gone \o rest) = Given(channel, gone) + Given(channel, rest)
    BY <1>5, <1>8, ConcatGiven
  <2>2. Given(channel, gone) = 0 /\ Given(channel, rest) \in Nat
    BY <1>5, <1>8, NothingGiven, AssignedIsGiven
  <2> QED
    BY <1>1, <2>1, <2>2
<1>12. quotaLeft'[channel] = UpdateQuota(channel) - Shares(channel)
  BY DEF UpdateQuotas
<1>13. UpdateQuota(channel) <= quotaLeft[channel] + Given(channel, inactive) + RoundQuota
  BY UpdateAdds DEF inactive
<1>14. /\ Given(channel, some) \in Nat /\ Given(channel, rest) \in Nat
       /\ Given(channel, active) \in Nat /\ Given(channel, inactive) \in Nat
       /\ Given(channel, round) \in Nat
  BY <1>3, <1>4, <1>8, AssignedIsGiven
<1>15. UpdateQuota(channel) \in Nat /\ UpdateQuota(channel) - Shares(channel) \in Nat /\ Shares(channel) \in Nat
  <2>1. ShareOf(channel) \in Scales /\ Shares(channel) = Weight(ShareOf(channel), active)
    BY SharesAreGiven DEF active
  <2>2. Shares(channel) \in Nat
    BY <1>3, <2>1, WeightIsNat
  <2> QED
    BY <2>2, QuotaFacts, SharesFacts
<1>16. quotaLeft[channel] \in Nat /\ RoundQuota \in Nat
  BY BandwidthAssumption DEF BandwidthTypes
<1> DEFINE u == UpdateQuota(channel)
           sh == Shares(channel)
           a == Given(channel, active)
           b == Given(channel, inactive)
           c == Given(channel, some)
           d == Given(channel, rest)
           q == quotaLeft[channel]
<1>17. (u - sh) + c + d <= q + (a + b) + RoundQuota
  <2>1. c + d = a + sh /\ u <= q + b + RoundQuota
    BY <1>7, <1>10, <1>13
  <2>2. /\ u \in Nat /\ sh \in Nat /\ a \in Nat /\ b \in Nat /\ c \in Nat /\ d \in Nat
        /\ q \in Nat /\ RoundQuota \in Nat
    BY <1>14, <1>15, <1>16
  <2> HIDE DEF u, sh, a, b, c, d, q
  <2> QED
    BY <2>1, <2>2
<1> QED
  BY <1>1, <1>9, <1>11, <1>12, <1>17

-------------------------------------------------------------------------------
(* What every step moves. *)

\* What is outstanding, of the variables before or after a step.
Kept(left, queue, given, up, st, channel) ==
    left[channel] + Given(channel, queue) + Given(channel, given)
    + (IF channel = "upload" THEN up.available ELSE QuotaOf(st))

LEMMA OutstandingIs ==
    ASSUME BandwidthTypes, BandwidthTypes', NEW channel \in Channels
    PROVE  /\ Outstanding(channel) = Kept(quotaLeft, requestsQueue, assigning, uploader, stream, channel)
           /\ Outstanding(channel)' = Kept(quotaLeft', requestsQueue', assigning', uploader', stream', channel)
<1>1. /\ requestsQueue \in Seq(Grant) /\ assigning \in Seq(Grant)
      /\ requestsQueue' \in Seq(Grant) /\ assigning' \in Seq(Grant)
  BY DEF BandwidthTypes
<1>2. /\ AssignedSum(OfChannel(requestsQueue, channel)) = Given(channel, requestsQueue)
      /\ AssignedSum(OfChannel(assigning, channel)) = Given(channel, assigning)
      /\ AssignedSum(OfChannel(requestsQueue', channel)) = Given(channel, requestsQueue')
      /\ AssignedSum(OfChannel(assigning', channel)) = Given(channel, assigning')
  BY <1>1, AssignedIsGiven
<1>3. Outstanding(channel) = quotaLeft[channel] + AssignedSum(OfChannel(requestsQueue, channel))
          + AssignedSum(OfChannel(assigning, channel))
          + (IF channel = "upload" THEN uploader.available ELSE QuotaOf(stream))
  BY DEF Outstanding, QueueOf, QuotaOf, MapThenSumSet, MapThenFoldSet
<1>4. Outstanding(channel)' = quotaLeft'[channel] + AssignedSum(OfChannel(requestsQueue', channel))
          + AssignedSum(OfChannel(assigning', channel))
          + (IF channel = "upload" THEN uploader'.available ELSE QuotaOf(stream'))
  BY DEF Outstanding, QueueOf, QuotaOf, MapThenSumSet, MapThenFoldSet
<1> QED
  BY <1>2, <1>3, <1>4 DEF Kept

\* What the manager has of a channel, in the quota and in the queue.
Pool(m, channel) == m.left[channel] + Given(channel, m.queue)

LEMMA PoolIsNat ==
    ASSUME NEW m \in ManagerState, NEW channel \in Channels
    PROVE  Pool(m, channel) \in Nat
<1>1. m.queue \in Seq(Grant) /\ m.left[channel] \in Nat
  BY DEF ManagerState
<1>2. Given(channel, m.queue) \in Nat
  BY <1>1, AssignedIsGiven
<1> QED
  BY <1>1, <1>2 DEF Pool

\* What a request is granted at once is taken from its channel.
LEMMA RequestKeeps ==
    ASSUME limit \in [Channels -> Nat], NEW m \in ManagerState, NEW user \in Users, NEW amount \in Nat \ {0},
           NEW channel \in Channels, limit[channel] # 0
    PROVE  LET new == RequestBandwidth(m, user, amount)
           IN /\ new \in ManagerState /\ new.granted \in Nat
              /\ Pool(m, channel) = Pool(new, channel) + (IF ChannelOf(user) = channel THEN new.granted ELSE 0)
<1> DEFINE c == ChannelOf(user)
           r == BandwidthRequest(user, amount)
           new == RequestBandwidth(m, user, amount)
<1>1. new \in ManagerState /\ r \in Grant
  BY RequestFacts
<1>2. /\ m.queue \in Seq(Grant) /\ m.left \in [Channels -> Nat] /\ m.left[channel] \in Nat
      /\ m.granted \in Nat /\ m = [left |-> m.left, queue |-> m.queue, granted |-> m.granted]
  BY DEF ManagerState
<1>3. c \in Channels
  BY ChannelOfUser
<1>4. r.assigned = 0 /\ r.user = user
  BY DEF BandwidthRequest
<1>5. new.granted \in Nat
  BY <1>1 DEF ManagerState
<1>6. CASE NeedQueueing(m, c, amount)
  <2>1. new = [m EXCEPT !.queue = Append(m.queue, r), !.granted = 0]
    BY <1>6 DEF RequestBandwidth
  <2>2. new.left = m.left /\ new.queue = Append(m.queue, r) /\ new.granted = 0
    <3> HIDE DEF new, r
    <3> QED
      BY <1>2, <2>1
  <2>3. OnChannel(channel)[r] = 0
    <3> HIDE DEF r
    <3> QED
      BY <1>1, <1>4 DEF OnChannel
  <2>4. Given(channel, Append(m.queue, r)) = Given(channel, m.queue) + 0
    <3> HIDE DEF r
    <3> QED
      BY <1>1, <1>2, <2>3, AppendGiven
  <2>5. Given(channel, m.queue) \in Nat
    BY <1>2, AssignedIsGiven
  <2> HIDE DEF new, r
  <2>6. Pool(new, channel) = Pool(m, channel)
    BY <2>2, <2>4, <2>5 DEF Pool
  <2>7. Pool(m, channel) \in Nat
    BY PoolIsNat
  <2> QED
    BY <1>1, <1>5, <2>2, <2>6, <2>7 DEF new
<1>7. CASE ~ NeedQueueing(m, c, amount)
  <2>1. new = [m EXCEPT !.left = Use(m.left, c, amount), !.granted = amount]
    BY <1>7 DEF RequestBandwidth
  <2>2. new.left = Use(m.left, c, amount) /\ new.queue = m.queue /\ new.granted = amount
    <3> HIDE DEF new
    <3> QED
      BY <1>2, <2>1
  <2>3. Use(m.left, c, amount)[channel] = IF c = channel THEN m.left[channel] - amount ELSE m.left[channel]
    <3> HIDE DEF c
    <3> QED
      BY <1>2, <1>3 DEF Use
  <2>4. Given(channel, m.queue) \in Nat
    BY <1>2, AssignedIsGiven
  <2> HIDE DEF new, c
  <2>5. Pool(m, channel) = Pool(new, channel) + (IF c = channel THEN new.granted ELSE 0)
    BY <1>2, <2>2, <2>3, <2>4 DEF Pool
  <2> QED
    BY <1>1, <1>5, <2>5 DEF new, c
<1> QED
  BY <1>6, <1>7

\* A stream's quota and what its channel has.
StreamHas(st, channel) == Pool(st.m, channel) + (IF channel = Download THEN st.stream.quota ELSE 0)

LEMMA AskKeeps ==
    ASSUME limit \in [Channels -> Nat], NEW st \in StreamPart, NEW s \in Streams, NEW bytes \in Nat,
           NEW channel \in Channels, limit[channel] # 0
    PROVE  Ask(st, s, bytes) \in StreamPart /\ StreamHas(Ask(st, s, bytes), channel) = StreamHas(st, channel)
<1> DEFINE x == st.stream
           new == Ask(st, s, bytes)
           amount == bytes - x.quota
           m == RequestBandwidth(st.m, s, amount)
<1>1. x \in StreamState /\ st.m \in ManagerState /\ x.quota \in Nat
  BY DEF StreamPart, StreamState
<1>2. CASE x.waitingBw \/ x.quota >= bytes
  <2>1. new = st
    BY <1>2 DEF Ask
  <2> QED
    BY <2>1
<1>3. CASE ~ (x.waitingBw \/ x.quota >= bytes)
  <2>1. amount \in Nat \ {0} /\ s \in Users /\ ChannelOf(s) = Download
    BY <1>1, <1>3, BandwidthAssumption DEF Users, ChannelOf
  <2>2. new = [m |-> m, stream |-> IF m.granted = 0 THEN [x EXCEPT !.waitingBw = TRUE]
                                   ELSE [x EXCEPT !.quota = @ + m.granted]]
    BY <1>3 DEF Ask
  <2>3. /\ m \in ManagerState /\ m.granted \in Nat
        /\ Pool(st.m, channel) = Pool(m, channel) + (IF channel = Download THEN m.granted ELSE 0)
    <3> HIDE DEF amount
    <3> QED
      BY <1>1, <2>1, RequestKeeps
  <2> HIDE DEF m
  <2>4. new.m = m /\ new.stream.quota = x.quota + m.granted /\ new \in StreamPart
    <3>1. CASE m.granted = 0
      <4>1. new.m = m /\ new.stream = [x EXCEPT !.waitingBw = TRUE]
        BY <2>2, <3>1
      <4>0. new = [m |-> m, stream |-> [x EXCEPT !.waitingBw = TRUE]]
        BY <2>2, <3>1
      <4> HIDE DEF new, x
      <4>2. new.stream.quota = x.quota /\ new.stream \in StreamState
        BY <1>1, <4>1 DEF StreamState
      <4> QED
        BY <1>1, <2>3, <3>1, <4>0, <4>1, <4>2 DEF StreamPart
    <3>2. CASE m.granted # 0
      <4>1. new.m = m /\ new.stream = [x EXCEPT !.quota = x.quota + m.granted]
        BY <2>2, <3>2
      <4>0. new = [m |-> m, stream |-> [x EXCEPT !.quota = x.quota + m.granted]]
        BY <2>2, <3>2
      <4> HIDE DEF new, x
      <4>2. x.quota + m.granted \in Nat
        BY <1>1, <2>3
      <4>3. new.stream \in StreamState /\ new.stream.quota = x.quota + m.granted
        BY <1>1, <4>1, <4>2 DEF StreamState
      <4> QED
        BY <2>3, <4>0, <4>1, <4>3 DEF StreamPart
    <3> QED
      BY <3>1, <3>2
  <2>5. Pool(m, channel) \in Nat
    BY <2>3, PoolIsNat
  <2> HIDE DEF new
  <2>6. StreamHas(new, channel) = StreamHas(st, channel)
    BY <1>1, <2>3, <2>4, <2>5 DEF StreamHas
  <2> QED
    BY <2>4, <2>6 DEF new
<1> QED
  BY <1>2, <1>3

\* To read more asks for quota, and no more.
LEMMA StartReceiveKeeps ==
    ASSUME limit \in [Channels -> Nat], NEW st \in StreamPart, NEW s \in Streams,
           NEW channel \in Channels, limit[channel] # 0
    PROVE  /\ StartReceive(st, s) \in StreamPart
           /\ StreamHas(StartReceive(st, s), channel) = StreamHas(st, channel)
<1> DEFINE asked == Ask(st, s, st.stream.expecting)
<1>1. st.stream.expecting \in Nat
  BY BandwidthAssumption DEF StreamPart, StreamState
<1>2. asked \in StreamPart /\ StreamHas(asked, channel) = StreamHas(st, channel)
  BY <1>1, AskKeeps
<1>3. asked.stream \in StreamState
  BY <1>2 DEF StreamPart
<1>4. /\ [asked EXCEPT !.stream.waitingData = TRUE] \in StreamPart
      /\ StreamHas([asked EXCEPT !.stream.waitingData = TRUE], channel) = StreamHas(asked, channel)
  <2> DEFINE new == [asked EXCEPT !.stream.waitingData = TRUE]
             x == [asked.stream EXCEPT !.waitingData = TRUE]
  <2> HIDE DEF asked
  <2>0. x \in StreamState /\ x.quota = asked.stream.quota
    BY <1>3 DEF StreamState
  <2>0a. new = [asked EXCEPT !.stream = x]
    OBVIOUS
  <2> HIDE DEF new, x
  <2>1. new \in StreamPart /\ new.m = asked.m /\ new.stream = x
    BY <1>2, <2>0, <2>0a DEF StreamPart
  <2>2. new \in StreamPart /\ StreamHas(new, channel) = StreamHas(asked, channel)
    BY <2>0, <2>1 DEF StreamHas
  <2> QED
    BY <2>2 DEF new
<1> HIDE DEF asked
<1>5. StartReceive(st, s) \in {st, asked, [asked EXCEPT !.stream.waitingData = TRUE]}
  BY DEF StartReceive, asked
<1> QED
  BY <1>2, <1>4, <1>5

\* What is left of the quota after a read is gone.
LEMMA ReadAvailableKeeps ==
    ASSUME limit \in [Channels -> Nat], NEW st \in StreamPart, NEW s \in Streams, NEW available \in Nat,
           NEW channel \in Channels, limit[channel] # 0
    PROVE  /\ ReadAvailable(st, s, available) \in StreamPart
           /\ StreamHas(ReadAvailable(st, s, available), channel) <= StreamHas(st, channel)
<1> DEFINE a == Ask(st, s, available)
           new == ReadAvailable(st, s, available)
<1>1. a \in StreamPart /\ StreamHas(a, channel) = StreamHas(st, channel)
  BY AskKeeps
<1>2. /\ a.stream \in StreamState /\ a.m \in ManagerState /\ a.stream.quota \in Nat
      /\ Pool(a.m, channel) \in Nat
  <2>1. a.stream \in StreamState /\ a.m \in ManagerState
    BY <1>1 DEF StreamPart
  <2> HIDE DEF a
  <2> QED
    BY <2>1, PoolIsNat DEF StreamState
<1>3. CASE available > 0 /\ a.stream.quota > 0
  <2>1. new = [a EXCEPT !.stream.quota = 0]
    BY <1>3 DEF ReadAvailable
  <2> HIDE DEF a, new
  <2>2. new.m = a.m /\ new.stream = [a.stream EXCEPT !.quota = 0]
    BY <1>1, <2>1 DEF StreamPart
  <2>3. [a.stream EXCEPT !.quota = 0] \in StreamState /\ new.stream.quota = 0
    BY <1>2, <2>2 DEF StreamState
  <2>4. new \in StreamPart
    BY <1>1, <2>1, <2>3 DEF StreamPart
  <2>5. StreamHas(new, channel) <= StreamHas(a, channel)
    BY <1>2, <2>2, <2>3 DEF StreamHas
  <2> QED
    BY <1>1, <2>4, <2>5 DEF new
<1>4. CASE ~ (available > 0 /\ a.stream.quota > 0)
  <2>1. new = a
    BY <1>4 DEF ReadAvailable
  <2>2. StreamHas(a, channel) <= StreamHas(a, channel)
    <3> HIDE DEF a
    <3> QED
      BY <1>2 DEF StreamHas
  <2> HIDE DEF a, new
  <2> QED
    BY <1>1, <2>1, <2>2 DEF new
<1> QED
  BY <1>3, <1>4

\* A step that adds nothing to what is outstanding, and when it is one of a stream
\* or of the uploader.
NoMore(channel) ==
    Kept(quotaLeft', requestsQueue', assigning', uploader', stream', channel) <=
        Kept(quotaLeft, requestsQueue, assigning, uploader, stream, channel)

LEMMA StreamGives ==
    ASSUME BandwidthTypes, NEW s \in Streams, NEW st \in StreamPart, SetStream(s, st),
           uploader' = uploader, assigning' \in Seq(Grant), NEW channel \in Channels,
           StreamHas(st, channel) + Given(channel, assigning') <=
              StreamHas([m |-> Manager, stream |-> stream[s]], channel) + Given(channel, assigning)
    PROVE  NoMore(channel)
<1> DEFINE old == [m |-> Manager, stream |-> stream[s]]
           a == Given(channel, assigning)
           b == Given(channel, assigning')
           u == IF channel = "upload" THEN uploader.available ELSE 0
           q == QuotaOf(stream)
           p == QuotaOf(stream')
<1>1. /\ stream' = [stream EXCEPT ![s] = st.stream] /\ quotaLeft' = st.m.left
      /\ requestsQueue' = st.m.queue
  BY DEF SetStream
<1>2. /\ st.stream \in StreamState /\ st.m \in ManagerState /\ stream[s] \in StreamState
      /\ stream \in [Streams -> StreamState] /\ assigning \in Seq(Grant)
      /\ uploader.available \in Nat
  BY DEF StreamPart, BandwidthTypes, UploaderState
<1>3. stream' \in [Streams -> StreamState] /\ stream'[s] = st.stream
  BY <1>1, <1>2
<1>4. /\ q \in Nat /\ p \in Nat
      /\ p + stream[s].quota = q + st.stream.quota
  <2>1. \A t \in Streams \ {s} : stream[t] = stream'[t]
    BY <1>1, <1>2
  <2>2. QuotaOf(stream') + stream[s].quota = QuotaOf(stream) + stream'[s].quota
    BY <1>2, <1>3, <2>1, SumChanges
  <2>3. QuotaOf(stream') \in Nat /\ QuotaOf(stream) \in Nat
    BY <1>2, <1>3, <2>1, SumChanges
  <2> QED
    BY <1>3, <2>2, <2>3
<1>5. a \in Nat /\ b \in Nat /\ Pool(Manager, channel) \in Nat /\ Pool(st.m, channel) \in Nat
  BY <1>2, AssignedIsGiven, ManagerFacts, PoolIsNat
<1>6. /\ Pool(Manager, channel) = quotaLeft[channel] + Given(channel, requestsQueue)
      /\ Pool(st.m, channel) = quotaLeft'[channel] + Given(channel, requestsQueue')
  BY <1>1, ManagerFacts DEF Pool
<1>7. stream[s].quota \in Nat /\ st.stream.quota \in Nat
  BY <1>2 DEF StreamState
<1>8. /\ Kept(quotaLeft, requestsQueue, assigning, uploader, stream, channel) =
            Pool(Manager, channel) + a + (IF channel = "upload" THEN uploader.available ELSE q)
      /\ Kept(quotaLeft', requestsQueue', assigning', uploader', stream', channel) =
            Pool(st.m, channel) + b + (IF channel = "upload" THEN uploader.available ELSE p)
  BY <1>6 DEF Kept
<1> HIDE DEF a, b, u, q, p
<1>9. CASE channel = Download
  <2>1. channel # "upload"
    BY <1>9 DEF Download
  <2>2. /\ StreamHas(st, channel) = Pool(st.m, channel) + st.stream.quota
        /\ StreamHas(old, channel) = Pool(Manager, channel) + stream[s].quota
    BY <1>9 DEF StreamHas
  <2>3. Pool(st.m, channel) + st.stream.quota + b <= Pool(Manager, channel) + stream[s].quota + a
    BY <2>2 DEF a, b
  <2>4. Pool(st.m, channel) + b + p <= Pool(Manager, channel) + a + q
    <3> DEFINE k == Pool(st.m, channel)
               l == Pool(Manager, channel)
               m == st.stream.quota
               n == stream[s].quota
    <3>1. /\ k \in Nat /\ l \in Nat /\ m \in Nat /\ n \in Nat /\ a \in Nat /\ b \in Nat
          /\ q \in Nat /\ p \in Nat
      BY <1>4, <1>5, <1>7
    <3>2. p + n = q + m /\ k + m + b <= l + n + a
      BY <1>4, <2>3
    <3> HIDE DEF k, l, m, n
    <3>3. k + b + p <= l + a + q
      BY <3>1, <3>2
    <3> QED
      BY <3>3 DEF k, l
  <2> QED
    BY <1>8, <2>1, <2>4 DEF NoMore
<1>10. CASE channel = "upload"
  <2>1. channel # Download
    BY <1>10 DEF Download
  <2>2. /\ StreamHas(st, channel) = Pool(st.m, channel)
        /\ StreamHas(old, channel) = Pool(Manager, channel)
    BY <1>5, <2>1 DEF StreamHas
  <2>3. Pool(st.m, channel) + b <= Pool(Manager, channel) + a
    BY <2>2 DEF a, b
  <2> QED
    BY <1>2, <1>5, <1>8, <1>10, <2>3 DEF NoMore
<1> QED
  BY <1>9, <1>10 DEF Channels

LEMMA HandleReceiveGives ==
    ASSUME BandwidthTypes, NEW s \in Streams, HandleReceive(s), NEW channel \in Channels,
           limit[channel] # 0
    PROVE  NoMore(channel)
<1> DEFINE x == [stream[s] EXCEPT !.waitingData = FALSE, !.quota = 0]
           first == [m |-> Manager, stream |-> x]
           old == [m |-> Manager, stream |-> stream[s]]
<1>1. stream[s] \in StreamState /\ limit \in [Channels -> Nat] /\ assigning \in Seq(Grant)
  BY DEF BandwidthTypes
<1>2. PICK bytes \in 1 .. stream[s].quota, more \in Sizes \cup {0} :
         SetStream(s, StartReceive(IF bytes = stream[s].quota THEN ReadAvailable(first, s, more)
                                   ELSE first, s))
  BY DEF HandleReceive
<1>3. x \in StreamState /\ x.quota = 0 /\ stream[s].quota \in Nat
  BY <1>1 DEF StreamState
<1>4. Manager \in ManagerState
  BY ManagerFacts
<1> HIDE DEF x
<1>5. first \in StreamPart /\ first.stream = x /\ first.m = Manager
  BY <1>3, <1>4 DEF StreamPart
<1>6. more \in Nat
  BY BandwidthAssumption
<1>7. StreamHas(first, channel) <= StreamHas(old, channel) /\ StreamHas(first, channel) \in Nat
      /\ StreamHas(old, channel) \in Nat
  <2>1. Pool(Manager, channel) \in Nat
    BY <1>4, PoolIsNat
  <2> QED
    BY <1>3, <2>1 DEF StreamHas
<1> HIDE DEF first, old
<1> DEFINE read == IF bytes = stream[s].quota THEN ReadAvailable(first, s, more) ELSE first
<1>8. read \in StreamPart /\ StreamHas(read, channel) <= StreamHas(first, channel)
  <2>1. /\ ReadAvailable(first, s, more) \in StreamPart
        /\ StreamHas(ReadAvailable(first, s, more), channel) <= StreamHas(first, channel)
    BY <1>1, <1>5, <1>6, ReadAvailableKeeps
  <2> QED
    BY <1>5, <1>7, <2>1
<1> DEFINE st == StartReceive(read, s)
<1>9. SetStream(s, st)
  BY <1>2 DEF first
<1> HIDE DEF read
<1>10. st \in StreamPart /\ StreamHas(st, channel) = StreamHas(read, channel)
  BY <1>1, <1>8, StartReceiveKeeps
<1> HIDE DEF st
<1>11. assigning' = assigning /\ uploader' = uploader
  BY DEF HandleReceive
<1>12. StreamHas(st, channel) + Given(channel, assigning') <= StreamHas(old, channel) + Given(channel, assigning)
  <2>1. Given(channel, assigning) \in Nat /\ StreamHas(st, channel) \in Nat
    <3>1. st.m \in ManagerState /\ st.stream.quota \in Nat
      BY <1>10 DEF StreamPart, StreamState
    <3>2. Pool(st.m, channel) \in Nat
      BY <3>1, PoolIsNat
    <3> QED
      BY <1>1, <3>1, <3>2, AssignedIsGiven DEF StreamHas
  <2>2. StreamHas(st, channel) <= StreamHas(old, channel)
    BY <1>7, <1>8, <1>10, <2>1
  <2> QED
    BY <1>7, <1>11, <2>1, <2>2
<1> QED
  BY <1>1, <1>9, <1>10, <1>11, <1>12, StreamGives DEF old

LEMMA AssignStreamGives ==
    ASSUME BandwidthTypes, AssignBandwidth, Last(assigning).user # Uploader, NEW channel \in Channels,
           limit[channel] # 0
    PROVE  NoMore(channel)
<1> DEFINE r == Last(assigning)
           s == r.user
           x == [stream[s] EXCEPT !.waitingBw = FALSE, !.quota = @ + r.assigned]
           first == [m |-> Manager, stream |-> x]
           old == [m |-> Manager, stream |-> stream[s]]
           st == StartReceive(first, s)
<1>1. assigning \in Seq(Grant) /\ assigning # <<>> /\ limit \in [Channels -> Nat]
  BY DEF BandwidthTypes, AssignBandwidth
<1>2. assigning' = Front(assigning) /\ SetStream(s, st) /\ uploader' = uploader
  BY DEF AssignBandwidth, AssignStream
<1>3. Front(assigning) \in Seq(Grant) /\ r \in Grant
  BY <1>1, FrontAsks
<1>4. r \in Grant /\ s \in Streams /\ r.assigned \in Nat /\ ChannelOf(s) = Download
  BY <1>3 DEF Grant, Users, ChannelOf
<1>5. stream[s] \in StreamState
  <2> HIDE DEF s
  <2> QED
    BY <1>4 DEF BandwidthTypes
<1>5a. Given(channel, assigning) = Given(channel, Front(assigning)) + OnChannel(channel)[r]
  BY <1>1, FrontGiven
<1>5b. OnChannel(channel)[r] = IF channel = Download THEN r.assigned ELSE 0
  <2>1. OnChannel(channel)[r] = IF ChannelOf(r.user) = channel THEN r.assigned ELSE 0
    <3> HIDE DEF r
    <3> QED
      BY <1>3 DEF OnChannel
  <2> QED
    BY <1>4, <2>1
<1> HIDE DEF r, s
<1>6. x \in StreamState /\ x.quota = stream[s].quota + r.assigned /\ stream[s].quota \in Nat
  <2>1. stream[s].quota + r.assigned \in Nat /\ stream[s].quota \in Nat
    BY <1>4, <1>5 DEF StreamState
  <2>2. \A q \in Nat : /\ [stream[s] EXCEPT !.waitingBw = FALSE, !.quota = q] \in StreamState
                       /\ [stream[s] EXCEPT !.waitingBw = FALSE, !.quota = q].quota = q
    BY <1>5 DEF StreamState
  <2> QED
    BY <2>1, <2>2
<1>7. Manager \in ManagerState
  BY ManagerFacts
<1> HIDE DEF x
<1>8. first \in StreamPart /\ first.stream = x /\ first.m = Manager
  BY <1>6, <1>7 DEF StreamPart
<1>9. Pool(Manager, channel) \in Nat /\ Given(channel, Front(assigning)) \in Nat
  BY <1>3, <1>7, PoolIsNat, AssignedIsGiven
<1>10. StreamHas(first, channel) + Given(channel, Front(assigning)) =
          StreamHas(old, channel) + Given(channel, assigning)
  BY <1>4, <1>5a, <1>5b, <1>6, <1>9 DEF StreamHas
<1>10a. StreamHas(first, channel) + Given(channel, Front(assigning)) \in Nat
  BY <1>4, <1>6, <1>9 DEF StreamHas
<1> HIDE DEF first, old
<1>11. st \in StreamPart /\ StreamHas(st, channel) = StreamHas(first, channel)
  BY <1>1, <1>4, <1>8, StartReceiveKeeps
<1> HIDE DEF st
<1>12. StreamHas(st, channel) + Given(channel, assigning') <= StreamHas(old, channel) + Given(channel, assigning)
  BY <1>2, <1>10, <1>10a, <1>11
<1>13. assigning' \in Seq(Grant)
  BY <1>2, <1>3
<1> QED
  BY <1>2, <1>4, <1>11, <1>12, <1>13, StreamGives DEF old

\* What the uploader may send and what its channel has.
UploaderHas(up, m, channel) == Pool(m, channel) + (IF channel = "upload" THEN up.available ELSE 0)

\* What the uploader is granted at once is taken from its channel.
LEMMA RequestBytesKeeps ==
    ASSUME limit \in [Channels -> Nat], NEW up \in UploaderState, NEW m \in ManagerState,
           NEW amount \in Nat, NEW channel \in Channels, limit[channel] # 0
    PROVE  LET new == RequestBytes(up, m, amount)
           IN /\ new \in UploaderPart
              /\ UploaderHas(new.up, new.m, channel) = UploaderHas(up, m, channel)
<1> DEFINE new == RequestBytes(up, m, amount)
<1>0. up.available \in Nat /\ up.requesting \in BOOLEAN
  BY DEF UploaderState
<1>1. CASE amount <= up.available \/ up.requesting
  <2>1. new = [up |-> up, m |-> m]
    BY <1>1 DEF RequestBytes
  <2>2. new.up = up /\ new.m = m /\ new \in UploaderPart
    BY <2>1 DEF UploaderPart
  <2> HIDE DEF new
  <2> QED
    BY <2>2 DEF new
<1>2. CASE ~ (amount <= up.available \/ up.requesting)
  <2> DEFINE more == amount - up.available
             g == RequestBandwidth(m, Uploader, more)
  <2>1. more \in Nat \ {0} /\ Uploader \in Users /\ ChannelOf(Uploader) = "upload"
    BY <1>0, <1>2 DEF Users, ChannelOf
  <2>2. /\ g \in ManagerState /\ g.granted \in Nat
        /\ Pool(m, channel) = Pool(g, channel) + (IF channel = "upload" THEN g.granted ELSE 0)
    <3> HIDE DEF more
    <3> QED
      BY <2>1, RequestKeeps
  <2>3. new = [m |-> g, up |-> IF g.granted = 0 THEN [up EXCEPT !.requesting = TRUE]
                               ELSE [up EXCEPT !.available = @ + g.granted]]
    BY <1>2 DEF RequestBytes
  <2> HIDE DEF g, new, more
  <2>4. new.m = g /\ new.up \in UploaderState /\ new.up.available = up.available + g.granted
    <3>1. CASE g.granted = 0
      <4>1. new.m = g /\ new.up = [up EXCEPT !.requesting = TRUE]
        BY <2>3, <3>1
      <4>2. new.up \in UploaderState /\ new.up.available = up.available
        BY <4>1 DEF UploaderState
      <4> QED
        BY <1>0, <3>1, <4>1, <4>2
    <3>2. CASE g.granted # 0
      <4> DEFINE sum == up.available + g.granted
      <4>1. new.m = g /\ new.up = [up EXCEPT !.available = sum]
        BY <2>3, <3>2
      <4>2. sum \in Nat
        BY <1>0, <2>2
      <4> HIDE DEF sum
      <4>3. new.up \in UploaderState /\ new.up.available = sum
        BY <4>1, <4>2 DEF UploaderState
      <4> QED
        BY <4>1, <4>3 DEF sum
    <3> QED
      BY <3>1, <3>2
  <2>5. new \in UploaderPart
    <3>1. new = [m |-> new.m, up |-> new.up]
      BY <2>3
    <3> QED
      BY <2>2, <2>4, <3>1 DEF UploaderPart
  <2>6. Pool(g, channel) \in Nat
    BY <2>2, PoolIsNat
  <2>7. UploaderHas(new.up, new.m, channel) = UploaderHas(up, m, channel)
    BY <1>0, <2>2, <2>4, <2>6 DEF UploaderHas
  <2> QED
    BY <2>5, <2>7 DEF new
<1> QED
  BY <1>1, <1>2

LEMMA QuotaIsNat ==
    ASSUME NEW st \in [Streams -> StreamState]
    PROVE  QuotaOf(st) \in Nat
<1>1. CASE Streams = {}
  <2>1. PICK it : SumsUp(it, Quotas(st), SUBSET Streams) /\ QuotaOf(st) = it[Streams]
    BY SumIsThis
  <2>2. it[{}] = 0
    <3>1. {} \in SUBSET Streams
      OBVIOUS
    <3> QED
      BY <2>1, <3>1 DEF SumsUp
  <2> QED
    BY <1>1, <2>1, <2>2
<1>2. CASE Streams # {}
  BY <1>2, SumChanges
<1> QED
  BY <1>1, <1>2

LEMMA UploaderGives ==
    ASSUME BandwidthTypes, NEW up \in UploaderState, NEW m \in ManagerState,
           uploader' = up, quotaLeft' = m.left, requestsQueue' = m.queue,
           stream' = stream, assigning' \in Seq(Grant), NEW channel \in Channels,
           UploaderHas(up, m, channel) + Given(channel, assigning') <=
              UploaderHas(uploader, Manager, channel) + Given(channel, assigning)
    PROVE  NoMore(channel)
<1> DEFINE a == Given(channel, assigning)
           b == Given(channel, assigning')
           q == QuotaOf(stream)
           k == Pool(Manager, channel)
           l == Pool(m, channel)
<1>1. /\ up.available \in Nat /\ uploader.available \in Nat
      /\ stream \in [Streams -> StreamState] /\ assigning \in Seq(Grant)
  BY DEF BandwidthTypes, UploaderState
<1>2. q \in Nat
  BY <1>1, QuotaIsNat
<1>3. a \in Nat /\ b \in Nat /\ k \in Nat /\ l \in Nat
  BY <1>1, AssignedIsGiven, ManagerFacts, PoolIsNat
<1>4. /\ k = quotaLeft[channel] + Given(channel, requestsQueue)
      /\ l = quotaLeft'[channel] + Given(channel, requestsQueue')
  BY ManagerFacts DEF Pool
<1>5. /\ Kept(quotaLeft, requestsQueue, assigning, uploader, stream, channel) =
            k + a + (IF channel = "upload" THEN uploader.available ELSE q)
      /\ Kept(quotaLeft', requestsQueue', assigning', uploader', stream', channel) =
            l + b + (IF channel = "upload" THEN up.available ELSE q)
  BY <1>4 DEF Kept
<1>6. /\ UploaderHas(up, m, channel) = l + (IF channel = "upload" THEN up.available ELSE 0)
      /\ UploaderHas(uploader, Manager, channel) =
            k + (IF channel = "upload" THEN uploader.available ELSE 0)
  BY DEF UploaderHas
<1>7. UploaderHas(up, m, channel) + b <= UploaderHas(uploader, Manager, channel) + a
  OBVIOUS
<1> HIDE DEF a, b, q, k, l
<1>8. CASE channel = "upload"
  <2>1. l + up.available + b <= k + uploader.available + a
    BY <1>6, <1>7, <1>8
  <2>2. l + b + up.available <= k + a + uploader.available
    BY <1>1, <1>3, <2>1
  <2> QED
    BY <1>5, <1>8, <2>2 DEF NoMore
<1>9. CASE channel # "upload"
  <2>1. l + b <= k + a
    BY <1>3, <1>6, <1>7, <1>9
  <2>2. l + b + q <= k + a + q
    BY <1>2, <1>3, <2>1
  <2> QED
    BY <1>5, <1>9, <2>2 DEF NoMore
<1> QED
  BY <1>8, <1>9

LEMMA UploaderHasNat ==
    ASSUME NEW up \in UploaderState, NEW m \in ManagerState, NEW channel \in Channels
    PROVE  UploaderHas(up, m, channel) \in Nat
<1>1. Pool(m, channel) \in Nat /\ up.available \in Nat
  BY PoolIsNat DEF UploaderState
<1> QED
  BY <1>1 DEF UploaderHas

\* The uploader has less with fewer bytes to send.
LEMMA LessAvailable ==
    ASSUME NEW up \in UploaderState, NEW m \in ManagerState, NEW old \in UploaderState,
           up.available <= old.available, NEW channel \in Channels
    PROVE  UploaderHas(up, m, channel) <= UploaderHas(old, m, channel)
<1>1. Pool(m, channel) \in Nat /\ up.available \in Nat /\ old.available \in Nat
  BY PoolIsNat DEF UploaderState
<1> QED
  BY <1>1 DEF UploaderHas

LEMMA SendRequestsGives ==
    ASSUME BandwidthTypes, SendRequests, NEW channel \in Channels, limit[channel] # 0
    PROVE  NoMore(channel)
<1> DEFINE sent == Sent(uploader)
           up == [uploader EXCEPT !.posted = @ - 1, !.available = sent.available,
                                  !.pending = sent.delayed]
           st == IF sent.wanted > 0 THEN RequestBytes(up, Manager, sent.wanted)
                 ELSE [up |-> up, m |-> Manager]
           atOnce == sent.wanted > 0 /\ ~ st.up.requesting
           new == [st EXCEPT !.up.atOnce = atOnce]
<1>1. /\ uploader \in UploaderState /\ limit \in [Channels -> Nat] /\ assigning \in Seq(Grant)
      /\ uploader.posted > 0 /\ uploader.posted \in Nat
  BY DEF BandwidthTypes, UploaderState, SendRequests
<1>2. SetUploader(new) /\ UNCHANGED <<limit, assigning, stream, established, plan>>
  BY DEF SendRequests
<1>3. /\ sent \in [available : Nat, delayed : Seq(Block), wanted : Nat]
      /\ sent.available <= uploader.available
  <2>1. uploader.pending \in Seq(Block) /\ uploader.available \in Nat
    BY <1>1 DEF UploaderState
  <2> QED
    BY <2>1, SentFacts
<1> HIDE DEF sent
<1>4. up \in UploaderState /\ up.available = sent.available
  <2>1. uploader.posted - 1 \in Nat
    BY <1>1
  <2> DEFINE n == uploader.posted - 1
             a == sent.available
             d == sent.delayed
  <2>2. n \in Nat /\ a \in Nat /\ d \in Seq(Block)
    BY <1>3, <2>1
  <2>3. up = [uploader EXCEPT !.posted = n, !.available = a, !.pending = d]
    OBVIOUS
  <2> HIDE DEF n, a, up
  <2>4. up \in UploaderState /\ up.available = a
    BY <1>1, <2>2, <2>3 DEF UploaderState
  <2> QED
    BY <2>4 DEF a
<1> HIDE DEF up
<1>5. Manager \in ManagerState
  BY ManagerFacts
<1>6. UploaderHas(up, Manager, channel) <= UploaderHas(uploader, Manager, channel)
  <2>1. up.available <= uploader.available
    BY <1>3, <1>4
  <2> QED
    BY <1>1, <1>4, <1>5, <2>1, LessAvailable
<1>7. /\ st \in UploaderPart
      /\ UploaderHas(st.up, st.m, channel) = UploaderHas(up, Manager, channel)
  <2>1. CASE sent.wanted > 0
    <3>1. st = RequestBytes(up, Manager, sent.wanted)
      BY <2>1
    <3>2. sent.wanted \in Nat
      BY <1>3
    <3> HIDE DEF st
    <3> QED
      BY <1>1, <1>4, <1>5, <3>1, <3>2, RequestBytesKeeps
  <2>2. CASE ~ (sent.wanted > 0)
    <3>1. st = [up |-> up, m |-> Manager]
      BY <2>2
    <3> HIDE DEF st
    <3> QED
      BY <1>4, <1>5, <3>1 DEF UploaderPart
  <2> QED
    BY <2>1, <2>2
<1> HIDE DEF st
<1>8. st.up \in UploaderState /\ st.m \in ManagerState /\ atOnce \in BOOLEAN
  BY <1>7 DEF UploaderPart
<1>9. new.m = st.m /\ new.up = [st.up EXCEPT !.atOnce = atOnce]
  BY <1>7 DEF UploaderPart
<1>10. new.up \in UploaderState /\ new.up.available = st.up.available
  <2> HIDE DEF atOnce
  <2> QED
    BY <1>8, <1>9 DEF UploaderState
<1> DEFINE newUp == new.up
<1> HIDE DEF new
<1>11. UploaderHas(newUp, st.m, channel) = UploaderHas(st.up, st.m, channel)
  BY <1>10 DEF UploaderHas
<1>12. /\ uploader' = newUp /\ quotaLeft' = st.m.left /\ requestsQueue' = st.m.queue
       /\ assigning' = assigning /\ stream' = stream
  BY <1>2, <1>9 DEF SetUploader
<1>13. newUp \in UploaderState
  BY <1>10
<1> HIDE DEF newUp
<1>14. /\ UploaderHas(newUp, st.m, channel) + Given(channel, assigning') <=
             UploaderHas(uploader, Manager, channel) + Given(channel, assigning)
       /\ assigning' \in Seq(Grant)
  <2>1. /\ Given(channel, assigning) \in Nat /\ UploaderHas(newUp, st.m, channel) \in Nat
        /\ UploaderHas(uploader, Manager, channel) \in Nat
    BY <1>1, <1>5, <1>8, <1>13, AssignedIsGiven, UploaderHasNat
  <2>2. UploaderHas(newUp, st.m, channel) <= UploaderHas(uploader, Manager, channel)
    BY <1>6, <1>7, <1>11
  <2> QED
    BY <1>1, <1>12, <2>1, <2>2
<1> QED
  BY <1>8, <1>12, <1>13, <1>14, UploaderGives

LEMMA PieceRequestGives ==
    ASSUME BandwidthTypes, NEW p \in Peers, PieceRequest(p), NEW channel \in Channels,
           limit[channel] # 0
    PROVE  NoMore(channel)
<1>1. PICK length \in Sizes :
         LET st == RequestBytes(uploader, Manager, length)
         IN SetUploader([st EXCEPT
               !.up.pending = Append(@, [peer |-> p, length |-> length, no |-> plan.requests]),
               !.up.posted = IF st.up.requesting THEN @ ELSE @ + 1])
  BY DEF PieceRequest
<1> DEFINE block == [peer |-> p, length |-> length, no |-> plan.requests]
           st == RequestBytes(uploader, Manager, length)
           posted == IF st.up.requesting THEN st.up.posted ELSE st.up.posted + 1
           pending == Append(st.up.pending, block)
           new == [st EXCEPT !.up.pending = pending, !.up.posted = posted]
           newUp == [st.up EXCEPT !.pending = pending, !.posted = posted]
<1>2. SetUploader(new)
  BY <1>1
<1>3. /\ uploader \in UploaderState /\ limit \in [Channels -> Nat]
      /\ plan \in PlanState /\ assigning \in Seq(Grant)
  BY DEF BandwidthTypes
<1>4. block \in Block
  BY <1>3 DEF Block, PlanState
<1>5. Manager \in ManagerState
  BY ManagerFacts
<1>6. length \in Nat
  BY BandwidthAssumption
<1>7. /\ st \in UploaderPart
      /\ UploaderHas(st.up, st.m, channel) = UploaderHas(uploader, Manager, channel)
  BY <1>3, <1>5, <1>6, RequestBytesKeeps
<1> HIDE DEF block, st
<1>8. st.up \in UploaderState /\ st.m \in ManagerState
  BY <1>7 DEF UploaderPart
<1>9. posted \in Nat /\ pending \in Seq(Block)
  <2>1. st.up.posted \in Nat /\ st.up.pending \in Seq(Block)
    BY <1>8 DEF UploaderState
  <2> QED
    BY <1>4, <2>1
<1> HIDE DEF posted, pending
<1>10. new.m = st.m /\ new.up = newUp
  BY <1>7 DEF UploaderPart
<1> HIDE DEF new
<1>11. newUp \in UploaderState /\ newUp.available = st.up.available
  BY <1>8, <1>9 DEF UploaderState
<1> HIDE DEF newUp
<1>12. UploaderHas(newUp, st.m, channel) = UploaderHas(st.up, st.m, channel)
  BY <1>11 DEF UploaderHas
<1>13. /\ uploader' = newUp /\ quotaLeft' = st.m.left /\ requestsQueue' = st.m.queue
       /\ assigning' = assigning /\ stream' = stream
  BY <1>2, <1>10 DEF SetUploader, PieceRequest
<1>14. /\ UploaderHas(newUp, st.m, channel) + Given(channel, assigning') <=
             UploaderHas(uploader, Manager, channel) + Given(channel, assigning)
       /\ assigning' \in Seq(Grant)
  <2>1. /\ Given(channel, assigning) \in Nat
        /\ UploaderHas(uploader, Manager, channel) \in Nat
    BY <1>3, <1>5, AssignedIsGiven, UploaderHasNat
  <2> QED
    BY <1>3, <1>7, <1>12, <1>13, <2>1
<1> QED
  BY <1>8, <1>11, <1>13, <1>14, UploaderGives

LEMMA AssignUploaderGives ==
    ASSUME BandwidthTypes, AssignBandwidth, Last(assigning).user = Uploader, NEW channel \in Channels,
           limit[channel] # 0
    PROVE  NoMore(channel)
<1> DEFINE r == Last(assigning)
           posted == IF uploader.pending # <<>> THEN uploader.posted + 1 ELSE uploader.posted
           sum == uploader.available + r.assigned
           up == [uploader EXCEPT !.requesting = FALSE, !.available = sum, !.posted = posted]
<1>1. assigning \in Seq(Grant) /\ assigning # <<>> /\ uploader \in UploaderState
  BY DEF BandwidthTypes, AssignBandwidth
<1>2. /\ assigning' = Front(assigning) /\ uploader' = up
      /\ UNCHANGED <<quotaLeft, requestsQueue, stream>>
  BY DEF AssignBandwidth, AssignUploader
<1>3. Front(assigning) \in Seq(Grant) /\ r \in Grant
  BY <1>1, FrontAsks
<1>3a. Given(channel, assigning) = Given(channel, Front(assigning)) + OnChannel(channel)[r]
  BY <1>1, FrontGiven
<1>3b. OnChannel(channel)[r] = IF channel = "upload" THEN r.assigned ELSE 0
  <2>1. OnChannel(channel)[r] = IF ChannelOf(r.user) = channel THEN r.assigned ELSE 0
    <3> HIDE DEF r
    <3> QED
      BY <1>3 DEF OnChannel
  <2> QED
    BY <2>1 DEF ChannelOf
<1> HIDE DEF r
<1>4. posted \in Nat /\ sum \in Nat /\ r.assigned \in Nat /\ uploader.available \in Nat
  <2>1. r.assigned \in Nat
    BY <1>3 DEF Grant
  <2> QED
    BY <1>1, <2>1 DEF UploaderState
<1>5. sum = uploader.available + r.assigned
  OBVIOUS
<1> HIDE DEF posted, sum
<1>6. up \in UploaderState /\ up.available = sum
  BY <1>1, <1>4 DEF UploaderState
<1> HIDE DEF up
<1>7. Manager \in ManagerState /\ Manager.queue = requestsQueue /\ Manager.left = quotaLeft
  BY ManagerFacts
<1>8. UploaderHas(up, Manager, channel) + Given(channel, Front(assigning)) =
         UploaderHas(uploader, Manager, channel) + Given(channel, assigning)
  <2>1. Pool(Manager, channel) \in Nat /\ Given(channel, Front(assigning)) \in Nat
    BY <1>3, <1>7, PoolIsNat, AssignedIsGiven
  <2> QED
    BY <1>3a, <1>3b, <1>4, <1>5, <1>6, <2>1 DEF UploaderHas
<1>9. /\ UploaderHas(up, Manager, channel) + Given(channel, assigning') <=
            UploaderHas(uploader, Manager, channel) + Given(channel, assigning)
      /\ assigning' \in Seq(Grant)
  <2>1. UploaderHas(up, Manager, channel) \in Nat /\ Given(channel, Front(assigning)) \in Nat
    BY <1>3, <1>6, <1>7, UploaderHasNat, AssignedIsGiven
  <2> QED
    BY <1>2, <1>3, <1>8, <2>1
<1> QED
  BY <1>2, <1>6, <1>7, <1>9, UploaderGives

LEMMA StopGives ==
    ASSUME BandwidthTypes, StopUploader, NEW channel \in Channels
    PROVE  NoMore(channel)
<1> DEFINE up == [uploader EXCEPT !.pending = <<>>, !.requesting = FALSE, !.available = 0]
<1>1. uploader \in UploaderState /\ assigning \in Seq(Grant)
  BY DEF BandwidthTypes
<1>2. uploader' = up /\ UNCHANGED <<quotaLeft, requestsQueue, assigning, stream>>
  BY DEF StopUploader
<1>3. up \in UploaderState /\ up.available <= uploader.available
  <2>1. <<>> \in Seq(Block)
    OBVIOUS
  <2>2. up \in UploaderState /\ up.available = 0
    BY <1>1, <2>1 DEF UploaderState
  <2>3. uploader.available \in Nat
    BY <1>1 DEF UploaderState
  <2> HIDE DEF up
  <2> QED
    BY <2>2, <2>3
<1> HIDE DEF up
<1>4. /\ Manager \in ManagerState /\ Manager.queue = requestsQueue /\ Manager.left = quotaLeft
  BY ManagerFacts
<1>5. UploaderHas(up, Manager, channel) <= UploaderHas(uploader, Manager, channel)
  BY <1>1, <1>3, <1>4, LessAvailable
<1>6. /\ UploaderHas(up, Manager, channel) + Given(channel, assigning') <=
            UploaderHas(uploader, Manager, channel) + Given(channel, assigning)
      /\ assigning' \in Seq(Grant)
  <2>1. /\ UploaderHas(up, Manager, channel) \in Nat /\ UploaderHas(uploader, Manager, channel) \in Nat
        /\ Given(channel, assigning) \in Nat
    BY <1>1, <1>3, <1>4, UploaderHasNat, AssignedIsGiven
  <2> QED
    BY <1>1, <1>2, <1>5, <2>1
<1> QED
  BY <1>2, <1>3, <1>4, <1>6, UploaderGives

\* Steps that give nothing: the same in the manager and with the uploader and the streams.
LEMMA NothingMoves ==
    ASSUME BandwidthTypes, UNCHANGED <<quotaLeft, requestsQueue, assigning>>,
           uploader' \in UploaderState, uploader'.available = uploader.available,
           stream' = stream, NEW channel \in Channels
    PROVE  NoMore(channel)
<1>1. /\ Manager \in ManagerState /\ Manager.queue = requestsQueue /\ Manager.left = quotaLeft
  BY ManagerFacts
<1>2. uploader \in UploaderState /\ assigning \in Seq(Grant)
  BY DEF BandwidthTypes
<1> DEFINE up == uploader'
<1>3. up \in UploaderState /\ UploaderHas(up, Manager, channel) = UploaderHas(uploader, Manager, channel)
  BY DEF UploaderHas
<1>4. UploaderHas(uploader, Manager, channel) \in Nat /\ Given(channel, assigning) \in Nat
  BY <1>1, <1>2, UploaderHasNat, AssignedIsGiven
<1>5. uploader' = up
  OBVIOUS
<1> HIDE DEF up
<1>6. UploaderHas(up, Manager, channel) + Given(channel, assigning') <=
         UploaderHas(uploader, Manager, channel) + Given(channel, assigning)
  BY <1>3, <1>4
<1> QED
  BY <1>1, <1>2, <1>3, <1>5, <1>6, UploaderGives

\* A stream that only fails, or is told how much to expect.
LEMMA SameQuotaGives ==
    ASSUME BandwidthTypes, NEW s \in Streams, NEW x \in StreamState, x.quota = stream[s].quota,
           stream' = [stream EXCEPT ![s] = x],
           UNCHANGED <<quotaLeft, requestsQueue, assigning, uploader>>, NEW channel \in Channels
    PROVE  NoMore(channel)
<1> DEFINE st == [m |-> Manager, stream |-> x]
           old == [m |-> Manager, stream |-> stream[s]]
<1>1. /\ Manager \in ManagerState /\ Manager.queue = requestsQueue /\ Manager.left = quotaLeft
  BY ManagerFacts
<1>2. assigning \in Seq(Grant) /\ stream[s] \in StreamState
  BY DEF BandwidthTypes
<1>3. /\ st \in StreamPart /\ st.m = Manager /\ st.stream = x
      /\ old.m = Manager /\ old.stream = stream[s]
  BY <1>1 DEF StreamPart
<1>4. StreamHas(st, channel) = StreamHas(old, channel)
  BY DEF StreamHas
<1>5. StreamHas(st, channel) \in Nat /\ Given(channel, assigning) \in Nat
  <2>1. Pool(Manager, channel) \in Nat /\ x.quota \in Nat
    BY <1>1, PoolIsNat DEF StreamState
  <2> QED
    BY <1>2, <2>1, AssignedIsGiven DEF StreamHas
<1>6. SetStream(s, st)
  BY <1>1 DEF SetStream
<1> HIDE DEF st
<1>7. StreamHas(st, channel) + Given(channel, assigning') <=
         StreamHas([m |-> Manager, stream |-> stream[s]], channel) + Given(channel, assigning)
  BY <1>4, <1>5
<1> QED
  BY <1>2, <1>3, <1>6, <1>7, StreamGives

\* Every step but a round adds nothing; a round adds its quota at most.
LEMMA StepGives ==
    ASSUME BandwidthHolds, BandwidthNext, ~ UpdateQuotas, NEW channel \in Channels, limit[channel] # 0
    PROVE  NoMore(channel)
<1>1. BandwidthTypes
  BY DEF BandwidthHolds
<1>2. /\ uploader \in UploaderState /\ stream \in [Streams -> StreamState]
  BY <1>1 DEF BandwidthTypes
<1>3. CASE SetLimit
  BY <1>1, <1>2, <1>3, NothingMoves DEF SetLimit
<1>4. CASE AssignBandwidth
  BY <1>1, <1>4, AssignStreamGives, AssignUploaderGives
<1>5. CASE SendRequests
  BY <1>1, <1>5, SendRequestsGives
<1>6. CASE StopUploader
  BY <1>1, <1>6, StopGives
<1>7. ASSUME NEW s \in Streams, HandleReceive(s) PROVE NoMore(channel)
  BY <1>1, <1>7, HandleReceiveGives
<1>8. ASSUME NEW s \in Streams, PostFail(s) PROVE NoMore(channel)
  <2> DEFINE x == [stream[s] EXCEPT !.connected = FALSE, !.waitingData = FALSE]
  <2>1. x \in StreamState /\ x.quota = stream[s].quota
    BY <1>2 DEF StreamState
  <2>2. /\ stream' = [stream EXCEPT ![s] = x]
        /\ UNCHANGED <<quotaLeft, requestsQueue, assigning, uploader>>
    BY <1>8 DEF PostFail
  <2> HIDE DEF x
  <2> QED
    BY <1>1, <2>1, <2>2, SameQuotaGives
<1>9. ASSUME NEW s \in Streams, SetMinBandwidthRequest(s) PROVE NoMore(channel)
  <2>1. PICK e \in Expecting : stream' = [stream EXCEPT ![s].expecting = e]
    BY <1>9 DEF SetMinBandwidthRequest
  <2> DEFINE x == [stream[s] EXCEPT !.expecting = e]
  <2>2. x \in StreamState /\ x.quota = stream[s].quota
    BY <1>2 DEF StreamState
  <2>3. /\ stream' = [stream EXCEPT ![s] = x]
        /\ UNCHANGED <<quotaLeft, requestsQueue, assigning, uploader>>
    BY <1>9, <2>1 DEF SetMinBandwidthRequest
  <2> HIDE DEF x
  <2> QED
    BY <1>1, <2>2, <2>3, SameQuotaGives
<1>10. ASSUME NEW p \in Peers, PieceRequest(p) PROVE NoMore(channel)
  BY <1>1, <1>10, PieceRequestGives
<1>11. ASSUME NEW p \in Peers, PeerCloses(p) PROVE NoMore(channel)
  <2>1. UNCHANGED <<quotaLeft, requestsQueue, assigning>> /\ uploader' = uploader /\ stream' = stream
    BY <1>11 DEF PeerCloses
  <2> QED
    BY <1>1, <1>2, <2>1, NothingMoves
<1>12. ASSUME NEW p \in Peers, CancelRequests(p) PROVE NoMore(channel)
  <2> DEFINE rest == Without(p)
             S == {r \in ToSet(uploader.pending) : r.peer # p}
  <2>1. /\ uploader' = [uploader EXCEPT !.pending = rest] /\ stream' = stream
        /\ UNCHANGED <<quotaLeft, requestsQueue, assigning>>
    BY <1>12 DEF CancelRequests
  <2>2. rest \in Seq(Block)
    <3>1. uploader.pending \in Seq(Block)
      BY <1>2 DEF UploaderState
    <3> HIDE DEF S
    <3>2. Those(uploader.pending, S) \in Seq(Block)
      BY <3>1, ThoseFacts
    <3> QED
      BY <3>2 DEF Without, S
  <2> HIDE DEF rest
  <2>3. uploader' \in UploaderState /\ uploader'.available = uploader.available
    BY <1>2, <2>1, <2>2 DEF UploaderState
  <2> QED
    BY <1>1, <2>1, <2>3, NothingMoves
<1> QED
  BY <1>3, <1>4, <1>5, <1>6, <1>7, <1>8, <1>9, <1>10, <1>11, <1>12 DEF BandwidthNext

LEMMA RoundGives ==
    ASSUME BandwidthTypes, BandwidthTypes', UpdateQuotas, NEW channel \in Channels, limit[channel] # 0
    PROVE  Kept(quotaLeft', requestsQueue', assigning', uploader', stream', channel) <=
              Kept(quotaLeft, requestsQueue, assigning, uploader, stream, channel) + RoundQuota
<1>1. quotaLeft'[channel] + Given(channel, requestsQueue') + Given(channel, assigning') <=
         quotaLeft[channel] + Given(channel, requestsQueue) + RoundQuota
  BY RoundAdds
<1>2. /\ requestsQueue \in Seq(Grant) /\ requestsQueue' \in Seq(Grant)
      /\ assigning \in Seq(Grant) /\ assigning' \in Seq(Grant)
      /\ quotaLeft[channel] \in Nat /\ quotaLeft'[channel] \in Nat /\ RoundQuota \in Nat
      /\ uploader.available \in Nat /\ stream \in [Streams -> StreamState]
  BY BandwidthAssumption DEF BandwidthTypes, UploaderState
<1>3. /\ Given(channel, requestsQueue) \in Nat /\ Given(channel, requestsQueue') \in Nat
      /\ Given(channel, assigning) \in Nat /\ Given(channel, assigning') \in Nat
  BY <1>2, AssignedIsGiven
<1>4. QuotaOf(stream) \in Nat
  BY <1>2, QuotaIsNat
<1>5. uploader' = uploader /\ stream' = stream
  BY DEF UpdateQuotas
<1> DEFINE held == IF channel = "upload" THEN uploader.available ELSE QuotaOf(stream)
           a == Given(channel, requestsQueue)
           b == Given(channel, requestsQueue')
           c == Given(channel, assigning)
           d == Given(channel, assigning')
           q == quotaLeft[channel]
           p == quotaLeft'[channel]
<1>6. held \in Nat
  BY <1>2, <1>4
<1>7. /\ Kept(quotaLeft, requestsQueue, assigning, uploader, stream, channel) = q + a + c + held
      /\ Kept(quotaLeft', requestsQueue', assigning', uploader', stream', channel) = p + b + d + held
  BY <1>5 DEF Kept
<1>8. /\ a \in Nat /\ b \in Nat /\ c \in Nat /\ d \in Nat /\ p \in Nat /\ q \in Nat
      /\ p + b + d <= q + a + RoundQuota
  BY <1>1, <1>2, <1>3
<1> HIDE DEF held, a, b, c, d, p, q
<1>9. p + b + d + held <= q + a + c + held + RoundQuota
  BY <1>2, <1>6, <1>8
<1> QED
  BY <1>7, <1>9

\* The limit holds (Bandwidth.cpp:145-256, TcpAsyncStream.cpp:451-513,
\* Uploader.cpp:20-150): on a limited channel no step but a round of the timer adds
\* to what is with the manager, on its way or held by a user, and a round adds at
\* most its quota: however many wait, however their requests are cut, returned when
\* they give up, or granted at once.
THEOREM QuotaIsConserved == BandwidthSpec => QuotaConserved
<1> DEFINE A == \A channel \in Channels :
                   limit[channel] # 0 /\ limit'[channel] # 0 =>
                      \/ Outstanding(channel)' <= Outstanding(channel)
                      \/ Outstanding(channel)' <= Outstanding(channel) + RoundQuota /\ UpdateQuotas
<1>1. BandwidthInit => BandwidthHolds
  BY InitHolds
<1>2. BandwidthHolds /\ [BandwidthNext]_bandwidthVars => BandwidthHolds'
  BY BandwidthStep
<1>3. BandwidthHolds /\ BandwidthHolds' /\ [BandwidthNext]_bandwidthVars => [A]_bandwidthVars
  <2> SUFFICES ASSUME BandwidthHolds, BandwidthHolds', BandwidthNext,
                      NEW channel \in Channels, limit[channel] # 0
               PROVE  \/ Outstanding(channel)' <= Outstanding(channel)
                      \/ Outstanding(channel)' <= Outstanding(channel) + RoundQuota /\ UpdateQuotas
    OBVIOUS
  <2>1. BandwidthTypes /\ BandwidthTypes'
    BY DEF BandwidthHolds
  <2>2. /\ Outstanding(channel) = Kept(quotaLeft, requestsQueue, assigning, uploader, stream, channel)
        /\ Outstanding(channel)' = Kept(quotaLeft', requestsQueue', assigning', uploader', stream', channel)
    BY <2>1, OutstandingIs
  <2>3. CASE UpdateQuotas
    BY <2>1, <2>2, <2>3, RoundGives
  <2>4. CASE ~ UpdateQuotas
    BY <2>2, <2>4, StepGives DEF NoMore
  <2> QED
    BY <2>3, <2>4
<1> QED
  BY <1>1, <1>2, <1>3, PTL DEF BandwidthSpec, QuotaConserved
===============================================================================
