------------------------------ MODULE WriteCache ------------------------------
(***************************************************************************)
(* mtt::WriteCache and the piece checks of mtt::DownloadStorage, on the     *)
(* worker threads of its ServiceThreadpool.                                 *)
(*                                                                          *)
(* Blocks are stored in groups in memory.  A full group is posted to the    *)
(* pool, written to the files and emptied; a complete piece is posted to    *)
(* the pool and checked with what the groups hold of it, the rest being     *)
(* read from the files.  Whatever happens under cacheMutex is one action;   *)
(* writing the files and reading them take place outside of it.             *)
(*                                                                          *)
(* The data of a block are good or bad.  A group holds GroupSize blocks     *)
(* (downloadCachePerGroup bytes in the code).  storePieceBlocks sorts the   *)
(* blocks of the group without cacheMutex, so a check that copies from the  *)
(* group meanwhile can miss a block or copy the wrong one.                  *)
(***************************************************************************)
EXTENDS Integers, Sequences, FiniteSets, SequencesExt

CONSTANTS
    Pieces, Blocks,     \* the pieces, and the blocks of each piece
    GroupSize,          \* blocks in a group
    Workers,            \* threads of the pool
    MaxRetry,           \* retries of a write to a locked file
    MaxGroups,          \* bound: groups
    BadBlocks,          \* bound: bad blocks stored
    MaxFaults,          \* bound: writes that are tried again and writes that
                        \* fail for good
    Stops               \* bound: stops of the storage

ASSUME BoundsAssumption ==
    /\ GroupSize \in Nat \ {0} /\ MaxGroups \in Nat \ {0} /\ MaxRetry \in Nat
    /\ BadBlocks \in Nat /\ MaxFaults \in Nat /\ Stops \in Nat
    /\ Pieces \subseteq Nat /\ IsFiniteSet(Pieces) /\ IsFiniteSet(Workers)
    /\ \A p \in Pieces : Blocks[p] \subseteq Nat /\ IsFiniteSet(Blocks[p])

VARIABLES
    cacheGroups,        \* the list, as group numbers
    blocks,             \* by group: its blocks, in the order they were stored
    disk,               \* data in the files
    tasks, worker,      \* queue of the pool, and what each thread does
    pool,               \* "running", "draining" or "stopped"
    stage,              \* by piece: "requested", "checking" or "received"
    stored,             \* by piece: blocks stored since it was last requested
    latest,             \* data last stored for each block
    badStored, locked, failed, stops

boundVars == <<badStored, locked, failed, stops>>
vars == <<cacheGroups, blocks, disk, tasks, worker, pool, stage, stored, latest,
          boundVars>>

Positions == UNION {{p} \X Blocks[p] : p \in Pieces}
Groups == 1 .. MaxGroups
Data == {"good", "bad"}
NoData == "none"

Faults == locked + failed

Idle == [run |-> "idle"]
FlushTask(g) == [run |-> "flush", group |-> g]
CheckTask(p) == [run |-> "check", piece |-> p]
Flushing(g, retry) == [run |-> "flush", group |-> g, retry |-> retry]
Written(g) == [run |-> "written", group |-> g]
Checking(p, seen) == [run |-> "check", piece |-> p, seen |-> seen]

Full(g) == Len(blocks[g]) >= GroupSize

-------------------------------------------------------------------------------
(* storeBlock *)

\* The first group with room, or a new one at the front.
GroupFor(g) ==
    LET room == {k \in DOMAIN cacheGroups : ~ Full(cacheGroups[k])}
    IN IF room # {}
       THEN /\ g = cacheGroups[CHOOSE k \in room : \A l \in room : k <= l]
            /\ UNCHANGED cacheGroups
       ELSE /\ Groups \ ToSet(cacheGroups) # {}
            /\ g = CHOOSE n \in Groups \ ToSet(cacheGroups) : TRUE
            /\ cacheGroups' = <<g>> \o cacheGroups

\* A block of a requested piece; the last one starts the check of the piece.
StoreBlock(p, b, data) ==
    /\ pool = "running"
    /\ stage[p] = "requested" /\ b \notin stored[p]
    /\ data = "bad" => badStored < BadBlocks
    /\ badStored' = IF data = "bad" THEN badStored + 1 ELSE badStored
    /\ latest' = [latest EXCEPT ![<<p, b>>] = data]
    /\ stored' = [stored EXCEPT ![p] = @ \cup {b}]
    /\ stage' = [stage EXCEPT ![p] = IF stored'[p] = Blocks[p] THEN "checking" ELSE @]
    /\ \E g \in Groups :
          /\ GroupFor(g)
          /\ blocks' = [blocks EXCEPT ![g] = Append(@, [at |-> <<p, b>>, data |-> data])]
          /\ tasks' = tasks
                \o (IF Full(g)' THEN <<FlushTask(g)>> ELSE <<>>)
                \o (IF stage'[p] = "checking" THEN <<CheckTask(p)>> ELSE <<>>)
    /\ UNCHANGED <<disk, worker, pool, locked, failed, stops>>

-------------------------------------------------------------------------------
(* readBlocks *)

\* The groups a thread is sorting at the moment.
Sorted == {worker[w].group : w \in {v \in Workers : /\ worker[v].run = "flush"
                                                    /\ worker[v].retry = 0}}

\* Every block in the cache in the order readBlocks copies it: the last copy of
\* a block counts.
Cached == FlattenSeq([k \in DOMAIN cacheGroups |->
             [l \in DOMAIN blocks[cacheGroups[k]] |->
                 [block |-> blocks[cacheGroups[k]][l], group |-> cacheGroups[k]]]])

\* What readBlocks may find of a block.
Found(at) ==
    LET all == SelectSeq(Cached, LAMBDA c : c.block.at = at)
        safe == SelectSeq(all, LAMBDA c : c.group \notin Sorted)
        lastOf(seq) == IF seq = <<>> THEN NoData ELSE Last(seq).block.data
    IN IF all = <<>> \/ Last(all).group \notin Sorted
       THEN {lastOf(all)}
       ELSE {lastOf(safe), "bad"} \cup {c.block.data : c \in ToSet(all)}

-------------------------------------------------------------------------------
(* The pool's threads. *)

StartTask(w) ==
    /\ worker[w] = Idle /\ tasks # <<>> /\ pool # "stopped"
    /\ tasks' = Tail(tasks)
    /\ LET task == Head(tasks) IN
       \/ /\ task.run = "flush"
          /\ worker' = [worker EXCEPT ![w] = Flushing(task.group, 0)]
       \/ /\ task.run = "check"
          /\ \E seen \in [Blocks[task.piece] -> Data \cup {NoData}] :
                /\ \A b \in Blocks[task.piece] : seen[b] \in Found(<<task.piece, b>>)
                /\ worker' = [worker EXCEPT ![w] = Checking(task.piece, seen)]
    /\ UNCHANGED <<cacheGroups, blocks, disk, pool, stage, stored, latest, boundVars>>

\* checkPieceFunc: what the cache did not have comes from the files, and the
\* result goes to Downloader::pieceChecked.
FinishCheck(w) ==
    /\ worker[w].run = "check"
    /\ LET p == worker[w].piece
           buffer == [b \in Blocks[p] |-> IF worker[w].seen[b] = NoData
                                       THEN disk[<<p, b>>] ELSE worker[w].seen[b]]
           success == \A b \in Blocks[p] : buffer[b] = "good"
       IN /\ stage' = [stage EXCEPT ![p] = IF success THEN "received" ELSE "requested"]
          /\ stored' = [stored EXCEPT ![p] = IF success THEN @ ELSE {}]
    /\ worker' = [worker EXCEPT ![w] = Idle]
    /\ UNCHANGED <<cacheGroups, blocks, disk, tasks, pool, latest, boundVars>>

\* Blocks of a group as storePieceBlocks sorts them: by piece and position,
\* copies of one block in any order.
Before(at, other) ==
    at[1] < other[1] \/ (at[1] = other[1] /\ at[2] <= other[2])

Sortings(seq) ==
    {s \in {[k \in DOMAIN seq |-> seq[f[k]]] : f \in Bijection(DOMAIN seq, DOMAIN seq)} :
        \A k, l \in DOMAIN seq : k < l => Before(s[k].at, s[l].at)}

\* The last copy of a block is the one that stays.
DiskAfter(seq) ==
    [at \in Positions |->
        LET copies == {k \in DOMAIN seq : seq[k].at = at}
        IN IF copies = {} THEN disk[at] ELSE seq[Max(copies)].data]

\* Mutated form of FlushWrite: the count of retries starts again.
FlushWriteForever(w) ==
    /\ worker[w].run = "flush"
    /\ LET g == worker[w].group  retry == worker[w].retry
       IN \E seq \in Sortings(blocks[g]) :
          /\ blocks' = [blocks EXCEPT ![g] = seq]
          /\ \/ /\ disk' = DiskAfter(seq)
                /\ worker' = [worker EXCEPT ![w] = Written(g)]
                /\ UNCHANGED locked
             \/ /\ worker' = [worker EXCEPT ![w] =
                                   Flushing(g, (retry + 1) % (MaxRetry + 1))]
                /\ UNCHANGED <<disk, locked>>
    /\ UNCHANGED <<cacheGroups, tasks, pool, stage, stored, latest, badStored,
                   failed, stops>>

\* Mutated form of FlushWrite: one retry too few.
FlushWriteEarly(w) ==
    /\ worker[w].run = "flush"
    /\ LET g == worker[w].group  retry == worker[w].retry
       IN \E seq \in Sortings(blocks[g]) :
          /\ blocks' = [blocks EXCEPT ![g] = seq]
          /\ \/ /\ disk' = DiskAfter(seq)
                /\ worker' = [worker EXCEPT ![w] = Written(g)]
                /\ UNCHANGED locked
             \/ /\ Faults < MaxFaults
                /\ locked' = locked + 1
                /\ worker' = [worker EXCEPT ![w] = IF retry + 1 < MaxRetry
                                                   THEN Flushing(g, retry + 1)
                                                   ELSE Written(g)]
                /\ UNCHANGED disk
    /\ UNCHANGED <<cacheGroups, tasks, pool, stage, stored, latest, badStored,
                   failed, stops>>

\* flush(group): a locked file is tried again MaxRetry times.  One more, or another
\* error, and the write has failed for good; nobody looks at the status in the end.
FlushWrite(w) ==
    /\ worker[w].run = "flush"
    /\ LET g == worker[w].group  retry == worker[w].retry
       IN \E seq \in Sortings(blocks[g]) :
          /\ blocks' = [blocks EXCEPT ![g] = seq]
          /\ \/ /\ disk' = DiskAfter(seq)
                /\ worker' = [worker EXCEPT ![w] = Written(g)]
                /\ UNCHANGED <<locked, failed>>
             \/ /\ Faults < MaxFaults /\ retry < MaxRetry
                /\ locked' = locked + 1
                /\ worker' = [worker EXCEPT ![w] = Flushing(g, retry + 1)]
                /\ UNCHANGED <<disk, failed>>
             \/ /\ Faults < MaxFaults
                /\ failed' = failed + 1
                /\ worker' = [worker EXCEPT ![w] = Written(g)]
                /\ UNCHANGED <<disk, locked>>
    /\ UNCHANGED <<cacheGroups, tasks, pool, stage, stored, latest, badStored, stops>>

\* The group is emptied and moved from its place to the end of the list.
FlushEnd(w) ==
    /\ worker[w].run = "written"
    /\ LET g == worker[w].group
       IN /\ blocks' = [blocks EXCEPT ![g] = <<>>]
          /\ \E k \in DOMAIN cacheGroups :
                /\ cacheGroups[k] = g
                /\ cacheGroups' = Append(RemoveAt(cacheGroups, k), g)
    /\ worker' = [worker EXCEPT ![w] = Idle]
    /\ UNCHANGED <<disk, tasks, pool, stage, stored, latest, boundVars>>

-------------------------------------------------------------------------------
(* DownloadStorage::stop and start.  The downloader has dropped its requests.  *)
(* Assumed: no block comes after the flush.  One could: of a piece added to    *)
(* the selection when finish was posted, or asked for by a message that enters *)
(* its peer after the stop (Downloader.cpp:210, 417); clear() drops it.        *)

\* Mutated form of OpenGroups: groups that were posted when they filled up too.
OpenGroupsFull == {k \in DOMAIN cacheGroups : blocks[cacheGroups[k]] # <<>>}

\* flush(): places of the groups that are not full, the others are posted already.
OpenGroups ==
    {k \in DOMAIN cacheGroups :
        ~ Full(cacheGroups[k]) /\ blocks[cacheGroups[k]] # <<>>}

\* order names them from the front of the list to its end.
InListOrder(order) ==
    /\ ToSet(order) = OpenGroups
    /\ \A k, l \in DOMAIN order : k < l => order[k] < order[l]

Stop ==
    /\ pool = "running" /\ stops < Stops
    /\ stops' = stops + 1
    /\ pool' = "draining"
    /\ \E order \in [1 .. Cardinality(OpenGroups) -> OpenGroups] :
          /\ InListOrder(order)
          /\ tasks' = tasks \o [k \in DOMAIN order |-> FlushTask(cacheGroups[order[k]])]
    /\ UNCHANGED <<cacheGroups, blocks, disk, worker, stage, stored, latest,
                   badStored, locked, failed>>

\* pool.stop() has joined the threads: clear()
Stopped ==
    /\ pool = "draining" /\ tasks = <<>> /\ \A w \in Workers : worker[w] = Idle
    /\ pool' = "stopped"
    /\ cacheGroups' = <<>>
    /\ blocks' = [g \in Groups |-> <<>>]
    /\ UNCHANGED <<disk, tasks, worker, stage, stored, latest, boundVars>>

Start ==
    /\ pool = "stopped"
    /\ pool' = "running"
    /\ UNCHANGED <<cacheGroups, blocks, disk, tasks, worker, stage, stored, latest,
                   boundVars>>

-------------------------------------------------------------------------------
Init ==
    /\ cacheGroups = <<>>
    /\ blocks = [g \in Groups |-> <<>>]
    /\ disk = [at \in Positions |-> NoData]
    /\ tasks = <<>>
    /\ worker = [w \in Workers |-> Idle]
    /\ pool = "running"
    /\ stage = [p \in Pieces |-> "requested"]
    /\ stored = [p \in Pieces |-> {}]
    /\ latest = [at \in Positions |-> NoData]
    /\ badStored = 0 /\ locked = 0 /\ failed = 0 /\ stops = 0

Work(w) == StartTask(w) \/ FinishCheck(w) \/ FlushWrite(w) \/ FlushEnd(w)

Next ==
    \/ \E p \in Pieces : \E b \in Blocks[p], data \in Data : StoreBlock(p, b, data)
    \/ \E w \in Workers : Work(w)
    \/ Stop \/ Stopped \/ Start

Spec == Init /\ [][Next]_vars

\* The threads of the pool run, and the join returns once they are idle.
FairSpec == Spec /\ (\A w \in Workers : WF_vars(Work(w))) /\ WF_vars(Stopped)

-------------------------------------------------------------------------------
(* Properties. *)

\* Types; a group never holds more blocks than its buffer has room for.
TypeOK ==
    /\ ToSet(cacheGroups) \subseteq Groups
    /\ \A g \in Groups : /\ Len(blocks[g]) <= GroupSize
                         /\ ToSet(blocks[g]) \subseteq [at : Positions, data : Data]
    /\ disk \in [Positions -> Data \cup {NoData}]
    /\ pool \in {"running", "draining", "stopped"}
    /\ stage \in [Pieces -> {"requested", "checking", "received"}]
    /\ \A p \in Pieces : stored[p] \subseteq Blocks[p]
    /\ latest \in [Positions -> Data \cup {NoData}]

\* Flushes of a group that are queued or under way.
Flushes(g) ==
    Cardinality({k \in DOMAIN tasks : tasks[k] = FlushTask(g)})
    + Cardinality({w \in Workers : worker[w].run \in {"flush", "written"}
                                     /\ worker[w].group = g})

\* A group has one flush at a time, and has it exactly while it is full or the
\* storage is stopping: a second flush would find the group empty, or empty it
\* while blocks are stored in it again.
OneFlush ==
    TypeOK /\ \A g \in Groups :
        /\ Flushes(g) <= 1
        /\ Flushes(g) = 1 => blocks[g] # <<>> /\ g \in ToSet(cacheGroups)
        /\ Full(g) => Flushes(g) = 1
        /\ pool = "running" /\ Flushes(g) = 1 => Full(g)

\* A stored block is in the cache or in the files, at every moment of a flush
\* with retries, a check and a stop, as long as no write fails for good.  Once
\* the storage has stopped, the files hold every block that was stored, also
\* those of unfinished pieces, which the next start goes on with (when no bad
\* block was stored: of two copies of a block in one group either may be written
\* last).
NothingLost ==
    failed = 0 =>
        /\ \A at \in Positions :
              latest[at] = NoData \/ disk[at] # NoData
                  \/ \E g \in ToSet(cacheGroups) : \E l \in DOMAIN blocks[g] :
                        blocks[g][l].at = at
        /\ pool = "stopped" /\ badStored = 0 => disk = latest

\* A stop ends, whatever the files' state.
StopEnds == pool = "draining" ~> pool = "stopped"
===============================================================================
