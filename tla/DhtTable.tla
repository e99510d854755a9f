-------------------------------- MODULE DhtTable --------------------------------
(***************************************************************************)
(* mtt::dht::Table: buckets of nodes that answer, each with a cache of      *)
(* nodes that wait for a place.                                             *)
(*                                                                          *)
(* Of the times the code compares only one question is left: whether a      *)
(* bucket was updated after a node was (`behind'); how long ago is a choice *)
(* of the caller.                                                           *)
(***************************************************************************)
EXTENDS Naturals, Sequences, SequencesExt

CONSTANTS
    Nodes,
    BucketOf,               \* getBucketId
    MaxBucketNodesCount,
    MaxBucketCacheSize

ASSUME TableAssumption ==
    /\ BucketOf \in [Nodes -> Nat]
    /\ MaxBucketNodesCount \in Nat \ {0} /\ MaxBucketCacheSize \in Nat \ {0}

\* The elements of a sequence that are in a set (SelectSeq).
Those(seq, S) ==
    FoldLeft(LAMBDA kept, x : IF x \in S THEN Append(kept, x) ELSE kept, <<>>, seq)

Entry(n, active) == [id |-> n, active |-> active, behind |-> FALSE]

Ids(entries) == {entries[i].id : i \in DOMAIN entries}

\* The place of n, find takes the first.
Place(entries, n) == SelectInSeq(entries, LAMBDA e : e.id = n)

EmptyBucket == [nodes |-> <<>>, cache |-> <<>>]

\* bucket.lastupdate is now that of the node at i, or (0) of none of these.
Updated(nodes, i) ==
    [k \in DOMAIN nodes |-> [nodes[k] EXCEPT !.behind = k # i]]

\* Mutated form of CacheNode: a waiting node is found only among the others.
CacheNodeAgain(cache, n) == Append(cache, Entry(n, FALSE))

CacheNode(cache, n) ==
    IF n \in Ids(cache) THEN [cache EXCEPT ![Place(cache, n)].behind = FALSE]
    ELSE IF Len(cache) < MaxBucketCacheSize THEN Append(cache, Entry(n, FALSE))
    ELSE [cache EXCEPT ![Len(cache)] = Entry(n, FALSE)]

NodeResponded(table, n) ==
    LET bucket == table[BucketOf[n]]
        i == Place(bucket.nodes, n)
        next ==
          IF i # 0
          THEN [nodes |-> Updated([bucket.nodes EXCEPT ![i].active = TRUE], i),
                cache |-> Updated(bucket.cache, 0)]
          ELSE IF n \notin Ids(bucket.cache) /\ Len(bucket.nodes) < MaxBucketNodesCount
          THEN [nodes |-> Updated(Append(bucket.nodes, Entry(n, TRUE)), Len(bucket.nodes) + 1),
                cache |-> Updated(bucket.cache, 0)]
          ELSE [bucket EXCEPT !.cache = CacheNode(@, n)]
    IN [table EXCEPT ![BucketOf[n]] = next]

\* A node that was inactive before may go, when others answered after it; the
\* first in the cache takes its place.
NodeNotResponded(table, n, old) ==
    LET bucket == table[BucketOf[n]]
        i == Place(bucket.nodes, n)
        gone == old /\ ~ bucket.nodes[i].active /\ bucket.nodes[i].behind
        promoted == IF bucket.cache = <<>> THEN <<>> ELSE <<Head(bucket.cache)>>
        next ==
          IF i = 0 THEN bucket
          ELSE IF gone
          THEN [nodes |-> RemoveAt(bucket.nodes, i) \o promoted,
                cache |-> SubSeq(bucket.cache, 2, Len(bucket.cache))]
          ELSE [bucket EXCEPT !.nodes[i] =
                   [id |-> n, active |-> FALSE, behind |-> @.behind /\ ~ @.active]]
    IN [table EXCEPT ![BucketOf[n]] = next]

\* The nodes of buckets, those picked in each, in the order the buckets are given.
Joined(picked, order) == FoldLeft(LAMBDA seq, b : seq \o picked[b], <<>>, order)

IdsIn(entries, S) ==
    LET those == Those(entries, S)
    IN [i \in DOMAIN those |-> those[i].id]

ActiveIds(bucket) == IdsIn(bucket.nodes, {e \in Range(bucket.nodes) : e.active})

\* Buckets are asked in the order given: from the bucket of the target downwards,
\* then upwards; bucket 0 is never asked.
GetClosestNodes(table, order, count) ==
    LET all == Joined([b \in DOMAIN table |-> ActiveIds(table[b])], order)
    IN SubSeq(all, 1, IF Len(all) < count THEN Len(all) ELSE count)

InactiveIds(bucket, aged) ==
    IdsIn(bucket.nodes, {e \in Range(bucket.nodes) : aged \/ ~ e.active})

\* Inactive nodes, and all of them when none answered for long (`aged').
GetInactiveNodes(table, order, aged) ==
    Joined([b \in DOMAIN table |-> InactiveIds(table[b], aged)], order)

\* load after save: what was saved is added to what is there.
Reload(table) ==
    [b \in DOMAIN table |->
        [table[b] EXCEPT
            !.nodes = @ \o [i \in DOMAIN @ |->
                               [id |-> @[i].id, active |-> TRUE, behind |-> TRUE]]]]
=================================================================================
