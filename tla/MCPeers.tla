------------------------------- MODULE MCPeers -------------------------------
(* Two connections at most, three made in all, addresses that differ in nothing;    *)
(* each plan lets a few of the sources and calls meet: lists of one or two          *)
(* addresses (one twice, some known), a restart, incoming and manual connections,   *)
(* a negotiator, the DHT.                                                           *)
EXTENDS Peers, TLC

CONSTANTS a, b, c

Symmetry == Permutations(Addresses)

Plan(changes) ==
    changes @@ [comms |-> 3, starts |-> 1, stops |-> 0, later |-> 0, lists |-> 0, sources |-> {"Tracker"},
                connects |-> 0, incoming |-> 0, disconnects |-> 0, punches |-> 0,
                searches |-> 0, switches |-> 1, messages |-> 0]

FewPlans ==
    {Plan("lists" :> 2),
     Plan("lists" :> 1 @@ "later" :> 1),
     Plan("lists" :> 1 @@ "starts" :> 2 @@ "stops" :> 1 @@ "switches" :> 2),
     Plan("comms" :> 2 @@ "lists" :> 2 @@ "sources" :> {"Dht"} @@ "searches" :> 1
            @@ "connects" :> 1),
     Plan("comms" :> 2 @@ "lists" :> 2 @@ "sources" :> {"Tracker", "Pex"} @@ "connects" :> 1),
     Plan("starts" :> 2 @@ "stops" :> 1 @@ "searches" :> 2 @@ "switches" :> 0),
     Plan("comms" :> 1 @@ "connects" :> 1 @@ "starts" :> 2 @@ "stops" :> 2 @@ "messages" :> 3),
     Plan("incoming" :> 2 @@ "starts" :> 2 @@ "stops" :> 1 @@ "messages" :> 2 @@ "switches" :> 0),
     Plan("connects" :> 2 @@ "disconnects" :> 1 @@ "later" :> 1 @@ "messages" :> 1),
     Plan("connects" :> 1 @@ "incoming" :> 1 @@ "starts" :> 2 @@ "stops" :> 1),
     Plan("lists" :> 1 @@ "sources" :> {"Pex"} @@ "incoming" :> 2 @@ "punches" :> 1
            @@ "switches" :> 0),
     Plan("lists" :> 1 @@ "sources" :> {"Pex"} @@ "incoming" :> 1)}
===============================================================================
