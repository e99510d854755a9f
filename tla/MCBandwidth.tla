------------------------------ MODULE MCBandwidth ------------------------------
(* Rounds of one unit, less than most requests want, and a limit of two: two        *)
(* streams that share their channel, and two peers that ask for three blocks in     *)
(* all, with a connection that ends, a stop, a changed limit or a choke.            *)
EXTENDS Bandwidth, TLC

Plan(changes) ==
    changes @@ [streams |-> {}, limits |-> {2}, changes |-> 0, requests |-> 0, closes |-> 0,
                stops |-> 0, chokes |-> 0]

FewPlans ==
    {Plan("requests" :> 3 @@ "closes" :> 1),
     Plan("requests" :> 3 @@ "stops" :> 1),
     Plan("requests" :> 3 @@ "changes" :> 1 @@ "limits" :> {0, 2}),
     Plan("streams" :> {"s", "t"} @@ "requests" :> 1),
     Plan("streams" :> {"s", "t"} @@ "closes" :> 1 @@ "chokes" :> 1),
     Plan("streams" :> {"s"} @@ "changes" :> 1 @@ "chokes" :> 1 @@ "closes" :> 1)}
===============================================================================
