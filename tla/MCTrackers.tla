------------------------------- MODULE MCTrackers -------------------------------
(* One tracker at a time with two disturbances: lost and late answers,          *)
(* refusals, failed sends, a refresh while a request is open, a stop and a      *)
(* start; and lists that merge UDP with HTTP, or skip what they cannot use.     *)
EXTENDS Trackers

A(protocol) == [protocol |-> protocol, host |-> "a", port |-> "80"]
B(protocol) == [protocol |-> protocol, host |-> "b", port |-> ""]

Plan(uris, changes) ==
    changes @@ [uris |-> uris, imports |-> <<>>, starts |-> 1, stops |-> 0, refreshes |-> 0,
                losses |-> 0, early |-> 0, refusals |-> 0, failures |-> 0, partial |-> 0]

Both == <<A("udp"), A("http")>>

FewPlans ==
    {Plan(<<A("udp")>>, "refreshes" :> 1 @@ "losses" :> 1 @@ "early" :> 1),
     Plan(<<A("udp")>>, "failures" :> 2 @@ "refusals" :> 1 @@ "losses" :> 1),
     Plan(<<A("http"), A("udp")>>, "refreshes" :> 1 @@ "failures" :> 1 @@ "refusals" :> 1),
     Plan(Both, "stops" :> 1 @@ "starts" :> 2 @@ "failures" :> 1 @@ "losses" :> 1),
     Plan(<<A("http")>>, "stops" :> 1 @@ "starts" :> 2 @@ "refreshes" :> 1 @@ "refusals" :> 1),
     Plan(<<B("https"), B("udp")>>, "starts" :> 2 @@ "stops" :> 1 @@ "failures" :> 1 @@ "partial" :> 1
            @@ "imports" :> <<A("udp"), A("http"), A("udp")>>)}
===============================================================================
