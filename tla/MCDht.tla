--------------------------------- MODULE MCDht ---------------------------------
(* Four nodes in one bucket of one place; the table knows node 1 at first,      *)
(* node 0 is this one.  The plans pair searches for one hash or for two with    *)
(* a search that is given up, a refresh of the table, a restart, or timers      *)
(* that fire while an answer is tried; or others ask and announce.              *)
EXTENDS Dht, TLC

Nodes4 == 1 .. 4
OneBucket == [n \in Nodes4 |-> 1]
FirstNodes == <<1>>
HashOf == "a" :> 1 @@ "b" :> 1 @@ "c" :> 2
Order == [q \in {"a", "b", "c", "f"} |-> <<1>>]
Far == [q \in {"a", "b", "c", "f"} |->
           IF q = "c" THEN 1 :> 2 @@ 2 :> 4 @@ 3 :> 8 @@ 4 :> 3 ELSE 1 :> 9 @@ 2 :> 8 @@ 3 :> 4 @@ 4 :> 2]
Sums == 1 :> 7 @@ 2 :> 5 @@ 3 :> 5 @@ 4 :> 6
Answers == 1 :> <<0, 2, 3, 4>> @@ 2 :> <<1>> @@ 3 :> <<1, 2>> @@ 4 :> <<2>>

Plan(starts, abandoned, again, strays, lost, late) ==
    [start |-> starts, abandon |-> abandoned, restart |-> again, restarted |-> FALSE,
     stray |-> strays, losses |-> lost, early |-> late, aged |-> TRUE, renamed |-> {},
     ticks |-> 0, requests |-> [n \in Nodes4 |-> 0]]

Renamed(plan0, nodes) == [plan0 EXCEPT !.renamed = nodes]

Asked(requests) == [Plan({"p", "r", "s"}, {}, TRUE, FALSE, 0, 0)
                       EXCEPT !.aged = FALSE, !.ticks = 2, !.requests = requests @@ @]

FewPlans ==
    {Plan({"a", "b"}, {"a"}, FALSE, FALSE, 1, 1), Plan({"a", "c"}, {}, FALSE, FALSE, 1, 1),
     Plan({"a", "p"}, {}, FALSE, FALSE, 2, 1), Plan({"a", "p"}, {}, TRUE, FALSE, 1, 0),
     Plan({"a", "c"}, {}, FALSE, TRUE, 0, 0), 
     Plan({"f", "p"}, {}, FALSE, FALSE, 4, 0), Renamed(Plan({"a", "f"}, {}, FALSE, FALSE, 0, 1), {2}), Asked(2 :> 2 @@ 3 :> 2)}
===============================================================================
