------------------------------ MODULE MCPeerStream ------------------------------
(* One connection at a time: every setting against every kind of remote, then       *)
(* closes, breaks, a change of the setting, a stop of the listener and two threads. *)
EXTENDS PeerStream, TLC

Plan(changes) ==
    changes @@ [encryption |-> "Allow", types |-> Types, preferUtp |-> FALSE, holepunch |-> FALSE,
                remote |-> "running", enableTcpIn |-> TRUE, padded |-> FALSE, threads |-> 1,
                changes |-> 0, closes |-> 0, breaks |-> 0, stops |-> 0]

Disturbances ==
    {"closes" :> 2, "breaks" :> 2, "threads" :> 2 @@ "breaks" :> 1, "changes" :> 1 @@ "breaks" :> 1,
     "changes" :> 1 @@ "closes" :> 1, "stops" :> 1 @@ "closes" :> 1}

FewPlans ==
    {Plan("encryption" :> e @@ "remote" :> r @@ "padded" :> p @@ "types" :> t @@ d) :
        e \in Encryption, r \in Remotes, p \in BOOLEAN, t \in {{"Tcp"}, Types}, d \in Disturbances}
    \cup {Plan("encryption" :> e @@ "types" :> t @@ "preferUtp" :> u @@ "holepunch" :> h
                    @@ "enableTcpIn" :> i @@ "closes" :> 1) :
            e \in Encryption, t \in SUBSET Types, u \in BOOLEAN, h \in BOOLEAN, i \in BOOLEAN}
=================================================================================
