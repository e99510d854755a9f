--------------------------------- MODULE MCUtp ---------------------------------
(* The first numbers wrap around or do not; a packet is doubled, data is lost *)
(* twice, an acknowledgement is lost, or the SYN and a packet of data.        *)
EXTENDS Utp, TLC

Wrapping == 0 :> 14 @@ 1 :> 15 @@ 2 :> 7
Straight == 0 :> 1 @@ 1 :> 3 @@ 2 :> 10

Units(connector, listener) == 0 :> connector @@ 1 :> listener @@ 2 :> 0

Some(type, n) == [t \in Types |-> IF t = type THEN n ELSE 0]
None == Some("SYN", 0)

Environment(firsts, written, lost, copied, finishing, closed) ==
    [first |-> firsts, units |-> written, losses |-> lost, copies |-> copied,
     finish |-> finishing, close |-> closed]

FewEnvironments ==
    {Environment(Wrapping, Units(2, 0), None, Some("DATA", 1), {}, {}),
     Environment(Wrapping, Units(1, 0), None, Some("SYN", 1), {}, {}),
     Environment(Straight, Units(3, 0), Some("DATA", 2), None, {}, {}),
     Environment(Straight, Units(1, 1), Some("STATE", 1), None, {}, {}),
     Environment(Straight, Units(1, 0), Some("SYN", 1), None, {}, {}),
     Environment(Straight, Units(1, 0), None, None, {0}, {}),
     Environment(Straight, Units(1, 1), None, None, {}, {0})}
===============================================================================
