-------------------------------- MODULE Channel --------------------------------
(***************************************************************************)
(* What a stream promises the peer protocol: each end reads the units that  *)
(* one of its peers wrote, each once and in the order of writing, and a     *)
(* closed end reads nothing more.                                           *)
(***************************************************************************)
EXTENDS Naturals, Sequences, SequencesExt

CONSTANTS
    Ends,
    PeersOf     \* of each end, the ends it may be connected to

VARIABLES
    wrote,      \* number of units written
    read,       \* units read, as pairs <<writer, number>>
    open

channelVars == <<wrote, read, open>>

Units(e) == [i \in 1 .. wrote[e] |-> <<e, i>>]

ChannelInit ==
    /\ wrote = [e \in Ends |-> 0]
    /\ read = [e \in Ends |-> <<>>]
    /\ open = [e \in Ends |-> TRUE]

ChannelWrite(e) ==
    /\ open[e]
    /\ wrote' = [wrote EXCEPT ![e] = @ + 1]
    /\ UNCHANGED <<read, open>>

ChannelRead(e) ==
    /\ open[e]
    /\ \E f \in PeersOf[e] : \E n \in 1 .. wrote[f] :
          /\ n > Len(read[e])
          /\ IsPrefix(read[e], Units(f))
          /\ read' = [read EXCEPT ![e] = SubSeq(Units(f), 1, n)]
    /\ UNCHANGED <<wrote, open>>

ChannelClose(e) ==
    /\ open[e]
    /\ open' = [open EXCEPT ![e] = FALSE]
    /\ UNCHANGED <<wrote, read>>

ChannelNext ==
    \E e \in Ends : ChannelWrite(e) \/ ChannelRead(e) \/ ChannelClose(e)

ChannelSpec == ChannelInit /\ [][ChannelNext]_channelVars
===============================================================================
