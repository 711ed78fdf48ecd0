---------------------------- MODULE LossyChannel ----------------------------
(***************************************************************************)
(* What the relay client promises of its outbound side: a channel that may *)
(* lose events but delivers none twice and none out of order.  Events are  *)
(* numbered as they are handed to it.                                      *)
(***************************************************************************)
EXTENDS Naturals, Sequences

VARIABLES
    offered,        \* number of events handed to the channel
    transit,        \* events it may still deliver
    delivered       \* what has come out of it

ChannelInit == offered = 0 /\ transit = {} /\ delivered = << >>

(* An event is handed over; any events may be lost for it, itself included.*)
Accept ==
    /\ offered' = offered + 1
    /\ transit' \subseteq transit \cup {offered'}
    /\ UNCHANGED delivered

Lose ==
    /\ transit' \subseteq transit
    /\ UNCHANGED <<offered, delivered>>

NewlyOut == Len(delivered) + 1 .. Len(delivered')

(* Some events come out in order; what was overtaken is lost.              *)
Deliver ==
    /\ Len(delivered') > Len(delivered)
    /\ \A i \in 1 .. Len(delivered) : delivered'[i] = delivered[i]
    /\ \A i \in NewlyOut : delivered'[i] \in transit
    /\ \A i, j \in NewlyOut : i < j => delivered'[i] < delivered'[j]
    /\ transit' \subseteq {e \in transit : \A i \in NewlyOut : delivered'[i] < e}
    /\ UNCHANGED offered

ChannelSpec ==
    ChannelInit /\ [][Accept \/ Lose \/ Deliver]_<<offered, transit, delivered>>
=============================================================================
