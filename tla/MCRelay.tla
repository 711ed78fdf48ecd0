------------------------------- MODULE MCRelay -------------------------------
(***************************************************************************)
(* Small instances, for TLC, of what the relay serves: the fan-out of a    *)
(* room's events, and its members and invites.                             *)
(*                                                                         *)
(* They share no state: each is explored by itself, while the other rests  *)
(* in its initial state.                                                   *)
(***************************************************************************)
EXTENDS MCRelayHub, RelayRooms

(* The model values of the instances. *)
CONSTANTS q1, q2, q3, s1, s2, i1, i2

VARIABLE part   \* the component explored

relayVars == <<part, vars, roomVars>>

RelayInit ==
    /\ part \in {"hub", "rooms"}
    /\ Init /\ RoomInit

OnlyPart(name) ==
    /\ part = name
    /\ UNCHANGED part
    /\ name # "hub" => UNCHANGED vars
    /\ name # "rooms" => UNCHANGED roomVars

RelayNext ==
    \/ OnlyPart("hub") /\ Next
    \/ OnlyPart("rooms") /\ RoomNext

(* A viewer's invite for two, and an owner's for one.                      *)
Roles == i1 :> 1 @@ i2 :> 3
Uses == i1 :> 2 @@ i2 :> 1

(* What the hub owes to fairness, when it is explored. *)
RelayFairness ==
    /\ WF_relayVars(OnlyPart("hub") /\ FanOut)
    /\ \A p \in Publishers : WF_relayVars(OnlyPart("hub") /\ FanOutBegins(p))
    /\ \A c \in Conns :
        /\ WF_relayVars(OnlyPart("hub") /\ Take(c))
        /\ WF_relayVars(OnlyPart("hub") /\ (Sent(c) \/ SendFails(c)))

RelaySpec == RelayInit /\ [][RelayNext]_relayVars /\ RelayFairness

RelayTypeOK == TypeOK /\ RoomTypeOK
=============================================================================
