------------------------------ MODULE MCService ------------------------------
(***************************************************************************)
(* Small instances, for TLC, of the daemon as a process: starting and      *)
(* stopping it, its control plane, its connection to the relay, and the    *)
(* messages, negotiations and output of its lanes, and of the dashboard's  *)
(* feed of it.                                                             *)
(*                                                                         *)
(* They share no state: each is explored by itself, while the others rest  *)
(* in their initial states.                                                *)
(***************************************************************************)
EXTENDS RelayClient, Negotiation, DaemonLifecycle, InboundMessages, LaneOutput,
        ControlPlane, WebPoll

(* The model values of the instances. *)
CONSTANTS p1, p2, d1, d2, l1

VARIABLE part   \* the component explored

serviceVars == <<part, relayClientVars, negotiationVars, daemonVars, inboundVars,
                 outputVars, controlVars, pollVars>>

ServiceInit ==
    /\ part \in {"client", "negotiation", "daemon", "messages", "output", "control", "poll"}
    /\ ClientInit /\ NegotiationInit /\ DaemonInit /\ InboundInit /\ OutputInit
    /\ ControlInit /\ PollInit

OnlyPart(name) ==
    /\ part = name
    /\ UNCHANGED part
    /\ name # "client" => UNCHANGED relayClientVars
    /\ name # "negotiation" => UNCHANGED negotiationVars
    /\ name # "daemon" => UNCHANGED daemonVars
    /\ name # "messages" => UNCHANGED inboundVars
    /\ name # "output" => UNCHANGED outputVars
    /\ name # "control" => UNCHANGED controlVars
    /\ name # "poll" => UNCHANGED pollVars

ServiceNext ==
    \/ OnlyPart("client") /\ ClientNext
    \/ OnlyPart("negotiation") /\ NegotiationNext
    \/ OnlyPart("daemon") /\ DaemonNext
    \/ OnlyPart("messages") /\ InboundNext
    \/ OnlyPart("output") /\ OutputNext
    \/ OnlyPart("control") /\ ControlNext
    \/ OnlyPart("poll") /\ PollNext

(* What each owes to fairness, for the part that is explored: as only one  *)
(* is, one condition says it of all that have only one.                    *)
ServiceFairness ==
    /\ WF_serviceVars(\/ OnlyPart("client") /\ ClientProceeds
                      \/ OnlyPart("negotiation") /\ (Proceeds \/ Raises)
                      \/ OnlyPart("output") /\ OutputProceeds
                      \/ OnlyPart("control") /\ StopListening
                      \/ OnlyPart("poll") /\ PollProceeds)
    /\ \A d \in Daemons : WF_serviceVars(OnlyPart("daemon") /\ DaemonEnds(d))
    /\ \A c \in Askers : WF_serviceVars(OnlyPart("control") /\ Turns(c))

ServiceSpec == ServiceInit /\ [][ServiceNext]_serviceVars /\ ServiceFairness

ServiceTypeOK ==
    /\ ClientTypeOK /\ NegotiationTypeOK /\ DaemonTypeOK /\ InboundTypeOK /\ OutputTypeOK
    /\ ControlTypeOK /\ PollTypeOK

(* What is begun ends: an offer, whatever two lanes answer; the stop of a  *)
(* daemon, and with it the waiting of its clients: neither a lane that     *)
(* hangs nor a reader that is parked holds it up (NegotiationDriver.run,   *)
(* Daemon.stop, IpcServer.stop, _PipeConnection.readline).                 *)
EverythingEnds == OfferEnds /\ StopEnds /\ StopReleasesClients

(* What there is to be heard is: what is to be published goes out through  *)
(* every reconnection, what a harness printed reaches the log, and what a  *)
(* tab is to show arrives, however often its poll aborts itself            *)
(* (RelayClient._send_loop, _iter_pty_text, usePoll).                      *)
EveryoneCatchesUp == BacklogGoesOut /\ PrintedIsHeard /\ PollCatchesUp
=============================================================================
