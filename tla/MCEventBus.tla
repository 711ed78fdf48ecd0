----------------------------- MODULE MCEventBus -----------------------------
(***************************************************************************)
(* Small instances, for TLC, of what is written to the database in one     *)
(* transaction and told in another: events, which EventBus fans out, and   *)
(* tasks, of which TaskLifecycle tells the log.  Each is explored by       *)
(* itself, the other at rest.                                              *)
(***************************************************************************)
EXTENDS EventBus, TaskLifecycle, TLC

(* The model values of the instances.  The parts share no state: callers   *)
(* may bear the emitters' names and tasks those of subscriptions, which    *)
(* leaves TLC fewer permutations to try.                                   *)
CONSTANTS c1, c2, x1, x2, p1, t1

VARIABLE part   \* the component explored

busVars == <<part, vars, taskVars>>

BusInit ==
    /\ part \in {"log", "tasks"}
    /\ Init /\ TaskInit

BusNext ==
    /\ UNCHANGED part
    /\ \/ part = "log" /\ Next /\ UNCHANGED taskVars
       \/ part = "tasks" /\ TaskNext /\ UNCHANGED vars

BusSpec == BusInit /\ [][BusNext]_busVars

(* Emitters and callers are interchangeable, and so are subscriptions and  *)
(* tasks.                                                                  *)
Symmetry == Permutations(Emitters) \cup Permutations(Subscribers)
=============================================================================
