----------------------------- MODULE MCProgress -----------------------------
(***************************************************************************)
(* A small instance, for TLC, of what must eventually happen: to the       *)
(* emitters and readers of the log, and to one lane under database errors  *)
(* and a crash of the daemon.                                              *)
(*                                                                         *)
(* The two share no state: each is explored by itself, while the other     *)
(* rests in its initial state.                                             *)
(***************************************************************************)
EXTENDS EventBus

(* The model values of the instance, and the constants of the lane. *)
CONSTANTS e1, e2, r1, p1, p2, t1, a
CONSTANTS Lanes, NoLane, Policy, MaxRestarts, IdleTimeout, OrphanFloor, StartTime,
          TaskLanes, DeadLetterAfter, BreakerThreshold, MaxFaults, MaxCrashes

VARIABLES up, start, running, alive, status, row, age, restarts, spawns, stop,
          attached, closer, sup, bound, failures, dead, breaker, faults, crashes
VARIABLE part   \* the component explored

Lane == INSTANCE LaneSupervision

laneVars == <<up, start, running, alive, status, row, age, restarts, spawns, stop,
              attached, closer, sup, bound, failures, dead, breaker, faults, crashes>>
progressVars == <<part, vars, laneVars>>

ProgressInit ==
    /\ part \in {"log", "lane"}
    /\ Init /\ Lane!Init
    /\ part = "lane" =>      \* beside it, one initial state of the log is enough
        /\ \A r \in Readers : tailSession[r] = p1
        /\ \A e \in Emitters : event[e].session = p1

OnlyPart(name) ==
    /\ part = name
    /\ UNCHANGED part
    /\ name # "log" => UNCHANGED vars
    /\ name # "lane" => UNCHANGED laneVars

ProgressNext ==
    \/ OnlyPart("log") /\ Next
    \/ OnlyPart("lane") /\ Lane!Next

(* The fairness of the two, each for the part that is explored. *)
ProgressFairness ==
    /\ \A e \in Emitters : WF_progressVars(OnlyPart("log") /\ EmitStep(e))
    /\ \A r \in Readers : WF_progressVars(OnlyPart("log") /\ Poll(r))
    /\ \A l \in Lanes :
        /\ WF_progressVars(OnlyPart("lane") /\ Lane!StartStep(l))
        /\ WF_progressVars(OnlyPart("lane") /\ Lane!StopStep(l))
    /\ WF_progressVars(OnlyPart("lane") /\ Lane!CloseStep)
    /\ WF_progressVars(OnlyPart("lane") /\ Lane!Supervise)

ProgressSpec == ProgressInit /\ [][ProgressNext]_progressVars /\ ProgressFairness

(* An emit ends, whoever holds the lock, and a reader that goes on polling  *)
(* has everything in the end (EventBus).                                   *)
LogProceeds == EmitTerminates /\ TailCatchesUp

(* A dead harness is restarted or given up, a row nobody supervises is     *)
(* corrected, and close_session returns (LaneSupervision).                 *)
LanesSettle ==
    Lane!CrashedLaneSettles /\ Lane!OrphanRowsSettle /\ Lane!CloseEnds
=============================================================================
