--------------------------- MODULE LaneSupervision ---------------------------
(***************************************************************************)
(* The lanes of one session: starting them, keeping their harnesses alive, *)
(* stopping them, and finding those that lost their supervisor.            *)
(*                                                                         *)
(* SessionManager runs everything as coroutines of one daemon.  A lane is  *)
(* three things that may disagree: an entry of the running map, a harness  *)
(* process, and a row of the database.  Users start and stop lanes and     *)
(* close the session while the one supervisor passes over a snapshot of    *)
(* the running map, beats each lane's heart, restarts dead harnesses, and  *)
(* then reaps the rows whose heartbeat is too old.  Each stretch between   *)
(* two awaits is an action.                                                *)
(*                                                                         *)
(* Time is counted in supervision intervals (HEARTBEAT_INTERVAL_S, 5 s) and*)
(* passes only while the supervisor sleeps, between passes or in a backoff.*)
(* A backoff counts as one interval: with the default of 3 restarts it is  *)
(* 1, 2 or 4 s.                                                            *)
(***************************************************************************)
EXTENDS Naturals, FiniteSets

CONSTANTS
    Lanes,
    NoLane,
    Policy,             \* crash_restart: "never", "once", "backoff" or "always"
    MaxRestarts,
    IdleTimeout,        \* idle_timeout_s of every lane
    OrphanFloor,        \* the stale window when no lane is running
    StartTime,          \* intervals a lane may take to start
    TaskLanes,          \* lanes to which a task is assigned once they started
    DeadLetterAfter,
    BreakerThreshold,
    MaxFaults,          \* bound: errors of the database, a server or an adapter
    MaxCrashes          \* bound: crashes of the daemon

ASSUME PolicyKnown == Policy \in {"never", "once", "backoff", "always"}
ASSUME NumbersNatural ==
    /\ {MaxRestarts, IdleTimeout, OrphanFloor, StartTime, MaxFaults, MaxCrashes} \subseteq Nat
    /\ {DeadLetterAfter, BreakerThreshold} \subseteq Nat \ {0}
ASSUME LanesAssumed == NoLane \notin Lanes /\ TaskLanes \subseteq Lanes

VARIABLES
    up,         \* is the daemon running
    start,      \* how far start_lane is for each lane
    running,    \* the running map
    alive,      \* lanes whose harness process lives
    status,     \* status of the lane object in memory
    row,        \* status in the lane's row
    age,        \* intervals since the row's last sign of life
    restarts,   \* restarts of each lane
    spawns,     \* history: processes started for each lane
    stop,       \* how far stop_lane is for each lane
    attached,   \* the session's list of lanes
    closer,     \* close_session
    sup,        \* the supervisor
    bound,      \* lanes to which an open task is assigned
    failures,   \* consecutive failures of each lane
    dead,       \* dead-lettered lanes
    breaker,    \* consecutive failures of the harness
    faults,
    crashes

procVars  == <<alive, spawns, restarts>>
recVars   == <<failures, dead, breaker>>
boundVars == <<faults, crashes>>
vars == <<up, start, running, status, row, age, stop, attached, closer, sup, bound,
          procVars, recVars, boundVars>>

-----------------------------------------------------------------------------
Terminal == {"stopped", "crashed"}
AgeCap   == 1 + (IF IdleTimeout > OrphanFloor THEN IdleTimeout ELSE OrphanFloor)
Starting == {l \in Lanes : start[l] \in {"spawned", "registered", "saved"}}

(* What a save of the lane object writes to its row.                       *)
RowOf(st) == IF st = "idle" THEN "live" ELSE st

Older(n) == IF n < AgeCap THEN n + 1 ELSE n

Saturate(n, cap) == IF n < cap THEN n + 1 ELSE n

(* The widest timeout of the running lanes, and a default without any.     *)
OrphanThreshold == IF running = {} THEN OrphanFloor ELSE IdleTimeout

Stale == {l \in Lanes : row[l] = "live" /\ age[l] > OrphanThreshold}

(* Mutants of the test below: one restart too many; a lane that was dead-  *)
(* lettered by mistake gets another chance.                                *)
ExhaustedTooLate(l) == Policy = "never" \/ restarts[l] > MaxRestarts
ExhaustedUnlessDead(l) == Policy = "never" \/ (restarts[l] >= MaxRestarts /\ l \notin dead)

Exhausted(l) == Policy = "never" \/ restarts[l] >= MaxRestarts

Idle == [pc |-> "idle", lane |-> NoLane, todo |-> {}]

-----------------------------------------------------------------------------
Init ==
    /\ up = TRUE
    /\ start = [l \in Lanes |-> "unused"]
    /\ running = {} /\ alive = {} /\ attached = {} /\ bound = {} /\ dead = {}
    /\ status = [l \in Lanes |-> "idle"]
    /\ row = [l \in Lanes |-> "absent"]
    /\ age = [l \in Lanes |-> 0]
    /\ restarts = [l \in Lanes |-> 0]
    /\ spawns = [l \in Lanes |-> 0]
    /\ stop = [l \in Lanes |-> "no"]
    /\ closer = Idle
    /\ sup = Idle
    /\ failures = [l \in Lanes |-> 0]
    /\ breaker = 0
    /\ faults = 0 /\ crashes = 0

(* stop_lane begins by taking the lane out of the running map: whoever does*)
(* carries on with the rest of it.                                         *)
Pop(l) ==
    /\ l \in running
    /\ running' = running \ {l}
    /\ stop' = [stop EXCEPT ![l] = "popped"]

(* record_task_failure: the failure that opens the breaker is not counted  *)
(* towards the dead letters.                                               *)
RecordFailure(l) ==
    /\ failures' = [failures EXCEPT ![l] = Saturate(@, DeadLetterAfter)]
    /\ breaker' = Saturate(breaker, BreakerThreshold)
    /\ dead' = IF breaker + 1 # BreakerThreshold /\ failures[l] + 1 >= DeadLetterAfter
               THEN dead \cup {l} ELSE dead

-----------------------------------------------------------------------------
(* Mutants: what the steps below would be with a likely mistake in them.   *)

(* A stop that waits for everyone: a lane somebody else has stopped is     *)
(* never crossed off.                                                      *)
CloseStopsRunning(l) ==
    /\ closer.pc = "stopping" /\ l \in closer.todo
    /\ Pop(l)
    /\ closer' = [pc |-> "waiting", lane |-> l, todo |-> closer.todo \ {l}]
    /\ UNCHANGED <<up, start, status, row, age, attached, sup, bound>>
    /\ UNCHANGED <<procVars, recVars, boundVars>>

(* The heartbeat reaches the lane object and not its row.                  *)
CheckLaneInMemory(l) ==
    /\ sup.pc = "pass" /\ l \in sup.todo
    /\ IF l \in alive
       THEN sup' = [sup EXCEPT !.todo = @ \ {l}] /\ UNCHANGED status
       ELSE /\ sup' = [pc |-> "crashed", lane |-> l, todo |-> sup.todo \ {l}]
            /\ status' = [status EXCEPT ![l] = "crashed"]
    /\ UNCHANGED <<up, start, running, row, age, stop, attached, closer, bound>>
    /\ UNCHANGED <<procVars, recVars, boundVars>>

(* Giving up is not written down.                                          *)
GiveUpUnsaved ==
    /\ sup.pc = "crashed"
    /\ Exhausted(sup.lane)
    /\ status' = [status EXCEPT ![sup.lane] = "stopped"]
    /\ RecordFailure(sup.lane)
    /\ sup' = [sup EXCEPT !.pc = "pass", !.lane = NoLane]
    /\ UNCHANGED <<up, start, running, row, age, stop, attached, closer, bound>>
    /\ UNCHANGED <<procVars, boundVars>>

(* A restart that works gives the lane its restarts back.                  *)
RestartForgiven ==
    /\ sup.pc = "restart"
    /\ LET l == sup.lane IN
        /\ alive' = alive \cup {l}
        /\ spawns' = [spawns EXCEPT ![l] = @ + 1]
        /\ status' = [status EXCEPT ![l] = "idle"]
        /\ restarts' = [restarts EXCEPT ![l] = 0]
    /\ sup' = [sup EXCEPT !.pc = "restarted"]
    /\ UNCHANGED <<up, start, running, row, age, stop, attached, closer, bound, recVars>>
    /\ UNCHANGED boundVars

(* The row of an orphan that does not run here is left as it is.           *)
ReapRunning(l) ==
    /\ sup.pc = "reap" /\ l \in sup.todo
    /\ sup' = [pc |-> IF l \in running THEN "stopping" ELSE "release",
               lane |-> l, todo |-> sup.todo \ {l}]
    /\ IF l \in running THEN Pop(l) ELSE UNCHANGED <<running, stop>>
    /\ UNCHANGED <<up, start, status, row, age, attached, closer, bound>>
    /\ UNCHANGED <<procVars, recVars, boundVars>>

-----------------------------------------------------------------------------
(* start_lane.  It never asks whether the session is still open.           *)

Spawn(l) ==
    /\ up /\ start[l] = "unused"
    /\ start' = [start EXCEPT ![l] = "spawned"]
    /\ alive' = alive \cup {l}
    /\ spawns' = [spawns EXCEPT ![l] = 1]
    /\ age' = [age EXCEPT ![l] = 0]
    /\ UNCHANGED <<up, running, status, row, restarts, stop, attached, closer, sup, bound>>
    /\ UNCHANGED <<recVars, boundVars>>

(* The policy gate denies the spawn.                                       *)
SpawnDenied(l) ==
    /\ up /\ start[l] = "unused"
    /\ start' = [start EXCEPT ![l] = "failed"]
    /\ UNCHANGED <<up, running, status, row, age, stop, attached, closer, sup, bound>>
    /\ UNCHANGED <<procVars, recVars, boundVars>>

(* The adapter cannot start the harness; the lane is recorded as crashed.  *)
SpawnFails(l) ==
    /\ up /\ start[l] = "unused"
    /\ start' = [start EXCEPT ![l] = "failed"]
    /\ status' = [status EXCEPT ![l] = "crashed"]
    /\ row' = [row EXCEPT ![l] = "crashed"]
    /\ UNCHANGED <<up, running, age, stop, attached, closer, sup, bound>>
    /\ UNCHANGED <<procVars, recVars, boundVars>>

(* The A2A server listens, and the lane enters the running map.            *)
Register(l) ==
    /\ start[l] = "spawned"
    /\ start' = [start EXCEPT ![l] = "registered"]
    /\ running' = running \cup {l}
    /\ UNCHANGED <<up, status, row, age, stop, attached, closer, sup, bound>>
    /\ UNCHANGED <<procVars, recVars, boundVars>>

(* The lane was briefed; its object is saved as it is now.                 *)
SaveStarted(l) ==
    /\ start[l] = "registered"
    /\ start' = [start EXCEPT ![l] = "saved"]
    /\ row' = [row EXCEPT ![l] = RowOf(status[l])]
    /\ UNCHANGED <<up, running, status, age, stop, attached, closer, sup, bound>>
    /\ UNCHANGED <<procVars, recVars, boundVars>>

Attach(l) ==
    /\ start[l] = "saved"
    /\ start' = [start EXCEPT ![l] = "done"]
    /\ attached' = attached \cup {l}
    /\ bound' = bound \cup ({l} \cap TaskLanes)
    /\ UNCHANGED <<up, running, status, row, age, stop, closer, sup>>
    /\ UNCHANGED <<procVars, recVars, boundVars>>

(* The server does not come up, or the briefing or a save raises: start_   *)
(* lane ends where it is and undoes nothing.                               *)
StartFails(l) ==
    /\ l \in Starting
    /\ faults < MaxFaults
    /\ start' = [start EXCEPT ![l] = "failed"]
    /\ faults' = faults + 1
    /\ UNCHANGED <<up, running, status, row, age, stop, attached, closer, sup, bound>>
    /\ UNCHANGED <<procVars, recVars, crashes>>

HarnessDies(l) ==
    /\ l \in alive
    /\ alive' = alive \ {l}
    /\ UNCHANGED <<up, start, running, status, row, age, stop, attached, closer, sup, bound>>
    /\ UNCHANGED <<spawns, restarts, recVars, boundVars>>

-----------------------------------------------------------------------------
(* stop_lane.                                                              *)

UserStop(l) ==
    /\ Pop(l)
    /\ UNCHANGED <<up, start, status, row, age, attached, closer, sup, bound>>
    /\ UNCHANGED <<procVars, recVars, boundVars>>

(* adapter.stop; if it raises, stop_lane logs that and goes on.            *)
Kill(l) ==
    /\ stop[l] = "popped"
    /\ stop' = [stop EXCEPT ![l] = "killed"]
    /\ \/ alive' = alive \ {l} /\ UNCHANGED faults
       \/ l \in alive /\ faults < MaxFaults /\ faults' = faults + 1 /\ UNCHANGED alive
    /\ status' = [status EXCEPT ![l] = "stopped"]
    /\ UNCHANGED <<up, start, running, row, age, attached, closer, sup, bound>>
    /\ UNCHANGED <<spawns, restarts, recVars, crashes>>

SaveStopped(l) ==
    /\ stop[l] = "killed"
    /\ stop' = [stop EXCEPT ![l] = "no"]
    /\ row' = [row EXCEPT ![l] = RowOf(status[l])]
    /\ UNCHANGED <<up, start, running, status, age, attached, closer, sup, bound>>
    /\ UNCHANGED <<procVars, recVars, boundVars>>

(* Stopping the server or saving the row raises, and so does stop_lane: the*)
(* lane is out of the running map and whoever was stopping it gives up.    *)
StopFails(l) ==
    /\ stop[l] # "no"
    /\ faults < MaxFaults
    /\ stop' = [stop EXCEPT ![l] = "no"]
    /\ faults' = faults + 1
    /\ closer' = IF closer.pc = "waiting" /\ closer.lane = l THEN Idle ELSE closer
    /\ sup' = IF sup.pc \in {"stopping", "overBudget"} /\ sup.lane = l THEN Idle ELSE sup
    /\ UNCHANGED <<up, start, running, status, row, age, attached, bound>>
    /\ UNCHANGED <<procVars, recVars, crashes>>

(* close_session stops the lanes the session had when it was called, one   *)
(* after the other; a lane somebody else is stopping is passed over.       *)
CloseBegins ==
    /\ up /\ closer.pc = "idle"
    /\ closer' = [pc |-> "stopping", lane |-> NoLane, todo |-> attached]
    /\ UNCHANGED <<up, start, running, status, row, age, stop, attached, sup, bound>>
    /\ UNCHANGED <<procVars, recVars, boundVars>>

CloseStops(l) ==
    /\ closer.pc = "stopping" /\ l \in closer.todo
    /\ IF l \in running
       THEN Pop(l) /\ closer' = [pc |-> "waiting", lane |-> l, todo |-> closer.todo \ {l}]
       ELSE /\ closer' = [closer EXCEPT !.todo = @ \ {l}]
            /\ UNCHANGED <<running, stop>>
    /\ UNCHANGED <<up, start, status, row, age, attached, sup, bound>>
    /\ UNCHANGED <<procVars, recVars, boundVars>>

CloseContinues ==
    /\ \/ /\ closer.pc = "waiting" /\ stop[closer.lane] = "no"
          /\ closer' = [closer EXCEPT !.pc = "stopping", !.lane = NoLane]
       \/ /\ closer.pc = "stopping" /\ closer.todo = {}
          /\ closer' = [closer EXCEPT !.pc = "closed"]
    /\ UNCHANGED <<up, start, running, status, row, age, stop, attached, sup, bound>>
    /\ UNCHANGED <<procVars, recVars, boundVars>>

-----------------------------------------------------------------------------
(* _supervise.                                                             *)

(* Time passes, unless a start has used up what it may take.               *)
TimePasses ==
    /\ \A l \in Starting : age[l] < StartTime
    /\ age' = [l \in Lanes |-> Older(age[l])]

Wake ==
    /\ up /\ sup.pc = "idle"
    /\ TimePasses
    /\ sup' = [pc |-> "pass", lane |-> NoLane, todo |-> running]
    /\ UNCHANGED <<up, start, running, status, row, stop, attached, closer, bound>>
    /\ UNCHANGED <<procVars, recVars, boundVars>>

(* _check_lane: beat, and look whether the harness lives.  The beat of a   *)
(* lane that has no row yet stays in memory until its row is saved.        *)
CheckLane(l) ==
    /\ sup.pc = "pass" /\ l \in sup.todo
    /\ \/ age' = [age EXCEPT ![l] = 0] /\ UNCHANGED faults
       \/ /\ row[l] # "absent" /\ faults < MaxFaults     \* the write failed
          /\ faults' = faults + 1 /\ UNCHANGED age
    /\ IF l \in alive
       THEN sup' = [sup EXCEPT !.todo = @ \ {l}] /\ UNCHANGED status
       ELSE /\ sup' = [pc |-> "crashed", lane |-> l, todo |-> sup.todo \ {l}]
            /\ status' = [status EXCEPT ![l] = "crashed"]
    /\ UNCHANGED <<up, start, running, row, stop, attached, closer, bound>>
    /\ UNCHANGED <<procVars, recVars, crashes>>

(* The lane ran over its time: stop it like a user would.                  *)
CheckBudget(l) ==
    /\ sup.pc = "pass" /\ l \in sup.todo
    /\ l \in alive /\ Pop(l)
    /\ age' = [age EXCEPT ![l] = 0]
    /\ sup' = [pc |-> "overBudget", lane |-> l, todo |-> sup.todo \ {l}]
    /\ UNCHANGED <<up, start, status, row, attached, closer, bound>>
    /\ UNCHANGED <<procVars, recVars, boundVars>>

BudgetStopped ==
    /\ sup.pc = "overBudget" /\ stop[sup.lane] = "no"
    /\ sup' = [sup EXCEPT !.pc = "pass", !.lane = NoLane]
    /\ UNCHANGED <<up, start, running, status, row, age, stop, attached, closer, bound>>
    /\ UNCHANGED <<procVars, recVars, boundVars>>

(* _handle_crash, when there is no restart left.                           *)
GiveUp ==
    /\ sup.pc = "crashed"
    /\ LET l == sup.lane IN
        /\ Exhausted(l) \/ (Policy = "once" /\ restarts[l] >= 1)
        /\ status' = [status EXCEPT ![l] = "stopped"]
        /\ row' = [row EXCEPT ![l] = "stopped"]
        /\ IF Exhausted(l) THEN RecordFailure(l) ELSE UNCHANGED recVars
    /\ sup' = [sup EXCEPT !.pc = "pass", !.lane = NoLane]
    /\ UNCHANGED <<up, start, running, age, stop, attached, closer, bound>>
    /\ UNCHANGED <<procVars, boundVars>>

CountRestart ==
    /\ sup.pc = "crashed"
    /\ ~Exhausted(sup.lane) /\ ~(Policy = "once" /\ restarts[sup.lane] >= 1)
    /\ restarts' = [restarts EXCEPT ![sup.lane] = @ + 1]
    /\ sup' = [sup EXCEPT !.pc = IF Policy = "backoff" THEN "backoff" ELSE "restart"]
    /\ UNCHANGED <<up, start, running, alive, status, row, age, stop, attached, closer>>
    /\ UNCHANGED <<bound, spawns, recVars, boundVars>>

BackOff ==
    /\ sup.pc = "backoff"
    /\ TimePasses
    /\ sup' = [sup EXCEPT !.pc = "restart"]
    /\ UNCHANGED <<up, start, running, status, row, stop, attached, closer, bound>>
    /\ UNCHANGED <<procVars, recVars, boundVars>>

(* adapter.restart, and the accounting of a success.                       *)
Restart ==
    /\ sup.pc = "restart"
    /\ LET l == sup.lane IN
        /\ alive' = alive \cup {l}
        /\ spawns' = [spawns EXCEPT ![l] = @ + 1]
        /\ status' = [status EXCEPT ![l] = "idle"]
        /\ failures' = [failures EXCEPT ![l] = 0]
        /\ dead' = dead \ {l}
    /\ breaker' = 0
    /\ sup' = [sup EXCEPT !.pc = "restarted"]
    /\ UNCHANGED <<up, start, running, row, age, stop, attached, closer, bound, restarts>>
    /\ UNCHANGED boundVars

(* The harness does not come back; or it does, and announcing it fails.    *)
RestartFails ==
    /\ sup.pc \in {"restart", "restarted"}
    /\ faults < MaxFaults
    /\ status' = [status EXCEPT ![sup.lane] = "stopped"]
    /\ sup' = [sup EXCEPT !.pc = "restarted"]
    /\ faults' = faults + 1
    /\ UNCHANGED <<up, start, running, row, age, stop, attached, closer, bound>>
    /\ UNCHANGED <<procVars, recVars, crashes>>

(* The last save of _handle_crash writes the lane object, heartbeat and all*)
SaveRestarted ==
    /\ sup.pc = "restarted"
    /\ row' = [row EXCEPT ![sup.lane] = RowOf(status[sup.lane])]
    /\ age' = [age EXCEPT ![sup.lane] = IF Policy = "backoff" THEN 1 ELSE 0]
    /\ sup' = [sup EXCEPT !.pc = "pass", !.lane = NoLane]
    /\ UNCHANGED <<up, start, running, status, stop, attached, closer, bound>>
    /\ UNCHANGED <<procVars, recVars, boundVars>>

-----------------------------------------------------------------------------
(* requeue_orphans, at the end of a pass.                                  *)

DetectOrphans ==
    /\ sup.pc = "pass" /\ sup.todo = {}
    /\ sup' = [pc |-> "reap", lane |-> NoLane, todo |-> Stale]
    /\ UNCHANGED <<up, start, running, status, row, age, stop, attached, closer, bound>>
    /\ UNCHANGED <<procVars, recVars, boundVars>>

(* Stop the orphan if it runs here; else nobody will, and its row is       *)
(* marked crashed.                                                         *)
Reap(l) ==
    /\ sup.pc = "reap" /\ l \in sup.todo
    /\ sup' = [pc |-> IF l \in running THEN "stopping" ELSE "release",
               lane |-> l, todo |-> sup.todo \ {l}]
    /\ IF l \in running
       THEN Pop(l) /\ UNCHANGED row
       ELSE row' = [row EXCEPT ![l] = "crashed"] /\ UNCHANGED <<running, stop>>
    /\ UNCHANGED <<up, start, status, age, attached, closer, bound>>
    /\ UNCHANGED <<procVars, recVars, boundVars>>

(* Its tasks go back to the pool.                                          *)
Release ==
    /\ sup.pc = "release" \/ (sup.pc = "stopping" /\ stop[sup.lane] = "no")
    /\ bound' = bound \ {sup.lane}
    /\ failures' = [failures EXCEPT ![sup.lane] = Saturate(@, DeadLetterAfter)]
    /\ sup' = [sup EXCEPT !.pc = "reap", !.lane = NoLane]
    /\ UNCHANGED <<up, start, running, status, row, age, stop, attached, closer>>
    /\ UNCHANGED <<procVars, dead, breaker, boundVars>>

ReapingDone ==
    /\ sup.pc = "reap" /\ sup.todo = {}
    /\ sup' = Idle
    /\ UNCHANGED <<up, start, running, status, row, age, stop, attached, closer, bound>>
    /\ UNCHANGED <<procVars, recVars, boundVars>>

(* A database error ends the pass: the loop logs it and sleeps.            *)
PassFails ==
    /\ sup.pc \in {"pass", "crashed", "reap", "release"}
    /\ faults < MaxFaults
    /\ sup' = Idle
    /\ faults' = faults + 1
    /\ UNCHANGED <<up, start, running, status, row, age, stop, attached, closer, bound>>
    /\ UNCHANGED <<procVars, recVars, crashes>>

-----------------------------------------------------------------------------
(* The daemon dies with all its memory; harness processes outlive it.      *)
Crash ==
    /\ up /\ crashes < MaxCrashes
    /\ up' = FALSE
    /\ crashes' = crashes + 1
    /\ running' = {} /\ dead' = {} /\ breaker' = 0
    /\ failures' = [l \in Lanes |-> 0]
    /\ start' = [l \in Lanes |-> IF l \in Starting THEN "failed" ELSE start[l]]
    /\ stop' = [l \in Lanes |-> "no"]
    /\ sup' = Idle
    /\ closer' = IF closer.pc = "closed" THEN closer ELSE Idle
    /\ UNCHANGED <<status, row, age, attached, bound, procVars, faults>>

(* It comes back at once or after a long time.                             *)
Reboot ==
    /\ ~up /\ up' = TRUE
    /\ age' \in {age, [l \in Lanes |-> AgeCap]}
    /\ UNCHANGED <<start, running, status, row, stop, attached, closer, sup, bound>>
    /\ UNCHANGED <<procVars, recVars, boundVars>>

-----------------------------------------------------------------------------
StartStep(l) == Register(l) \/ SaveStarted(l) \/ Attach(l)
StopStep(l)  == Kill(l) \/ SaveStopped(l)
CloseStep    == (\E l \in Lanes : CloseStops(l)) \/ CloseContinues
Supervise ==
    \/ Wake \/ GiveUp \/ CountRestart \/ BackOff \/ Restart \/ SaveRestarted
    \/ DetectOrphans \/ Release \/ ReapingDone \/ BudgetStopped
    \/ \E l \in Lanes : CheckLane(l) \/ Reap(l)

Next ==
    \/ \E l \in Lanes :
        \/ Spawn(l) \/ SpawnDenied(l) \/ SpawnFails(l) \/ StartStep(l) \/ StartFails(l)
        \/ HarnessDies(l) \/ UserStop(l) \/ StopStep(l) \/ StopFails(l) \/ CheckBudget(l)
    \/ CloseBegins \/ CloseStep
    \/ Supervise \/ RestartFails \/ PassFails
    \/ Crash \/ Reboot

(* The event loop resumes every coroutine whose await is over.  Nobody has *)
(* to start or stop a lane, close the session, or bring the daemon back.   *)
Fairness ==
    /\ \A l \in Lanes : WF_vars(StartStep(l)) /\ WF_vars(StopStep(l))
    /\ WF_vars(CloseStep)
    /\ WF_vars(Supervise)

Spec == Init /\ [][Next]_vars
FairSpec == Spec /\ Fairness

-----------------------------------------------------------------------------
TypeOK ==
    /\ up \in BOOLEAN
    /\ start \in [Lanes -> {"unused", "spawned", "registered", "saved", "done", "failed"}]
    /\ running \subseteq Lanes /\ alive \subseteq Lanes /\ attached \subseteq Lanes
    /\ bound \subseteq Lanes /\ dead \subseteq Lanes
    /\ status \in [Lanes -> {"idle", "crashed", "stopped"}]
    /\ row \in [Lanes -> {"absent", "live", "crashed", "stopped"}]
    /\ age \in [Lanes -> 0..AgeCap]
    /\ restarts \in [Lanes -> 0..MaxRestarts]
    /\ spawns \in [Lanes -> Nat]
    /\ stop \in [Lanes -> {"no", "popped", "killed"}]
    /\ closer \in [pc : {"idle", "stopping", "waiting", "closed"},
                  lane : Lanes \cup {NoLane}, todo : SUBSET Lanes]
    /\ sup \in [pc : {"idle", "pass", "crashed", "overBudget", "backoff", "restart",
                     "restarted", "reap", "stopping", "release"},
               lane : Lanes \cup {NoLane}, todo : SUBSET Lanes]
    /\ closer.lane # NoLane <=> closer.pc = "waiting"
    /\ sup.lane = NoLane <=> sup.pc \in {"idle", "pass", "reap"}
    /\ failures \in [Lanes -> 0..DeadLetterAfter]
    /\ breaker \in 0..BreakerThreshold
    /\ faults \in 0..MaxFaults
    /\ crashes \in 0..MaxCrashes

(* A lane that runs here is not taken for an orphan, however many others   *)
(* are backing off, and although a heartbeat may fail to be written        *)
(* (stale_lanes, _orphan_threshold_s).                                     *)
HealthyLaneNotReaped == sup.pc = "reap" => sup.todo \cap running = {}

(* A harness is started at most MaxRestarts times after the first, whatever*)
(* happens between the crashes (_handle_crash).                            *)
RestartsBounded == \A l \in Lanes : spawns[l] <= 1 + MaxRestarts

(* "A dead-lettered lane is not restarted automatically": once its restarts*)
(* are used up its harness stays down (record_task_failure).               *)
DeadLetterIsFinal == [][\A l \in dead : l \notin alive => l \notin alive']_vars

(* A running lane whose harness died is restarted, stopped, or recorded as *)
(* stopped, whatever the other lanes do (_supervise).                      *)
CrashedLaneSettles ==
    \A l \in Lanes :
        (l \in running /\ l \notin alive)
            ~> (l \in alive \/ l \notin running \/ row[l] = "stopped")

(* A row that claims a live lane which nobody supervises is corrected:     *)
(* after a crash, a failed stop, or a stop that raced with a restart       *)
(* (requeue_orphans).                                                      *)
OrphanRowsSettle ==
    \A l \in Lanes :
        (up /\ row[l] = "live" /\ l \notin running) ~> (row[l] # "live" \/ ~up)

(* close_session returns, also while others stop the same lanes.           *)
CloseEnds == (closer.pc \in {"stopping", "waiting"}) ~> (closer.pc \in {"idle", "closed"})

-----------------------------------------------------------------------------
(* Two claims of the sources that the code does not meet.                  *)

(* Stopping a lane tears its harness down: of a lane that was started here *)
(* and that stop_lane has removed, no process is left ("Stop one lane      *)
(* without closing the session", "Tear them down: stop harnesses").        *)
StoppedLaneIsDown ==
    \A l \in Lanes :
        (start[l] = "done" /\ l \notin running /\ stop[l] = "no" /\ sup.lane # l)
            => l \notin alive

(* The tasks of a lane that died with its daemon go back to the pool       *)
(* ("Return a dead lane's open tasks to the pool", _requeue_lane_tasks).   *)
TasksOfDeadLaneReleased ==
    \A l \in Lanes :
        (up /\ l \in bound /\ row[l] = "live" /\ l \notin running /\ stop[l] = "no")
            ~> (l \notin bound \/ ~up)
=============================================================================
