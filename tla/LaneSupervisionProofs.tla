------------------------ MODULE LaneSupervisionProofs ------------------------
(***************************************************************************)
(* Proofs about LaneSupervision, for any set of lanes, any restart policy  *)
(* and any bounds; that no running lane is reaped, for any idle timeout    *)
(* that leaves room for what may delay a heartbeat.                        *)
(***************************************************************************)
EXTENDS LaneSupervision, FiniteSetTheorems, TLAPS

-----------------------------------------------------------------------------
(* A failure counted keeps the counters within their ranges.               *)
LEMMA FailureCounted ==
    ASSUME TypeOK, NEW l \in Lanes, RecordFailure(l)
    PROVE  /\ failures' \in [Lanes -> 0..DeadLetterAfter]
           /\ breaker' \in 0..BreakerThreshold
           /\ dead' \subseteq Lanes
BY NumbersNatural DEF TypeOK, RecordFailure, Saturate

LEMMA OlderBounded ==
    ASSUME NEW n \in 0..AgeCap
    PROVE  Older(n) \in 0..AgeCap
BY NumbersNatural DEF Older, AgeCap

LEMMA CapNatural == AgeCap \in Nat \ {0}
BY NumbersNatural DEF AgeCap

(* Every step of the system keeps the type invariant.                      *)
LEMMA TypeStep == TypeOK /\ [Next]_vars => TypeOK'
<1> USE LanesAssumed, NumbersNatural, CapNatural
<1>1. ASSUME TypeOK, NEW l \in Lanes, Spawn(l) PROVE TypeOK'
  BY <1>1 DEF TypeOK, Spawn, recVars, boundVars
<1>2. ASSUME TypeOK, NEW l \in Lanes, SpawnDenied(l) PROVE TypeOK'
  BY <1>2 DEF TypeOK, SpawnDenied, procVars, recVars, boundVars
<1>3. ASSUME TypeOK, NEW l \in Lanes, SpawnFails(l) PROVE TypeOK'
  BY <1>3 DEF TypeOK, SpawnFails, procVars, recVars, boundVars
<1>4. ASSUME TypeOK, NEW l \in Lanes, StartStep(l) PROVE TypeOK'
  <2>1. CASE Register(l)
    BY <1>4, <2>1 DEF TypeOK, Register, procVars, recVars, boundVars
  <2>2. CASE SaveStarted(l)
    BY <1>4, <2>2 DEF TypeOK, SaveStarted, RowOf, procVars, recVars, boundVars
  <2>3. CASE Attach(l)
    BY <1>4, <2>3 DEF TypeOK, Attach, procVars, recVars, boundVars
  <2> QED BY <1>4, <2>1, <2>2, <2>3 DEF StartStep
<1>5. ASSUME TypeOK, NEW l \in Lanes, StartFails(l) PROVE TypeOK'
  BY <1>5 DEF TypeOK, StartFails, procVars, recVars
<1>6. ASSUME TypeOK, NEW l \in Lanes, HarnessDies(l) PROVE TypeOK'
  BY <1>6 DEF TypeOK, HarnessDies, recVars, boundVars
<1>7. ASSUME TypeOK, NEW l \in Lanes, UserStop(l) PROVE TypeOK'
  BY <1>7 DEF TypeOK, UserStop, Pop, procVars, recVars, boundVars
<1>8. ASSUME TypeOK, NEW l \in Lanes, StopStep(l) PROVE TypeOK'
  <2>1. CASE Kill(l)
    BY <1>8, <2>1 DEF TypeOK, Kill, recVars
  <2>2. CASE SaveStopped(l)
    BY <1>8, <2>2 DEF TypeOK, SaveStopped, RowOf, procVars, recVars, boundVars
  <2> QED BY <1>8, <2>1, <2>2 DEF StopStep
<1>9. ASSUME TypeOK, NEW l \in Lanes, StopFails(l) PROVE TypeOK'
  BY <1>9 DEF TypeOK, StopFails, Idle, procVars, recVars
<1>10. ASSUME TypeOK, NEW l \in Lanes, CheckBudget(l) PROVE TypeOK'
  BY <1>10 DEF TypeOK, CheckBudget, Pop, procVars, recVars, boundVars
<1>11. ASSUME TypeOK, CloseBegins PROVE TypeOK'
  BY <1>11 DEF TypeOK, CloseBegins, procVars, recVars, boundVars
<1>12. ASSUME TypeOK, NEW l \in Lanes, CloseStops(l) PROVE TypeOK'
  BY <1>12 DEF TypeOK, CloseStops, Pop, procVars, recVars, boundVars
<1>13. ASSUME TypeOK, CloseContinues PROVE TypeOK'
  BY <1>13 DEF TypeOK, CloseContinues, procVars, recVars, boundVars
<1>14. ASSUME TypeOK, Supervise PROVE TypeOK'
  <2>1. CASE Wake
    BY <1>14, <2>1, OlderBounded DEF TypeOK, Wake, TimePasses, procVars, recVars, boundVars
  <2>2. CASE GiveUp
    <3> DEFINE l == sup.lane
    <3>1. l \in Lanes BY <1>14, <2>2 DEF TypeOK, GiveUp
    <3>2. /\ failures' \in [Lanes -> 0..DeadLetterAfter]
          /\ breaker' \in 0..BreakerThreshold
          /\ dead' \subseteq Lanes
      BY <1>14, <2>2, <3>1, FailureCounted DEF TypeOK, GiveUp, recVars
    <3> QED BY <1>14, <2>2, <3>1, <3>2 DEF TypeOK, GiveUp, procVars, boundVars
  <2>3. CASE CountRestart
    BY <1>14, <2>3 DEF TypeOK, CountRestart, Exhausted, recVars, boundVars
  <2>4. CASE BackOff
    BY <1>14, <2>4, OlderBounded
       DEF TypeOK, BackOff, TimePasses, procVars, recVars, boundVars
  <2>5. CASE Restart
    BY <1>14, <2>5 DEF TypeOK, Restart, boundVars
  <2>6. CASE SaveRestarted
    <3>1. age' \in [Lanes -> 0..AgeCap]
      BY <1>14, <2>6 DEF TypeOK, SaveRestarted
    <3>2. row' \in [Lanes -> {"absent", "live", "crashed", "stopped"}]
      BY <1>14, <2>6 DEF TypeOK, SaveRestarted, RowOf
    <3> QED BY <1>14, <2>6, <3>1, <3>2 DEF TypeOK, SaveRestarted, procVars, recVars, boundVars
  <2>7. CASE DetectOrphans
    BY <1>14, <2>7 DEF TypeOK, DetectOrphans, Stale, procVars, recVars, boundVars
  <2>8. CASE Release
    <3>1. sup.lane \in Lanes
      BY <1>14, <2>8 DEF TypeOK, Release
    <3>2. failures' \in [Lanes -> 0..DeadLetterAfter]
      BY <1>14, <2>8, <3>1 DEF TypeOK, Release, Saturate
    <3> QED BY <1>14, <2>8, <3>1, <3>2 DEF TypeOK, Release, procVars, boundVars
  <2>9. CASE ReapingDone
    BY <1>14, <2>9 DEF TypeOK, ReapingDone, Idle, procVars, recVars, boundVars
  <2>10. CASE BudgetStopped
    BY <1>14, <2>10 DEF TypeOK, BudgetStopped, procVars, recVars, boundVars
  <2>11. ASSUME NEW l \in Lanes, CheckLane(l) PROVE TypeOK'
    BY <1>14, <2>11 DEF TypeOK, CheckLane, procVars, recVars
  <2>12. ASSUME NEW l \in Lanes, Reap(l) PROVE TypeOK'
    BY <1>14, <2>12 DEF TypeOK, Reap, Pop, procVars, recVars, boundVars
  <2> QED BY <1>14, <2>1, <2>2, <2>3, <2>4, <2>5, <2>6, <2>7, <2>8, <2>9, <2>10, <2>11,
             <2>12 DEF Supervise
<1>15. ASSUME TypeOK, RestartFails PROVE TypeOK'
  BY <1>15 DEF TypeOK, RestartFails, procVars, recVars
<1>16. ASSUME TypeOK, PassFails PROVE TypeOK'
  BY <1>16 DEF TypeOK, PassFails, Idle, procVars, recVars
<1>17. ASSUME TypeOK, Crash PROVE TypeOK'
  <2>1. /\ start' \in [Lanes -> {"unused", "spawned", "registered", "saved", "done", "failed"}]
        /\ closer' \in [pc : {"idle", "stopping", "waiting", "closed"},
                        lane : Lanes \cup {NoLane}, todo : SUBSET Lanes]
        /\ closer'.lane # NoLane <=> closer'.pc = "waiting"
    BY <1>17 DEF TypeOK, Crash, Idle
  <2>2. /\ failures' \in [Lanes -> 0..DeadLetterAfter]
        /\ breaker' \in 0..BreakerThreshold
        /\ crashes' \in 0..MaxCrashes
    BY <1>17 DEF TypeOK, Crash
  <2> QED BY <1>17, <2>1, <2>2 DEF TypeOK, Crash, Idle, procVars
<1>18. ASSUME TypeOK, Reboot PROVE TypeOK'
  BY <1>18 DEF TypeOK, Reboot, procVars, recVars, boundVars
<1>19. ASSUME TypeOK, UNCHANGED vars PROVE TypeOK'
  BY <1>19 DEF TypeOK, vars, procVars, recVars, boundVars
<1> QED
  BY <1>1, <1>2, <1>3, <1>4, <1>5, <1>6, <1>7, <1>8, <1>9, <1>10, <1>11, <1>12, <1>13,
     <1>14, <1>15, <1>16, <1>17, <1>18, <1>19 DEF Next, CloseStep

(* Type correctness.                                                       *)
THEOREM TypeCorrect == Spec => []TypeOK
<1>1. Init => TypeOK
  BY LanesAssumed, NumbersNatural, CapNatural DEF Init, TypeOK, Idle
<1> QED BY <1>1, TypeStep, PTL DEF Spec

-----------------------------------------------------------------------------
(* The inductive invariant behind the two theorems below.                  *)

(* Nothing in the daemon knows of a lane that nobody has started, or whose *)
(* harness is up and no more.                                              *)
Unknown == {"unused", "spawned"}

UnusedIsUnknown ==
    \A l \in Lanes : start[l] \in Unknown =>
        /\ l \notin running /\ l \notin sup.todo /\ l # sup.lane
        /\ stop[l] = "no" /\ row[l] = "absent"

(* The supervisor has counted a restart that it has not made yet.          *)
Owed(l) == IF sup.pc \in {"backoff", "restart"} /\ sup.lane = l THEN 1 ELSE 0

RestartsCounted == \A l \in Lanes : spawns[l] + Owed(l) <= 1 + restarts[l]

(* A lane is dead-lettered when its restarts are used up, and then none is *)
(* under way.                                                              *)
DeadIsExhausted == \A l \in dead : start[l] # "unused" /\ Exhausted(l) /\ Owed(l) = 0

(* What a step does to the variables the three conjuncts speak of, by      *)
(* groups of actions.  Most steps make no process and leave the supervisor *)
(* where it is, or move it between states in which it owes nobody a start. *)
Untouched == UNCHANGED <<spawns, restarts, dead>> /\ \A l \in Lanes : Owed(l)' = Owed(l)

LEMMA StartTouchesNothing ==
    ASSUME TypeOK, NEW l \in Lanes,
           \/ SpawnDenied(l) \/ SpawnFails(l) \/ StartStep(l) \/ StartFails(l)
           \/ HarnessDies(l) \/ UserStop(l) \/ StopStep(l)
    PROVE  Untouched
BY DEF Untouched, Owed, SpawnDenied, SpawnFails, StartStep, Register, SaveStarted, Attach,
       StartFails, HarnessDies, UserStop, StopStep, Kill, SaveStopped, procVars, recVars

LEMMA StopTouchesNothing ==
    ASSUME TypeOK, NEW l \in Lanes, StopFails(l) \/ CheckBudget(l) \/ CheckLane(l) \/ Reap(l)
    PROVE  Untouched
BY DEF TypeOK, Untouched, Owed, StopFails, CheckBudget, CheckLane, Reap, Idle, procVars, recVars

LEMMA ControlTouchesNothing ==
    ASSUME TypeOK,
           \/ CloseBegins \/ CloseStep \/ Wake \/ SaveRestarted \/ DetectOrphans \/ Release
           \/ ReapingDone \/ BudgetStopped \/ PassFails \/ Reboot \/ UNCHANGED vars
           \/ (RestartFails /\ sup.pc = "restarted")
    PROVE  Untouched
<1>1. CASE CloseBegins \/ CloseStep \/ Reboot \/ UNCHANGED vars
  BY <1>1 DEF Untouched, Owed, CloseBegins, CloseStep, CloseStops, CloseContinues, Reboot,
              vars, procVars, recVars
<1>2. CASE Wake \/ DetectOrphans \/ ReapingDone \/ PassFails
  BY <1>2 DEF TypeOK, Untouched, Owed, Wake, DetectOrphans, ReapingDone, PassFails, Idle,
              procVars, recVars
<1>3. CASE SaveRestarted \/ Release \/ BudgetStopped
  BY <1>3 DEF TypeOK, Untouched, Owed, SaveRestarted, Release, BudgetStopped, procVars, recVars
<1>4. CASE RestartFails /\ sup.pc = "restarted"
  BY <1>4 DEF TypeOK, Untouched, Owed, RestartFails, procVars, recVars
<1> QED BY <1>1, <1>2, <1>3, <1>4

LEMMA BackOffTouchesNothing ==
    ASSUME TypeOK, BackOff
    PROVE  Untouched
BY DEF TypeOK, Untouched, Owed, BackOff, procVars, recVars

(* A lane that was ever started stays started.                             *)
LEMMA UsedStaysUsed ==
    ASSUME TypeOK, [Next]_vars, NEW l \in Lanes, NEW early \in {{"unused"}, Unknown},
           start'[l] \in early
    PROVE  start[l] \in early
<1>1. CASE \E k \in Lanes : \/ Spawn(k) \/ SpawnDenied(k) \/ SpawnFails(k) \/ StartStep(k)
                            \/ StartFails(k)
  BY <1>1 DEF TypeOK, Spawn, SpawnDenied, SpawnFails, StartStep, Register, SaveStarted,
              Attach, StartFails, Unknown
<1>2. CASE Crash
  BY <1>2 DEF Crash, Starting, Unknown
<1>3. CASE UNCHANGED start
  BY <1>3
<1>4. ASSUME NEW k \in Lanes, HarnessDies(k) \/ UserStop(k) \/ StopStep(k) \/ StopFails(k)
                              \/ CheckBudget(k)
      PROVE  UNCHANGED start
  BY <1>4 DEF HarnessDies, UserStop, StopStep, Kill, SaveStopped, StopFails, CheckBudget
<1>5. ASSUME Supervise PROVE UNCHANGED start
  BY <1>5 DEF Supervise, Wake, GiveUp, CountRestart, BackOff, Restart, SaveRestarted,
              DetectOrphans, Release, ReapingDone, BudgetStopped, CheckLane, Reap
<1>6. ASSUME CloseBegins \/ CloseStep \/ RestartFails \/ PassFails \/ Reboot \/ UNCHANGED vars
      PROVE  UNCHANGED start
  BY <1>6 DEF CloseBegins, CloseStep, CloseStops, CloseContinues, RestartFails, PassFails,
              Reboot, vars
<1> QED BY <1>1, <1>2, <1>3, <1>4, <1>5, <1>6 DEF Next

LEMMA UnusedStep == TypeOK /\ UnusedIsUnknown /\ [Next]_vars => UnusedIsUnknown'
<1> SUFFICES ASSUME TypeOK, UnusedIsUnknown, [Next]_vars, NEW k \in Lanes,
                    start'[k] \in Unknown
             PROVE  /\ k \notin running' /\ k \notin sup'.todo /\ k # sup'.lane
                    /\ stop'[k] = "no" /\ row'[k] = "absent"
  BY DEF UnusedIsUnknown
<1> DEFINE Goal == /\ k \notin running' /\ k \notin sup'.todo /\ k # sup'.lane
                   /\ stop'[k] = "no" /\ row'[k] = "absent"
<1>0. /\ start[k] \in Unknown
      /\ k \notin running /\ k \notin sup.todo /\ k # sup.lane
      /\ stop[k] = "no" /\ row[k] = "absent"
  BY UsedStaysUsed DEF UnusedIsUnknown
<1>1. ASSUME NEW l \in Lanes,
             \/ Spawn(l) \/ SpawnDenied(l) \/ SpawnFails(l) \/ StartStep(l) \/ StartFails(l)
             \/ HarnessDies(l)
      PROVE  Goal
  BY <1>0, <1>1
     DEF TypeOK, Spawn, SpawnDenied, SpawnFails, StartStep, Register, SaveStarted, Attach,
         StartFails, Starting, HarnessDies, Unknown
<1>2. ASSUME NEW l \in Lanes, UserStop(l) \/ StopStep(l) \/ StopFails(l) \/ CheckBudget(l)
      PROVE  Goal
  BY <1>0, <1>2, LanesAssumed
     DEF TypeOK, UserStop, Pop, StopStep, Kill, SaveStopped, StopFails, CheckBudget, Idle
<1>3. ASSUME CloseBegins \/ CloseStep \/ Reboot \/ UNCHANGED vars
      PROVE  Goal
  BY <1>0, <1>3
     DEF TypeOK, CloseBegins, CloseStep, CloseStops, CloseContinues, Pop, Reboot, vars
<1>4. ASSUME NEW l \in Lanes, CheckLane(l) \/ Reap(l)
      PROVE  Goal
  BY <1>0, <1>4 DEF TypeOK, CheckLane, Reap, Pop
<1>5. CASE Wake \/ DetectOrphans \/ ReapingDone \/ PassFails \/ Crash
  BY <1>0, <1>5, LanesAssumed
     DEF TypeOK, Wake, DetectOrphans, Stale, ReapingDone, PassFails, Crash, Idle
<1>6. CASE GiveUp \/ CountRestart \/ BackOff \/ Restart \/ RestartFails
  <2>1. sup'.lane \in {sup.lane, NoLane} /\ sup'.todo = sup.todo
    BY <1>6 DEF TypeOK, GiveUp, CountRestart, BackOff, Restart, RestartFails
  <2>2. running' = running /\ stop' = stop
    BY <1>6 DEF GiveUp, CountRestart, BackOff, Restart, RestartFails
  <2>3. row'[k] = row[k]
    BY <1>0, <1>6 DEF TypeOK, GiveUp, CountRestart, BackOff, Restart, RestartFails
  <2> QED BY <1>0, <2>1, <2>2, <2>3, LanesAssumed
<1>7. CASE SaveRestarted \/ Release \/ BudgetStopped
  <2>1. sup'.lane = NoLane /\ sup'.todo = sup.todo
    BY <1>7 DEF TypeOK, SaveRestarted, Release, BudgetStopped
  <2>2. running' = running /\ stop' = stop
    BY <1>7 DEF SaveRestarted, Release, BudgetStopped
  <2>3. row'[k] = row[k]
    BY <1>0, <1>7 DEF TypeOK, SaveRestarted, Release, BudgetStopped
  <2> QED BY <1>0, <2>1, <2>2, <2>3, LanesAssumed
<1> QED BY <1>1, <1>2, <1>3, <1>4, <1>5, <1>6, <1>7 DEF Next, Supervise

LEMMA CountedStep ==
    ASSUME TypeOK, UnusedIsUnknown, RestartsCounted, [Next]_vars
    PROVE  RestartsCounted'
<1> USE NumbersNatural
<1>1. ASSUME Untouched PROVE RestartsCounted'
  BY <1>1 DEF Untouched, RestartsCounted
<1>2. ASSUME NEW l \in Lanes, Spawn(l) PROVE RestartsCounted'
  BY <1>2 DEF TypeOK, UnusedIsUnknown, Unknown, RestartsCounted, Owed, Spawn
<1>3. CASE GiveUp
  BY <1>3 DEF TypeOK, RestartsCounted, Owed, GiveUp, procVars
<1>4. CASE CountRestart
  BY <1>4 DEF TypeOK, RestartsCounted, Owed, CountRestart
<1>5. CASE Restart
  BY <1>5 DEF TypeOK, RestartsCounted, Owed, Restart
<1>6. CASE RestartFails /\ sup.pc = "restart"
  BY <1>6 DEF TypeOK, RestartsCounted, Owed, RestartFails, procVars
<1>7. CASE Crash
  BY <1>7 DEF TypeOK, RestartsCounted, Owed, Crash, Idle, procVars
<1>8. RestartFails => sup.pc \in {"restart", "restarted"}
  BY DEF RestartFails
<1> QED BY <1>1, <1>2, <1>3, <1>4, <1>5, <1>6, <1>7, <1>8, StartTouchesNothing,
           StopTouchesNothing, ControlTouchesNothing, BackOffTouchesNothing
        DEF Next, Supervise

LEMMA DeadStep ==
    ASSUME TypeOK, UnusedIsUnknown, DeadIsExhausted, [Next]_vars
    PROVE  DeadIsExhausted'
<1> USE NumbersNatural
<1>0. \A l \in Lanes : start'[l] = "unused" => start[l] = "unused"
  BY UsedStaysUsed
<1>1. ASSUME Untouched PROVE DeadIsExhausted'
  BY <1>0, <1>1 DEF TypeOK, Untouched, DeadIsExhausted, Exhausted
<1>2. ASSUME NEW l \in Lanes, Spawn(l) PROVE DeadIsExhausted'
  BY <1>0, <1>2 DEF TypeOK, DeadIsExhausted, Exhausted, Owed, Spawn, recVars
<1>3. CASE GiveUp
  <2>1. CASE Exhausted(sup.lane)
    <3>1. dead' \subseteq dead \cup {sup.lane}
      BY <1>3, <2>1 DEF GiveUp, RecordFailure
    <3>2. sup.lane \in Lanes /\ start[sup.lane] # "unused"
      BY <1>3 DEF TypeOK, GiveUp, UnusedIsUnknown, Unknown
    <3> QED BY <1>0, <1>3, <2>1, <3>1, <3>2
            DEF TypeOK, DeadIsExhausted, Exhausted, Owed, GiveUp, procVars
  <2>2. CASE ~Exhausted(sup.lane)
    BY <1>0, <1>3, <2>2 DEF TypeOK, DeadIsExhausted, Exhausted, Owed, GiveUp, procVars, recVars
  <2> QED BY <2>1, <2>2
<1>4. CASE CountRestart
  BY <1>0, <1>4 DEF TypeOK, DeadIsExhausted, Exhausted, Owed, CountRestart, recVars
<1>5. CASE Restart
  BY <1>0, <1>5 DEF TypeOK, DeadIsExhausted, Exhausted, Owed, Restart
<1>6. CASE RestartFails /\ sup.pc = "restart"
  BY <1>0, <1>6 DEF TypeOK, DeadIsExhausted, Exhausted, Owed, RestartFails, procVars, recVars
<1>7. CASE Crash
  BY <1>7 DEF DeadIsExhausted, Crash
<1>8. RestartFails => sup.pc \in {"restart", "restarted"}
  BY DEF RestartFails
<1> QED BY <1>1, <1>2, <1>3, <1>4, <1>5, <1>6, <1>7, <1>8, StartTouchesNothing,
           StopTouchesNothing, ControlTouchesNothing, BackOffTouchesNothing
        DEF Next, Supervise

IInv == TypeOK /\ UnusedIsUnknown /\ RestartsCounted /\ DeadIsExhausted

(* The invariant of the lanes.                                             *)
THEOREM LaneInvariant == Spec => []IInv
<1>1. Init => IInv
  BY LanesAssumed, NumbersNatural, CapNatural
     DEF Init, IInv, TypeOK, UnusedIsUnknown, RestartsCounted, DeadIsExhausted, Owed, Idle
<1>2. IInv /\ [Next]_vars => IInv'
  BY TypeStep, UnusedStep, CountedStep, DeadStep DEF IInv
<1> QED BY <1>1, <1>2, PTL DEF Spec

(* The harness of a lane is started at most MaxRestarts times after the    *)
(* first, for any restart policy and whatever crashes: a start is counted  *)
(* before it is made, and none is made without being counted.              *)
THEOREM RestartBound == Spec => []RestartsBounded
<1>1. IInv => RestartsBounded
  <2> SUFFICES ASSUME IInv, NEW l \in Lanes PROVE spawns[l] <= 1 + MaxRestarts
    BY DEF RestartsBounded
  <2>1. /\ spawns[l] \in Nat /\ restarts[l] \in 0..MaxRestarts /\ Owed(l) \in {0, 1}
        /\ spawns[l] + Owed(l) <= 1 + restarts[l]
    BY DEF IInv, TypeOK, RestartsCounted, Owed
  <2> QED BY <2>1, NumbersNatural
<1> QED BY <1>1, LaneInvariant, PTL

(* A dead-lettered lane whose harness is down is not started again: not by *)
(* start_lane, because it was started once, and not by the supervisor,     *)
(* because it has no restart left and none is under way.                   *)
THEOREM DeadLetters == Spec => DeadLetterIsFinal
<1>1. IInv /\ [Next]_vars => [\A l \in dead : l \notin alive => l \notin alive']_vars
  <2> SUFFICES ASSUME IInv, [Next]_vars, NEW l \in dead, l \notin alive
               PROVE  l \notin alive'
    BY DEF vars
  <2>1. start[l] # "unused" /\ l \in Lanes /\ Owed(l) = 0
    BY DEF IInv, TypeOK, DeadIsExhausted
  <2>2. ASSUME NEW k \in Lanes, Spawn(k) PROVE l \notin alive'
    BY <2>1, <2>2 DEF Spawn
  <2>3. ASSUME Restart PROVE l \notin alive'
    BY <2>1, <2>3 DEF Restart, Owed
  <2>4. ASSUME NEW k \in Lanes,
               \/ SpawnDenied(k) \/ SpawnFails(k) \/ StartStep(k) \/ StartFails(k)
               \/ HarnessDies(k) \/ UserStop(k) \/ StopStep(k) \/ StopFails(k)
               \/ CheckBudget(k) \/ CheckLane(k) \/ Reap(k)
        PROVE  alive' \subseteq alive
    BY <2>4 DEF SpawnDenied, SpawnFails, StartStep, Register, SaveStarted, Attach, StartFails,
                HarnessDies, UserStop, StopStep, Kill, SaveStopped, StopFails, CheckBudget,
                CheckLane, Reap, procVars
  <2>5. ASSUME \/ CloseBegins \/ CloseStep \/ Wake \/ GiveUp \/ CountRestart \/ BackOff
               \/ SaveRestarted \/ DetectOrphans \/ Release \/ ReapingDone \/ BudgetStopped
               \/ RestartFails \/ PassFails \/ Crash \/ Reboot \/ UNCHANGED vars
        PROVE  alive' \subseteq alive
    BY <2>5 DEF CloseBegins, CloseStep, CloseStops, CloseContinues, Wake, GiveUp, CountRestart,
                BackOff, SaveRestarted, DetectOrphans, Release, ReapingDone, BudgetStopped,
                RestartFails, PassFails, Crash, Reboot, vars, procVars
  <2> QED BY <2>2, <2>3, <2>4, <2>5 DEF Next, Supervise
<1> QED BY <1>1, LaneInvariant, PTL DEF Spec, DeadLetterIsFinal

-----------------------------------------------------------------------------
(* Which lanes are reaped, and how old a heartbeat may be.                 *)

(* A daemon that is down runs nothing and starts nothing.                  *)
DownIsEmpty == ~up => running = {} /\ \A l \in Lanes : start[l] # "spawned"

(* Time waits for a lane that is being started.                            *)
SpawnedIsYoung == \A l \in Lanes : start[l] = "spawned" => age[l] <= StartTime

(* The restarts of the other lanes: each may cost one backoff.             *)
RestartsBeside(l) == {p \in (Lanes \ {l}) \X (1..MaxRestarts) : p[2] <= restarts[p[1]]}

(* What a lane needs to start, or is given when it comes back.             *)
Grace == IF StartTime = 0 THEN 1 ELSE StartTime

Allowed(l) == Grace + faults + Cardinality(RestartsBeside(l))

(* The interval of the pass under way, for a lane not reached yet, and that*)
(* of a backoff counted and still to come.                                 *)
InPass  == sup.pc \in {"pass", "crashed", "overBudget", "backoff", "restart", "restarted"}
Due(l)  == IF InPass /\ l \in sup.todo THEN 1 ELSE 0
Pending == IF sup.pc = "backoff" THEN 1 ELSE 0

(* The lane the supervisor is bringing back: its heartbeat is saved last.  *)
Recovering(l) == sup.pc \in {"backoff", "restart", "restarted"} /\ sup.lane = l

Punctual == \A l \in running : Recovering(l) \/ age[l] + Pending <= Allowed(l) + Due(l)

(* A backoff has been counted before it begins.                            *)
BackoffIsCounted == sup.pc = "backoff" => restarts[sup.lane] >= 1

ReapsNoneRunning ==
    sup.pc \in {"reap", "stopping", "release"} => sup.todo \cap running = {}

(* The idle timeout leaves room for a start, for every error of the        *)
(* database and for every backoff of the other lanes.                      *)
TimeoutIsAmple ==
    /\ IsFiniteSet(Lanes)
    /\ Grace + MaxFaults + (Cardinality(Lanes) - 1) * MaxRestarts <= IdleTimeout

Prompt == DownIsEmpty /\ SpawnedIsYoung /\ BackoffIsCounted /\ Punctual /\ ReapsNoneRunning
-----------------------------------------------------------------------------
LEMMA DownStep ==
    ASSUME TypeOK, DownIsEmpty, [Next]_vars
    PROVE  DownIsEmpty'
<1> SUFFICES ASSUME ~up' PROVE running' = {} /\ \A l \in Lanes : start'[l] # "spawned"
  BY DEF DownIsEmpty
<1>1. CASE Crash
  BY <1>1 DEF TypeOK, Crash, Starting
<1>2. CASE Reboot
  BY <1>2 DEF Reboot
<1>3. CASE up' = up
  <2>0. ~up /\ running = {} /\ \A l \in Lanes : start[l] # "spawned"
    BY <1>3 DEF DownIsEmpty
  <2>1. ASSUME NEW k \in Lanes,
               \/ SpawnDenied(k) \/ SpawnFails(k) \/ StartStep(k) \/ StartFails(k)
               \/ HarnessDies(k) \/ UserStop(k) \/ StopStep(k) \/ StopFails(k) \/ CheckBudget(k)
        PROVE  running' = {} /\ \A l \in Lanes : start'[l] # "spawned"
    BY <2>0, <2>1 DEF TypeOK, SpawnDenied, SpawnFails, StartStep, Register, SaveStarted, Attach,
          StartFails, HarnessDies, UserStop, Pop, StopStep, Kill, SaveStopped, StopFails, CheckBudget
  <2>2. ~(\E k \in Lanes : Spawn(k))
    BY <2>0 DEF Spawn
  <2>3. CASE CloseBegins \/ CloseStep \/ RestartFails \/ PassFails \/ UNCHANGED vars
    BY <2>0, <2>3 DEF CloseBegins, CloseStep, CloseStops, CloseContinues, Pop, RestartFails,
          PassFails, vars
  <2>4. CASE Supervise
    BY <2>0, <2>4 DEF Supervise, Wake, GiveUp, CountRestart, BackOff, Restart, SaveRestarted,
          DetectOrphans, Release, ReapingDone, BudgetStopped, CheckLane, Reap, Pop
  <2> QED BY <1>1, <1>2, <2>1, <2>2, <2>3, <2>4 DEF Next
<1>4. up' = up \/ Crash \/ Reboot
  <2>1. ASSUME NEW k \in Lanes,
               \/ Spawn(k) \/ SpawnDenied(k) \/ SpawnFails(k) \/ StartStep(k) \/ StartFails(k)
               \/ HarnessDies(k) \/ UserStop(k) \/ StopStep(k) \/ StopFails(k) \/ CheckBudget(k)
        PROVE  up' = up
    BY <2>1 DEF Spawn, SpawnDenied, SpawnFails, StartStep, Register, SaveStarted, Attach,
          StartFails, HarnessDies, UserStop, StopStep, Kill, SaveStopped, StopFails, CheckBudget
  <2>2. CASE CloseBegins \/ CloseStep \/ RestartFails \/ PassFails \/ UNCHANGED vars
    BY <2>2 DEF CloseBegins, CloseStep, CloseStops, CloseContinues, RestartFails, PassFails, vars
  <2>3. CASE Supervise
    BY <2>3 DEF Supervise, Wake, GiveUp, CountRestart, BackOff, Restart, SaveRestarted,
          DetectOrphans, Release, ReapingDone, BudgetStopped, CheckLane, Reap
  <2> QED BY <2>1, <2>2, <2>3 DEF Next
<1> QED BY <1>1, <1>2, <1>3, <1>4

(* An interval makes nobody older by more than one.                        *)
LEMMA OlderByOne ==
    ASSUME TypeOK, TimePasses, NEW l \in Lanes
    PROVE  /\ age'[l] \in Nat /\ age[l] \in Nat /\ age'[l] <= age[l] + 1
           /\ l \in Starting => age[l] + 1 <= StartTime
BY CapNatural, NumbersNatural DEF TypeOK, TimePasses, Older

(* What a step may do to the age of a lane.                                *)
LEMMA AgeSteps ==
    ASSUME TypeOK, [Next]_vars, NEW l \in Lanes
    PROVE  \/ age'[l] = age[l]
           \/ age'[l] = 0
           \/ TimePasses /\ (Wake \/ BackOff)
           \/ SaveRestarted /\ l = sup.lane /\ age'[l] \in {0, 1}
           \/ Reboot
<1>1. ASSUME NEW k \in Lanes,
             \/ Spawn(k) \/ SpawnDenied(k) \/ SpawnFails(k) \/ StartStep(k) \/ StartFails(k)
             \/ HarnessDies(k) \/ UserStop(k) \/ StopStep(k) \/ StopFails(k) \/ CheckBudget(k)
      PROVE  age'[l] = age[l] \/ age'[l] = 0
  BY <1>1 DEF TypeOK, Spawn, SpawnDenied, SpawnFails, StartStep, Register, SaveStarted, Attach,
        StartFails, HarnessDies, UserStop, StopStep, Kill, SaveStopped, StopFails, CheckBudget
<1>2. CASE CloseBegins \/ CloseStep \/ RestartFails \/ PassFails \/ Crash \/ UNCHANGED vars
  BY <1>2 DEF CloseBegins, CloseStep, CloseStops, CloseContinues, RestartFails, PassFails, Crash, vars
<1>3. CASE GiveUp \/ CountRestart \/ Restart \/ DetectOrphans \/ Release \/ ReapingDone \/ BudgetStopped
  BY <1>3 DEF GiveUp, CountRestart, Restart, DetectOrphans, Release, ReapingDone, BudgetStopped
<1>4. CASE Wake \/ BackOff
  BY <1>4 DEF Wake, BackOff
<1>5. CASE SaveRestarted
  BY <1>5 DEF TypeOK, SaveRestarted
<1>6. ASSUME NEW k \in Lanes, CheckLane(k) \/ Reap(k)
      PROVE  age'[l] = age[l] \/ age'[l] = 0
  BY <1>6 DEF TypeOK, CheckLane, Reap
<1> QED BY <1>1, <1>2, <1>3, <1>4, <1>5, <1>6 DEF Next, Supervise

LEMMA YoungStep ==
    ASSUME TypeOK, UnusedIsUnknown, DownIsEmpty, SpawnedIsYoung, [Next]_vars
    PROVE  SpawnedIsYoung'
<1> SUFFICES ASSUME NEW l \in Lanes, start'[l] = "spawned" PROVE age'[l] <= StartTime
  BY DEF SpawnedIsYoung
<1>0. StartTime \in Nat
  BY NumbersNatural
<1>1. CASE Spawn(l)
  BY <1>0, <1>1 DEF TypeOK, Spawn
<1>2. CASE ~Spawn(l)
  <2>0. start[l] \in Unknown
    BY UsedStaysUsed DEF Unknown
  <2>1. start[l] = "spawned"
    <3> SUFFICES ASSUME start[l] = "unused" PROVE FALSE
      BY <2>0 DEF Unknown
    <3>1. start'[l] # start[l]
      OBVIOUS
    <3>2. CASE \E k \in Lanes : \/ Spawn(k) \/ SpawnDenied(k) \/ SpawnFails(k) \/ StartStep(k)
                                \/ StartFails(k)
      BY <1>2, <3>2 DEF TypeOK, Spawn, SpawnDenied, SpawnFails, StartStep, Register, SaveStarted,
            Attach, StartFails
    <3>3. CASE Crash
      BY <3>3 DEF Crash, Starting
    <3>4. ASSUME NEW k \in Lanes, HarnessDies(k) \/ UserStop(k) \/ StopStep(k) \/ StopFails(k)
                                  \/ CheckBudget(k)
          PROVE  UNCHANGED start
      BY <3>4 DEF HarnessDies, UserStop, StopStep, Kill, SaveStopped, StopFails, CheckBudget
    <3>5. ASSUME Supervise PROVE UNCHANGED start
      BY <3>5 DEF Supervise, Wake, GiveUp, CountRestart, BackOff, Restart, SaveRestarted,
                  DetectOrphans, Release, ReapingDone, BudgetStopped, CheckLane, Reap
    <3>6. ASSUME CloseBegins \/ CloseStep \/ RestartFails \/ PassFails \/ Reboot \/ UNCHANGED vars
          PROVE  UNCHANGED start
      BY <3>6 DEF CloseBegins, CloseStep, CloseStops, CloseContinues, RestartFails, PassFails,
                  Reboot, vars
    <3> QED BY <3>1, <3>2, <3>3, <3>4, <3>5, <3>6 DEF Next
  <2>2. age[l] <= StartTime /\ age[l] \in Nat /\ l \in Starting /\ l # sup.lane
    BY <2>1, CapNatural DEF SpawnedIsYoung, Starting, UnusedIsUnknown, Unknown, TypeOK
  <2>3. ~Reboot
    BY <2>1 DEF Reboot, DownIsEmpty
  <2>4. CASE TimePasses
    BY <1>0, <2>2, <2>4, OlderByOne
  <2> QED BY <1>0, <2>2, <2>3, <2>4, AgeSteps
<1> QED BY <1>1, <1>2

-----------------------------------------------------------------------------
(* The restarts of the others are counted.                                 *)
LEMMA BesideBounded ==
    ASSUME IsFiniteSet(Lanes), TypeOK, NEW l \in Lanes
    PROVE  /\ IsFiniteSet(RestartsBeside(l))
           /\ Cardinality(RestartsBeside(l)) \in Nat
           /\ Cardinality(RestartsBeside(l)) <= (Cardinality(Lanes) - 1) * MaxRestarts
<1> DEFINE others == Lanes \ {l}
           counts == 1..MaxRestarts
<1>1. MaxRestarts \in Nat
  BY NumbersNatural
<1>2. IsFiniteSet(others) /\ Cardinality(others) = Cardinality(Lanes) - 1
  BY FS_RemoveElement
<1>3. IsFiniteSet(counts) /\ Cardinality(counts) = MaxRestarts
  <2>1. 1 \in Int /\ MaxRestarts \in Int
    BY <1>1
  <2>2. IsFiniteSet(1..MaxRestarts)
        /\ Cardinality(1..MaxRestarts) = IF 1 > MaxRestarts THEN 0 ELSE MaxRestarts - 1 + 1
    BY <2>1, FS_Interval
  <2> QED BY <1>1, <2>2
<1>4. IsFiniteSet(others \X counts)
      /\ Cardinality(others \X counts) = (Cardinality(Lanes) - 1) * MaxRestarts
  <2>1. IsFiniteSet(others \X counts)
        /\ Cardinality(others \X counts) = Cardinality(others) * Cardinality(counts)
    <3> HIDE DEF others, counts
    <3> QED BY <1>2, <1>3, FS_Product
  <2> QED BY <1>2, <1>3, <2>1
<1>5. RestartsBeside(l) \in SUBSET (others \X counts)
  BY DEF RestartsBeside
<1> HIDE DEF others, counts
<1> QED BY <1>4, <1>5, FS_Subset, FS_CardinalityType

LEMMA BesideGrows ==
    ASSUME IsFiniteSet(Lanes), TypeOK, NEW l \in Lanes, NEW k \in Lanes, k # l,
           restarts[k] < MaxRestarts, restarts' = [restarts EXCEPT ![k] = @ + 1]
    PROVE  Cardinality(RestartsBeside(l)') = Cardinality(RestartsBeside(l)) + 1
<1> DEFINE p == <<k, restarts[k] + 1>>
<1>1. restarts \in [Lanes -> 0..MaxRestarts] /\ MaxRestarts \in Nat
  BY NumbersNatural DEF TypeOK
<1>2. p \in (Lanes \ {l}) \X (1..MaxRestarts) /\ p \notin RestartsBeside(l)
  BY <1>1 DEF RestartsBeside
<1>3. ASSUME NEW q \in (Lanes \ {l}) \X (1..MaxRestarts)
      PROVE  q[2] <= restarts'[q[1]] <=> (q[2] <= restarts[q[1]] \/ q = p)
  <2>1. PICK m \in Lanes, i \in 1..MaxRestarts : q = <<m, i>>
    OBVIOUS
  <2>2. CASE m = k
    <3>1. restarts'[m] = restarts[k] + 1
      BY <1>1, <2>2
    <3>2. restarts[k] \in Nat /\ i \in Nat
      BY <1>1, <2>1
    <3> QED BY <2>1, <2>2, <3>1, <3>2
  <2>3. CASE m # k
    BY <1>1, <2>1, <2>3
  <2> QED BY <2>2, <2>3
<1>4. RestartsBeside(l)' = RestartsBeside(l) \cup {p}
  <2> HIDE DEF p
  <2> QED BY <1>2, <1>3 DEF RestartsBeside
<1> HIDE DEF p
<1> QED BY <1>2, <1>4, BesideBounded, FS_AddElement

-----------------------------------------------------------------------------
LEMMA AllowedType ==
    ASSUME IsFiniteSet(Lanes), TypeOK, NEW l \in Lanes
    PROVE  /\ Cardinality(RestartsBeside(l)) \in Nat /\ faults \in Nat
           /\ Grace \in Nat /\ Grace >= 1 /\ Grace >= StartTime
           /\ Allowed(l) \in Nat /\ Allowed(l) = Grace + faults + Cardinality(RestartsBeside(l))
           /\ age[l] \in Nat
<1>1. Cardinality(RestartsBeside(l)) \in Nat
  BY BesideBounded
<1>2. faults \in Nat /\ Grace \in Nat /\ Grace >= 1 /\ Grace >= StartTime
  BY NumbersNatural DEF TypeOK, Grace
<1>3. age[l] \in Nat
  BY CapNatural DEF TypeOK
<1> QED BY <1>1, <1>2, <1>3 DEF Allowed

(* A step in which no time passes and nothing is counted keeps every lane  *)
(* within what it is allowed; an error of the database ends its interval.  *)
LEMMA StillPunctual ==
    ASSUME IsFiniteSet(Lanes), TypeOK, TypeOK', restarts' = restarts, faults' \in {faults, faults + 1},
           NEW l \in Lanes, age'[l] <= age[l],
           Recovering(l) => Recovering(l)',
           Pending' <= Pending,
           Due(l) <= Due(l)' + (faults' - faults),
           Recovering(l) \/ age[l] + Pending <= Allowed(l) + Due(l)
    PROVE  Recovering(l)' \/ age'[l] + Pending' <= Allowed(l)' + Due(l)'
<1>1. RestartsBeside(l)' = RestartsBeside(l)
  BY DEF RestartsBeside
<1>2. /\ Cardinality(RestartsBeside(l)) \in Nat /\ faults \in Nat /\ Grace \in Nat
      /\ Allowed(l) = Grace + faults + Cardinality(RestartsBeside(l))
      /\ age[l] \in Nat
  BY AllowedType
<1>3. Allowed(l)' = Grace + faults' + Cardinality(RestartsBeside(l)) /\ age'[l] \in Nat
  BY <1>1, CapNatural DEF Allowed, Grace, TypeOK
<1>4. Pending \in {0, 1} /\ Pending' \in {0, 1} /\ Due(l) \in {0, 1} /\ Due(l)' \in {0, 1}
  BY DEF Pending, Due
<1> QED BY <1>2, <1>3, <1>4

(* A lane whose heartbeat was just written is punctual.                    *)
LEMMA FreshIsPunctual ==
    ASSUME IsFiniteSet(Lanes), TypeOK', NEW l \in Lanes, age'[l] \in {0, 1}, Pending' = 0
    PROVE  age'[l] + Pending' <= Allowed(l)' + Due(l)'
<1>1. /\ Cardinality(RestartsBeside(l)') \in Nat
      /\ faults' \in Nat /\ Grace \in Nat /\ Grace >= 1
  <2>1. Cardinality(RestartsBeside(l)') \in Nat
    <3>1. (TypeOK => IsFiniteSet(RestartsBeside(l)) /\ Cardinality(RestartsBeside(l)) \in Nat)'
      BY BesideBounded, PTL
    <3> QED BY <3>1
  <2> QED BY <2>1, NumbersNatural DEF TypeOK, Grace
<1>2. Due(l)' \in {0, 1}
  BY DEF Due
<1>3. Allowed(l)' = Grace + faults' + Cardinality(RestartsBeside(l)')
  BY DEF Allowed, Grace
<1> QED BY <1>1, <1>2, <1>3

LEMMA CountedStays ==
    ASSUME TypeOK, BackoffIsCounted, [Next]_vars
    PROVE  BackoffIsCounted'
<1> SUFFICES ASSUME sup'.pc = "backoff" PROVE restarts'[sup'.lane] >= 1
  BY DEF BackoffIsCounted
<1>1. CASE CountRestart
  <2>1. sup.lane \in Lanes /\ sup'.lane = sup.lane /\ restarts'[sup.lane] = restarts[sup.lane] + 1
    BY <1>1 DEF TypeOK, CountRestart
  <2>2. restarts[sup.lane] \in Nat
    BY <2>1, NumbersNatural DEF TypeOK
  <2> QED BY <2>1, <2>2
<1>2. CASE sup' = sup /\ restarts' = restarts
  BY <1>2 DEF BackoffIsCounted
<1>3. ASSUME NEW k \in Lanes,
             \/ Spawn(k) \/ SpawnDenied(k) \/ SpawnFails(k) \/ StartStep(k) \/ StartFails(k)
             \/ HarnessDies(k) \/ UserStop(k) \/ StopStep(k)
      PROVE  sup' = sup /\ restarts' = restarts
  BY <1>3 DEF Spawn, SpawnDenied, SpawnFails, StartStep, Register, SaveStarted, Attach,
        StartFails, HarnessDies, UserStop, StopStep, Kill, SaveStopped, procVars
<1>4. ASSUME NEW k \in Lanes, StopFails(k), sup' # sup
      PROVE  FALSE
  BY <1>4 DEF StopFails, Idle
<1>5. ASSUME NEW k \in Lanes, StopFails(k) PROVE restarts' = restarts
  BY <1>5 DEF StopFails, procVars
<1>6. CASE CloseBegins \/ CloseStep \/ Reboot \/ UNCHANGED vars
  BY <1>2, <1>6 DEF CloseBegins, CloseStep, CloseStops, CloseContinues, Reboot, vars, procVars
<1>7. ASSUME NEW k \in Lanes, CheckBudget(k) \/ CheckLane(k) \/ Reap(k)
      PROVE  FALSE
  BY <1>7 DEF TypeOK, CheckBudget, CheckLane, Reap
<1>8. CASE Wake \/ DetectOrphans \/ ReapingDone \/ PassFails \/ Crash
  BY <1>8 DEF Wake, DetectOrphans, ReapingDone, PassFails, Crash, Idle
<1>9. CASE GiveUp \/ BackOff \/ Restart \/ RestartFails \/ SaveRestarted \/ Release \/ BudgetStopped
  BY <1>9 DEF TypeOK, GiveUp, BackOff, Restart, RestartFails, SaveRestarted, Release, BudgetStopped
<1> QED BY <1>1, <1>2, <1>3, <1>4, <1>5, <1>6, <1>7, <1>8, <1>9 DEF Next, Supervise

LEMMA PunctualStep ==
    ASSUME IsFiniteSet(Lanes), TypeOK, TypeOK', UnusedIsUnknown, DownIsEmpty, SpawnedIsYoung,
           BackoffIsCounted, Punctual, [Next]_vars
    PROVE  Punctual'
<1> DEFINE Good(l) == Recovering(l)' \/ age'[l] + Pending' <= Allowed(l)' + Due(l)'
<1> SUFFICES ASSUME NEW l \in running' PROVE Good(l)
  BY DEF Punctual
<1> HIDE DEF Good
<1>0. l \in Lanes /\ faults \in Nat /\ age[l] \in Nat /\ NoLane \notin Lanes
  BY AllowedType, LanesAssumed DEF TypeOK
<1>d. Due(l) \in {0, 1} /\ Due(l)' \in {0, 1} /\ Pending \in {0, 1}
  BY DEF Due, Pending
<1>p. l \in running => Recovering(l) \/ age[l] + Pending <= Allowed(l) + Due(l)
  BY DEF Punctual
<1>s. ASSUME l \in running, restarts' = restarts, faults' \in {faults, faults + 1},
             age'[l] <= age[l], Recovering(l) => Recovering(l)', Pending' <= Pending,
             Due(l) <= Due(l)' + (faults' - faults)
      PROVE  Good(l)
  BY <1>0, <1>p, <1>s, StillPunctual DEF Good
<1>e. ASSUME l \in running, restarts' = restarts, faults' \in {faults, faults + 1},
             age'[l] = age[l], sup' = sup
      PROVE  Good(l)
  <2>1. (Recovering(l) <=> Recovering(l)') /\ Pending' = Pending /\ Due(l)' = Due(l)
    BY <1>e DEF Recovering, Pending, Due, InPass
  <2>2. Due(l) <= Due(l)' + (faults' - faults) /\ Pending' <= Pending /\ age'[l] <= age[l]
    BY <1>0, <1>d, <1>e, <2>1
  <2> QED BY <1>s, <1>e, <2>1, <2>2
<1>1. ASSUME NEW k \in Lanes,
             \/ SpawnDenied(k) \/ SpawnFails(k) \/ SaveStarted(k) \/ Attach(k) \/ StartFails(k)
             \/ HarnessDies(k) \/ UserStop(k) \/ StopStep(k)
      PROVE  Good(l)
  <2>1. l \in running /\ restarts' = restarts /\ faults' \in {faults, faults + 1}
        /\ age' = age /\ sup' = sup
    BY <1>1 DEF SpawnDenied, SpawnFails, SaveStarted, Attach, StartFails, HarnessDies, UserStop, Pop,
          StopStep, Kill, SaveStopped, procVars, boundVars
  <2> QED BY <1>e, <2>1
<1>2. ASSUME NEW k \in Lanes, Spawn(k) PROVE Good(l)
  <2>1. l \in running /\ restarts' = restarts /\ faults' = faults /\ sup' = sup
    BY <1>2 DEF Spawn, boundVars
  <2>2. k # l
    BY <1>2, <2>1 DEF Spawn, UnusedIsUnknown, Unknown
  <2>3. age'[l] = age[l]
    BY <1>0, <1>2, <2>2 DEF Spawn, TypeOK
  <2> QED BY <1>e, <2>1, <2>3
<1>3. ASSUME NEW k \in Lanes, Register(k) PROVE Good(l)
  <2>1. restarts' = restarts /\ faults' = faults /\ sup' = sup /\ age' = age
        /\ running' = running \cup {k} /\ start[k] = "spawned"
    BY <1>3 DEF Register, procVars, boundVars
  <2>2. CASE l \in running
    BY <1>e, <2>1, <2>2
  <2>3. CASE l = k
    <3>1. age[l] <= StartTime /\ l # sup.lane
      BY <2>1, <2>3 DEF SpawnedIsYoung, UnusedIsUnknown, Unknown
    <3>2. /\ Cardinality(RestartsBeside(l)) \in Nat /\ Grace \in Nat /\ Grace >= StartTime
          /\ Allowed(l) = Grace + faults + Cardinality(RestartsBeside(l))
      BY <1>0, AllowedType
    <3>3. Pending <= Cardinality(RestartsBeside(l))
      <4>1. CASE sup.pc = "backoff"
        <5>1. sup.lane \in Lanes \ {l} /\ restarts[sup.lane] \in 0..MaxRestarts
              /\ restarts[sup.lane] >= 1 /\ MaxRestarts \in Nat
          BY <3>1, <4>1, NumbersNatural DEF TypeOK, BackoffIsCounted
        <5>2. <<sup.lane, 1>> \in RestartsBeside(l)
          BY <5>1 DEF RestartsBeside
        <5>3. Cardinality(RestartsBeside(l)) # 0
          BY <1>0, <5>2, BesideBounded, FS_EmptySet
        <5> QED BY <1>d, <3>2, <5>3
      <4>2. CASE sup.pc # "backoff"
        BY <3>2, <4>2 DEF Pending
      <4> QED BY <4>1, <4>2
    <3>4. age[l] + Pending <= Allowed(l) + Due(l)
      BY <1>0, <1>d, <3>1, <3>2, <3>3, NumbersNatural
    <3>5. Allowed(l)' = Allowed(l) /\ Pending' = Pending /\ Due(l)' = Due(l)
      BY <2>1 DEF Allowed, Grace, RestartsBeside, Pending, Due, InPass
    <3> QED BY <2>1, <3>4, <3>5 DEF Good
  <2> QED BY <2>1, <2>2, <2>3
<1>4. ASSUME NEW k \in Lanes, StopFails(k) PROVE Good(l)
  <2>1. l \in running /\ restarts' = restarts /\ faults' = faults + 1 /\ age' = age
    BY <1>4 DEF StopFails, procVars
  <2>2. CASE sup' = sup
    BY <1>e, <2>1, <2>2
  <2>3. CASE sup.pc \in {"stopping", "overBudget"} /\ sup' = Idle
    <3>1. ~Recovering(l) /\ Pending' = 0
      BY <2>3 DEF Recovering, Pending, Idle
    <3>2. Due(l) <= Due(l)' + (faults' - faults) /\ Pending' <= Pending /\ age'[l] <= age[l]
      BY <1>0, <1>d, <2>1, <3>1
    <3> QED BY <1>s, <2>1, <3>1, <3>2
  <2> QED BY <1>4, <2>2, <2>3 DEF StopFails
<1>5. ASSUME NEW k \in Lanes, CheckBudget(k) PROVE Good(l)
  <2>1. l \in running /\ l # k /\ restarts' = restarts /\ faults' = faults
    BY <1>5 DEF CheckBudget, Pop, procVars, boundVars
  <2>2. age'[l] = age[l]
    BY <1>0, <1>5, <2>1 DEF CheckBudget, TypeOK
  <2>3. ~Recovering(l) /\ Pending' = 0 /\ Due(l)' = Due(l)
    BY <1>5, <2>1 DEF CheckBudget, Recovering, Pending, Due, InPass
  <2>4. Due(l) <= Due(l)' + (faults' - faults) /\ Pending' <= Pending /\ age'[l] <= age[l]
    BY <1>0, <1>d, <2>1, <2>2, <2>3
  <2> QED BY <1>s, <2>1, <2>3, <2>4
<1>6. CASE CloseBegins \/ CloseStep \/ UNCHANGED vars
  <2>1. l \in running /\ restarts' = restarts /\ faults' = faults /\ age' = age /\ sup' = sup
    BY <1>6 DEF CloseBegins, CloseStep, CloseStops, CloseContinues, Pop, vars, procVars, boundVars
  <2> QED BY <1>e, <2>1
<1>7. CASE GiveUp \/ BudgetStopped \/ DetectOrphans \/ Release \/ ReapingDone
  <2>1. l \in running /\ restarts' = restarts /\ faults' = faults /\ age' = age
    BY <1>7 DEF GiveUp, BudgetStopped, DetectOrphans, Release, ReapingDone, procVars, boundVars
  <2>s. \/ /\ sup.pc \in {"crashed", "overBudget"}
           /\ sup'.pc = "pass" /\ sup'.todo = sup.todo
        \/ sup.pc = "pass" /\ sup.todo = {} /\ sup'.pc = "reap"
        \/ sup.pc \in {"release", "stopping", "reap"} /\ sup'.pc \in {"reap", "idle"}
    <3>0. sup = [pc |-> sup.pc, lane |-> sup.lane, todo |-> sup.todo]
      BY DEF TypeOK
    <3>1. CASE GiveUp \/ BudgetStopped
      <4>1. sup.pc \in {"crashed", "overBudget"} /\ sup' = [sup EXCEPT !.pc = "pass", !.lane = NoLane]
        BY <3>1 DEF GiveUp, BudgetStopped
      <4> QED BY <3>0, <4>1
    <3>2. CASE DetectOrphans
      BY <3>2 DEF DetectOrphans
    <3>3. CASE Release
      <4>1. /\ sup.pc \in {"release", "stopping"}
            /\ sup' = [sup EXCEPT !.pc = "reap", !.lane = NoLane]
        BY <3>3 DEF Release
      <4> QED BY <3>0, <4>1
    <3>4. CASE ReapingDone
      BY <3>4 DEF ReapingDone, Idle
    <3> QED BY <1>7, <3>1, <3>2, <3>3, <3>4
  <2>2. ~Recovering(l) /\ Pending' = 0
    BY <2>s DEF Recovering, Pending
  <2>3. Due(l) = 0 \/ Due(l)' = Due(l)
    BY <2>s DEF Due, InPass
  <2>4. Due(l) <= Due(l)' + (faults' - faults) /\ Pending' <= Pending /\ age'[l] <= age[l]
    BY <1>0, <1>d, <2>1, <2>2, <2>3
  <2> QED BY <1>s, <2>1, <2>2, <2>4
<1>8. CASE Restart \/ RestartFails
  <2>1. l \in running /\ restarts' = restarts /\ faults' \in {faults, faults + 1} /\ age' = age
    BY <1>8 DEF Restart, RestartFails, procVars, boundVars
  <2>2. (Recovering(l) => Recovering(l)') /\ Pending' = 0 /\ Due(l)' = Due(l)
    BY <1>8 DEF TypeOK, Restart, RestartFails, Recovering, Pending, Due, InPass
  <2>4. Due(l) <= Due(l)' + (faults' - faults) /\ Pending' <= Pending /\ age'[l] <= age[l]
    BY <1>0, <1>d, <2>1, <2>2
  <2> QED BY <1>s, <2>1, <2>2, <2>4
<1>9. CASE PassFails
  <2>1. l \in running /\ restarts' = restarts /\ faults' = faults + 1 /\ age' = age
    BY <1>9 DEF PassFails, procVars
  <2>2. ~Recovering(l) /\ Pending' = 0
    BY <1>9 DEF PassFails, Recovering, Pending, Idle
  <2>4. Due(l) <= Due(l)' + (faults' - faults) /\ Pending' <= Pending /\ age'[l] <= age[l]
    BY <1>0, <1>d, <2>1, <2>2
  <2> QED BY <1>s, <2>1, <2>2, <2>4
<1>10. ASSUME NEW k \in Lanes, Reap(k) PROVE Good(l)
  <2>1. l \in running /\ restarts' = restarts /\ faults' = faults /\ age' = age
    BY <1>10 DEF Reap, Pop, procVars, boundVars
  <2>2. ~Recovering(l) /\ Pending' = 0 /\ Due(l) = 0
    BY <1>10 DEF Reap, Recovering, Pending, Due, InPass
  <2>4. Due(l) <= Due(l)' + (faults' - faults) /\ Pending' <= Pending /\ age'[l] <= age[l]
    BY <1>0, <1>d, <2>1, <2>2
  <2> QED BY <1>s, <2>1, <2>2, <2>4
<1>11. ASSUME NEW k \in Lanes, CheckLane(k) PROVE Good(l)
  <2>1. l \in running /\ restarts' = restarts
    BY <1>11 DEF CheckLane, procVars
  <2>2. /\ sup.pc = "pass" /\ sup'.pc \in {"pass", "crashed"}
        /\ sup'.todo = sup.todo \ {k} /\ k \in sup.todo
    BY <1>11 DEF TypeOK, CheckLane
  <2>3. ~Recovering(l) /\ Pending' = 0
    BY <2>2 DEF Recovering, Pending
  <2>4. CASE l = k /\ age' = [age EXCEPT ![k] = 0]
    <3>1. age'[l] = 0
      BY <1>0, <2>4 DEF TypeOK
    <3> QED BY <1>0, <2>3, <3>1, FreshIsPunctual DEF Good
  <2>5. CASE l = k /\ age' = age /\ faults' = faults + 1
    <3>1. Due(l) <= Due(l)' + (faults' - faults) /\ Pending' <= Pending /\ age'[l] <= age[l]
      BY <1>0, <1>d, <2>3, <2>5
    <3> QED BY <1>s, <2>1, <2>3, <2>5, <3>1
  <2>6. CASE l # k
    <3>1. age'[l] = age[l] /\ faults' \in {faults, faults + 1}
      BY <1>0, <1>11, <2>6 DEF CheckLane, TypeOK
    <3>2. Due(l)' = Due(l)
      BY <2>2, <2>6 DEF Due, InPass
    <3>3. Due(l) <= Due(l)' + (faults' - faults) /\ Pending' <= Pending /\ age'[l] <= age[l]
      BY <1>0, <1>d, <2>3, <3>1, <3>2
    <3> QED BY <1>s, <2>1, <2>3, <3>1, <3>3
  <2> QED BY <1>11, <2>4, <2>5, <2>6 DEF CheckLane
<1>12. CASE CountRestart
  <2>1. /\ l \in running /\ faults' = faults /\ age' = age
        /\ sup.pc = "crashed" /\ sup.lane \in Lanes
        /\ sup'.lane = sup.lane /\ sup'.todo = sup.todo /\ sup'.pc \in {"backoff", "restart"}
    BY <1>12 DEF TypeOK, CountRestart, boundVars
  <2>2. CASE l = sup.lane
    BY <2>1, <2>2 DEF Good, Recovering
  <2>3. CASE l # sup.lane
    <3>1. restarts[sup.lane] < MaxRestarts /\ restarts' = [restarts EXCEPT ![sup.lane] = @ + 1]
      BY <1>12, <2>1, NumbersNatural DEF TypeOK, CountRestart, Exhausted
    <3>2. Cardinality(RestartsBeside(l)') = Cardinality(RestartsBeside(l)) + 1
      BY <1>0, <2>1, <2>3, <3>1, BesideGrows
    <3>3. /\ Cardinality(RestartsBeside(l)) \in Nat /\ Grace \in Nat
          /\ Allowed(l) = Grace + faults + Cardinality(RestartsBeside(l))
      BY <1>0, AllowedType
    <3>4. Allowed(l)' = Allowed(l) + 1 /\ Allowed(l) \in Nat
      BY <1>0, <2>1, <3>2, <3>3 DEF Allowed, Grace
    <3>5. Due(l)' = Due(l) /\ Pending = 0 /\ Pending' \in {0, 1} /\ ~Recovering(l)
      BY <2>1 DEF Due, InPass, Pending, Recovering
    <3>6. age[l] <= Allowed(l) + Due(l)
      BY <1>0, <1>p, <2>1, <3>5
    <3>7. age'[l] + Pending' <= Allowed(l)' + Due(l)'
      BY <1>0, <1>d, <2>1, <3>4, <3>5, <3>6
    <3> QED BY <3>7 DEF Good
  <2> QED BY <2>2, <2>3
<1>13. CASE BackOff
  <2>1. /\ l \in running /\ faults' = faults /\ restarts' = restarts /\ sup.pc = "backoff"
        /\ sup' = [sup EXCEPT !.pc = "restart"] /\ TimePasses
    BY <1>13 DEF BackOff, procVars, boundVars
  <2>2. /\ (Recovering(l) => Recovering(l)') /\ Due(l)' = Due(l)
        /\ Pending = 1 /\ Pending' = 0 /\ Allowed(l)' = Allowed(l)
    BY <2>1 DEF TypeOK, Recovering, Due, InPass, Pending, Allowed, Grace, RestartsBeside
  <2>3. age'[l] \in Nat /\ age'[l] <= age[l] + 1 /\ Allowed(l) \in Nat
    BY <1>0, <2>1, OlderByOne, AllowedType
  <2> QED BY <1>0, <1>d, <1>p, <2>1, <2>2, <2>3 DEF Good
<1>14. CASE Wake
  <2>1. /\ l \in running /\ faults' = faults /\ restarts' = restarts /\ sup.pc = "idle"
        /\ sup' = [pc |-> "pass", lane |-> NoLane, todo |-> running] /\ TimePasses
    BY <1>14 DEF Wake, procVars, boundVars
  <2>2. /\ ~Recovering(l) /\ Due(l) = 0 /\ Due(l)' = 1
        /\ Pending = 0 /\ Pending' = 0 /\ Allowed(l)' = Allowed(l)
    BY <2>1 DEF Recovering, Due, InPass, Pending, Allowed, Grace, RestartsBeside
  <2>3. age'[l] \in Nat /\ age'[l] <= age[l] + 1 /\ Allowed(l) \in Nat
    BY <1>0, <2>1, OlderByOne, AllowedType
  <2> QED BY <1>0, <1>p, <2>1, <2>2, <2>3 DEF Good
<1>15. CASE SaveRestarted
  <2>1. l \in running /\ restarts' = restarts /\ faults' = faults /\ sup.pc = "restarted"
        /\ sup' = [sup EXCEPT !.pc = "pass", !.lane = NoLane]
    BY <1>15 DEF SaveRestarted, procVars, boundVars
  <2>2. Pending' = 0 /\ Due(l)' = Due(l)
    BY <2>1 DEF TypeOK, Pending, Due, InPass
  <2>3. CASE l = sup.lane
    <3>1. age'[l] \in {0, 1}
      BY <1>0, <1>15, <2>3 DEF SaveRestarted, TypeOK
    <3> QED BY <1>0, <2>2, <3>1, FreshIsPunctual DEF Good
  <2>4. CASE l # sup.lane
    <3>1. age'[l] = age[l] /\ ~Recovering(l)
      BY <1>0, <1>15, <2>4 DEF SaveRestarted, TypeOK, Recovering
    <3>2. Due(l) <= Due(l)' + (faults' - faults) /\ Pending' <= Pending /\ age'[l] <= age[l]
      BY <1>0, <1>d, <2>1, <2>2, <3>1
    <3> QED BY <1>s, <2>1, <3>1, <3>2
  <2> QED BY <2>3, <2>4
<1>16. CASE Crash
  BY <1>16 DEF Crash
<1>17. CASE Reboot
  BY <1>17 DEF Reboot, DownIsEmpty
<1> QED BY <1>1, <1>2, <1>3, <1>4, <1>5, <1>6, <1>7, <1>8, <1>9, <1>10, <1>11, <1>12, <1>13,
           <1>14, <1>15, <1>16, <1>17 DEF Next, Supervise, StartStep

-----------------------------------------------------------------------------
(* What is found stale does not run, and what runs later was not found.    *)
LEMMA ReapStep ==
    ASSUME TimeoutIsAmple, TypeOK, UnusedIsUnknown, Punctual, ReapsNoneRunning, [Next]_vars
    PROVE  ReapsNoneRunning'
<1> SUFFICES ASSUME sup'.pc \in {"reap", "stopping", "release"}, NEW l \in sup'.todo, l \in running'
             PROVE  FALSE
  BY DEF ReapsNoneRunning
<1>1. CASE DetectOrphans
  <2>1. /\ l \in running /\ l \in Lanes /\ age[l] > IdleTimeout
        /\ sup.pc = "pass" /\ sup.todo = {}
    BY <1>1 DEF TypeOK, DetectOrphans, Stale, OrphanThreshold
  <2>2. age[l] + Pending <= Allowed(l) + Due(l)
    BY <2>1 DEF Punctual, Recovering
  <2>3. Pending = 0 /\ Due(l) = 0
    BY <2>1 DEF Pending, Due
  <2>4. /\ Cardinality(RestartsBeside(l)) \in Nat /\ Grace \in Nat /\ age[l] \in Nat
        /\ Allowed(l) = Grace + faults + Cardinality(RestartsBeside(l))
    BY <2>1, AllowedType DEF TimeoutIsAmple
  <2>5. faults \in 0..MaxFaults /\ MaxFaults \in Nat /\ IdleTimeout \in Nat
    BY NumbersNatural DEF TypeOK
  <2> DEFINE most == (Cardinality(Lanes) - 1) * MaxRestarts
  <2>6. Cardinality(RestartsBeside(l)) <= most /\ Grace + MaxFaults + most <= IdleTimeout
    BY <2>1, BesideBounded DEF TimeoutIsAmple
  <2>7. most \in Int
    <3>1. Cardinality(Lanes) \in Nat /\ MaxRestarts \in Nat
      BY FS_CardinalityType, NumbersNatural DEF TimeoutIsAmple
    <3> QED BY <3>1
  <2> HIDE DEF most
  <2> QED BY <2>1, <2>2, <2>3, <2>4, <2>5, <2>6, <2>7
<1>2. CASE sup.pc \in {"reap", "stopping", "release"} /\ l \in sup.todo /\ l \in running
  BY <1>2 DEF ReapsNoneRunning
<1>3. CASE \E k \in Lanes : Register(k)
  <2>1. PICK k \in Lanes : Register(k)
    BY <1>3
  <2>2. k \notin sup.todo /\ sup' = sup /\ running' = running \cup {k}
    BY <2>1 DEF Register, UnusedIsUnknown, Unknown
  <2> QED BY <1>2, <2>2
<1>4. ASSUME NEW k \in Lanes,
             \/ Spawn(k) \/ SpawnDenied(k) \/ SpawnFails(k) \/ SaveStarted(k) \/ Attach(k)
             \/ StartFails(k) \/ HarnessDies(k) \/ UserStop(k) \/ StopStep(k)
      PROVE  FALSE
  <2>1. sup' = sup /\ running' \subseteq running
    BY <1>4 DEF Spawn, SpawnDenied, SpawnFails, SaveStarted, Attach, StartFails, HarnessDies,
          UserStop, Pop, StopStep, Kill, SaveStopped
  <2> QED BY <1>2, <2>1
<1>5. ASSUME NEW k \in Lanes, StopFails(k) \/ CheckBudget(k) \/ CheckLane(k) PROVE FALSE
  <2>1. sup' = sup /\ running' = running
    BY <1>5 DEF TypeOK, StopFails, CheckBudget, CheckLane, Idle
  <2> QED BY <1>2, <2>1
<1>6. ASSUME NEW k \in Lanes, Reap(k) PROVE FALSE
  <2>1. sup.pc = "reap" /\ l \in sup.todo /\ l \in running
    BY <1>6 DEF TypeOK, Reap, Pop
  <2> QED BY <1>2, <2>1
<1>7. CASE Release
  <2>1. sup.pc \in {"release", "stopping"} /\ l \in sup.todo /\ l \in running
    BY <1>7 DEF TypeOK, Release
  <2> QED BY <1>2, <2>1
<1>8. CASE CloseBegins \/ CloseStep \/ Reboot \/ UNCHANGED vars
  <2>1. sup' = sup /\ running' \subseteq running
    BY <1>8 DEF CloseBegins, CloseStep, CloseStops, CloseContinues, Pop, Reboot, vars
  <2> QED BY <1>2, <2>1
<1>9. CASE Wake \/ ReapingDone \/ PassFails \/ Crash
  BY <1>9 DEF Wake, ReapingDone, PassFails, Crash, Idle
<1>10. CASE GiveUp \/ CountRestart \/ BackOff \/ Restart \/ RestartFails \/ SaveRestarted
            \/ BudgetStopped
  BY <1>10 DEF TypeOK, GiveUp, CountRestart, BackOff, Restart, RestartFails, SaveRestarted,
        BudgetStopped
<1> QED BY <1>1, <1>3, <1>4, <1>5, <1>6, <1>7, <1>8, <1>9, <1>10 DEF Next, Supervise, StartStep

(* However many lanes there are, however their starts, stops, deaths and   *)
(* backoffs interleave with the supervisor's passes: with an ample idle    *)
(* timeout, no lane of the running map is ever among those to be reaped.   *)
THEOREM HealthySpared ==
    ASSUME TimeoutIsAmple
    PROVE  Spec => []HealthyLaneNotReaped
<1> DEFINE Inv == IInv /\ Prompt
<1>1. Init => Inv
  <2>1. Init => IInv
    BY LanesAssumed, NumbersNatural, CapNatural
       DEF Init, IInv, TypeOK, UnusedIsUnknown, RestartsCounted, DeadIsExhausted, Owed, Idle
  <2>2. Init => Prompt
    BY DEF Init, Prompt, DownIsEmpty, SpawnedIsYoung, BackoffIsCounted, Punctual,
           ReapsNoneRunning, Idle
  <2> QED BY <2>1, <2>2
<1>2. Inv /\ [Next]_vars => Inv'
  <2> SUFFICES ASSUME Inv, [Next]_vars PROVE Inv'
    OBVIOUS
  <2>1. IInv'
    BY TypeStep, UnusedStep, CountedStep, DeadStep DEF IInv
  <2>2. IsFiniteSet(Lanes)
    BY DEF TimeoutIsAmple
  <2>3. DownIsEmpty' /\ SpawnedIsYoung' /\ BackoffIsCounted'
    BY DownStep, YoungStep, CountedStays DEF IInv, Prompt
  <2>4. Punctual' /\ ReapsNoneRunning'
    BY <2>1, <2>2, PunctualStep, ReapStep DEF IInv, Prompt
  <2> QED BY <2>1, <2>3, <2>4 DEF Prompt
<1>3. Inv => HealthyLaneNotReaped
  BY DEF Prompt, ReapsNoneRunning, HealthyLaneNotReaped
<1> HIDE DEF Inv
<1> QED BY <1>1, <1>2, <1>3, PTL DEF Spec
=============================================================================
