--------------------------- MODULE SessionRecovery ---------------------------
(***************************************************************************)
(* The checkpoints of a session and its resumption.                        *)
(*                                                                         *)
(* While the daemon runs, the supervisor leaves one checkpoint per lane and*)
(* interval in the database.  resume_session loads all checkpoints of the  *)
(* session that were not used yet and goes through them: it marks one used *)
(* (`consumed_at`), starts a new lane from it, and takes the next.  Several*)
(* requests may resume the same session, the daemon may die anywhere, and  *)
(* lanes go on being started, stopped and checkpointed meanwhile.          *)
(*                                                                         *)
(* How a lane is started, stopped and restarted is LaneSupervision's; here *)
(* a lane is in the running map with a live harness, or it is not.         *)
(***************************************************************************)
EXTENDS Naturals, Sequences

CONSTANTS
    Lanes,              \* lane ids; a lane that is started takes an unused one
    NoLane,
    Requests,           \* requests that may resume the session
    MaxCheckpoints,     \* bound: checkpoints taken
    MaxLives            \* bound: times the daemon is started

ASSUME LanesAssumed == NoLane \notin Lanes
ASSUME NumbersNatural == {MaxCheckpoints, MaxLives} \subseteq Nat

VARIABLES
    up,             \* is the daemon running
    life,           \* which start of the daemon this is
    status,         \* is the session open or closed, in memory and in its row
    lane,           \* state of each lane
    rows,           \* lanes that have a row
    checkpoints,    \* the rows of `checkpoints`, in the order they were committed
    taking,         \* the supervisor, between reading the latest number and the commit
    resume,         \* how far each resume_session is
    origin,         \* history: the checkpoint a lane was started from, or 0
    born,           \* history: the life of the daemon in which a lane was started
    contended       \* history: have two requests been at work since nobody was

vars == <<up, life, status, lane, rows, checkpoints, taking, resume, origin, born, contended>>

-----------------------------------------------------------------------------
Indices == 1..Len(checkpoints)

Of(l) == {i \in Indices : checkpoints[i].lane = l}

Unconsumed == {i \in Indices : checkpoints[i].consumedIn = 0}

NotTaking  == [lane |-> NoLane, sequence |-> 0]
NotRunning == [pc |-> "idle", listed |-> {}, todo |-> {}, current |-> 0, lane |-> NoLane]

(* In the running map; a stray is there too, but its start raised before   *)
(* its row was saved and before it was attached to the session.            *)
Running == {l \in Lanes : lane[l] \in {"running", "stray"}}

(* get_lane finds a lane in the running map or by its row.                 *)
Resolvable(l) == l \in Running \cup rows

(* Mutants of the test below: only what was not used yet is counted; the   *)
(* number is advanced by two.                                              *)
LatestUnconsumed(l, n) ==
    LET left == Of(l) \cap Unconsumed IN
    \/ left = {} /\ n = 0
    \/ \E i \in left : /\ n = checkpoints[i].sequence
                       /\ \A j \in left : checkpoints[j].sequence <= n
LatestPlusOne(l, n) ==
    \/ Of(l) = {} /\ n = 0
    \/ \E i \in Of(l) : /\ n = checkpoints[i].sequence + 1
                        /\ \A j \in Of(l) : checkpoints[j].sequence <= n

(* latest_checkpoint: n is the highest number of the lane's checkpoints,   *)
(* used or not.                                                            *)
Latest(l, n) ==
    \/ Of(l) = {} /\ n = 0
    \/ \E i \in Of(l) : /\ n = checkpoints[i].sequence
                        /\ \A j \in Of(l) : checkpoints[j].sequence <= n

-----------------------------------------------------------------------------
Init ==
    /\ up = TRUE /\ life = 1
    /\ status = "open"
    /\ lane = [l \in Lanes |-> "unused"]
    /\ rows = {}
    /\ checkpoints = <<>>
    /\ taking = NotTaking
    /\ resume = [r \in Requests |-> NotRunning]
    /\ origin = [l \in Lanes |-> 0]
    /\ born = [l \in Lanes |-> 0]
    /\ contended = FALSE

-----------------------------------------------------------------------------
(* Lanes.                                                                  *)

(* A user starts a lane.  If the briefing or a save raises, the lane stays *)
(* in the running map.                                                     *)
StartLane(l) ==
    /\ up /\ lane[l] = "unused"
    /\ \/ lane' = [lane EXCEPT ![l] = "running"] /\ rows' = rows \cup {l}
       \/ lane' = [lane EXCEPT ![l] = "stray"] /\ UNCHANGED rows
    /\ born' = [born EXCEPT ![l] = life]
    /\ UNCHANGED <<up, life, status, checkpoints, taking, resume, origin, contended>>

(* stop_lane takes the lane off the map and saves it, whether it had a row *)
(* or not; if stopping the harness or the save raises, it is off the map.  *)
StopLane(l) ==
    /\ l \in Running
    /\ lane' = [lane EXCEPT ![l] = "stopped"]
    /\ rows' = rows \cup {l} \/ UNCHANGED rows
    /\ UNCHANGED <<up, life, status, checkpoints, taking, resume, origin, born, contended>>

(* The supervisor restarts a lane's harness and saves the lane.            *)
RestartLane(l) ==
    /\ l \in Running
    /\ rows' = rows \cup {l}
    /\ UNCHANGED <<up, life, status, lane, checkpoints, taking, resume, origin, born, contended>>

(* close_session stops lanes, one StopLane each, and closes the session.   *)
(* A lane that is attached meanwhile runs on.                              *)
CloseSession ==
    /\ up
    /\ status' = "closed"
    /\ UNCHANGED <<up, life, lane, rows, checkpoints, taking, resume, origin, born, contended>>

-----------------------------------------------------------------------------
(* take_checkpoint, called by the supervisor only.                         *)

TakeBegins(l) ==
    /\ l \in Running /\ taking = NotTaking
    /\ Len(checkpoints) < MaxCheckpoints
    /\ \E n \in 0..MaxCheckpoints :
        /\ Latest(l, n)
        /\ taking' = [lane |-> l, sequence |-> n + 1]
    /\ UNCHANGED <<up, life, status, lane, rows, checkpoints, resume, origin, born, contended>>

TakeCommits ==
    /\ taking # NotTaking
    /\ checkpoints' = Append(checkpoints,
            [lane |-> taking.lane, sequence |-> taking.sequence,
             intact |-> TRUE, consumedIn |-> 0])
    /\ taking' = NotTaking
    /\ UNCHANGED <<up, life, status, lane, rows, resume, origin, born, contended>>

(* A statement or the commit raises; the supervisor logs it and goes on.   *)
TakeFails ==
    /\ taking # NotTaking
    /\ taking' = NotTaking
    /\ UNCHANGED <<up, life, status, lane, rows, checkpoints, resume, origin, born, contended>>

-----------------------------------------------------------------------------
(* Mutants: what the steps below would be with a likely mistake in them.   *)

(* The newest checkpoints come first.                                      *)
NewestFirst(r, i) ==
    /\ i \in resume[r].todo
    /\ \A j \in resume[r].todo : checkpoints[j].sequence <= checkpoints[i].sequence

(* The checkpoint is marked used in memory and not saved.                  *)
ConsumeUnsaved(r) ==
    \E i \in resume[r].todo :
        /\ resume[r].pc = "next" /\ checkpoints[i].intact /\ Resolvable(checkpoints[i].lane)
        /\ resume' = [resume EXCEPT ![r].pc = "consumed", ![r].todo = @ \ {i}, ![r].current = i]
        /\ UNCHANGED <<up, life, status, lane, rows, checkpoints, taking, origin, born, contended>>

(* A lane that cannot be started ends the resume.                          *)
RespawnFailsAndReturns(r) ==
    /\ resume[r].pc = "consumed"
    /\ resume' = [resume EXCEPT ![r].pc = "returned", ![r].todo = {}, ![r].current = 0]
    /\ UNCHANGED <<up, life, status, lane, rows, checkpoints, taking, origin, born, contended>>

-----------------------------------------------------------------------------
(* resume_session.                                                         *)

(* The requests that loaded a list and have not returned.                  *)
AtWork == {r \in Requests : resume[r].pc \in {"next", "consumed", "starting"}}

(* The last of them to leave takes the memory of their meeting with it.    *)
Leaves(r) == contended' = (contended /\ AtWork # {r})

(* The unused checkpoints are loaded once; without any it returns at once, *)
(* which changes nothing.                                                  *)
ResumeBegins(r) ==
    /\ up /\ resume[r].pc \in {"idle", "returned"}
    /\ Unconsumed # {}
    /\ resume' = [resume EXCEPT ![r] =
            [pc |-> "next", listed |-> Unconsumed, todo |-> Unconsumed,
             current |-> 0, lane |-> NoLane]]
    /\ contended' = (AtWork # {})
    /\ UNCHANGED <<up, life, status, lane, rows, checkpoints, taking, origin, born>>

(* The list is ordered by number; among equals any order is possible.      *)
OldestFirst(r, i) ==
    /\ i \in resume[r].todo
    /\ \A j \in resume[r].todo : checkpoints[i].sequence <= checkpoints[j].sequence

(* The checksum is wrong, or the lane is not found: the loop goes on, and  *)
(* no lane is started.                                                     *)
Skip(r) ==
    /\ resume[r].pc = "next"
    /\ \E i \in resume[r].todo :
        /\ OldestFirst(r, i)
        /\ ~(checkpoints[i].intact /\ Resolvable(checkpoints[i].lane))
        /\ resume' = [resume EXCEPT ![r].todo = @ \ {i}]
    /\ UNCHANGED <<up, life, status, lane, rows, checkpoints, taking, origin, born, contended>>

(* The copy the request loaded is saved as used, whoever used it meanwhile.*)
Consume(r) ==
    /\ resume[r].pc = "next"
    /\ \E i \in resume[r].todo :
        /\ OldestFirst(r, i)
        /\ checkpoints[i].intact /\ Resolvable(checkpoints[i].lane)
        /\ checkpoints' = [checkpoints EXCEPT ![i].consumedIn = life]
        /\ resume' = [resume EXCEPT ![r].pc = "consumed", ![r].todo = @ \ {i}, ![r].current = i]
    /\ UNCHANGED <<up, life, status, lane, rows, taking, origin, born, contended>>

(* start_lane: a new lane, whether or not the one of the checkpoint runs.  *)
Respawn(r) ==
    /\ resume[r].pc = "consumed"
    /\ \E l \in Lanes :
        /\ lane[l] = "unused"
        /\ lane' = [lane EXCEPT ![l] = "starting"]
        /\ origin' = [origin EXCEPT ![l] = resume[r].current]
        /\ born' = [born EXCEPT ![l] = life]
        /\ resume' = [resume EXCEPT ![r].pc = "starting", ![r].lane = l]
    /\ UNCHANGED <<up, life, status, rows, checkpoints, taking, contended>>

(* The policy denies the spawn, or the harness cannot be started.          *)
RespawnFails(r) ==
    /\ resume[r].pc = "consumed"
    /\ resume' = [resume EXCEPT ![r].pc = "next", ![r].current = 0]
    /\ UNCHANGED <<up, life, status, lane, rows, checkpoints, taking, origin, born, contended>>

(* The lane runs; or its server did not come up, or the briefing or a save *)
(* raised.  The loop goes on in any case.                                  *)
Respawned(r) ==
    /\ resume[r].pc = "starting"
    /\ LET l == resume[r].lane IN
        \/ lane' = [lane EXCEPT ![l] = "running"] /\ rows' = rows \cup {l}
        \/ lane' = [lane EXCEPT ![l] = "stray"] /\ UNCHANGED rows
        \/ lane' = [lane EXCEPT ![l] = "failed"] /\ UNCHANGED rows
    /\ resume' = [resume EXCEPT ![r].pc = "next", ![r].current = 0, ![r].lane = NoLane]
    /\ UNCHANGED <<up, life, status, checkpoints, taking, origin, born, contended>>

(* Finding the lane is the only error that is caught besides start_lane's: *)
(* a save or an emit that raises ends the request.                         *)
ResumeRaises(r) ==
    /\ resume[r].pc = "next"
    /\ resume' = [resume EXCEPT ![r] = NotRunning]
    /\ Leaves(r)
    /\ UNCHANGED <<up, life, status, lane, rows, checkpoints, taking, origin, born>>

(* The session is open again, also when nothing could be started.          *)
ResumeReturns(r) ==
    /\ resume[r].pc = "next" /\ resume[r].todo = {}
    /\ resume' = [resume EXCEPT ![r].pc = "returned"]
    /\ status' = "open"
    /\ Leaves(r)
    /\ UNCHANGED <<up, life, lane, rows, checkpoints, taking, origin, born>>

-----------------------------------------------------------------------------
(* The daemon dies and is started again; coroutines and the running map are*)
(* gone, rows stay.                                                        *)

Crash ==
    /\ up /\ life < MaxLives
    /\ up' = FALSE
    /\ lane' = [l \in Lanes |-> IF lane[l] \in {"starting", "running", "stray"} THEN "lost" ELSE lane[l]]
    /\ taking' = NotTaking
    /\ resume' = [r \in Requests |-> NotRunning]
    /\ contended' = FALSE
    /\ UNCHANGED <<life, status, rows, checkpoints, origin, born>>

(* A row damaged while no daemon runs; its checksum tells.                 *)
Damage(i) ==
    /\ ~up /\ checkpoints[i].intact
    /\ checkpoints' = [checkpoints EXCEPT ![i].intact = FALSE]
    /\ UNCHANGED <<up, life, status, lane, rows, taking, resume, origin, born, contended>>

Reboot ==
    /\ ~up
    /\ up' = TRUE /\ life' = life + 1
    /\ UNCHANGED <<status, lane, rows, checkpoints, taking, resume, origin, born, contended>>

-----------------------------------------------------------------------------
LaneStep == \E l \in Lanes : StartLane(l) \/ StopLane(l) \/ RestartLane(l)

TakeStep == (\E l \in Lanes : TakeBegins(l)) \/ TakeCommits \/ TakeFails

ResumeStep(r) ==
    \/ ResumeBegins(r) \/ Skip(r) \/ Consume(r) \/ Respawn(r)
    \/ RespawnFails(r) \/ Respawned(r) \/ ResumeRaises(r) \/ ResumeReturns(r)

Next ==
    \/ LaneStep
    \/ CloseSession
    \/ TakeStep
    \/ \E r \in Requests : ResumeStep(r)
    \/ Crash \/ Reboot
    \/ \E i \in Indices : Damage(i)

Spec == Init /\ [][Next]_vars

-----------------------------------------------------------------------------
(* Properties.                                                             *)

RequestState ==
    [pc : {"idle", "next", "consumed", "starting", "returned"},
     listed : SUBSET Indices, todo : SUBSET Indices,
     current : Indices \cup {0}, lane : Lanes \cup {NoLane}]

(* Every variable has its type; the numbers of a lane do not run ahead of  *)
(* the checkpoints there are; and no coroutine outlives its daemon.        *)
TypeOK ==
    /\ up \in BOOLEAN /\ life \in Nat
    /\ status \in {"open", "closed"}
    /\ lane \in [Lanes -> {"unused", "starting", "running", "stray", "stopped", "failed", "lost"}]
    /\ rows \subseteq Lanes
    /\ checkpoints \in Seq([lane : Lanes, sequence : 1..MaxCheckpoints,
                            intact : BOOLEAN, consumedIn : Nat])
    /\ Len(checkpoints) <= MaxCheckpoints
    /\ taking \in [lane : Lanes \cup {NoLane}, sequence : 0..MaxCheckpoints]
    /\ resume \in [Requests -> RequestState]
    /\ origin \in [Lanes -> Indices \cup {0}]
    /\ born \in [Lanes -> Nat]
    /\ contended \in BOOLEAN
    /\ ~up => taking = NotTaking /\ \A r \in Requests : resume[r] = NotRunning

(* The numbers of a lane's checkpoints grow in the order in which they were*)
(* taken, also after some were used, after a crash, and while a resumed    *)
(* lane goes on.  What orders the resume, and tells the latest, is right.  *)
SequenceIsAge ==
    \A i, j \in Indices :
        checkpoints[i].lane = checkpoints[j].lane /\ i < j
            => checkpoints[i].sequence < checkpoints[j].sequence

(* A resume that a crash cuts short is not applied again by the next one:  *)
(* all lanes started from a checkpoint were started in one life of the     *)
(* daemon.                                                                 *)
AppliedInOneLife ==
    \A k, l \in Lanes : origin[k] # 0 /\ origin[k] = origin[l] => born[k] = born[l]

(* A lane is never taken back: a lane is started from a checkpoint that is *)
(* newer than each one, of the same lane, that a lane was started from     *)
(* before; after failures, damage and crashes too.  Only requests that were*)
(* at work at once may do otherwise: each has a list of its own, and the   *)
(* slower starts from what the faster one is past.                         *)
NeverBackAlone ==
    [][\A l \in Lanes : origin[l] = 0 /\ origin'[l] # 0 /\ ~contended =>
        \A k \in Lanes :
            origin[k] # 0 /\ checkpoints[origin[k]].lane = checkpoints[origin'[l]].lane
                => origin[k] < origin'[l]]_vars

(* One lane that fails does not stop the rest: when resume_session returns,*)
(* every checkpoint it loaded was used, unless it is damaged or its lane   *)
(* is unknown.                                                             *)
RestAttempted ==
    \A r \in Requests : resume[r].pc = "returned" =>
        \A i \in resume[r].listed :
            \/ checkpoints[i].consumedIn # 0
            \/ ~checkpoints[i].intact
            \/ ~Resolvable(checkpoints[i].lane)
=============================================================================
