--------------------------- MODULE SessionRegistry ---------------------------
(***************************************************************************)
(* A session, its lanes, and the objects that stand for it in the daemon.  *)
(*                                                                         *)
(* The manager remembers one object of the session.  A request that gives  *)
(* the session's id works on that object; a request that gives its name    *)
(* reads the row into a new object, which is remembered from then on.      *)
(* Objects are written back whole, so of two the later write stands.       *)
(*                                                                         *)
(* Each request starts at most one lane, which is named after it, as is    *)
(* the object it creates or loads.                                         *)
(***************************************************************************)
EXTENDS Naturals, FiniteSets

CONSTANTS
    Calls,          \* calls of session.create, lane.start, session.close, and of the
                    \* commands that make a plan or only look at the session
    NoObject        \* no object of the session

ASSUME NoObjectIsNoCall == NoObject \notin Calls

VARIABLES
    request,        \* what each request is, where it is, what it works on
    object,         \* objects of the session: status and lanes
    remembered,     \* the object in _sessions
    sessionRow,     \* the row; its status is "none" before it is written
    port,           \* port each lane was given
    listening,      \* lanes whose A2A server has its port
    running,        \* lanes in _running
    overlapped,     \* requests that ran at the same time as another
    portTaken       \* lanes that found their port taken, and by what

registryVars == <<request, object, remembered, sessionRow, port, listening,
                  running, overlapped, portTaken>>

lanePlaces == <<port, listening, running, portTaken>>

New == [status |-> "created", lanes |-> {}]
Waiting == [op |-> "none", at |-> "waiting", holds |-> NoObject,
            data |-> New, left |-> {}, after |-> {}]

Over == {"done", "failed", "lost"}
In(at) == {r \in Calls : request[r].at = at}
InProgress == Calls \ (In("waiting") \cup UNION {In(at) : at \in Over})

(* Where a request is when it has its object.                              *)
FirstStep(op) ==
    CASE op = "start" -> "starting" [] op = "close" -> "closing" [] OTHER -> "planning"

Held(r) == object[request[r].holds]

Goes(r, at) == request' = [request EXCEPT ![r].at = at]

(* A lane that was not started ends lane.start; create goes on without it. *)
GivesUp(r) == Goes(r, IF request[r].op = "create" THEN "ending" ELSE "failed")

-----------------------------------------------------------------------------
(* No session yet, or one of an earlier life of the daemon.                *)
RegistryInit ==
    /\ request = [r \in Calls |-> Waiting]
    /\ object = [r \in Calls |-> New]
    /\ remembered = NoObject
    /\ sessionRow \in {New, [New EXCEPT !.status = "none"]}
    /\ port = [r \in Calls |-> 0]
    /\ listening = {} /\ running = {}
    /\ overlapped = {} /\ portTaken = {}

Begins(r, op, at, holds) ==
    /\ request[r] = Waiting
    /\ request' = [request EXCEPT ![r].op = op, ![r].at = at, ![r].holds = holds,
                                  ![r].after = In("done")]
    /\ overlapped' = overlapped \cup
                        (IF InProgress = {} THEN {} ELSE InProgress \cup {r})

(* create_session: the new object is saved, and only then remembered.      *)
CreateSession(r) ==
    /\ sessionRow.status = "none"
    /\ \A other \in InProgress : request[other].op # "create"
    /\ Begins(r, "create", "creating", r)
    /\ object' = [object EXCEPT ![r] = New]
    /\ UNCHANGED <<remembered, sessionRow, lanePlaces>>

SaveCreated(r) ==
    /\ request[r].at = "creating"
    /\ sessionRow' = object[r]
    /\ Goes(r, "created")
    /\ UNCHANGED <<object, remembered, lanePlaces, overlapped>>

RememberCreated(r) ==
    /\ request[r].at = "created"
    /\ remembered' = r
    /\ \E next \in {"starting", "ending"} : Goes(r, next)
    /\ UNCHANGED <<object, sessionRow, lanePlaces, overlapped>>

(* get_session by id, of a session that is remembered.                     *)
Recall(r, op) ==
    /\ remembered # NoObject
    /\ Begins(r, op, FirstStep(op), remembered)
    /\ UNCHANGED <<object, remembered, sessionRow, lanePlaces>>

(* get_session by name, or of a session that is not remembered.            *)
LoadSession(r, op) ==
    /\ sessionRow.status # "none"
    /\ Begins(r, op, "loaded", r)
    /\ object' = [object EXCEPT ![r] = sessionRow]
    /\ UNCHANGED <<remembered, sessionRow, lanePlaces>>

(* Mutant of the step below: the object loaded is not the one worked on.   *)
RememberLoadedAside(r) ==
    /\ request[r].at = "loaded"
    /\ remembered' = IF remembered = NoObject THEN r ELSE remembered
    /\ Goes(r, FirstStep(request[r].op))
    /\ UNCHANGED <<object, sessionRow, lanePlaces, overlapped>>

RememberLoaded(r) ==
    /\ request[r].at = "loaded"
    /\ remembered' = r
    /\ Goes(r, FirstStep(request[r].op))
    /\ UNCHANGED <<object, sessionRow, lanePlaces, overlapped>>

-----------------------------------------------------------------------------
(* The first port that no lane in _running has.                            *)
NextPort ==
    LET used == {port[x] : x \in running}
    IN CHOOSE p \in 0..Cardinality(running) :
        p \notin used /\ \A q \in 0..p - 1 : q \in used

(* start_lane: the harness is up, a port is chosen ...                     *)
Spawn(r) ==
    /\ request[r].at = "starting"
    /\ port' = [port EXCEPT ![r] = NextPort]
    /\ Goes(r, "binding")
    /\ UNCHANGED <<object, remembered, sessionRow, listening, running,
                   overlapped, portTaken>>

SpawnFails(r) ==
    /\ request[r].at = "starting"
    /\ GivesUp(r)
    /\ UNCHANGED <<object, remembered, sessionRow, lanePlaces, overlapped>>

PortHolders(p) == {x \in listening : port[x] = p}

(* ... the server takes it ...                                             *)
BindPort(r) ==
    /\ request[r].at = "binding"
    /\ PortHolders(port[r]) = {}
    /\ listening' = listening \cup {r}
    /\ Goes(r, "serving")
    /\ UNCHANGED <<object, remembered, sessionRow, port, running, overlapped, portTaken>>

(* The daemon's process ends, and another takes its place.                 *)
Dies ==
    /\ request' = [r \in Calls |->
                    IF r \in InProgress THEN [request[r] EXCEPT !.at = "lost"]
                    ELSE request[r]]
    /\ object' = [r \in Calls |-> New]
    /\ remembered' = NoObject
    /\ port' = [r \in Calls |-> 0]
    /\ listening' = {} /\ running' = {}
    /\ UNCHANGED <<sessionRow, overlapped>>

(* uvicorn exits the process when the port is taken.                       *)
PortIsTaken(r) ==
    /\ request[r].at = "binding"
    /\ \E x \in PortHolders(port[r]) :
        portTaken' = portTaken \cup
            {<<r, IF x \in running \cup In("serving") THEN "lane" ELSE "leftover">>}
    /\ Dies

Killed == Dies /\ UNCHANGED portTaken

(* ... the lane is entered in _running, and briefed ...                    *)
Register(r) ==
    /\ request[r].at = "serving"
    /\ running' = running \cup {r}
    /\ Goes(r, "briefed")
    /\ UNCHANGED <<object, remembered, sessionRow, port, listening, overlapped, portTaken>>

(* The object is changed, and what it holds now is on its way to the row.  *)
Changes(r, at, new) ==
    /\ object' = [object EXCEPT ![request[r].holds] = new]
    /\ request' = [request EXCEPT ![r].at = at, ![r].data = new]

(* ... and, its own row saved, attached to the session, which is saved.    *)
Attach(r) ==
    /\ request[r].at = "briefed"
    /\ Changes(r, "attached", [Held(r) EXCEPT !.lanes = @ \cup {r}])
    /\ UNCHANGED <<remembered, sessionRow, lanePlaces, overlapped>>

SaveLaneFails(r) ==
    /\ request[r].at = "briefed"
    /\ GivesUp(r)
    /\ UNCHANGED <<object, remembered, sessionRow, lanePlaces, overlapped>>

(* create_session's last word: active if it has lanes, whatever came since.*)
EndCreation(r) ==
    /\ request[r].at = "ending"
    /\ Changes(r, "concluding",
               [Held(r) EXCEPT !.status = IF Held(r).lanes = {} THEN "created" ELSE "active"])
    /\ UNCHANGED <<remembered, sessionRow, lanePlaces, overlapped>>

-----------------------------------------------------------------------------
(* close_session stops the lanes its object lists when it begins ...       *)
ListLanes(r) ==
    /\ request[r].at = "closing"
    /\ request' = [request EXCEPT ![r].at = "stopping",
                                  ![r].left = Held(r).lanes]
    /\ UNCHANGED <<object, remembered, sessionRow, lanePlaces, overlapped>>

StopListed(r) ==
    /\ request[r].at = "stopping"
    /\ \E x \in request[r].left \cap running :
        /\ running' = running \ {x}
        /\ request' = [request EXCEPT ![r].left = @ \ {x}]
    /\ UNCHANGED <<object, remembered, sessionRow, port, listening, overlapped, portTaken>>

(* ... and then marks the session closed.                                  *)
MarkClosed(r) ==
    /\ request[r].at = "stopping"
    /\ request[r].left \cap running = {}
    /\ Changes(r, "concluding", [Held(r) EXCEPT !.status = "closed"])
    /\ UNCHANGED <<remembered, sessionRow, lanePlaces, overlapped>>

(* plan_generate writes the session with the steps it saves, plan_add_step *)
(* when it makes the plan, with whatever else the object holds.  What finds*)
(* a plan, or generates none, only looks.                                  *)
MakePlan(r) ==
    /\ request[r].at = "planning"
    /\ Changes(r, "concluding", Held(r))
    /\ UNCHANGED <<remembered, sessionRow, lanePlaces, overlapped>>

OnlyLook(r) ==
    /\ request[r].at = "planning"
    /\ Goes(r, "done")
    /\ UNCHANGED <<object, remembered, sessionRow, lanePlaces, overlapped>>

(* A server told to stop gives its port back some time later.              *)
PortReleased(r) ==
    /\ r \in listening \ (running \cup In("serving"))
    /\ listening' = listening \ {r}
    /\ UNCHANGED <<request, object, remembered, sessionRow, port, running,
                   overlapped, portTaken>>

(* The data is what the object held when the write was begun.  After its   *)
(* lane, a create has its end still to come.                               *)
WriteSession(r) ==
    /\ request[r].at \in {"attached", "concluding"}
    /\ sessionRow' = request[r].data
    /\ Goes(r, IF request[r].op = "create" /\ request[r].at = "attached"
               THEN "ending" ELSE "done")
    /\ UNCHANGED <<object, remembered, lanePlaces, overlapped>>

WriteFails(r) ==
    /\ request[r].at \in {"attached", "concluding"}
    /\ IF request[r].at = "attached" THEN GivesUp(r) ELSE Goes(r, "failed")
    /\ UNCHANGED <<object, remembered, sessionRow, lanePlaces, overlapped>>

-----------------------------------------------------------------------------
RegistryNext ==
    \/ \E r \in Calls :
        \/ CreateSession(r) \/ SaveCreated(r) \/ RememberCreated(r)
        \/ \E op \in {"start", "close", "plan"} : Recall(r, op)
        \/ \E op \in {"start", "close", "plan"} : LoadSession(r, op)
        \/ RememberLoaded(r)
        \/ Spawn(r) \/ SpawnFails(r) \/ BindPort(r) \/ PortIsTaken(r) \/ Register(r)
        \/ Attach(r) \/ SaveLaneFails(r) \/ EndCreation(r)
        \/ ListLanes(r) \/ StopListed(r) \/ MarkClosed(r)
        \/ MakePlan(r) \/ OnlyLook(r)
        \/ PortReleased(r) \/ WriteSession(r) \/ WriteFails(r)
    \/ Killed

RegistrySpec == RegistryInit /\ [][RegistryNext]_registryVars

-----------------------------------------------------------------------------
(* What the request did, alone and without an error.                       *)
DoneAlone(op) == {r \in In("done") \ overlapped : request[r].op = op}

(* Every copy of the session there is to read.                             *)
Copies == {sessionRow} \cup {object[r] : r \in {remembered} \ {NoObject}}

(* Two objects of one session, whole writes and ports chosen before they   *)
(* are taken do harm only to requests that overlap.  A lane whose start    *)
(* overlapped no other request is listed ever after; a session closed that *)
(* way stays closed; whoever closes it later stops the lane; and a lane    *)
(* never finds its port held by another, except by one being stopped.      *)
LostOnlyByOverlap ==
    /\ \A r \in DoneAlone("start") : \A copy \in Copies : r \in copy.lanes
    /\ DoneAlone("close") # {} => \A copy \in Copies : copy.status = "closed"
    /\ \A r \in In("done") : request[r].op = "close" =>
            request[r].after \cap DoneAlone("start") \cap running = {}
    /\ \A r \in Calls : <<r, "lane">> \in portTaken => r \in overlapped
=============================================================================
