----------------------------- MODULE ControlPlane -----------------------------
(***************************************************************************)
(* The daemon's control plane over named pipes.                            *)
(*                                                                         *)
(* A client connects, writes one request, and reads frames until the last  *)
(* one of the answer.  The server runs a task for each connection.  Either *)
(* side reads through a buffer of its own: callbacks of the event loop     *)
(* fill it and wake the reader, which parks when there is nothing to read. *)
(* Stopping the server closes the connections its tasks have entered,      *)
(* cancels all tasks, waits for them, and only then stops listening.       *)
(*                                                                         *)
(* Over a socket the reader is the library's, and its tasks, which stop    *)
(* does not know of, are not cancelled.                                    *)
(***************************************************************************)
EXTENDS Naturals, Sequences

CONSTANTS
    Askers,         \* clients
    MaxChunks       \* bound on the frames of an answer before its last

ASSUME ChunksAreCounted == MaxChunks \in Nat

VARIABLES
    asker,          \* where each client is
    server,         \* "up", "stopping", "stopped" or "exited"
    task,           \* the server's task for each connection
    reaped,         \* tasks cancelled, which stop waits for
    entered,        \* _connections: those whose task has begun
    chunks,         \* frames of the answer so far
    pipe,           \* frames on their way to each end
    buffer,         \* frames at each end, not yet read
    eof,            \* ends that know the other is gone
    closed,         \* ends closed
    waiter,         \* each end's reader: "none", "parked" or "woken"
    belated         \* history: clients whose task had not begun when stop began

Ends == Askers \X {"client", "server"}
Other(end) == <<end[1], IF end[2] = "client" THEN "server" ELSE "client">>

endVars == <<pipe, buffer, eof, closed, waiter>>
controlVars == <<asker, server, task, reaped, entered, chunks, endVars, belated>>

Listening == server \in {"up", "stopping"}

-----------------------------------------------------------------------------
ControlInit ==
    /\ asker = [c \in Askers |-> "idle"]
    /\ server = "up"
    /\ task = [c \in Askers |-> "none"]
    /\ reaped = {} /\ entered = {} /\ belated = {}
    /\ chunks = [c \in Askers |-> 0]
    /\ pipe = [end \in Ends |-> <<>>]
    /\ buffer = [end \in Ends |-> <<>>]
    /\ eof = {} /\ closed = {}
    /\ waiter = [end \in Ends |-> "none"]

Wake(ends) ==
    waiter' = [end \in Ends |->
                IF end \in ends /\ waiter[end] = "parked" THEN "woken" ELSE waiter[end]]

(* close: the reader is woken too.                                         *)
CloseEnds(ends) == closed' = closed \cup ends /\ Wake(ends)

(* data_received.                                                          *)
DataReceived(end) ==
    /\ pipe[end] # <<>> /\ end \notin closed
    /\ end[2] = "server" => task[end[1]] # "accepted"
    /\ buffer' = [buffer EXCEPT ![end] = Append(@, Head(pipe[end]))]
    /\ pipe' = [pipe EXCEPT ![end] = Tail(@)]
    /\ Wake({end})
    /\ UNCHANGED <<asker, server, task, reaped, entered, chunks, eof, closed, belated>>

(* Mutant of the step below: the reader is left asleep.                    *)
EofNotedOnly(end) ==
    /\ Other(end) \in closed /\ pipe[end] = <<>> /\ end \notin eof \cup closed
    /\ end[2] = "server" => task[end[1]] # "accepted"
    /\ eof' = eof \cup {end}
    /\ UNCHANGED <<asker, server, task, reaped, entered, chunks, pipe, buffer, closed,
                   waiter, belated>>

(* eof_received, connection_lost.                                          *)
EofReceived(end) ==
    /\ Other(end) \in closed /\ pipe[end] = <<>> /\ end \notin eof \cup closed
    /\ end[2] = "server" => task[end[1]] # "accepted"
    /\ eof' = eof \cup {end}
    /\ Wake({end})
    /\ UNCHANGED <<asker, server, task, reaped, entered, chunks, pipe, buffer, closed, belated>>

(* readline, from one await to the next: a frame, or nothing any more; or  *)
(* the reader parks.                                                       *)
Runs(end) == waiter[end] # "parked"
HasFrame(end) == Runs(end) /\ buffer[end] # <<>>
IsOver(end) == Runs(end) /\ buffer[end] = <<>> /\ end \in eof \cup closed

Park(end) ==
    /\ IF end[2] = "client" THEN asker[end[1]] = "waiting" ELSE task[end[1]] = "reading"
    /\ Runs(end) /\ buffer[end] = <<>> /\ end \notin eof \cup closed
    /\ waiter' = [waiter EXCEPT ![end] = "parked"]
    /\ UNCHANGED <<asker, server, task, reaped, entered, chunks, pipe, buffer, eof,
                   closed, belated>>

-----------------------------------------------------------------------------
(* The client: to dial is to wait until connection_made has run.           *)
Dial(c) ==
    /\ asker[c] = "idle"
    /\ IF Listening
       THEN /\ asker' = [asker EXCEPT ![c] = "dialing"]
            /\ task' = [task EXCEPT ![c] = "accepted"]
            /\ belated' = IF server = "up" THEN belated ELSE belated \cup {c}
       ELSE asker' = [asker EXCEPT ![c] = "refused"] /\ UNCHANGED <<task, belated>>
    /\ UNCHANGED <<server, reaped, entered, chunks, endVars>>

Ask(c) ==
    /\ asker[c] = "dialing"
    /\ asker' = [asker EXCEPT ![c] = "waiting"]
    /\ pipe' = [pipe EXCEPT ![<<c, "server">>] =
                    IF <<c, "server">> \in closed THEN @ ELSE Append(@, "request")]
    /\ UNCHANGED <<server, task, reaped, entered, chunks, buffer, eof, closed, waiter, belated>>

Settle(c, how) ==
    /\ asker[c] = "waiting"
    /\ asker' = [asker EXCEPT ![c] = how]
    /\ closed' = closed \cup {<<c, "client">>}
    /\ waiter' = [waiter EXCEPT ![<<c, "client">>] = "none"]
    /\ UNCHANGED <<server, task, reaped, entered, chunks, pipe, buffer, eof, belated>>

TakeChunk(c) ==
    /\ asker[c] = "waiting" /\ HasFrame(<<c, "client">>)
    /\ Head(buffer[<<c, "client">>]) = "chunk"
    /\ buffer' = [buffer EXCEPT ![<<c, "client">>] = Tail(@)]
    /\ waiter' = [waiter EXCEPT ![<<c, "client">>] = "none"]
    /\ UNCHANGED <<asker, server, task, reaped, entered, chunks, pipe, eof, closed, belated>>

TakeLast(c) ==
    /\ HasFrame(<<c, "client">>) /\ Head(buffer[<<c, "client">>]) = "last"
    /\ Settle(c, "answered")

TakeNothing(c) == IsOver(<<c, "client">>) /\ Settle(c, "hungup")

(* A call waits so long; a stream waits on.                                *)
GiveUp(c) == Settle(c, "timedout")

-----------------------------------------------------------------------------
(* The server: connection_made spawns a task ...                           *)
ServerMade(c) ==
    /\ task[c] = "accepted" /\ server # "exited"
    /\ task' = [task EXCEPT ![c] = "spawned"]
    /\ UNCHANGED <<asker, server, reaped, entered, chunks, endVars, belated>>

(* ... which enters the connection when it first runs.                     *)
TaskBegins(c) ==
    /\ task[c] = "spawned" /\ c \notin reaped /\ server # "exited"
    /\ task' = [task EXCEPT ![c] = "reading"]
    /\ entered' = entered \cup {c}
    /\ UNCHANGED <<asker, server, reaped, chunks, endVars, belated>>

TaskOver(c) ==
    /\ task' = [task EXCEPT ![c] = "over"]
    /\ entered' = entered \ {c}
    /\ CloseEnds({<<c, "server">>})

TakeRequest(c) ==
    /\ task[c] = "reading" /\ c \notin reaped /\ HasFrame(<<c, "server">>)
    /\ task' = [task EXCEPT ![c] = "handling"]
    /\ buffer' = [buffer EXCEPT ![<<c, "server">>] = Tail(@)]
    /\ waiter' = [waiter EXCEPT ![<<c, "server">>] = "none"]
    /\ UNCHANGED <<asker, server, reaped, entered, chunks, pipe, eof, closed, belated>>

HangUp(c) ==
    /\ task[c] = "reading" /\ IsOver(<<c, "server">>)
    /\ TaskOver(c)
    /\ UNCHANGED <<asker, server, reaped, chunks, pipe, buffer, eof, belated>>

(* Nothing is written to a connection that is closed.                      *)
WriteFrame(c, frame) ==
    pipe' = [pipe EXCEPT ![<<c, "client">>] =
                IF {<<c, "server">>, <<c, "client">>} \cap closed # {} THEN @
                ELSE Append(@, frame)]

AnswerChunk(c) ==
    /\ task[c] = "handling" /\ chunks[c] < MaxChunks
    /\ WriteFrame(c, "chunk")
    /\ chunks' = [chunks EXCEPT ![c] = @ + 1]
    /\ UNCHANGED <<asker, server, task, reaped, entered, buffer, eof, closed, waiter, belated>>

(* A result, or the error the handler raised.                              *)
AnswerLast(c) ==
    /\ task[c] = "handling"
    /\ WriteFrame(c, "last")
    /\ task' = [task EXCEPT ![c] = "reading"]
    /\ UNCHANGED <<asker, server, reaped, entered, chunks, buffer, eof, closed, waiter, belated>>

(* A cancelled task ends at its await, and closes its connection; one that *)
(* had not begun never enters the code that would.                         *)
TaskCancelled(c) ==
    /\ c \in reaped
    /\ \/ /\ task[c] \in {"reading", "handling"}
          /\ TaskOver(c)
       \/ /\ task[c] = "spawned"
          /\ task' = [task EXCEPT ![c] = "over"]
          /\ UNCHANGED <<entered, closed, waiter>>
    /\ UNCHANGED <<asker, server, reaped, chunks, pipe, buffer, eof, belated>>

StopServer ==
    /\ server = "up"
    /\ server' = "stopping"
    /\ CloseEnds({<<c, "server">> : c \in entered})
    /\ entered' = {}
    /\ reaped' = {c \in Askers : task[c] \in {"spawned", "reading", "handling"}}
    /\ belated' = {c \in Askers : task[c] \in {"accepted", "spawned"}}
    /\ UNCHANGED <<asker, task, chunks, pipe, buffer, eof>>

StopListening ==
    /\ server = "stopping"
    /\ \A c \in reaped : task[c] = "over"
    /\ server' = "stopped"
    /\ UNCHANGED <<asker, task, reaped, entered, chunks, endVars, belated>>

(* The daemon's process is gone, and its ends of the pipes with it.        *)
ServerExits ==
    /\ server = "stopped"
    /\ server' = "exited"
    /\ closed' = closed \cup {<<c, "server">> : c \in Askers}
    /\ task' = [c \in Askers |-> IF task[c] = "none" THEN "none" ELSE "over"]
    /\ UNCHANGED <<asker, reaped, entered, chunks, pipe, buffer, eof, waiter, belated>>

-----------------------------------------------------------------------------
(* What the event loops do by themselves.  A handler may take its time:    *)
(* only a cancelled one ends.                                              *)
Turns(c) ==
    \/ \E end \in {<<c, "client">>, <<c, "server">>} :
        DataReceived(end) \/ EofReceived(end) \/ Park(end)
    \/ Ask(c) \/ TakeChunk(c) \/ TakeLast(c) \/ TakeNothing(c)
    \/ ServerMade(c) \/ TaskBegins(c) \/ TakeRequest(c) \/ HangUp(c) \/ TaskCancelled(c)

ControlNext ==
    \/ \E c \in Askers :
        Dial(c) \/ GiveUp(c) \/ AnswerChunk(c) \/ AnswerLast(c) \/ Turns(c)
    \/ StopServer \/ StopListening \/ ServerExits

ControlSpec ==
    /\ ControlInit /\ [][ControlNext]_controlVars
    /\ \A c \in Askers : WF_controlVars(Turns(c))
    /\ WF_controlVars(StopListening)

-----------------------------------------------------------------------------
ControlTypeOK ==
    /\ asker \in [Askers -> {"idle", "dialing", "waiting", "answered", "hungup",
                              "timedout", "refused"}]
    /\ server \in {"up", "stopping", "stopped", "exited"}
    /\ task \in [Askers -> {"none", "accepted", "spawned", "reading", "handling", "over"}]
    /\ reaped \subseteq Askers /\ entered \subseteq Askers /\ belated \subseteq Askers
    /\ chunks \in [Askers -> 0..MaxChunks]
    /\ {pipe, buffer} \subseteq [Ends -> Seq({"request", "chunk", "last"})]
    /\ eof \subseteq Ends /\ closed \subseteq Ends
    /\ waiter \in [Ends -> {"none", "parked", "woken"}]

(* Whichever way data, ends and closings meet a reader that is about to    *)
(* park: nobody sleeps who has a frame to read or whose connection is over,*)
(* except in a process that is gone (_PipeConnection.readline).            *)
ReadersAreWoken ==
    \A end \in Ends :
        waiter[end] = "parked" =>
            \/ buffer[end] = <<>> /\ end \notin eof \cup closed
            \/ end[2] = "server" /\ server = "exited"

(* When stop has returned, no task runs any more, and the connections of   *)
(* those who still wait are closed, so that they learn it; except for those*)
(* whose task had not begun when stop did (IpcServer.stop).                *)
StoppedIsOver ==
    server \in {"stopped", "exited"} =>
        \A c \in Askers \ belated :
            /\ task[c] \in {"none", "over"}
            /\ asker[c] \in {"dialing", "waiting"} => <<c, "server">> \in closed

(* Nobody is left behind by the control plane, on either side of it:       *)
(* neither a reader that sleeps through what it waits for nor, once the    *)
(* server has stopped, a task or a client of it (readline, stop).          *)
WokenAndReleased == ReadersAreWoken /\ StoppedIsOver

(* A server that stops leaves no client waiting, whichever way data, ends  *)
(* and closings meet the reader that parks: a client has its answer or     *)
(* learns that there is none, also if it has no time-out of its own.  Only *)
(* one whose task had not begun when the server began to stop, may have to *)
(* wait until the daemon exits.                                            *)
StopReleasesClients ==
    <>[](server # "up" =>
            \A c \in Askers : asker[c] \in {"dialing", "waiting"} =>
                              c \in belated /\ server # "exited")
=============================================================================
