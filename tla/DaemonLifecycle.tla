--------------------------- MODULE DaemonLifecycle ---------------------------
(***************************************************************************)
(* Daemon processes of one repository: starting, serving, stopping.        *)
(*                                                                         *)
(* A process looks at the pid file and the control socket, each with steps *)
(* of its own, before it writes the one and binds the other.  A signal or  *)
(* a request begins the shutdown as a task that nobody awaits: it sets     *)
(* "stopping", on which the main coroutine returns, and asyncio.run then   *)
(* cancels every task once, the shutdown at whatever it is awaiting, and   *)
(* waits for them.  Requests are served until the IPC server is stopped.   *)
(***************************************************************************)
EXTENDS Naturals, FiniteSets

CONSTANTS
    Daemons,        \* processes that are started as the repository's daemon
    Runnable,       \* lanes a daemon may be asked to run
    NoDaemon        \* no pid file, no socket

ASSUME NoDaemonIsNone == NoDaemon \notin Daemons

VARIABLES
    stage,          \* how far each process is
    pidfile,        \* whose pid the pid file holds
    socket,         \* who is bound to the socket's path
    lanes,          \* lanes each process runs
    shutdown,       \* what the shutdown task awaits
    draining,       \* lanes the drain has still to stop
    returned,       \* the main coroutine returned
    late,           \* history: lanes started after the drain looked
    gaveUp,         \* history: the drain was cut short
    raced           \* history: two processes checked before either wrote

daemonVars == <<stage, pidfile, socket, lanes, shutdown, draining, returned,
                late, gaveUp, raced>>

Checking == {"stale", "pid", "dead", "free"}
Alive(d) == stage[d] \notin {"off", "over", "exited"}

(* Before the IPC server is stopped, stop() awaits one of these.           *)
Open == {"no", "supervisor", "lanes", "relay", "event", "ipc"}
Serves(d) == stage[d] = "serving" /\ shutdown[d] \in Open

-----------------------------------------------------------------------------
DaemonInit ==
    /\ stage = [d \in Daemons |-> "off"]
    /\ pidfile = NoDaemon /\ socket = NoDaemon
    /\ lanes = [d \in Daemons |-> {}]
    /\ shutdown = [d \in Daemons |-> "no"]
    /\ draining = [d \in Daemons |-> {}]
    /\ returned = [d \in Daemons |-> FALSE]
    /\ late = [d \in Daemons |-> {}]
    /\ gaveUp = [d \in Daemons |-> FALSE]
    /\ raced = FALSE

Moves(d, from, to) == stage[d] = from /\ stage' = [stage EXCEPT ![d] = to]

unstarted == <<lanes, shutdown, draining, returned, late, gaveUp>>

(* Mutant of the step below: every pid is taken for dead.                  *)
CheckPidDead(d) ==
    /\ IF pidfile = NoDaemon THEN Moves(d, "off", "pid") ELSE Moves(d, "off", "stale")
    /\ UNCHANGED <<pidfile, socket, raced, unstarted>>

(* _guard_already_running: the pid file first.                             *)
CheckPid(d) ==
    /\ \/ pidfile = NoDaemon /\ Moves(d, "off", "pid")
       \/ pidfile # NoDaemon /\ Alive(pidfile) /\ Moves(d, "off", "over")
       \/ pidfile # NoDaemon /\ ~Alive(pidfile) /\ Moves(d, "off", "stale")
    /\ UNCHANGED <<pidfile, socket, raced, unstarted>>

UnlinkPid(d) ==
    /\ Moves(d, "stale", "pid")
    /\ pidfile' = NoDaemon
    /\ UNCHANGED <<socket, raced, unstarted>>

(* Then the socket: is somebody listening?                                 *)
CheckSocket(d) ==
    /\ \/ socket = NoDaemon /\ Moves(d, "pid", "free")
       \/ socket # NoDaemon /\ Alive(socket) /\ Moves(d, "pid", "over")
       \/ socket # NoDaemon /\ ~Alive(socket) /\ Moves(d, "pid", "dead")
    /\ UNCHANGED <<pidfile, socket, raced, unstarted>>

UnlinkSocket(d) ==
    /\ Moves(d, "dead", "free")
    /\ socket' = NoDaemon
    /\ UNCHANGED <<pidfile, raced, unstarted>>

WritePid(d) ==
    /\ Moves(d, "free", "starting")
    /\ pidfile' = d
    /\ raced' = (raced \/ \E e \in Daemons \ {d} : stage[e] \in Checking)
    /\ UNCHANGED <<socket, unstarted>>

(* An error of start() ends the process, without stop().                   *)
StartRaises(d) ==
    /\ Moves(d, "starting", "over")
    /\ UNCHANGED <<pidfile, socket, raced, unstarted>>

(* Whatever is at the socket's path is unlinked first.                     *)
Bind(d) ==
    /\ Moves(d, "starting", "serving")
    /\ socket' = d
    /\ UNCHANGED <<pidfile, raced, unstarted>>

StartLane(d, lane) ==
    /\ Serves(d)
    /\ lane \notin lanes[d]
    /\ lanes' = [lanes EXCEPT ![d] = @ \cup {lane}]
    /\ late' = IF shutdown[d] \in {"no", "supervisor"} THEN late
               ELSE [late EXCEPT ![d] = @ \cup {lane}]
    /\ UNCHANGED <<stage, pidfile, socket, shutdown, draining, returned, gaveUp, raced>>

-----------------------------------------------------------------------------
Awaits(d, from, to) ==
    /\ stage[d] = "serving"
    /\ shutdown[d] = from
    /\ shutdown' = [shutdown EXCEPT ![d] = to]

BeginShutdown(d) ==
    /\ Awaits(d, "no", "supervisor")
    /\ UNCHANGED <<stage, pidfile, socket, lanes, draining, returned, late, gaveUp, raced>>

(* The supervisor is gone: the lanes to stop are those running now.        *)
SupervisorGone(d) ==
    /\ Awaits(d, "supervisor", "lanes")
    /\ draining' = [draining EXCEPT ![d] = lanes[d]]
    /\ UNCHANGED <<stage, pidfile, socket, lanes, returned, late, gaveUp, raced>>

DrainLane(d, lane) ==
    /\ stage[d] = "serving" /\ shutdown[d] = "lanes"
    /\ lane \in draining[d]
    /\ draining' = [draining EXCEPT ![d] = @ \ {lane}]
    /\ lanes' = [lanes EXCEPT ![d] = @ \ {lane}]
    /\ UNCHANGED <<stage, pidfile, socket, shutdown, returned, late, gaveUp, raced>>

Drained(d) ==
    /\ draining[d] = {}
    /\ Awaits(d, "lanes", "relay")
    /\ UNCHANGED <<stage, pidfile, socket, lanes, draining, returned, late, gaveUp, raced>>

(* The grace period is over, or stopping a lane raised.                    *)
DrainGivesUp(d) ==
    /\ shutdown[d] \in {"supervisor", "lanes"}
    /\ Awaits(d, shutdown[d], "relay")
    /\ gaveUp' = [gaveUp EXCEPT ![d] = TRUE]
    /\ UNCHANGED <<stage, pidfile, socket, lanes, draining, returned, late, raced>>

RelayStopped(d) ==
    /\ Awaits(d, "relay", "event")
    /\ UNCHANGED <<stage, pidfile, socket, lanes, draining, returned, late, gaveUp, raced>>

(* daemon.stopped is in the log, or the error was logged.                  *)
LastEvent(d) ==
    /\ Awaits(d, "event", "ipc")
    /\ UNCHANGED <<stage, pidfile, socket, lanes, draining, returned, late, gaveUp, raced>>

(* Requests are cancelled and reaped, and the path is unlinked.            *)
IpcStopped(d) ==
    /\ Awaits(d, "ipc", "database")
    /\ socket' = NoDaemon
    /\ UNCHANGED <<stage, pidfile, lanes, draining, returned, late, gaveUp, raced>>

DatabaseClosed(d) ==
    /\ Awaits(d, "database", "done")
    /\ pidfile' = NoDaemon
    /\ UNCHANGED <<stage, socket, lanes, draining, returned, late, gaveUp, raced>>

(* Where a cancellation is swallowed, and where it ends the shutdown.      *)
Swallows == {"supervisor", "lanes", "relay", "done"}
Aborts == {"lanes", "relay", "event", "ipc", "database"}

(* The main coroutine returns: its own stop() finds "stopping" set.        *)
MainReturns(d) ==
    /\ stage[d] = "serving" /\ shutdown[d] # "no" /\ ~returned[d]
    /\ returned' = [returned EXCEPT ![d] = TRUE]
    /\ \/ shutdown[d] \in Swallows /\ UNCHANGED shutdown
       \/ shutdown[d] \in Aborts /\ shutdown' = [shutdown EXCEPT ![d] = "aborted"]
    /\ UNCHANGED <<stage, pidfile, socket, lanes, draining, late, gaveUp, raced>>

(* Mutant of the step below: the process waits for a shutdown that was     *)
(* cancelled.                                                              *)
ExitWhenDone(d) ==
    /\ returned[d] /\ shutdown[d] = "done"
    /\ Moves(d, "serving", "exited")
    /\ UNCHANGED <<pidfile, socket, raced, unstarted>>

Exit(d) ==
    /\ returned[d] /\ shutdown[d] \in {"done", "aborted"}
    /\ Moves(d, "serving", "exited")
    /\ UNCHANGED <<pidfile, socket, raced, unstarted>>

Killed(d) ==
    /\ Alive(d)
    /\ Moves(d, stage[d], "over")
    /\ UNCHANGED <<pidfile, socket, raced, unstarted>>

Stopping(d) ==
    \/ SupervisorGone(d) \/ Drained(d) \/ DrainGivesUp(d)
    \/ \E lane \in Runnable : DrainLane(d, lane)
    \/ RelayStopped(d) \/ LastEvent(d) \/ IpcStopped(d) \/ DatabaseClosed(d)

DaemonNext ==
    \E d \in Daemons :
        \/ CheckPid(d) \/ UnlinkPid(d) \/ CheckSocket(d) \/ UnlinkSocket(d)
        \/ WritePid(d) \/ StartRaises(d) \/ Bind(d)
        \/ \E lane \in Runnable : StartLane(d, lane)
        \/ BeginShutdown(d) \/ Stopping(d) \/ MainReturns(d) \/ Exit(d) \/ Killed(d)

(* The event loop runs what is ready; the drain is bounded by its grace    *)
(* period, the other awaits by their own time-outs.                        *)
DaemonEnds(d) == Stopping(d) \/ MainReturns(d) \/ Exit(d)

DaemonFairness ==
    \A d \in Daemons : WF_daemonVars(DaemonEnds(d))

DaemonSpec == DaemonInit /\ [][DaemonNext]_daemonVars /\ DaemonFairness

-----------------------------------------------------------------------------
(* Type correctness.                                                       *)
DaemonTypeOK ==
    /\ stage \in [Daemons -> Checking \cup {"off", "starting", "serving", "exited", "over"}]
    /\ pidfile \in Daemons \cup {NoDaemon} /\ socket \in Daemons \cup {NoDaemon}
    /\ {lanes, draining, late} \subseteq [Daemons -> SUBSET Runnable]
    /\ shutdown \in [Daemons -> Open \cup {"database", "done", "aborted"}]
    /\ {returned, gaveUp} \subseteq [Daemons -> BOOLEAN]
    /\ raced \in BOOLEAN

(* The repository has one daemon: two processes serve it at a time only    *)
(* after two of them had looked before either had written its pid.  A      *)
(* daemon that is stopping keeps others out until it serves nobody.        *)
OneDaemonUnlessRaced ==
    \A d, e \in Daemons : d # e /\ Serves(d) /\ Serves(e) => raced

(* A shutdown that got to its end left no lane behind but those that were  *)
(* started after the drain had looked, or that outlasted the grace period. *)
LanesLeftAreExplained ==
    \A d \in Daemons :
        shutdown[d] = "done" /\ ~gaveUp[d] => lanes[d] \subseteq late[d]

(* Asked to stop, a daemon stops, whatever the lanes and the clients do.   *)
StopEnds ==
    <>[](\A d \in Daemons : shutdown[d] # "no" => stage[d] \in {"exited", "over"})

(* The module's docstring: shutdown drains, flushes the log, then exits.   *)
DrainedBeforeExit == \A d \in Daemons : stage[d] = "exited" => shutdown[d] = "done"
=============================================================================
