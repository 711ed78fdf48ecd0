---------------------------- MODULE TaskLifecycle ----------------------------
(***************************************************************************)
(* Tasks as TaskLifecycleManager moves them.                               *)
(*                                                                         *)
(* A caller works on an object of its own: one it submitted, or one it read*)
(* some time ago, as the time-out sweep does.  Whether a transition is     *)
(* legal is decided on that object, which is then written whole.           *)
(*                                                                         *)
(* All callers share one database session, which SessionManager.start makes*)
(* and nobody commits: a save is flushed to it, so that who reads through  *)
(* the manager finds it, and who reads through another session does not.   *)
(* A save that fails rolls the session back, with all it held; then it     *)
(* refuses every call until the daemon is started anew.                    *)
(*                                                                         *)
(* The log is told after each save, in a session of its own.  On SQLite it *)
(* never is: the first save took the only write lock, the log waits for it *)
(* until its busy timeout, and the error is noted and dropped.  Telling    *)
(* changes no task, and there is no step for it.                           *)
(***************************************************************************)
EXTENDS Naturals

CONSTANTS
    Tasks,          \* ids
    Callers,        \* callers of the manager
    NoTask          \* the task of a caller that holds none

ASSUME NoTaskIsNoTask == NoTask \notin Tasks

VARIABLES
    row,            \* state of each task the session holds
    usable,         \* has no save failed yet
    held,           \* the object of each caller
    stage           \* what each caller does next with it

taskVars == <<row, usable, held, stage>>

Terminal == {"completed", "failed", "canceled", "rejected"}
TaskStates == Terminal \cup {"submitted", "working", "input_required", "auth_required"}

(* TASK_TRANSITIONS.                                                       *)
Targets(state) ==
    CASE state = "submitted" -> {"working", "rejected", "canceled", "failed"}
      [] state = "working" ->
            {"input_required", "auth_required", "completed", "failed", "canceled"}
      [] state = "input_required" -> {"working", "canceled", "failed"}
      [] state = "auth_required" -> {"working", "canceled", "failed", "rejected"}
      [] OTHER -> {}

(* Mutant of the test below: only the target is looked at.                 *)
CanTransitionFromAny(state, target) == target \in TaskStates

(* A transition to the state it is in already is no error.                 *)
CanTransition(state, target) == target = state \/ target \in Targets(state)

Submitted == DOMAIN row
NoRows == [t \in {} |-> "submitted"]
Empty == [task |-> NoTask, state |-> "submitted"]

(* A caller rests, is to submit what it retries, or to save once more what *)
(* it submitted for that.                                                  *)
Stages == {"rest", "submit", "again"}

-----------------------------------------------------------------------------
TaskInit ==
    /\ row = NoRows
    /\ usable = TRUE
    /\ held = [c \in Callers |-> Empty]
    /\ stage = [c \in Callers |-> "rest"]

(* Repository.save: the object replaces the row, whatever the row was.     *)
Saved(t, state) ==
    /\ usable
    /\ row' = [x \in Submitted \cup {t} |-> IF x = t THEN state ELSE row[x]]

Takes(c, t, state) ==
    held' = [held EXCEPT ![c] = [task |-> t, state |-> state]]

GoesTo(c, next) == stage' = [stage EXCEPT ![c] = next]

Submit(c, t) ==
    /\ stage[c] = "rest"
    /\ t \notin Submitted
    /\ Saved(t, "submitted")
    /\ Takes(c, t, "submitted")
    /\ UNCHANGED <<usable, stage>>

(* repo.get, or the list that enforce_timeouts goes through.               *)
Load(c, t) ==
    /\ usable /\ stage[c] = "rest"
    /\ t \in Submitted
    /\ Takes(c, t, row[t])
    /\ UNCHANGED <<row, usable, stage>>

(* Where start and resume, request_auth, complete, fail, cancel and reject *)
(* take a task.                                                            *)
SavedStates == Terminal \cup {"working", "auth_required"}

Transition(c, target) ==
    LET t == held[c].task IN
    /\ stage[c] = "rest" /\ t # NoTask
    /\ CanTransition(held[c].state, target)
    /\ Takes(c, t, target)
    /\ Saved(t, target)
    /\ UNCHANGED <<usable, stage>>

(* request_input saves the message it waits for, not the task.             *)
RequestInput(c) ==
    LET t == held[c].task IN
    /\ usable /\ stage[c] = "rest" /\ t # NoTask
    /\ CanTransition(held[c].state, "input_required")
    /\ Takes(c, t, "input_required")
    /\ UNCHANGED <<row, usable, stage>>

(* A finished task is written once more, with its count of retries ...     *)
Retry(c) ==
    LET t == held[c].task IN
    /\ stage[c] = "rest" /\ t # NoTask
    /\ held[c].state \in Terminal
    /\ Saved(t, held[c].state)
    /\ GoesTo(c, "submit")
    /\ UNCHANGED <<usable, held>>

(* ... and a new one submitted ...                                         *)
Resubmit(c, new) ==
    /\ stage[c] = "submit"
    /\ new \notin Submitted
    /\ Saved(new, "submitted")
    /\ Takes(c, new, "submitted")
    /\ \E next \in {"rest", "again"} : GoesTo(c, next)
    /\ UNCHANGED usable

(* ... which, if the retry has a reason, is saved again after the log was  *)
(* to be told of it: by then others may have written it.                   *)
SaveAgain(c) ==
    /\ stage[c] = "again"
    /\ Saved(held[c].task, held[c].state)
    /\ GoesTo(c, "rest")
    /\ UNCHANGED <<usable, held>>

(* The flush raises, or its caller is cancelled in it: what the session    *)
(* held is gone, and from now on it asks for a rollback nobody makes.      *)
SaveFails(c) ==
    /\ usable
    /\ usable' = FALSE
    /\ row' = NoRows
    /\ GoesTo(c, "rest")
    /\ UNCHANGED held

(* A retry is cut short: its caller is cancelled while the log is told, or *)
(* the session refuses the next save.                                      *)
RetryEnds(c) ==
    /\ stage[c] # "rest"
    /\ GoesTo(c, "rest")
    /\ UNCHANGED <<row, usable, held>>

(* The daemon dies, and SQLite rolls back what was not committed; the next *)
(* daemon makes a session of its own.                                      *)
DaemonDies ==
    /\ row' = NoRows
    /\ usable' = TRUE
    /\ held' = [c \in Callers |-> Empty]
    /\ stage' = [c \in Callers |-> "rest"]

TaskNext ==
    \/ \E c \in Callers :
        \/ \E t \in Tasks : Submit(c, t) \/ Load(c, t) \/ Resubmit(c, t)
        \/ \E target \in SavedStates : Transition(c, target)
        \/ RequestInput(c) \/ Retry(c) \/ SaveAgain(c)
        \/ SaveFails(c) \/ RetryEnds(c)
    \/ DaemonDies

TaskSpec == TaskInit /\ [][TaskNext]_taskVars

-----------------------------------------------------------------------------
(* Type correctness; while the session works, an object belongs to a task  *)
(* it holds, and a caller in a retry has one.                              *)
TaskTypeOK ==
    /\ Submitted \subseteq Tasks
    /\ \A t \in Submitted : row[t] \in TaskStates
    /\ usable \in BOOLEAN
    /\ ~usable => Submitted = {}
    /\ held \in [Callers -> [task : Tasks \cup {NoTask}, state : TaskStates]]
    /\ usable => \A c \in Callers : held[c].task \in Submitted \cup {NoTask}
    /\ stage \in [Callers -> Stages]
    /\ \A c \in Callers : stage[c] # "rest" => held[c].task # NoTask

(* A finished task stays as it is, as long as the session holds it, unless *)
(* a caller writes an object it read while the task was still in another   *)
(* state.  No caller revives a task it knows to be finished, and a retry is*)
(* a task of its own.                                                      *)
FinishedUnlessStale ==
    [][\A t \in Submitted \cap DOMAIN row' :
        row[t] \in Terminal /\ row'[t] # row[t] =>
            \E c \in Callers : held[c].task = t /\ held[c].state # row[t]]_taskVars
=============================================================================
