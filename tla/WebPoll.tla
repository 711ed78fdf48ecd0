------------------------------- MODULE WebPoll -------------------------------
(***************************************************************************)
(* The dashboard's feed of a session: a browser tab polls bus.tail through *)
(* the web server, which asks the daemon, and keeps the newest events.     *)
(*                                                                         *)
(* A tick asks for what follows the cursor.  Whatever comes of it decides  *)
(* when the next one is due; a tab that becomes visible again, or a manual *)
(* refresh, makes it due at once, and a tick aborts the call it finds in   *)
(* flight.  The client turns an aborted call into the same retryable error *)
(* as a daemon that is down, so the poll takes its own abort for a failure *)
(* and schedules another tick, beside the call it has just made.           *)
(*                                                                         *)
(* Time is counted in seconds, up to the largest that is waited for.       *)
(***************************************************************************)
EXTENDS Naturals

CONSTANTS
    PollInterval,   \* intervalMs
    MinBackoff,     \* minBackoffMs
    MaxBackoff,     \* maxBackoffMs
    AnswerTime,     \* within which a daemon that is up answers
    PollTimeout,    \* timeoutMs of a request
    PageMax,        \* the limit of a page
    FeedMax,        \* the limit of the feed
    MaxEvents,      \* bound on the events of the session
    MaxTroubles,    \* bound on changes of the daemon and manual refreshes
    Nothing         \* no call, no timer, no page

(* A call that takes longer than any backoff would always be aborted.      *)
ASSUME BackoffOutlastsCalls ==
    /\ {PollInterval, MinBackoff, AnswerTime, PageMax, FeedMax} \subseteq Nat \ {0}
    /\ {MaxBackoff, PollTimeout, MaxEvents, MaxTroubles} \subseteq Nat
    /\ AnswerTime <= MaxBackoff /\ AnswerTime <= PollTimeout

VARIABLES
    visible,        \* the tab is shown
    daemonIs,       \* "up", "stalled" or "down"
    events,         \* the log of the session is 1..events
    timer,          \* timerRef: seconds until the next tick
    backoff,        \* backoffRef
    call,           \* the call in flight: what it asks, how old it is, its page
    feed,           \* feedRef: the events kept
    cursor,         \* cursorRef
    failing,        \* the last call that ended is shown as an error
    troubles        \* changes of the daemon and manual refreshes so far

pollVars == <<visible, daemonIs, events, timer, backoff, call, feed, cursor, failing,
              troubles>>

Least(a, b) == IF a <= b THEN a ELSE b

-----------------------------------------------------------------------------
PollInit ==
    /\ visible = TRUE
    /\ daemonIs = "up" /\ troubles = 0
    /\ events = 0
    /\ timer = 0 /\ backoff = MinBackoff
    /\ call = Nothing
    /\ feed = {} /\ cursor = 0
    /\ failing = FALSE

(* schedule: there is one timer.                                           *)
Schedule(delay) == timer' = delay

(* Mutant of the catch: the backoff does not grow.                         *)
FailedFlat == Schedule(backoff) /\ failing' = TRUE /\ UNCHANGED backoff

(* The catch of a tick.  No daemon to connect to (503), one that does not  *)
(* answer in time (504, or the client's own time-out) and an aborted call  *)
(* (0) are all retryable, and bus.tail itself refuses nothing.             *)
Failed ==
    /\ Schedule(backoff)
    /\ backoff' = Least(2 * backoff, MaxBackoff)
    /\ failing' = TRUE

-----------------------------------------------------------------------------
(* tick.  A call in flight is aborted; that it was, reaches its own catch  *)
(* before anything else happens: as an error, or, if the answer had begun  *)
(* to arrive, as an abort that is passed over.                             *)
PollTick ==
    /\ timer = 0
    /\ IF ~visible
       THEN Schedule(PollInterval) /\ UNCHANGED <<call, backoff, failing>>
       ELSE /\ call' = [since |-> cursor, age |-> 0, page |-> Nothing]
            /\ \/ call = Nothing /\ timer' = Nothing /\ UNCHANGED <<backoff, failing>>
               \/ call # Nothing /\ Failed
               \/ /\ call # Nothing /\ call.page # Nothing
                  /\ timer' = Nothing /\ UNCHANGED <<backoff, failing>>
    /\ UNCHANGED <<visible, daemonIs, events, feed, cursor, troubles>>

(* bus.tail, at the daemon.                                                *)
ServeTail ==
    /\ call # Nothing /\ call.page = Nothing /\ daemonIs = "up"
    /\ call' = [call EXCEPT !.page = {n \in 1..events : /\ n > call.since
                                                        /\ n <= call.since + PageMax}]
    /\ UNCHANGED <<visible, daemonIs, events, timer, backoff, feed, cursor, failing,
                   troubles>>

Highest(page) == CHOOSE n \in page \cup {cursor} : \A m \in page \cup {cursor} : m <= n

(* Mutant: the oldest of the rows.                                         *)
BoundedOldest(rows) == {n \in rows : \A m \in rows : n < m + FeedMax}

(* The newest of the rows, as many as the feed keeps.                      *)
Bounded(rows) == {n \in rows : n + FeedMax > Highest(rows)}

PageArrives ==
    /\ call # Nothing /\ call.page # Nothing
    /\ cursor' = Highest(call.page)
    /\ feed' = IF call.page \subseteq feed THEN feed ELSE Bounded(feed \cup call.page)
    /\ call' = Nothing
    /\ Schedule(PollInterval) /\ backoff' = MinBackoff /\ failing' = FALSE
    /\ UNCHANGED <<visible, daemonIs, events, troubles>>

(* A stalled daemon is given up after a while; an answer under way may be  *)
(* cut off.                                                                *)
CallFails ==
    /\ call # Nothing /\ daemonIs # "up"
    /\ daemonIs = "stalled" => call.age = PollTimeout
    /\ call' = Nothing
    /\ Failed
    /\ UNCHANGED <<visible, daemonIs, events, feed, cursor, troubles>>

-----------------------------------------------------------------------------
(* The effect starts anew: what is in flight is aborted and not heard of.  *)
Refresh ==
    /\ troubles < MaxTroubles
    /\ troubles' = troubles + 1
    /\ backoff' = MinBackoff
    /\ call' = Nothing
    /\ Schedule(0)
    /\ UNCHANGED <<visible, daemonIs, events, feed, cursor, failing>>

HideTab ==
    /\ visible
    /\ visible' = FALSE
    /\ UNCHANGED <<daemonIs, events, timer, backoff, call, feed, cursor, failing, troubles>>

(* onVisibility.                                                           *)
ShowTab ==
    /\ ~visible
    /\ visible' = TRUE
    /\ backoff' = MinBackoff
    /\ Schedule(0)
    /\ UNCHANGED <<daemonIs, events, call, feed, cursor, failing, troubles>>

(* A second passes: a timer that is due fires first, and a call is not     *)
(* kept waiting for longer than it may.                                    *)
CallMayWait ==
    call # Nothing =>
        call.age < CASE daemonIs = "up" -> AnswerTime
                     [] daemonIs = "stalled" -> PollTimeout
                     [] daemonIs = "down" -> 0

PollSecond ==
    /\ timer # 0 /\ CallMayWait
    /\ timer # Nothing \/ call # Nothing
    /\ timer' = IF timer = Nothing THEN Nothing ELSE timer - 1
    /\ call' = IF call = Nothing THEN Nothing ELSE [call EXCEPT !.age = @ + 1]
    /\ UNCHANGED <<visible, daemonIs, events, backoff, feed, cursor, failing, troubles>>

(* The lanes go on, and the daemon comes and goes.                         *)
EventLogged ==
    /\ events < MaxEvents
    /\ events' = events + 1
    /\ UNCHANGED <<visible, daemonIs, timer, backoff, call, feed, cursor, failing, troubles>>

DaemonTurns ==
    /\ troubles < MaxTroubles
    /\ troubles' = troubles + 1
    /\ daemonIs' \in {"up", "stalled", "down"} \ {daemonIs}
    /\ UNCHANGED <<visible, events, timer, backoff, call, feed, cursor, failing>>

-----------------------------------------------------------------------------
PollProceeds == PollTick \/ ServeTail \/ PageArrives \/ CallFails \/ PollSecond

PollNext ==
    \/ PollProceeds
    \/ Refresh \/ HideTab \/ ShowTab
    \/ EventLogged \/ DaemonTurns

PollSpec == PollInit /\ [][PollNext]_pollVars /\ WF_pollVars(PollProceeds)

-----------------------------------------------------------------------------
PollTypeOK ==
    /\ visible \in BOOLEAN
    /\ daemonIs \in {"up", "stalled", "down"}
    /\ events \in 0..MaxEvents /\ troubles \in 0..MaxTroubles
    /\ timer = Nothing \/ timer \in Nat
    /\ backoff \in Nat \ {0}
    /\ call # Nothing => call.age \in Nat /\ call.since \in 0..MaxEvents
    /\ feed \subseteq 1..MaxEvents /\ cursor \in 0..MaxEvents
    /\ failing \in BOOLEAN

(* The feed is the end of the log as far as the cursor has come: whatever  *)
(* calls were aborted, cut off, repeated or answered late, it has no hole, *)
(* nothing twice, and nothing older than it has room for (useBusFeed).     *)
FeedHasNoHoles ==
    /\ cursor <= events
    /\ feed = {n \in 1..cursor : n + FeedMax > cursor}

(* A tab that is left in view shows the whole log in the end, if its       *)
(* daemon is up: aborting one's own calls, each time with an error and a   *)
(* further tick, does not go on forever, as the backoff grows beyond what  *)
(* an answer takes (usePoll).                                              *)
PollCatchesUp ==
    <>[](visible /\ daemonIs = "up")
        => <>[](cursor = events /\ ~failing)
=============================================================================
