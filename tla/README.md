# OpenBurrow, specified

OpenBurrow runs several coding agents ("lanes") on one repository. A daemon per
repository starts the agents, supervises them, lets them talk over A2A and
negotiate over ACP, and writes everything that happens to an append-only log. A
relay carries the log's events between the daemons of a team.

This directory holds TLA+ models of the parts of that system where order and
failure matter, the TLC instances they are checked on, and proofs, checked by
TLAPS, of what holds for every value of the constants. Paths below are relative
to the repository's root; `daemon/bus.py` stands for
`packages/openburrow-daemon/src/openburrow/daemon/bus.py`, and so on for the
other packages.

    tlc -workers 2 -config EventBusDelivery.cfg MCEventBus # a run
    tlapm RelayHubProofs.tla                               # a proof module

## 1. Inventory

Everything in a daemon runs as coroutines of one event loop: what is between two
`await`s is atomic, and everything else interleaves. Several components keep an
object in memory *and* a row of SQLite; the two disagree between the assignment
and the commit. Harnesses (the agents) are processes of their own that outlive
the daemon. The relay is one process with the same kind of loop, and a database.

| component | state | operations | talks to | hard |
|---|---|---|---|---|
| event bus, log (`daemon/bus.py`, `core/db/repository.py`) | `bus_events`, bounded queue per subscription | emit, publish, subscribe, listen, tail | everything emits; CLI, TUI and dashboard read the rows from other processes | await between check, insert, commit and fan-out; full queues; the write lock; readers that remember a number |
| lanes (`daemon/sessions.py`, `daemon/recovery.py`) | running map, lane row, harness process, dead letters | start_lane, stop_lane, close_session, _supervise, requeue_orphans | adapters start processes; task rows; bus | one supervisor over a snapshot, with sleeps in it; users stop the same lanes; the daemon dies and the processes do not |
| sessions (`daemon/sessions.py`) | an object remembered, a row, ports | create_session, get_session, start_lane, close_session | lanes, rows | two objects of one session, written whole; a port chosen long before it is taken |
| lane output (`daemon/sessions.py`, `adapters/base.py`) | terminal, read queue, assembler buffer | reader thread, `_pump_output` | log | a thread beside the loop; a harness that dies in the middle of a line; a stop in between |
| checkpoints (`daemon/recovery.py`) | checkpoint rows | take, resume_session | starts lanes again | every interval leaves one, resume respawns for each |
| daemon process (`daemon/server.py`) | pid file, socket, shutdown task | start, stop with drain | owns all the above | several processes look before they write; requests in flight against the stop sequence |
| control plane (`daemon/ipc.py`) | connections, their tasks, read buffers | serve, call, stream, stop | CLI and handlers | a parked reader and the callbacks that wake it; tasks cancelled half-way |
| command handlers (`daemon/handlers.py`) | plan, claim, brain, lesson rows | ~60 IPC methods | read-modify-write of rows | two handlers on one row |
| relay client (`daemon/relay_client.py`) | bounded outbound deque | offer, send loop, reconnection | bus and relay | a batch in flight when the connection breaks |
| relay hub (`relay/hub.py`) | connections of a room, a bounded queue each | admit, publish, writer, release | routes publish into it | drops, evictions and notices in one queue |
| relay store, routes (`relay/store.py`, `relay/routes.py`) | event, invite, member, document rows | append_events, latest_seqs, redeem, event socket, doc socket | hub | hello against store and fan-out; overlapping batches; last use of an invite |
| shared document (`relay/routes.py`, `apps/web/src/lib/yjs.ts`) | last update, documents of the clients | hello, update, reconnect | hub | one update kept, frames dropped, edits made while offline |
| A2A tasks (`a2a/lifecycle/manager.py`, `core/models/task.py`) | task objects and rows | submit, start, complete, fail, cancel, retry, enforce_timeouts | bus, lane server | a list loaded before an await and saved after |
| A2A messages (`a2a/server`, `a2a/client`) | posts in flight, log rows | send_message, message/send | log, harness | a retry of a post that was already delivered |
| ACP negotiation (`acp/negotiation.py`) | exchanges, rounds | offer, answer, escalate | two lanes, A2A | must end although both keep countering or fail |
| delegation ledger (`governance/ledger.py`) | delegation rows | authorize, revoke | audit | chains of any length |
| brain, lessons (`brain/`) | entries, lessons | promote, corroborate, inject, evict | sessions | objects read in one transaction and written in another |
| radar (`radar/`, radar commands) | intents, announced conflicts | set intents, scan, announce | judge (a model call), log | remembered before it is announced; intents change while the judge thinks |
| dashboard feed (`apps/web/src/lib/use-poll.ts`) | timer, backoff, call in flight, cursor, feed | tick, answer, failure, refresh, tab shown or hidden | route handlers and `bus.tail` | a poll that aborts its own calls; a daemon that stalls or dies; pages late, lost or repeated |
| relay limits, tokens, policy, detectors, reel, models, CLI, TUI, notifications, scripts | – | – | – | pure functions, I/O and formatting |

What makes each of them correct:

- *Log*: it only grows, at its end; a reader that continues above the largest
  number it has read misses nothing; nothing is delivered that is not in it;
  whatever a subscriber did not get is accounted for.
- *Lanes*: a dead harness is restarted or given up and never more often than the
  policy says; a running lane is never taken for an orphan; a row that says
  "live" for a lane nobody runs is corrected; a stopped lane is down.
- *Relay*: no client gets an event twice; a client that lost something is told,
  and what it is told is enough to recover; nothing falls between the hello and
  the stream.
- *Tasks*: a terminal task stays terminal.
- *Messages*: one that is posted again is logged and injected once.
- *Negotiation*: it ends, with an agreement, a withdrawal or an escalation the
  session hears of, and keeps the protocol on the way.
- *Ledger*: no chain of delegations holds more authority than any link of it.
- *Plan, claims*: a plan can be run in its order; a step is not taken from its
  owner unknowingly; two lanes hold the same file only where nobody could tell.
- *Brain, lessons*: belief rests on independent reports, eviction on deliveries.
- *Radar*: lanes known to collide have been told so.
- *Relay client*: it repeats and reorders nothing, and its backlog goes out.
- *Rooms*: no more members than the invites allow, with the roles they give; two
  connected clients of a document differ only by what was dropped or is old.
- *Recovery*: a checkpoint is not applied again after a crash, a lane is not taken
  back to an older one than it had, and one failure does not stop the rest.
- *Sessions*: what was done without overlap stays done.
- *Output*: what a harness printed is in the log, each unit once and in order.
- *Process*: one daemon serves a repository; asked to stop, it stops, drains, and
  leaves no client waiting.

`PROJECT.json` lists every component with what is and is not modelled of it, and
the hazards of the code, each at its line with the property that covers it.

## 2. Plan

Done, in this order:

1. `EventBus`, the log everything else relies on, and its abstract specification
   `AppendOnlyLog`; `LaneSupervision`, the daemon's main loop; `RelayHub`, the
   relay's fan-out and its store of events; `SessionRecovery`, checkpoints and
   resume.
2. What the commands keep in the database: `PlanBoard`, `ResourceClaims`,
   `KnowledgeBase`, `LessonBook`, `DelegationLedger`, and then `MergeRadar` and
   `SharedDoc`, composed in `MCWorkspace`; `TaskLifecycle`, which
   shares the run of the bus (`MCEventBus`).
3. The daemon as a process among others: `DaemonLifecycle`, `RelayClient` with its
   abstract specification `LossyChannel`, `Negotiation`, `InboundMessages`,
   `LaneOutput`, `ControlPlane`, `WebPoll`, composed in `MCService`.
4. `SessionRegistry` beside `SessionRecovery`, `RelayRooms` beside `RelayHub`
   (`MCRelay`), and what must eventually happen to the log and to a lane
   (`MCProgress`).

Left, by what it would add:

- the file watcher's batches against a stop (`daemon/filewatch.py`), the relay's
  token buckets, and the policy gate's precedence of rules as a pure function.

Every module is written without RECURSIVE operators and with named assumptions on
its constants, so that it can be proved about.

## 3. Modules

### EventBus, AppendOnlyLog

| model | code |
|---|---|
| `rows` | committed rows of `bus_events`; their number is SQLite's rowid |
| `pc`, `event`, `seqOf` | where each coroutine is in `emit`, with what |
| `writeLock` | SQLite's write lock, from the flush of an INSERT to the commit |
| `active`, `filter`, `queue`, `missed` | `Subscription` objects; `missed` refines the `dropped` counter |
| `cursor`, `read` | a process polling `bus.tail` by the largest number it has |
| `CheckDuplicate`, `Insert`, `LockTimeout`, `Commit`, `Publish` | `BusEventLog.append`, `EventBus.emit`, `publish` – one action per stretch between awaits |
| `Cancel`, `Crash` | a cancelled task's rollback; the daemon's death |
| `Subscribe`, `Consume`, `Unsubscribe` | `subscribe`, `listen` |

`before` and `unpublished` are history variables. An event is the four fields
the code branches on; payloads are left out. `AppendOnlyLog` has one variable and
one action, appending rows above all earlier ones; `EventBus` implements it under
the identity (`LogSpec`).

### LaneSupervision

A lane is an entry of the running map (`running`), a process (`alive`), the
status of an object (`status`) and a row (`row`, with the `age` of its last sign
of life). `start_lane` is `Spawn`, `Register`, `SaveStarted`, `Attach`, with
`SpawnDenied`, `SpawnFails` and `StartFails` as its ways out. `stop_lane` pops
the lane in the step of whoever calls it (`UserStop`, `CloseStops`,
`CheckBudget`, `Reap`) and goes on with `Kill`, `SaveStopped` or `StopFails`.
`close_session` is `CloseBegins`, `CloseStops`, `CloseContinues`. The supervisor
is one process: `Wake` takes the snapshot, `CheckLane` beats a heart or finds a
dead harness, which leads to `GiveUp` or to `CountRestart`, `BackOff`, `Restart`,
`SaveRestarted`; `DetectOrphans`, `Reap`, `Release` and `ReapingDone` are
`requeue_orphans`; `PassFails` is the exception its loop logs. `Crash` empties the
memory and leaves rows and processes.

Time is counted in intervals of the supervisor and passes only while it sleeps.
The content of policies, prompts, the output pump and checkpoints are left out.

### RelayHub

`stored` is the room's rows, `conn[c]` the record the hub keeps of a connection
(queue, `lagged`, `noticed`, `seen` = `last_seq`), its writer and the frame it
awaits, and four history fields: what was offered to it, published by it, lost
on the way to it, and told to it. A notice carries, as history, the losses it was
written after. `Admit`, `Hello`, `Close` are the socket's route; `Publish` is
`append_events` for a socket or the HTTP route; `FanOut` is `hub.publish` for one
row, in a stretch no one else interrupts (`fanning`); `Take`, `Sent`, `SendFails`
are the writer; `Restart` is the relay's death. The operators `Noted`,
`NoticeInRoom`, `Overflow`, `Enqueued`, `Taken` and `SentOff` are the hub's
methods as functions from a connection to the connection after.

Left out: the drop counter (it misses the frame the writer replaces by a notice,
`relay/hub.py:325-328`), document sockets, the resume and tail routes (they change
nothing), rate limits, pruning, and a commit whose answer is lost.

### SessionRecovery

`checkpoints` is the table's rows in the order of their commits: lane, number,
whether the checksum still fits, and in which life of the daemon the row was
marked used. `TakeBegins`, `TakeCommits`, `TakeFails` are the supervisor's
`take_checkpoint`. A request's `resume[r]` holds the rows it loaded (`listed`),
those it has still to try (`todo`) and the one at hand: `ResumeBegins` loads,
`Skip` is both `continue`s before the save, `Consume` commits `consumed_at`,
`Respawn` and `Respawned` are `start_lane` from its beginning to its three ends,
`RespawnFails` the exception, `ResumeRaises` every error the loop does not catch,
`ResumeReturns` the end, which opens the session again. `rows` are the lanes that
have a row, so that `get_lane` can fail: a lane whose start raised after it was
registered runs, may leave checkpoints, and is lost with a crash. `origin` and
`born` are history, and so is `contended`: two requests have been at work (`AtWork`)
at once since none was. `CloseSession` is the end of `close_session`; its stops are
`StopLane` steps.

Left out: what a checkpoint says of the harness. `resume_session` reports it as
applied (`daemon/recovery.py:396`) and does not pass it to `start_lane`.

### SessionRegistry

`object[r]` is the session object that request `r` created or loaded by name,
`remembered` the one in `_sessions`, `sessionRow` the row. A request by id works
on the remembered object (`Recall`), a request by name loads another, which is
remembered from then on (`LoadSession`, `RememberLoaded`). `Spawn` to `Attach` is
`start_lane` with the port it chooses from the running map and takes later;
`EndCreation` is `create_session`'s last write; `ListLanes`, `StopListed` and
`MarkClosed` are `close_session`. `MakePlan` is `plan_generate` and `plan_add_step`
(`daemon/handlers.py:354`, `385`), which write the session back with its plan, and
`OnlyLook` every command that asks for the session, which may load it, and writes
nothing. `PortIsTaken` ends the process, as uvicorn does. `overlapped` is history. One
more writer of whole sessions is left out: resume, which opens a closed session
(`daemon/recovery.py:431`).

### DaemonLifecycle, ControlPlane

`DaemonLifecycle` has several processes: `stage[d]` is how far each is, `pidfile`
and `socket` whose they are. `CheckPid` to `Bind` is the start, each look and each
write apart; `BeginShutdown` is the signal or the request, which creates a task
nobody awaits, and `SupervisorGone` to `DatabaseClosed` what that task awaits one
after the other. `MainReturns` is `serve_forever` returning on the stop event,
upon which `asyncio.run` cancels the task where it is (`Swallows`, `Aborts`).

`ControlPlane` is one such process' IPC server and its clients over named pipes.
Each end of a pipe has the code's `_PipeConnection`: `buffer`, `eof`, `closed` and
a `waiter` that `DataReceived`, `EofReceived` and `CloseEnds` wake; `Park` is
`readline` finding nothing. `task[c]` is the server's task for a connection, from
`ServerMade` (`connection_made`) over `TaskBegins` to `TaskOver`. `StopServer`
closes the connections that were entered and cancels all tasks, `TaskCancelled` is
what becomes of each, and `StopListening` what follows when all have ended.
`belated` is history: clients whose connection had no running task when the stop
began.

### RelayClient, LossyChannel

`outbound` is the client's deque, `batch` what the send loop took from it, `link`
what the task does. `Break`, `Gone` and `Redial` are the connection lost with or
without its batch delivered, and the backoff. `ToRelay` and `Accepts` are the field
names both sides use. `LossyChannel` promises that nothing comes out twice or out
of order; the client implements it with `transit` the events it still has.

### Negotiation, InboundMessages

`Negotiation` is one run of the ACP driver under the offer command: `OpeningDelivered`,
`Answers` or `AnswersIllegally` or `Declines`, `ReplyDelivered`, `SessionTold`,
`Saved`, and `Raises` for an exception at any await. What a lane answers is any
move; bodies are kept as far as `_is_stuck` compares them (`SaidAgain`).

`InboundMessages` is `PeerClient.send_message` with its retries and deadline
(`Post`, `Broken`, `Deadline`, `Answer`), and per post the receiving lane's handler:
`LookUp` and `Insert` are `append`, `InjectMessage` is `_on_inbound`. A post that
broke may be handled all the same.

### LaneOutput

The harness prints numbered pieces into `terminal`, some of which end a line
(`lineEnds`); `thread` is the reader thread, `handed` the queue it fills, `rest`
the assembler's buffer and `units` what the pump has still to emit, cut into units
by `LastEnd` and `FirstUnit`: a line each, or what is buffered of one that outgrew
`MaxBuffer`. `TakeEnd` is the assembler's `flush`. `logged` is what the log has, unit
by unit, and `muted` why the pump emits no more. A read of the terminal waits for
output or for the end, as ptyprocess does. The pump is made once for a lane: a harness the supervisor
restarts prints to a terminal that nobody reads, so it has no action here.

### WebPoll

`usePoll` with the bus feed on it. `timer` is the one timer, `call` the request in
flight with its age and, once `ServeTail` has read the rows, its page. `PollTick`
aborts the call it finds. `lib/api.ts` turns any rejected fetch into a retryable
error, so the tick that aborted it also hears of it as a failure (`Failed`), unless
the answer had begun to arrive. Time is whole seconds; `CallMayWait` says how long
a call takes at most, by what the daemon is doing. `EveryoneCatchesUp` in
`MCService` joins its liveness with that of the relay client and of `LaneOutput`
(`PrintedIsHeard`), `EverythingEnds` that of `Negotiation` (`OfferEnds`),
`DaemonLifecycle` and `ControlPlane`.

### PlanBoard, ResourceClaims, KnowledgeBase, LessonBook

Commands that read in one transaction and write in a later one. In `PlanBoard`
`command[c]` is the copy of plan and steps a command holds: `ReadPlan` and
`ReadSteps` fill it, `AddStep`, `RemoveStep`, `Take`, `HandOff`, `Generate` change
it and write it back whole. In `ResourceClaims` `saw[c]` is what the conflict check
of a command found; `Record`, `Override`, `Release` and `List` write. In
`KnowledgeBase` and `LessonBook` `pending` and `writes` are what an operation has
decided to save; `Store` and `StoreLesson` save one of it, over whatever has come
in between. Confidence is kept as the few levels the code compares.

### DelegationLedger, TaskLifecycle

`delegation[d]` is a row with scope, depth and chain. `Narrow` is
`AuthorityScope.narrow`, `Base` the lane's own scope, `Grants` what `authorize`
records of a request. Capabilities and patterns are values related by `Covers`.
`TaskLifecycle` has the object each caller holds, and `row[t]`, what the manager's
database session has of a task. `Targets` is the table of transitions, which is
consulted on the object and not on the row. That session is made in
`daemon/sessions.py:159-172` and outlives its context; `Repository.save` only flushes,
and nothing commits. So `row` is what the manager's own reads find, and no more:
`DaemonDies` loses it all, and `SaveFails` too, since a flush that raises rolls the
session back, which then refuses every call (`usable`) until the daemon is started
again. `stage` is where a caller is in `retry`, which goes on after others had their
turn (`Retry`, `Resubmit`, `SaveAgain`) or does not (`RetryEnds`). `_emit` has no step:
it opens a session of its own and finds SQLite's write lock taken by the first, so
that it fails after the busy timeout and `_emit` swallows the error; it changes no
task either way.

### MergeRadar

`intents` and `announced` are the one radar's dictionaries, `scan[r]` a request:
`ReadRecords` reads rows, `Refresh` sets intents, `LookAt` and `Verdict` are
`predict` without and with a pause for the judge, `Announce` emits one conflict.
`said`, `swallowed` and `looked` are history. An intent is a set of files.

### RelayRooms, SharedDoc

`RelayRooms` is `redeem_invite` and the token route: `LockInvite` (SELECT FOR
UPDATE, which Postgres, the only database the relay accepts, honours), `CountUse`,
then in another transaction `FindMember`, `InsertMember` or `RaiseMember`, and
`IssueToken`. `SharedDoc` takes a document for the set of edits it holds: `doc[c]`
are the clients', `snapshot` the one update the relay keeps. `Join`, `SendHello`,
`TakeHello` are a connection, `SaveUpdate`, `PassOn`, `PublishEdit` the update
route, `WriteFrame`, `FrameWritten`, `FrameLost` the writer of the hub. `mayMiss`
is history: edits no later frame will bring to a client.

### MC modules

`MCEventBus`, `MCLaneSupervision`, `MCRelayHub` and `MCSessionRecovery` declare model
values and symmetry sets. The first, which has `TaskLifecycle` beside the bus, the
last, which has `SessionRegistry`, and `MCWorkspace`, `MCService`, `MCRelay` and
`MCProgress` each hold several components that share no state. Their interleavings would add nothing but states, so a variable `part`,
chosen at the start, says which component moves while the others rest, and what a
run shows it shows of each. Symmetry is used in runs that check safety alone.
Operators whose comment starts with *Mutant* are not part of a specification: each
is a step with a likely mistake in it, kept to show that a property notices.

## 4. Runs

| run | instance | checks | shows |
|---|---|---|---|
| `bus_fanout` | 2 emitters, 2 subscriptions, queue of 1, 3 rows; 2 callers and 2 tasks | `PersistedBeforeDelivered`, `LossAccounted`, `FinishedUnlessStale` | nothing is delivered that the log does not hold or twice; every wanted event is delivered or counted, also under cancellation and crash; a finished task changes only through an object from before, across retries, failed saves and deaths of the daemon |
| `lanes` | 2 lanes, 1 restart, idle timeout 3, 1 fault or 1 crash | `HealthyLaneNotReaped`, `DeadLetterIsFinal` | a running lane is not taken for an orphan; a lane given up stays given up |
| `progress` | 2 emitters, 1 reader, 2 sessions, page of 1; 1 lane, 2 faults, 1 crash | `TailComplete`, `LogSpec`, `LogProceeds`, `LanesSettle` | the log is an append-only log, a poller misses nothing and catches up; dead harnesses and orphaned rows are dealt with, close returns |
| `relay` | 1 client and the HTTP route, queue of 2, 4 events, batches of 2; 3 redemptions of 2 invites by 2 callers | `RelayTypeOK`, `NoticeOnItsWay`, `OfferedOnce`, `NoGapAtHello`, `NoticeArrives`, `AdmittedAsInvited` | whatever is dropped, evicted or replaced, a notice is under way and arrives; no event is offered twice, none falls between hello and stream; invites let in whom they may |
| `recovery` | 3 lanes, 2 requests, 2 checkpoints, 2 lives of the daemon; 3 session requests | `SequenceIsAge`, `AppliedInOneLife`, `NeverBackAlone`, `RestAttempted`, `LostOnlyByOverlap` | resumes that fail and are cut short by a crash neither repeat nor forget, and step back only while two are at work at once; session requests lose only to overlap |
| `workspace` | 2 commands at a time on each of plan, claims (3), brain, lessons; 3 delegations; 3 radar requests on 2 lanes; 2 clients of a document with 1 edit and a queue of 1 | `WorkspaceTypeOK`, `DependenciesFirst`, `LostOnlyToStaleCopy`, `OverlapExplained`, `CorroborationIsIndependent`, `EvictedOnEvidence`, `AuthorityNarrows`, `KnownCollisionSaid`, `MissingIsOldOrDropped` | what concurrent commands may and may not do to each other's data |
| `service` | client queue of 2, 5 offers, 2 breaks; cap of 5 moves; 2 daemon processes; 1 message with 2 retries; 4 pieces of output, a terminal of 2 and a buffer of 1; 1 IPC client, streams of 2 chunks; pages and a feed of 2 of 4 events, 2 troubles | `ServiceTypeOK`, `ChannelToRelay`, `EveryoneCatchesUp`, `ExchangesSound`, `EverythingEnds`, `OneDaemonUnlessRaced`, `DeliveredOnceUnlessRaced`, `LoggedInOrder`, `WokenAndReleased`, `FeedHasNoHoles` | the daemon's outside: relay client, negotiation, processes, messages, output, control plane, the dashboard's feed |

Five runs check what a comment or a docstring says and find it false. Each has a
finding in `PROJECT.json`.

| run | claim | what happens |
|---|---|---|
| `lanes_stop` | `daemon/sessions.py:11`: a stopped lane's harness is torn down | the pass over the snapshot finds the stopped lane "crashed" and starts it again, outside the running map |
| `lanes_tasks` | `daemon/recovery.py:529-534`: a dead lane's tasks return to the pool | the row becomes terminal in one transaction, the tasks are released in the next; if that fails, no pass finds the lane again |
| `relay_resume` | `relay/hub.py:70-71`: the lag notice says exactly where to resume | the sequence number is noted before the queue is tried, so the resume point covers what was dropped |
| `relay_bridge` | `daemon/relay_client.py:5-7`: every persisted event is published to the room | client and relay name the fields of an event differently, and the relay rejects every one |
| `shutdown_drain` | `daemon/server.py:18-19`: shutdown drains, flushes, then exits | the stop event is set before the drain; the main coroutine returns on it and the drain is cancelled |

Properties that end in *Unless* or *Only* name the one way the code leaves open;
the run shows that there is no other. They are the exact form of what fails:

- `LostOnlyToStaleCopy`, `FinishedUnlessStale`: a command that read before another
  wrote undoes what the other wrote.
- `OverlapExplained`: two claims may be checked before either is written, and an
  override that finds several holders releases one (`daemon/handlers.py:188`).
- `NeverBackAlone`: of two resumes at work at once each has the list it loaded, so the
  slower one starts a lane from a checkpoint that the faster one is already past.
- `StoppedIsOver`, a part of `WokenAndReleased`: a connection whose task had not begun is not closed by the stop.
- `OneDaemonUnlessRaced`: two processes may look before either writes its pid.
- `DeliveredOnceUnlessRaced`: of two posts of a message looked up together, both
  are inserted (`core/db/repository.py:603-605` says a repeated hash is rejected).
- `LostOnlyByOverlap`: a lane started by name while another request works on an
  older object of the session is missing from the row that is written last, and a
  close may be overwritten.
- `AdmittedAsInvited`: two redemptions by one caller that cross may lower a role
  (the docstring of `upsert_member` says that changes only elevate).
- `MissingIsOldOrDropped`: the relay keeps one update, not the document, so whoever
  joins later learns older edits only from clients that reconnect.
- `KnownCollisionSaid`: a scan whose emit fails has marked the conflicts it did not
  get to as announced.

Other disagreements seen while modelling, which no run is about: a full queue can
drop an event below the last one a subscriber saw, so that it cannot recover from
its last seen number (`daemon/bus.py:6-8`); a resume starts a lane from every
unused checkpoint, oldest first, and not from the latest (`daemon/recovery.py:318`);
a docstring has task row and event in one transaction, so that row and log agree
(`a2a/lifecycle/manager.py:13-15`), but the row is flushed to a session nobody commits,
whose write lock keeps the log and every other writer out until the daemon dies, and
`request_input` (`manager.py:172`) does not save the task at all (`TaskLifecycle` follows
the code here, and no property is about it);
a candidate that names no lane raises an entry enough to be injected
(`brain/store.py:295`), and two lanes that corroborate what a person confirmed
lower its confidence; the pump is made once in `start_lane`, so that a restarted
harness is never read, although `adapters/base.py:761` has one pump per lane, and
one failed emit mutes a lane for good; a retried message that was delivered is
answered with an error; a stream cut by a stopping daemon ends without one; a
connection task cancelled before it first ran never closes its connection.

**Bounds.** Three rows are the least with a row dropped between two delivered
ones; a page of one makes every catch-up take several polls. In `lanes` the idle
timeout of 3 is tight: with 2, one backoff and one failed heartbeat already make a
running lane look dead, so the run is at the edge and not far inside it. Two lanes
are enough for one lane's backoff to delay another's heartbeat, and one fault for
a heartbeat to be lost. Its constraint `OneTrouble` keeps a fault and a crash, and
either and a close, out of the same behaviour, and restarts out of one with a
crash: `progress` has them together for one lane. Without the constraint the run
takes more than five minutes (13.8 million states), and also finds no error. `relay` needs a queue of two (a notice and an event)
and four events so that a drop can fall behind a notice already queued; the HTTP
route and the client's own batches are the two publishers that overlap; three
redemptions of an invite for two and an invite for one are the least in which one
is too many and two of one caller cross. In `recovery` two checkpoints are the
least with an older and a newer one, three lane ids let each of the two be resumed
into a lane of its own, two lives give a resume before and one after the crash, and
two requests overlap; three session requests are a create, a start and a close, or
any other three of those and the making of a plan. In `workspace` two commands are the least that overlap, three
claims the least with two holders and an override, two reporters the least that
corroborate, three delegations a chain of two links and one beside it, three scans
with `ReannounceAfter` 2 the least in which a conflict comes up again. In `service`
five offers fill the queue twice over, a cap of five moves reaches every ending of
the driver, two daemons race, three posts of a message are two retries; four pieces
over a terminal of two leave some unread and some to come, and with a buffer of one
both a line of two pieces and a line that outgrows it occur; and connections do not
interact, so one client is enough for `ControlPlane`. In `bus_fanout` two
callers are the least of which one holds what the other has changed, and two tasks a
task and its retry.
Four events overflow a page and a feed of two; a backoff of one second is shorter
than an answer, one of four longer.
Counters are bounded by `MaxEvents`, `MaxFaults`, `MaxCrashes`, `MaxSeq`,
`BatchSize`, `MaxCheckpoints`, `MaxLives`, `MaxVersion`, `MaxInjections`, `SentMax`,
`MaxOffers`, `MaxBreaks`, `MaxPieces`, `MaxChunks` and `MaxTroubles`; ages saturate at
`AgeCap`, one above the largest value anything compares them with. Deadlock is checked
in `bus_fanout`, `lanes`, `progress` and `recovery`; in the others a component may
really be done: an exchange ends, a client is stopped, an invite is used up.

**Fairness.** All of it is weak. The event loop resumes a coroutine whose await is
over, so steps inside `emit`, `start_lane`, `stop_lane`, `close_session`, the
supervisor and the writers are fair. SQLite's busy timeout (`core/db/engine.py:66`)
ends every wait for the lock, one way or the other; a send ends within
`SEND_TIMEOUT_S`. Pollers poll on a timer. The relay client dials for ever, with a
backoff, and the dashboard's timers fire; the driver of a negotiation goes on or
raises; the shutdown task goes on,
is cancelled, or the process exits. The reader thread, the pump and the connection
tasks run when they can; a handler of a request takes as long as it likes. Nobody is
obliged to emit, subscribe, start or stop a lane, close a session, publish, connect,
ask, print, or bring a crashed daemon back; faults and deaths are never fair. Where
liveness depends on the daemon living or the writer not failing, the property says
so. In the composed modules only one part moves, so one condition over the parts
says what one condition each would.

## 5. Proofs

What is proved holds for any number of emitters, subscriptions, readers, lanes,
connections, commands and processes, and any bounds satisfying the modules' named
assumptions; `HealthySpared` alone has a further hypothesis, `TimeoutIsAmple`. Every
invariant, action property and refinement that a passing run checks is a theorem, the
type invariants of the composed modules (`RelayTyped`, `WorkspaceTyped`,
`ServiceTyped`) among them. These hold because each step of the composition is a step
of one component and a stutter of the others (`RelayMoves`, `WorkspaceParts`,
`ServiceMoves`). No invariant is inductive alone:

- `EventBusProofs`. `LogOrder`: whoever has inserted holds the write lock, its
  number is above every committed one, and numbers identify rows. From it:
  `Ordered`, `Refines` (each step maps to an append or a stutter), and with
  `CursorAtRow` (a cursor stands at a row or before the first),
  `PollingLosesNothing`. Deliveries rest on `PublishedOnce`: what a committed
  emitter is about to publish is a row, is about to be published by nobody else,
  and has been handed to no one. That gives `PersistedFirst` and `NoSilentLoss`.
- `LaneSupervisionProofs`. `IInv` = the type invariant; `UnusedIsUnknown`, nothing
  knows of a lane nobody started; `RestartsCounted`, the processes started for a
  lane, with the one the supervisor has counted and not yet started, are at most
  one more than its restarts; `DeadIsExhausted`, a dead-lettered lane has no
  restarts left and none is under way. `RestartBound` and `DeadLetters` follow,
  whatever the bounds on faults and crashes. `HealthySpared` counts time: a pass of
  the supervisor looks at each lane once, and only an error of it or the backoff of
  another lane delays the look, so (`Punctual`) a running lane's age is at most the
  time of a start plus the errors so far and the restarts of the other lanes, and one
  more interval while a pass has not reached it. `TimeoutIsAmple` says the idle
  timeout is no less than the sum of these at their bounds, and is the exact
  condition on the checked instance: its `IdleTimeout = 3` is the least ample value,
  and with 2 TLC finds `HealthyLaneNotReaped` violated.
- `RelayHubProofs`. `RoomInv` says of each connection whose writer lives that
  every untold loss is in a notice under way or the connection is lagged with a
  frame in its queue (`Telling`), and that a remembered loss behind a queued
  notice has two frames in the queue, so that the writer comes by again after the
  notice (`Reminded`). `Placed` says that pending and offered events are stored.
  `LaggedClientIsTold` needs a queue of at least two frames (`SizesPositive`): in a
  queue of one the notice is the only frame, and a loss behind it waits for the
  next event. `HelloLeavesNoGap` needs that a set of numbers bounded by `MaxSeq`
  has a largest member, proved from the well-foundedness of `<`. For the rooms,
  `OneLock` (who holds an invite's row holds it alone, and the invite has a use left),
  `UsesCounted` (the admissions past the count are no more than the uses stored, and
  these no more than the invite allows), `RolesGiven` and `HighestKept` (a member's
  role and token are those of an invite the member joined with, and the role the
  highest, unless two of the member's requests crossed) give `InvitesHonoured`.
  `RelayTyped` joins `RoomInv` and `RedeemInv`.
- `SessionRecoveryProofs`. `Numbered` bounds every number by the count of rows and
  puts the number being taken above its lane's (`AgeKnown`). `UsedInLife`: what a
  request has still to try was used in this life or not at all, since it was
  unused when loaded and the list does not outlive the daemon
  (`NotAppliedAgain`). `Worked`: what a request has loaded is still to try or
  settled, and before each row it has still to try, the older ones of that lane
  are too; settled means used, damaged, or of a lane that is neither running nor
  in the table, which lasts (`SettledStays`) because a lane with checkpoints ran
  once (`CheckpointsOfRan`) and no lane starts twice. An empty list then gives
  `ResumeComplete`. With `SequenceIsAge`, the order of the list gives `OlderAreUsed`:
  once a checkpoint is used, the older ones of its lane are used or damaged. So the
  list of a request that begins while no other is at work has nothing older than what
  lanes were started from, and as long as it is alone that stays so of what it has
  still to try and of what it is about to start (`Ahead`): `NoStepBack`.
  `OverlapAlone`, for the registry, rests on `RegistryInv`: two calls in progress
  are both counted as overlapping (`OverlapSeen`); a call that works alone holds the
  object that is remembered (`WorksOnRemembered`); every copy of the session that may
  yet be read or written, in use or on its way to the row, knows what was done
  alone (`Known`); a close has the lanes started alone before it on its list
  (`StoppedByClose`); and the port a call alone chose stays free (`PortIsFree`: one is
  free by cardinality, and a set of naturals has a least member).
- `PlanBoardProofs`. `PlanInv` says of the rows and of every copy a command holds
  that orders fill the places before them and what a step depends on comes earlier
  in the same plan; a copy may be old, but since rows are never deleted it names
  nothing that is gone (`CopyWritable`), so writing it back keeps that of the rows
  (`PlanRunnable`). `OwnerKept` follows step by step.
- `DelegationLedgerProofs`. `ChainIsAncestry` with `LinksRecorded` (a chain's links
  are rows, and each has the prefix before it for its own chain) is inductive; with
  `NarrowNarrows`, that a narrowed scope allows only what both allow,
  `AuthorityOnlyNarrows` goes down the chain one link at a time.
- `WorkspaceProofs`. `ClaimHistory`: what a command saw was active and has since at
  most been settled, and a claim recorded over others was forced, with one of the
  others settled (`OverlapsExplained`). `KnowledgeInv`:
  not only the rows but everything an operation has decided to write is backed by
  a person or two reports (`Backed`), which no later report takes away
  (`IndependentCorroboration`). `LessonInv`, the same way, with deliveries never
  fewer than any copy's count (`EvictionHasEvidence`), and `SpreadInv`
  (`WideNeedsTwo`). For tasks, `FinishedStays`
  follows from type correctness (`TasksTyped`).
  `CollisionsSaid`:
  a conflict the radar remembers is in the log, about to be put there or was
  lost with its request (`RememberedIsSaid`), and a scan that looked at two lanes
  sharing files leaves their conflict remembered, from then or not long before
  (`LooksAreRemembered`). `NothingElseIsMissing`: what was relayed a client holds, is
  being sent, or may miss (`RelayedComes`), and what a writer holds was relayed or is
  on its way to the room (`HeldIsSent`). The type invariants say more than these
  need, and rest on invariants beside them: `LessonTallies` (reporters, deliveries
  and outcomes are counted within their bounds), `ScansBounded` (the radar counts a scan for each
  request that has begun one, of which there are finitely many, as the constants
  assume, and nothing was looked at after the last), `DocBounded` (queues of the
  document keep their bound). `WorkspaceTyped` joins them with those of the plan and
  the ledger, which this module extends.
- `ServiceProofs`. `OneHolder`: unless two processes have looked before either
  wrote, whoever starts or serves is in the pid file and nobody else is looking
  (`OneDaemon`). `LanesKnown`: a lane that runs during a shutdown is one the drain
  has still to stop, was started late, or outlasted the grace period
  (`NoLaneForgotten`). `NegotiationInv` adds to the transcript what
  the driver holds of it, the reply being delivered and whose turn it is
  (`TranscriptsLegal` and `ExchangesSettled`, together `ExchangesKept`). `InOrder`: what arrived, then the
  batch, then the queue are increasing; each step of the client is a step of the
  channel or a stutter (`ClientIsChannel`). `OnePostAtWork`: unless two
  posts of a message looked before either recorded it, one at most has found it new or
  is about to inject it, and then nothing is injected yet; `ToldIsLogged`: what the
  sender was told of is in the log (`DeliveredOnce`). `PageFollowsCursor`: the call
  under way asks from the tab's cursor, and its page is what follows that, without a
  hole (`FeedIsWhole`). `ControlInv`: besides that readers are woken, a stopping server
  has cancelled every task that had begun (`TasksAreReaped`) and waits for it
  (`StopWaits`); `NoLostWakeup` and `StopIsOver` follow, together `NobodyLeftBehind`. `OutputInv`: log, units,
  buffer, reads handed over and terminal are one run of consecutive pieces (`Flows`),
  units end where lines do (`UnitsWhole`), and a pump that runs has a thread that ends
  only when the harness is dead and its terminal empty (`PumpRuns`); so `OutputInOrder`. `EachPostCounts`: rows and injections
  of a message are no more than its posts that got so far, since a post that is
  still to be made was never handled (`MessagesTyped`). `ServiceInv` joins them all
  for `ServiceTyped`.

Only model-checked: every liveness property (`LogProceeds`, `LanesSettle`,
`NoticeArrives`, `EveryoneCatchesUp`, `EverythingEnds`), which tlapm cannot prove since it has no support for ENABLED.
Induction over data and RECURSIVE operators are out of the provers' reach as well;
the modules avoid both.

## 6. Not modelled

The components marked `not_modelled` in `PROJECT.json`: adapters' interpretation of
output, the sandbox, notifications, GitHub, model calls, CLI output and the
dashboard's viewer are I/O or formatting; policy and detectors are pure text
matching whose verdict appears as a choice (`SpawnDenied`, `SpawnFails`); reel reads
the log and writes files.

Of modelled components, what nothing in the repository reaches is left out: the
relay client's inbound side (the relay sends frames of type `event`, the client acts
on `publish`), `cancel_task` (no command submits a task, and it reads committed rows, among which
none is the manager's), approvals (nobody creates
one), `BrainDoc` in `brain/crdt.py` (nobody uses it), the radar's `remove_lane` (rows
are never removed), the circuit breaker's open and half-open states (`allow()` has no
caller). Within modules:

- `ResourceClaims` asks that overlap is mutual and of a resource with itself. Of
  globs with three stars in a row that does not hold.
- `DelegationLedger` asks that `Covers` is reflexive and transitive, as it is of the
  capabilities and patterns in use. Of patterns with three stars in a row it is not
  transitive, and a chain of such is not covered by `AuthorityNarrows`.
- `TaskLifecycle` has two callers take turns between awaits; two that wait for the one
  session at the same moment are refused by SQLAlchemy, which is a `SaveFails` at most.
  On a database other than SQLite the log would be written, ahead of rows that never
  are.
- `SharedDoc` has no limit of a frame's size, and no edits sent on a socket that is
  open and not yet greeted.
- `TaskLifecycle` has the state of a task alone: `block_on_input`, `complete` and `fail`
  set other fields of the object before `transition` refuses
  (`core/models/task.py:177`), and a later save of that object writes them.
- `WebPoll` has no limit of a page's size. A page above 8 MiB is refused as often as it
  is asked for (`apps/web/src/lib/daemon-bridge.ts:431`), and the feed stays there.
- `RelayClient` takes the return of `ws.send` for the arrival of the frame (`Sent`).
  A frame that the connection took and lost when it broke counts as arrived.
- `LaneOutput` reads a terminal whose read waits for output or the end. Where a read
  may return nothing (Windows), a harness that prints its last words and dies
  between such a read and the question whether it lives is not read to the end.
  With pipes in place of a terminal, standard error is never read.
- `ControlPlane` is over named pipes; over POSIX sockets the library reads, and
  `stop` does not cancel the handlers of requests.
- `RelayHub` has no commit whose answer is lost, `RelayRooms` no members removed;
  nothing prunes.
- The event streams for the dashboard, metrics and counters are left out everywhere.
