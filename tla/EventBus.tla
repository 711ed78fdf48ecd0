------------------------------- MODULE EventBus -------------------------------
(***************************************************************************)
(* The in-process event bus and the append-only log under it.              *)
(*                                                                         *)
(* EventBus.emit is a coroutine: it checks the log for a duplicate, inserts*)
(* a row, commits, and only then fans the event out.  Every await between  *)
(* those steps lets another coroutine run, so each is an action here.  The *)
(* insert takes the SQLite write lock and the commit releases it.          *)
(*                                                                         *)
(* Three kinds of reader consume events: subscriptions (bounded queues in  *)
(* the daemon's memory), and pollers of the log, in other processes, that  *)
(* remember the last sequence number they read.                            *)
(***************************************************************************)
EXTENDS Naturals, Sequences, FiniteSets

CONSTANTS
    Emitters,       \* coroutines that call emit
    Subscribers,    \* subscription slots
    Readers,        \* processes polling the log by sequence number
    Sessions,       \* session ids
    AnySession,     \* the empty session filter
    Types,          \* event types
    Hashes,         \* content hashes
    NoHash,         \* the empty content hash
    NoEmitter,      \* nobody holds the write lock
    QueueSize,      \* depth of a subscription queue
    TailPage,       \* rows a poll may return
    MaxEvents       \* bound: rows the model may create

ASSUME SizesPositive ==
    /\ QueueSize \in Nat \ {0}
    /\ TailPage \in Nat \ {0}
    /\ MaxEvents \in Nat

ASSUME MarkersDistinct ==
    /\ AnySession \notin Sessions
    /\ NoHash \notin Hashes
    /\ NoEmitter \notin Emitters

VARIABLES
    rows,           \* committed rows of bus_events
    pc,             \* where each emitter is in emit
    event,          \* the event each emitter is emitting
    seqOf,          \* the number its insert was given
    writeLock,      \* who holds the database's write lock
    active,         \* registered subscriptions
    filter,         \* session and type filter of each subscription
    queue,          \* numbers waiting in each subscription queue
    seen,           \* numbers each subscriber has been yielded, in order
    missed,         \* numbers dropped because the queue was full
    before,         \* history: numbers already committed at subscription
    unpublished,    \* history: rows whose emitter was cancelled before fan-out
    tailSession,    \* the session each reader follows
    cursor,         \* largest number each reader has read
    read            \* numbers each reader has read

emitVars == <<rows, pc, event, seqOf, writeLock>>
subVars  == <<active, filter, queue, seen, missed, before, unpublished>>
tailVars == <<tailSession, cursor, read>>
vars == <<emitVars, subVars, tailVars>>

-----------------------------------------------------------------------------
Events  == [session : Sessions, type : Types, hash : Hashes \cup {NoHash}]
Row     == [seq : Nat \ {0}, event : Events]
Filters == [session : Sessions \cup {AnySession}, types : SUBSET Types]

Seqs == {row.seq : row \in rows}

(* The largest member of a set of row numbers, 0 for the empty set (as the *)
(* only member of a set).                                                  *)
Largest(S) == {n \in S \cup {0} : \A m \in S : m <= n}

(* The duplicate check of BusEventLog.append.                              *)
IsDuplicate(ev) ==
    /\ ev.hash # NoHash
    /\ \E row \in rows : row.event.hash = ev.hash /\ row.event.session = ev.session

(* Subscription.matches: both filters must accept, an empty one accepts all*)
Matches(f, ev) ==
    /\ f.session \in {AnySession, ev.session}
    /\ f.types = {} \/ ev.type \in f.types

RangeOf(s) == {s[i] : i \in DOMAIN s}

InFlight == {e \in Emitters : pc[e] \in {"checked", "inserted"}}

-----------------------------------------------------------------------------
Init ==
    /\ rows = {}
    /\ pc = [e \in Emitters |-> "idle"]
    /\ \E ev \in Events : event = [e \in Emitters |-> ev]
    /\ seqOf = [e \in Emitters |-> 0]
    /\ writeLock = NoEmitter
    /\ active = {}
    /\ filter = [s \in Subscribers |-> [session |-> AnySession, types |-> {}]]
    /\ queue = [s \in Subscribers |-> <<>>]
    /\ seen = [s \in Subscribers |-> <<>>]
    /\ missed = [s \in Subscribers |-> {}]
    /\ before = [s \in Subscribers |-> {}]
    /\ unpublished = {}
    /\ tailSession \in [Readers -> Sessions]
    /\ cursor = [r \in Readers |-> 0]
    /\ read = [r \in Readers |-> {}]

-----------------------------------------------------------------------------
(* Mutants: what the steps below would be with a likely mistake in them.   *)

(* The first row of an empty table gets number 0.                          *)
InsertFromZero(e) ==
    /\ pc[e] = "checked" /\ writeLock = NoEmitter
    /\ writeLock' = e
    /\ \E last \in Largest(Seqs) : seqOf' = [seqOf EXCEPT ![e] = last]
    /\ pc' = [pc EXCEPT ![e] = "inserted"]
    /\ UNCHANGED <<rows, event, subVars, tailVars>>

(* Numbers come from a sequence object, and inserts do not exclude each    *)
(* other.                                                                  *)
InsertWithoutLock(e) ==
    /\ pc[e] = "checked"
    /\ seqOf' = [seqOf EXCEPT ![e] = 1 + Cardinality(rows)
                 + Cardinality({x \in Emitters : pc[x] = "inserted"})]
    /\ pc' = [pc EXCEPT ![e] = "inserted"]
    /\ UNCHANGED <<rows, event, writeLock, subVars, tailVars>>

(* No busy timeout: the INSERT waits for the lock as long as it takes.     *)
LockNeverTimesOut(e) ==
    /\ pc[e] = "checked" /\ writeLock = e
    /\ pc' = [pc EXCEPT ![e] = "idle"]
    /\ UNCHANGED <<rows, event, seqOf, writeLock, subVars, tailVars>>

(* A second event of the same session and hash replaces the first.         *)
CommitReplacing(e) ==
    /\ pc[e] = "inserted"
    /\ rows' = {row \in rows : row.event # event[e]}
                \cup {[seq |-> seqOf[e], event |-> event[e]]}
    /\ writeLock' = NoEmitter
    /\ pc' = [pc EXCEPT ![e] = "committed"]
    /\ UNCHANGED <<event, seqOf, subVars, tailVars>>

(* Fan out inside the transaction, before the commit.                      *)
PublishBeforeCommit(e) ==
    LET wants(s) == s \in active /\ Matches(filter[s], event[e])
        full(s)  == Len(queue[s]) >= QueueSize
    IN  /\ pc[e] = "inserted"
        /\ queue' = [s \in Subscribers |->
               IF wants(s) /\ ~full(s) THEN Append(queue[s], seqOf[e]) ELSE queue[s]]
        /\ missed' = missed
        /\ UNCHANGED <<emitVars, active, filter, seen, before, unpublished, tailVars>>

(* The first full queue ends the fan-out.                                  *)
PublishUntilFull(e) ==
    LET wants(s) == s \in active /\ Matches(filter[s], event[e])
        full(s)  == wants(s) /\ Len(queue[s]) >= QueueSize
        stops    == \E s \in Subscribers : full(s)
    IN  /\ pc[e] = "committed"
        /\ queue' = [s \in Subscribers |->
               IF wants(s) /\ ~stops THEN Append(queue[s], seqOf[e]) ELSE queue[s]]
        /\ missed' = [s \in Subscribers |->
               IF full(s) THEN missed[s] \cup {seqOf[e]} ELSE missed[s]]
        /\ pc' = [pc EXCEPT ![e] = "idle"]
        /\ UNCHANGED <<rows, event, seqOf, writeLock>>
        /\ UNCHANGED <<active, filter, seen, before, unpublished, tailVars>>

(* The cursor jumps to the newest row of the table.                        *)
PollToLatest(r) ==
    /\ {row \in rows : row.event.session = tailSession[r] /\ row.seq > cursor[r]} # {}
    /\ \E n \in Seqs :
        /\ n > cursor[r]
        /\ read' = [read EXCEPT ![r] = @ \cup {n}]
    /\ \E last \in Largest(Seqs) : cursor' = [cursor EXCEPT ![r] = last]
    /\ UNCHANGED <<tailSession, emitVars, subVars>>

(* A page holds the newest rows rather than the oldest.                    *)
IsNewestPage(r, page) ==
    LET fresh == {row.seq : row \in
            {x \in rows : x.event.session = tailSession[r] /\ x.seq > cursor[r]}}
    IN  /\ Cardinality(page) <= TailPage
        /\ page = fresh \/ Cardinality(page) = TailPage
        /\ \A n \in page, m \in fresh \ page : m < n

-----------------------------------------------------------------------------
(* emit, one action per stretch between two awaits.                        *)

(* append's SELECT found no row with this hash; a duplicate raises instead *)
(* and leaves nothing behind.                                              *)
CheckDuplicate(e) ==
    /\ pc[e] = "idle"
    /\ Cardinality(rows) + Cardinality(InFlight) < MaxEvents
    /\ \E ev \in Events :
        /\ ~IsDuplicate(ev)
        /\ event' = [event EXCEPT ![e] = ev]
    /\ pc' = [pc EXCEPT ![e] = "checked"]
    /\ UNCHANGED <<rows, seqOf, writeLock, subVars, tailVars>>

(* append's flush: the INSERT takes the write lock, and SQLite numbers the *)
(* new row one above the largest number in the table.                      *)
Insert(e) ==
    /\ pc[e] = "checked"
    /\ writeLock = NoEmitter
    /\ writeLock' = e
    /\ \E last \in Largest(Seqs) : seqOf' = [seqOf EXCEPT ![e] = last + 1]
    /\ pc' = [pc EXCEPT ![e] = "inserted"]
    /\ UNCHANGED <<rows, event, subVars, tailVars>>

(* SQLite's busy timeout ran out while another connection was writing: the *)
(* INSERT raises and so does emit.                                         *)
LockTimeout(e) ==
    /\ pc[e] = "checked"
    /\ writeLock # NoEmitter
    /\ pc' = [pc EXCEPT ![e] = "idle"]
    /\ UNCHANGED <<rows, event, seqOf, writeLock, subVars, tailVars>>

Commit(e) ==
    /\ pc[e] = "inserted"
    /\ rows' = rows \cup {[seq |-> seqOf[e], event |-> event[e]]}
    /\ writeLock' = NoEmitter
    /\ pc' = [pc EXCEPT ![e] = "committed"]
    /\ UNCHANGED <<event, seqOf, subVars, tailVars>>

(* publish never awaits: it offers the event to every matching subscription*)
(* in one step, and a full queue costs only its own subscriber the event.  *)
Publish(e) ==
    LET wants(s) == s \in active /\ Matches(filter[s], event[e])
        full(s)  == Len(queue[s]) >= QueueSize
    IN  /\ pc[e] = "committed"
        /\ queue' = [s \in Subscribers |->
               IF wants(s) /\ ~full(s) THEN Append(queue[s], seqOf[e]) ELSE queue[s]]
        /\ missed' = [s \in Subscribers |->
               IF wants(s) /\ full(s) THEN missed[s] \cup {seqOf[e]} ELSE missed[s]]
        /\ pc' = [pc EXCEPT ![e] = "idle"]
        /\ UNCHANGED <<rows, event, seqOf, writeLock>>
        /\ UNCHANGED <<active, filter, seen, before, unpublished, tailVars>>

(* The emitting task is cancelled at an await (stop_lane cancels the pump  *)
(* of a lane that may be inside emit): an open transaction rolls back; a   *)
(* committed row stays, and nobody fans it out.                            *)
Cancel(e) ==
    /\ pc[e] # "idle"
    /\ writeLock' = IF writeLock = e THEN NoEmitter ELSE writeLock
    /\ unpublished' = IF pc[e] = "committed"
                      THEN unpublished \cup {seqOf[e]} ELSE unpublished
    /\ pc' = [pc EXCEPT ![e] = "idle"]
    /\ UNCHANGED <<rows, event, seqOf, tailVars>>
    /\ UNCHANGED <<active, filter, queue, seen, missed, before>>

-----------------------------------------------------------------------------
(* Subscriptions.                                                          *)

Subscribe(s) ==
    /\ s \notin active
    /\ active' = active \cup {s}
    /\ \E f \in Filters : filter' = [filter EXCEPT ![s] = f]
    /\ queue' = [queue EXCEPT ![s] = <<>>]
    /\ seen' = [seen EXCEPT ![s] = <<>>]
    /\ missed' = [missed EXCEPT ![s] = {}]
    /\ before' = [before EXCEPT ![s] = Seqs]
    /\ UNCHANGED <<unpublished, emitVars, tailVars>>

(* listen yields the next event.                                           *)
Consume(s) ==
    /\ s \in active
    /\ queue[s] # <<>>
    /\ seen' = [seen EXCEPT ![s] = Append(@, Head(queue[s]))]
    /\ queue' = [queue EXCEPT ![s] = Tail(@)]
    /\ UNCHANGED <<active, filter, missed, before, unpublished, emitVars, tailVars>>

(* listen's finally clause: the idle timeout passed or the client went     *)
(* away.                                                                   *)
Unsubscribe(s) ==
    /\ s \in active
    /\ active' = active \ {s}
    /\ UNCHANGED <<filter, queue, seen, missed, before, unpublished, emitVars, tailVars>>

-----------------------------------------------------------------------------
(* A reader asks for the rows of its session above its cursor, oldest first*)
(* and at most TailPage of them, and moves the cursor to the largest.      *)
Fresh(r) ==
    {row.seq : row \in {x \in rows : x.event.session = tailSession[r] /\ x.seq > cursor[r]}}

IsPage(r, page) ==
    /\ Cardinality(page) <= TailPage
    /\ page = Fresh(r) \/ Cardinality(page) = TailPage
    /\ \A n \in page, m \in Fresh(r) \ page : n < m

Poll(r) ==
    /\ Fresh(r) # {}
    /\ \E page \in SUBSET Fresh(r) :
        /\ IsPage(r, page)
        /\ read' = [read EXCEPT ![r] = @ \cup page]
        /\ \E last \in Largest(page) : cursor' = [cursor EXCEPT ![r] = last]
    /\ UNCHANGED <<tailSession, emitVars, subVars>>

(* The daemon dies: what was in memory is gone and open transactions never *)
(* commit.  Readers are other processes and keep their cursors.            *)
Crash ==
    /\ pc' = [e \in Emitters |-> "idle"]
    /\ writeLock' = NoEmitter
    /\ active' = {}
    /\ UNCHANGED <<rows, event, seqOf, tailVars>>
    /\ UNCHANGED <<filter, queue, seen, missed, before, unpublished>>

-----------------------------------------------------------------------------
EmitStep(e) == Insert(e) \/ LockTimeout(e) \/ Commit(e) \/ Publish(e)

Next ==
    \/ \E e \in Emitters : CheckDuplicate(e) \/ EmitStep(e) \/ Cancel(e)
    \/ \E s \in Subscribers : Subscribe(s) \/ Consume(s) \/ Unsubscribe(s)
    \/ \E r \in Readers : Poll(r)
    \/ Crash

(* The event loop resumes every awaiting emitter and SQLite's busy timeout *)
(* bounds every wait for the lock; readers poll on a timer.                *)
Fairness ==
    /\ \A e \in Emitters : WF_vars(EmitStep(e))
    /\ \A r \in Readers : WF_vars(Poll(r))

Spec == Init /\ [][Next]_vars
FairSpec == Spec /\ Fairness

-----------------------------------------------------------------------------
TypeOK ==
    /\ rows \subseteq Row
    /\ pc \in [Emitters -> {"idle", "checked", "inserted", "committed"}]
    /\ event \in [Emitters -> Events]
    /\ seqOf \in [Emitters -> Nat]
    /\ writeLock \in Emitters \cup {NoEmitter}
    /\ active \subseteq Subscribers
    /\ filter \in [Subscribers -> Filters]
    /\ queue \in [Subscribers -> Seq(Nat)]
    /\ seen \in [Subscribers -> Seq(Nat)]
    /\ missed \in [Subscribers -> SUBSET Nat]
    /\ before \in [Subscribers -> SUBSET Nat]
    /\ unpublished \subseteq Nat
    /\ tailSession \in [Readers -> Sessions]
    /\ cursor \in [Readers -> Nat]
    /\ read \in [Readers -> SUBSET Nat]

Delivered(s) == seen[s] \o queue[s]

(* A subscriber is never handed an event that the log does not hold, and   *)
(* never the same event twice: emit persists before it publishes.          *)
PersistedBeforeDelivered ==
    \A s \in active :
        /\ RangeOf(Delivered(s)) \subseteq Seqs
        /\ \A i, j \in DOMAIN Delivered(s) :
               Delivered(s)[i] = Delivered(s)[j] => i = j

(* Once an emit is over, each subscription that was registered before the  *)
(* row was committed and wants the event has it, or has counted it as      *)
(* dropped, unless the emitter itself was cancelled: one full queue costs  *)
(* the other subscribers nothing (EventBus.publish).                       *)
LossAccounted ==
    \A s \in active, row \in rows :
        \/ row.seq \in before[s] \cup unpublished
        \/ ~Matches(filter[s], row.event)
        \/ \E e \in Emitters : pc[e] = "committed" /\ seqOf[e] = row.seq
        \/ row.seq \in RangeOf(Delivered(s)) \cup missed[s]

(* What a reader has read is exactly the part of its session up to its     *)
(* cursor: no row is committed below a cursor that has moved past it, so   *)
(* polling by the largest number read loses nothing (BusEventLog.stream,   *)
(* tail, and the TUI's refresh).                                           *)
TailComplete ==
    \A r \in Readers :
        read[r] = {row.seq : row \in
            {x \in rows : x.event.session = tailSession[r] /\ x.seq <= cursor[r]}}

(* Rows become visible in the order of their numbers, even across a crash: *)
(* the log only grows, at its end.                                         *)
CommittedInOrder ==
    [][/\ rows \subseteq rows'
       /\ \A new \in rows' \ rows, old \in rows : old.seq < new.seq]_rows

(* Every emit comes to an end, whatever the lock and the others do.        *)
EmitTerminates == \A e \in Emitters : (pc[e] # "idle") ~> (pc[e] = "idle")

(* A reader that keeps polling eventually reads every row of its session,  *)
(* page by page.                                                           *)
TailCatchesUp ==
    \A r \in Readers, n \in 1..MaxEvents :
        (\E row \in rows : row.seq = n /\ row.event.session = tailSession[r])
            ~> (n \in read[r])

-----------------------------------------------------------------------------
(* The bus's log is an append-only log.                                    *)
Log == INSTANCE AppendOnlyLog
LogSpec == Log!Spec
=============================================================================
