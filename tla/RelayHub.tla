------------------------------ MODULE RelayHub ------------------------------
(***************************************************************************)
(* One room of the relay: its store of events and its hub.                 *)
(*                                                                         *)
(* A publisher, a connection of the room or a caller of the HTTP route,    *)
(* hands the store a batch of events.  The store keeps those it has not got*)
(* yet, by origin and sequence number, and says which those were.  Only    *)
(* they are fanned out, to the bounded queue of every other connection.    *)
(* Each connection has a writer that drains its queue into the socket.  A  *)
(* full queue drops the new event, and gives up its oldest frame to make   *)
(* room for a notice of the loss.                                          *)
(*                                                                         *)
(* Everything runs as coroutines of one process.  An action is a stretch   *)
(* between two awaits, with one exception: the fan-out of a batch, which   *)
(* has no await, is one action per row, and no other coroutine takes a step*)
(* while the batch is being fanned out.                                    *)
(***************************************************************************)
EXTENDS Naturals, Sequences, FiniteSets, Functions

CONSTANTS
    Conns,
    Http,               \* a caller of POST /rooms/{room}/events
    NoOne,
    Members,
    MemberOf,           \* who opens each connection
    Repos,              \* the daemons whose events are relayed
    MaxSeq,
    QueueSize,          \* outbound_queue_size
    RoomCap,            \* max_connections_per_room
    MemberCap,          \* max_connections_per_member
    BatchSize           \* bound: events in one publish

(* With a queue of one frame a notice fills it, and the notice of a loss   *)
(* behind it waits for the next event.                                     *)
ASSUME SizesPositive ==
    /\ {MaxSeq, RoomCap, MemberCap, BatchSize} \subseteq Nat \ {0}
    /\ QueueSize \in Nat /\ QueueSize >= 2
ASSUME NamesDistinct == Http \notin Conns /\ NoOne \notin Conns \cup {Http}
ASSUME MembersKnown == MemberOf \in [Conns -> Members]

Publishers == Conns \cup {Http}
Events     == [repo : Repos, seq : 1..MaxSeq]
Marks      == [Repos -> 0..MaxSeq]

VARIABLES
    stored,     \* the rows of the room
    pending,    \* rows each publisher has had accepted and not yet fanned out
    fanning,    \* the publisher whose rows are being fanned out
    conn        \* the connections

vars == <<stored, pending, fanning, conn>>

-----------------------------------------------------------------------------
EventFrame(e) == [type |-> "event", event |-> e]

(* A notice.  covers is history: the losses before it was written.         *)
LagFrame(k) == [type |-> "lag", resume_from |-> k.seen, covers |-> k.lost]

Nothing == [type |-> "none"]

EventFrames == {EventFrame(e) : e \in Events}
LagFrames   == [type : {"lag"}, resume_from : Marks, covers : SUBSET Events]
Frames      == EventFrames \cup LagFrames

LostWith(f) == IF f.type = "event" THEN {f.event} ELSE {}

NoMark == [r \in Repos |-> 0]

Connection == [
    phase   : {"out", "admitted", "open"},
    queue   : Seq(Frames),
    lagged  : BOOLEAN,
    noticed : BOOLEAN,                  \* _lag_notice_queued
    seen    : Marks,                    \* last_seq
    writer  : {"up", "down"},
    sending : Frames \cup {Nothing},    \* the frame the writer awaits to be sent
    latest  : Marks,                    \* latest_seqs of the hello
    offered : SUBSET Events,            \* history: events published to it
    own     : SUBSET Events,            \* history: events it has published
    lost    : SUBSET Events,            \* history: events dropped on their way to it
    told    : SUBSET Events]            \* history: losses it has had notice of

Fresh(phase, writer) == [
    phase |-> phase, queue |-> <<>>, lagged |-> FALSE, noticed |-> FALSE,
    seen |-> NoMark, writer |-> writer, sending |-> Nothing, latest |-> NoMark,
    offered |-> {}, own |-> {}, lost |-> {}, told |-> {}]

Out == Fresh("out", "down")

Registered == {c \in Conns : conn[c].phase # "out"}

(* Highest sequence number stored, per origin.                             *)
LatestSeqs == [r \in Repos |->
    CHOOSE n \in 0..MaxSeq :
        /\ n = 0 \/ [repo |-> r, seq |-> n] \in stored
        /\ \A e \in stored : e.repo = r => e.seq <= n]

-----------------------------------------------------------------------------
(* The hub's work on one connection: each operator is the connection after.*)

Noted(k, e) ==
    [k EXCEPT !.seen[e.repo] = IF e.seq > @ THEN e.seq ELSE @,
              !.offered = @ \cup {e}]

(* The oldest frame gives way to a notice.                                 *)
NoticeInRoom(k) ==
    LET evicting == [k EXCEPT !.lost = @ \cup LostWith(Head(k.queue))]
    IN  [evicting EXCEPT !.queue = Append(Tail(k.queue), LagFrame(evicting)),
                         !.lagged = FALSE,
                         !.noticed = TRUE]

(* Mutant: a drop behind a queued notice is not remembered.                *)
OverflowForgets(k, e) ==
    LET dropping == [k EXCEPT !.lost = @ \cup {e}]
    IN  IF k.noticed THEN dropping ELSE NoticeInRoom(dropping)

Overflow(k, e) ==
    LET dropping == [k EXCEPT !.lost = @ \cup {e}, !.lagged = TRUE]
    IN  IF k.noticed THEN dropping ELSE NoticeInRoom(dropping)

(* Mutant: one frame too many.                                             *)
EnqueuedPast(k, e) ==
    IF Len(k.queue) <= QueueSize
    THEN [k EXCEPT !.queue = Append(@, EventFrame(e))]
    ELSE Overflow(k, e)

Enqueued(k, e) ==
    IF Len(k.queue) < QueueSize
    THEN [k EXCEPT !.queue = Append(@, EventFrame(e))]
    ELSE Overflow(k, e)

Offered(k, e) == Enqueued(Noted(k, e), e)

(* The writer takes a frame.  If losses came behind the last notice, it    *)
(* sends a notice in place of the frame.                                   *)
Taken(k) ==
    LET f == Head(k.queue)
        behind == k.lagged /\ ~k.noticed
        losing == [k EXCEPT !.queue = Tail(@),
                            !.lost = @ \cup (IF behind THEN LostWith(f) ELSE {})]
    IN  [losing EXCEPT !.sending = IF behind THEN LagFrame(losing) ELSE f,
                       !.lagged = @ /\ ~behind,
                       !.noticed = @ \/ behind]

(* Mutant: the notice stays queued for ever.                               *)
SentOffOnly(k) ==
    [k EXCEPT !.sending = Nothing,
              !.told = @ \cup (IF k.sending.type = "lag" THEN k.sending.covers ELSE {})]

SentOff(k) ==
    [k EXCEPT !.sending = Nothing,
              !.noticed = FALSE,
              !.told = @ \cup (IF k.sending.type = "lag" THEN k.sending.covers ELSE {})]

-----------------------------------------------------------------------------
Init ==
    /\ stored = {}
    /\ pending = [p \in Publishers |-> {}]
    /\ fanning = NoOne
    /\ conn = [c \in Conns |-> Out]

Update(c, k) == conn' = [conn EXCEPT ![c] = k]

(* _admit_socket: both caps, the registration and the start of the writer. *)
Admit(c) ==
    /\ fanning = NoOne
    /\ c \notin Registered
    /\ Cardinality(Registered) < RoomCap
    /\ Cardinality({d \in Registered : MemberOf[d] = MemberOf[c]}) < MemberCap
    /\ Update(c, Fresh("admitted", "up"))
    /\ UNCHANGED <<stored, pending, fanning>>

(* The hello tells the client how far the store is.                        *)
Hello(c) ==
    /\ fanning = NoOne
    /\ conn[c].phase = "admitted"
    /\ Update(c, [conn[c] EXCEPT !.phase = "open", !.latest = LatestSeqs])
    /\ UNCHANGED <<stored, pending, fanning>>

MayPublish(p) ==
    /\ fanning = NoOne
    /\ pending[p] = {}
    /\ p \in Conns => conn[p].phase = "open"

OwnedBy(p, rows) ==
    IF p \in Conns THEN [conn EXCEPT ![p].own = @ \cup rows] ELSE conn

(* Mutants: the whole batch is fanned out; a batch with a duplicate in it  *)
(* is not fanned out at all.                                               *)
AcceptedAll(rows) == rows
AcceptedIfAllNew(rows) == IF rows \cap stored = {} THEN rows ELSE {}

(* append_events: of the batch, the rows that are new.                     *)
Accepted(rows) == rows \ stored

(* The order of a batch is not kept: a client may publish in any order, and*)
(* FanOut takes the rows in any order.                                     *)
Publish(p) ==
    /\ MayPublish(p)
    /\ \E rows \in SUBSET Events :
        /\ Cardinality(rows) <= BatchSize
        /\ stored' = stored \cup rows
        /\ pending' = [pending EXCEPT ![p] = Accepted(rows)]
        /\ conn' = OwnedBy(p, rows)
    /\ UNCHANGED fanning

FanOutBegins(p) ==
    /\ fanning = NoOne
    /\ pending[p] # {}
    /\ fanning' = p
    /\ UNCHANGED <<stored, pending, conn>>

Recipients(p) == Registered \ {p}

(* hub.publish for one row.  The last row ends the fan-out.                *)
FanOut ==
    /\ fanning # NoOne
    /\ \E e \in pending[fanning] :
        LET rest == pending[fanning] \ {e}
        IN  /\ conn' = [c \in Conns |->
                 IF c \in Recipients(fanning) THEN Offered(conn[c], e) ELSE conn[c]]
            /\ pending' = [pending EXCEPT ![fanning] = rest]
            /\ fanning' = IF rest = {} THEN NoOne ELSE fanning
    /\ UNCHANGED stored

-----------------------------------------------------------------------------
Take(c) ==
    /\ fanning = NoOne
    /\ conn[c].writer = "up" /\ conn[c].sending = Nothing
    /\ conn[c].queue # <<>>
    /\ Update(c, Taken(conn[c]))
    /\ UNCHANGED <<stored, pending, fanning>>

Sent(c) ==
    /\ fanning = NoOne
    /\ conn[c].sending # Nothing
    /\ Update(c, SentOff(conn[c]))
    /\ UNCHANGED <<stored, pending, fanning>>

(* A send that fails or times out ends the writer.  The connection stays   *)
(* registered until its reader finds the socket closed.                    *)
SendFails(c) ==
    /\ fanning = NoOne
    /\ conn[c].sending # Nothing
    /\ Update(c, [conn[c] EXCEPT !.sending = Nothing, !.writer = "down"])
    /\ UNCHANGED <<stored, pending, fanning>>

(* The reader finds the socket closed, when it is not busy publishing:     *)
(* _teardown releases the connection and cancels the writer.               *)
Close(c) ==
    /\ fanning = NoOne
    /\ c \in Registered
    /\ pending[c] = {}
    /\ Update(c, Out)
    /\ UNCHANGED <<stored, pending, fanning>>

(* The process dies.  Rows it had stored and not fanned out stay so.       *)
Restart ==
    /\ Registered # {} \/ \E p \in Publishers : pending[p] # {}
    /\ pending' = [p \in Publishers |-> {}]
    /\ fanning' = NoOne
    /\ conn' = [c \in Conns |-> Out]
    /\ UNCHANGED stored

Next ==
    \/ \E c \in Conns :
        Admit(c) \/ Hello(c) \/ Take(c) \/ Sent(c) \/ SendFails(c) \/ Close(c)
    \/ \E p \in Publishers : Publish(p) \/ FanOutBegins(p)
    \/ FanOut
    \/ Restart

Spec == Init /\ [][Next]_vars

(* The event loop resumes every coroutine that can go on, and a send ends, *)
(* one way or the other, within SEND_TIMEOUT_S.                            *)
Fairness ==
    /\ WF_vars(FanOut)
    /\ \A p \in Publishers : WF_vars(FanOutBegins(p))
    /\ \A c \in Conns : WF_vars(Take(c)) /\ WF_vars(Sent(c) \/ SendFails(c))

FairSpec == Spec /\ Fairness

-----------------------------------------------------------------------------
TypeOK ==
    /\ stored \subseteq Events
    /\ pending \in [Publishers -> SUBSET Events]
    /\ fanning \in Publishers \cup {NoOne}
    /\ fanning # NoOne => pending[fanning] # {}
    /\ conn \in [Conns -> Connection]
    /\ \A c \in Conns : Len(conn[c].queue) <= QueueSize

Untold(k) == k.lost \ k.told

(* A notice that tells of the loss of e is in the writer's hands or queued.*)
NoticeFor(k, e) ==
    \E f \in Range(k.queue) \cup {k.sending} : f.type = "lag" /\ e \in f.covers

(* A lagged client must be told, not silently under-served                 *)
(* (test_a_lag_notice_is_queued_on_overflow, hub.py:262-290): as long as   *)
(* its writer lives, every event a client lost is covered by a notice that *)
(* is under way, or there is a frame left for the writer to find it has one*)
(* to write.  It must hold whichever way drops, evictions and sends fall   *)
(* between each other.                                                     *)
NoticeOnItsWay ==
    \A c \in Registered : conn[c].writer = "up" =>
        \A e \in Untold(conn[c]) :
            \/ NoticeFor(conn[c], e)
            \/ conn[c].lagged /\ conn[c].queue # <<>>

(* Delivering the same event twice is the one thing the dedupe exists to   *)
(* prevent (routes.py:638-642): nothing about to be fanned out was ever    *)
(* offered to a connection it will reach, nor waits with two publishers,   *)
(* however batches overlap and are retried.                                *)
OfferedOnce ==
    \A p \in Publishers :
        /\ \A q \in Publishers \ {p} : pending[p] \cap pending[q] = {}
        /\ \A c \in Recipients(p) : pending[p] \cap conn[c].offered = {}

(* A client that re-tails up to the latest_seqs of its hello has no gap    *)
(* (routes.py:668-689): an event that is neither within them nor its own   *)
(* was offered to the connection, or is about to be.                       *)
NoGapAtHello ==
    \A c \in Conns : conn[c].phase = "open" =>
        \A e \in stored :
            \/ e.seq <= conn[c].latest[e.repo]
            \/ e \in conn[c].own \cup conn[c].offered
            \/ \E p \in Publishers \ {c} : e \in pending[p]

(* A client that reads is told of each loss in the end (hub.py:262-275).   *)
NoticeArrives ==
    \A c \in Conns : \A e \in Events :
        e \in Untold(conn[c]) ~> e \notin Untold(conn[c]) \/ conn[c].writer = "down"

(* The client's only correct response to a notice is to re-tail from       *)
(* resume_from (apps/web/src/types/openburrow.ts:333; the hint of hub.py:  *)
(* 298-301): then every event the notice is about must lie after that      *)
(* point.  It does not: publish notes the sequence number before it tries  *)
(* the queue (hub.py:244-246).                                             *)
ResumeCoversLoss ==
    \A c \in Registered : conn[c].sending.type = "lag" =>
        \A e \in conn[c].sending.covers : e.seq > conn[c].sending.resume_from[e.repo]
=============================================================================
