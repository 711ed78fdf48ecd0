----------------------------- MODULE SharedDoc ------------------------------
(***************************************************************************)
(* The shared document of a room: the relay's doc sockets and the web      *)
(* client's provider.                                                      *)
(*                                                                         *)
(* A document is the set of edits it holds, and an update some edits.  The *)
(* relay keeps the last update it was sent, whatever it holds, and passes  *)
(* updates on to the sockets of the room.  A client sends its edits one by *)
(* one, and whenever it has connected, everything it holds.                *)
(*                                                                         *)
(* Frames to a socket go through a bounded queue and a writer.  A frame    *)
(* that finds the queue full is dropped, and so is one queued frame, whose *)
(* place a notice takes.  A notice carries no edits, and no client acts on *)
(* it.                                                                     *)
(***************************************************************************)
EXTENDS Naturals, Sequences

CONSTANTS
    Clients,
    Edits,
    FrameMax,       \* frames queued for a socket
    SentMax         \* bound on the updates a client has on their way

ASSUME FramesAreQueued == FrameMax \in Nat \ {0} /\ SentMax \in Nat \ {0}

VARIABLES
    doc,            \* each client's document
    sock,           \* each client's connection
    mayWrite,       \* connected clients whose role lets them write
    greeting,       \* the snapshot in the hello frame
    up,             \* updates sent, not yet read by the relay
    handled,        \* the update the socket's handler has saved: none or one
    orphaned,       \* updates saved by handlers whose client is gone
    down,           \* frames queued for each socket
    writing,        \* the frame the socket's writer has in hand: none or one
    pumping,        \* sockets whose writer goes on
    lagged,         \* sockets for which a notice is due
    noticed,        \* sockets for which one was queued since the last frame
    snapshot,       \* the update the relay keeps
    relayed,        \* every edit passed on to the room so far
    mayMiss         \* edits relayed before a client joined, or dropped for it

writerVars == <<writing, pumping, lagged, noticed>>
docVars == <<doc, sock, mayWrite, greeting, up, handled, orphaned, down, writerVars,
             snapshot, relayed, mayMiss>>

MaySend(c) == Len(up[c]) < SentMax      \* the bound

Connected == {c \in Clients : sock[c] # "closed"}

-----------------------------------------------------------------------------
DocInit ==
    /\ doc = [c \in Clients |-> {}]
    /\ sock = [c \in Clients |-> "closed"]
    /\ mayWrite = {}
    /\ greeting = [c \in Clients |-> {}]
    /\ up = [c \in Clients |-> <<>>]
    /\ handled = [c \in Clients |-> {}]
    /\ orphaned = {}
    /\ down = [c \in Clients |-> <<>>]
    /\ writing = [c \in Clients |-> {}]
    /\ pumping = {} /\ lagged = {} /\ noticed = {}
    /\ snapshot = {}
    /\ relayed = {}
    /\ mayMiss = [c \in Clients |-> {}]

(* An edit made while not connected waits for the next hello.              *)
Edit(c, e) ==
    /\ \A d \in Clients : e \notin doc[d]
    /\ \A update \in orphaned \cup {snapshot, relayed} : e \notin update
    /\ MaySend(c)
    /\ doc' = [doc EXCEPT ![c] = @ \cup {e}]
    /\ up' = [up EXCEPT ![c] = IF sock[c] = "ready" THEN Append(@, {e}) ELSE @]
    /\ UNCHANGED <<sock, mayWrite, greeting, handled, orphaned, down, writerVars,
                   snapshot, relayed, mayMiss>>

(* The socket is admitted, with the role its member has at this time:      *)
(* updates are queued for it from now on.                                  *)
Join(c) ==
    /\ sock[c] = "closed"
    /\ sock' = [sock EXCEPT ![c] = "joined"]
    /\ mayWrite' \in {mayWrite, mayWrite \cup {c}}
    /\ pumping' = pumping \cup {c}
    /\ mayMiss' = [mayMiss EXCEPT ![c] = relayed]
    /\ UNCHANGED <<doc, greeting, up, handled, orphaned, down, writing, lagged, noticed,
                   snapshot, relayed>>

SendHello(c) ==
    /\ sock[c] = "joined"
    /\ sock' = [sock EXCEPT ![c] = "greeted"]
    /\ greeting' = [greeting EXCEPT ![c] = snapshot]
    /\ UNCHANGED <<doc, mayWrite, up, handled, orphaned, down, writerVars,
                   snapshot, relayed, mayMiss>>

(* Mutant of the step below: the snapshot is taken for the whole document. *)
TakeHelloOnly(c) ==
    /\ sock[c] = "greeted"
    /\ sock' = [sock EXCEPT ![c] = "ready"]
    /\ doc' = [doc EXCEPT ![c] = @ \cup greeting[c]]
    /\ UNCHANGED <<mayWrite, greeting, up, handled, orphaned, down, writerVars,
                   snapshot, relayed, mayMiss>>

(* The snapshot is merged, and the client sends all it holds.              *)
TakeHello(c) ==
    /\ sock[c] = "greeted"
    /\ sock' = [sock EXCEPT ![c] = "ready"]
    /\ doc' = [doc EXCEPT ![c] = @ \cup greeting[c]]
    /\ up' = [up EXCEPT ![c] = Append(@, doc'[c])]
    /\ greeting' = [greeting EXCEPT ![c] = {}]
    /\ UNCHANGED <<mayWrite, handled, orphaned, down, writerVars, snapshot, relayed, mayMiss>>

-----------------------------------------------------------------------------
(* The writer takes the next frame; if a notice is due, the notice takes   *)
(* its place.                                                              *)
WriteFrame(c) ==
    /\ c \in pumping /\ writing[c] = {} /\ down[c] # <<>>
    /\ LET replaced == c \in lagged \ noticed IN
        /\ writing' = [writing EXCEPT ![c] = {IF replaced THEN {} ELSE Head(down[c])}]
        /\ mayMiss' = [mayMiss EXCEPT ![c] = IF replaced THEN @ \cup Head(down[c]) ELSE @]
        /\ lagged' = IF replaced THEN lagged \ {c} ELSE lagged
        /\ noticed' = IF replaced THEN noticed \cup {c} ELSE noticed
    /\ down' = [down EXCEPT ![c] = Tail(@)]
    /\ UNCHANGED <<doc, sock, mayWrite, greeting, up, handled, orphaned, pumping,
                   snapshot, relayed>>

FrameWritten(c) ==
    /\ \E frame \in writing[c] : doc' = [doc EXCEPT ![c] = @ \cup frame]
    /\ writing' = [writing EXCEPT ![c] = {}]
    /\ noticed' = noticed \ {c}
    /\ UNCHANGED <<sock, mayWrite, greeting, up, handled, orphaned, down, pumping, lagged,
                   snapshot, relayed, mayMiss>>

(* The write takes too long: the writer ends, its socket stays.            *)
FrameLost(c) ==
    /\ \E frame \in writing[c] : mayMiss' = [mayMiss EXCEPT ![c] = @ \cup frame]
    /\ writing' = [writing EXCEPT ![c] = {}]
    /\ pumping' = pumping \ {c}
    /\ UNCHANGED <<doc, sock, mayWrite, greeting, up, handled, orphaned, down, lagged, noticed,
                   snapshot, relayed>>

-----------------------------------------------------------------------------
(* Who may not write is told so, and the update is gone.                   *)
Refuse(c) ==
    /\ c \notin mayWrite
    /\ up[c] # <<>>
    /\ up' = [up EXCEPT ![c] = Tail(@)]
    /\ UNCHANGED <<doc, sock, mayWrite, greeting, handled, orphaned, down, writerVars,
                   snapshot, relayed, mayMiss>>

(* The update takes the place of the snapshot.                             *)
SaveUpdate(c) ==
    /\ c \in mayWrite
    /\ up[c] # <<>> /\ handled[c] = {}
    /\ snapshot' = Head(up[c])
    /\ handled' = [handled EXCEPT ![c] = {Head(up[c])}]
    /\ up' = [up EXCEPT ![c] = Tail(@)]
    /\ UNCHANGED <<doc, sock, mayWrite, greeting, orphaned, down, writerVars, relayed, mayMiss>>

(* Mutant of the step below: a notice takes no other frame's place.       *)
PassOnEvictingNone(update, to) ==
    LET full == {d \in to : Len(down[d]) >= FrameMax}
        evicting == full \ noticed
    IN
    /\ down' = [d \in Clients |->
                    CASE d \in evicting -> Append(down[d], {})
                      [] d \in to \ full -> Append(down[d], update)
                      [] OTHER -> down[d]]
    /\ mayMiss' = [d \in Clients |->
                    CASE d \in evicting -> mayMiss[d] \cup update
                      [] d \in full \ evicting -> mayMiss[d] \cup update
                      [] OTHER -> mayMiss[d]]
    /\ lagged' = (lagged \cup full) \ evicting
    /\ noticed' = noticed \cup evicting
    /\ relayed' = relayed \cup update
    /\ UNCHANGED <<writing, pumping>>

(* The frame is queued; where the queue is full it is dropped, with the    *)
(* oldest one if a notice has to be queued.                                *)
PassOn(update, to) ==
    LET full == {d \in to : Len(down[d]) >= FrameMax}
        evicting == full \ noticed
    IN
    /\ down' = [d \in Clients |->
                    CASE d \in evicting -> Append(Tail(down[d]), {})
                      [] d \in to \ full -> Append(down[d], update)
                      [] OTHER -> down[d]]
    /\ mayMiss' = [d \in Clients |->
                    CASE d \in evicting -> mayMiss[d] \cup update \cup Head(down[d])
                      [] d \in full \ evicting -> mayMiss[d] \cup update
                      [] OTHER -> mayMiss[d]]
    /\ lagged' = (lagged \cup full) \ evicting
    /\ noticed' = noticed \cup evicting
    /\ relayed' = relayed \cup update
    /\ UNCHANGED <<writing, pumping>>

PublishEdit(c) ==
    /\ \E update \in handled[c] : PassOn(update, Connected \ {c})
    /\ handled' = [handled EXCEPT ![c] = {}]
    /\ UNCHANGED <<doc, sock, mayWrite, greeting, up, orphaned, snapshot>>

PublishOrphan(update) ==
    /\ update \in orphaned
    /\ PassOn(update, Connected)
    /\ orphaned' = orphaned \ {update}
    /\ UNCHANGED <<doc, sock, mayWrite, greeting, up, handled, snapshot>>

(* The connection ends: it broke, the client left, or an error of the      *)
(* database ended its handler.  What is in flight is gone; a handler that  *)
(* has saved may still publish, unless telling its client fails first.     *)
Disconnect(c) ==
    /\ sock[c] # "closed"
    /\ sock' = [sock EXCEPT ![c] = "closed"]
    /\ mayWrite' = mayWrite \ {c}
    /\ up' = [up EXCEPT ![c] = <<>>]
    /\ down' = [down EXCEPT ![c] = <<>>]
    /\ writing' = [writing EXCEPT ![c] = {}]
    /\ pumping' = pumping \ {c} /\ lagged' = lagged \ {c} /\ noticed' = noticed \ {c}
    /\ greeting' = [greeting EXCEPT ![c] = {}]
    /\ handled' = [handled EXCEPT ![c] = {}]
    /\ orphaned' \in {orphaned, orphaned \cup handled[c]}
    /\ UNCHANGED <<doc, snapshot, relayed, mayMiss>>

DocNext ==
    \/ \E c \in Clients :
        \/ \E e \in Edits : Edit(c, e)
        \/ Join(c) \/ SendHello(c) \/ TakeHello(c)
        \/ WriteFrame(c) \/ FrameWritten(c) \/ FrameLost(c)
        \/ Refuse(c) \/ SaveUpdate(c) \/ PublishEdit(c) \/ Disconnect(c)
    \/ \E update \in orphaned : PublishOrphan(update)

DocSpec == DocInit /\ [][DocNext]_docVars

-----------------------------------------------------------------------------
DocTypeOK ==
    /\ doc \in [Clients -> SUBSET Edits]
    /\ sock \in [Clients -> {"closed", "joined", "greeted", "ready"}]
    /\ mayWrite \subseteq Connected
    /\ greeting \in [Clients -> SUBSET Edits]
    /\ \A c \in Clients :
        /\ \A n \in DOMAIN up[c] : up[c][n] \subseteq Edits
        /\ \A n \in DOMAIN down[c] : down[c][n] \subseteq Edits
        /\ Len(down[c]) <= FrameMax
    /\ handled \in [Clients -> SUBSET SUBSET Edits]
    /\ writing \in [Clients -> SUBSET SUBSET Edits]
    /\ pumping \subseteq Connected /\ lagged \subseteq Connected
    /\ noticed \subseteq Connected
    /\ orphaned \subseteq SUBSET Edits
    /\ snapshot \subseteq Edits /\ relayed \subseteq Edits
    /\ mayMiss \in [Clients -> SUBSET Edits]

Settled(c) ==
    /\ sock[c] = "ready" /\ up[c] = <<>> /\ down[c] = <<>>
    /\ handled[c] = {} /\ writing[c] = {}

(* Of two connected clients with nothing in flight, one lacks an edit of   *)
(* the other, which may write, only if the edit was relayed before it      *)
(* joined, and is no longer what the relay keeps, or if a full queue, a    *)
(* notice or a write that took too long dropped it: not because of a       *)
(* connection that broke, an update saved but not passed on, or edits made *)
(* while not connected.                                                    *)
MissingIsOldOrDropped ==
    \A c \in Clients, d \in mayWrite :
        Settled(c) /\ Settled(d) => doc[d] \ doc[c] \subseteq mayMiss[c]
=============================================================================
