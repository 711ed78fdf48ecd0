----------------------------- MODULE RelayClient -----------------------------
(***************************************************************************)
(* The daemon's client of the relay, outbound: a bounded queue of events,  *)
(* a task that keeps dialling the relay, and while a connection lives a    *)
(* loop that takes batches from the queue and sends them.                  *)
(*                                                                         *)
(* Dialling, the handshake and sending are awaits; each may fail, and a    *)
(* send that fails, or is cancelled, may or may not have reached the relay.*)
(* Of the relay there is what append_events makes of a published batch.    *)
(***************************************************************************)
EXTENDS Naturals, Sequences, FiniteSets

CONSTANTS
    QueueMax,       \* relay_queue_max
    BatchMax,       \* most events of a publish frame
    Chaos,          \* chaos_drop_relay_messages > 0
    MaxOffers,      \* bound: events persisted
    MaxBreaks       \* bound: failures of the connection

ASSUME ClientBounds ==
    /\ QueueMax \in Nat \ {0} /\ BatchMax \in Nat \ {0}
    /\ Chaos \in BOOLEAN
    /\ MaxOffers \in Nat /\ MaxBreaks \in Nat

VARIABLES
    offers,         \* number of events handed to offer()
    outbound,       \* the queue
    link,           \* what the client's task is doing
    batch,          \* what the send loop has taken and not yet sent
    arrived,        \* events that reached the relay
    published,      \* the client's count of what it published
    stored,         \* events the relay stored
    breaks          \* failures so far

relayClientVars == <<offers, outbound, link, batch, arrived, published, stored, breaks>>

Links == {"dialling", "up", "waiting", "stopped"}

(* _to_relay: the fields of a publish item the relay has a use for.        *)
ToRelay(event) ==
    [seq |-> event, event_type |-> "event", at |-> "time", repo |-> ""]

(* _normalise_event: an item without one of these is rejected.             *)
Required == {"origin_repo", "origin_seq", "event_type", "occurred_at"}
Accepts(item) == Required \subseteq DOMAIN item

InBatch == {batch[i] : i \in 1 .. Len(batch)}

-----------------------------------------------------------------------------
ClientInit ==
    /\ offers = 0
    /\ outbound = << >>
    /\ link = "dialling"
    /\ batch = << >>
    /\ arrived = << >>
    /\ published = 0
    /\ stored = {}
    /\ breaks = 0

(* Mutant of the step below: a full queue takes one event more.            *)
OfferPastFull ==
    /\ link # "stopped"
    /\ offers < MaxOffers
    /\ offers' = offers + 1
    /\ outbound' = Append(IF Len(outbound) <= QueueMax THEN outbound ELSE Tail(outbound),
                          offers')
    /\ UNCHANGED <<link, batch, arrived, published, stored, breaks>>

(* offer: a full queue loses its oldest event.                             *)
Offer ==
    /\ link # "stopped"
    /\ offers < MaxOffers
    /\ offers' = offers + 1
    /\ \/ /\ Len(outbound) < QueueMax
          /\ outbound' = Append(outbound, offers')
       \/ /\ Len(outbound) = QueueMax
          /\ outbound' = Append(Tail(outbound), offers')
       \/ /\ Chaos
          /\ UNCHANGED outbound
    /\ UNCHANGED <<link, batch, arrived, published, stored, breaks>>

Connect ==
    /\ link = "dialling"
    /\ link' = "up"
    /\ UNCHANGED <<offers, outbound, batch, arrived, published, stored, breaks>>

(* The send loop takes what is there, up to a frame's worth.               *)
Batch ==
    LET n == IF Len(outbound) < BatchMax THEN Len(outbound) ELSE BatchMax IN
    /\ link = "up" /\ batch = << >> /\ outbound # << >>
    /\ batch' = SubSeq(outbound, 1, n)
    /\ outbound' = SubSeq(outbound, n + 1, Len(outbound))
    /\ UNCHANGED <<offers, link, arrived, published, stored, breaks>>

(* A publish frame reaches the relay, which stores what it accepts.        *)
Reaches ==
    /\ arrived' = arrived \o batch
    /\ stored' = stored \cup {e \in InBatch : Accepts(ToRelay(e))}

Sent ==
    /\ link = "up" /\ batch # << >>
    /\ Reaches
    /\ published' = published + Len(batch)
    /\ batch' = << >>
    /\ UNCHANGED <<offers, outbound, link, breaks>>

(* Mutant of the step below: what was held goes back to the queue.         *)
GoneAndKept ==
    /\ batch' = << >>
    /\ outbound' = batch \o outbound
    /\ \/ batch # << >> /\ Reaches
       \/ UNCHANGED <<arrived, stored>>
    /\ UNCHANGED <<offers, published>>

(* The session ends: what the send loop held is not put back.              *)
Gone ==
    /\ batch' = << >>
    /\ \/ batch # << >> /\ Reaches
       \/ UNCHANGED <<arrived, stored>>
    /\ UNCHANGED <<offers, outbound, published>>

Break ==
    /\ link \in {"dialling", "up"}
    /\ breaks < MaxBreaks
    /\ breaks' = breaks + 1
    /\ link' = "waiting"
    /\ Gone

(* Mutant of the step below: the client gives up after two failures.       *)
RedialOnce ==
    /\ link = "waiting"
    /\ breaks < 2
    /\ link' = "dialling"
    /\ UNCHANGED <<offers, outbound, batch, arrived, published, stored, breaks>>

Redial ==
    /\ link = "waiting"
    /\ link' = "dialling"
    /\ UNCHANGED <<offers, outbound, batch, arrived, published, stored, breaks>>

Stop ==
    /\ link # "stopped"
    /\ link' = "stopped"
    /\ Gone
    /\ UNCHANGED breaks

ClientProceeds == Connect \/ Batch \/ Sent \/ Break \/ Redial

ClientNext == Offer \/ ClientProceeds \/ Stop

(* What the client awaits comes back or raises: opening has a time-out, the*)
(* library closes a connection whose peer stays silent, waits are bounded. *)
ClientFairness == WF_relayClientVars(ClientProceeds)

ClientSpec == ClientInit /\ [][ClientNext]_relayClientVars /\ ClientFairness

-----------------------------------------------------------------------------
Ascending(s) == \A i, j \in 1 .. Len(s) : i < j => s[i] < s[j]

(* Type correctness; the queue keeps its bound.                            *)
ClientTypeOK ==
    /\ offers \in 0 .. MaxOffers
    /\ outbound \in Seq(1 .. offers) /\ Len(outbound) <= QueueMax
    /\ link \in Links
    /\ batch \in Seq(1 .. offers) /\ Len(batch) <= BatchMax
    /\ arrived \in Seq(1 .. offers)
    /\ published \in 0 .. Len(arrived)
    /\ stored \subseteq 1 .. offers
    /\ breaks \in 0 .. MaxBreaks

InTransit == InBatch \cup {outbound[i] : i \in 1 .. Len(outbound)}

Channel ==
    INSTANCE LossyChannel WITH
        offered <- offers, transit <- InTransit, delivered <- arrived

(* Through every reconnection the client is a lossy channel to the relay:  *)
(* nothing is published twice, and nothing before what was persisted first.*)
ChannelToRelay == Channel!ChannelSpec

(* A queue never stays as it is for ever: once the relay can be reached    *)
(* again, what was kept while it could not is sent.                        *)
BacklogGoesOut == outbound # << >> ~> (outbound = << >> \/ link = "stopped")

(* The module's docstring: every event the local bus persists is published *)
(* to the room.  What the client counts as published, the relay stored.    *)
PublishedIsStored == published <= Cardinality(stored)
=============================================================================
