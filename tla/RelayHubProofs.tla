--------------------------- MODULE RelayHubProofs ---------------------------
(***************************************************************************)
(* What RelayHub promises for every number of connections, events and every*)
(* queue of at least two frames, and RelayRooms for every number of invites*)
(* and redemptions; and that the relay as a whole keeps its type.          *)
(*                                                                         *)
(* Each of the hub's operators is first shown, on one connection, to keep  *)
(* its type and to keep the client told; the actions then follow, as each  *)
(* applies one of them to one connection or, FanOut, to several.           *)
(***************************************************************************)
EXTENDS MCRelay, SequenceTheorems, FiniteSetTheorems, WellFoundedInduction, TLAPS

(* A queue within its bound.                                               *)
Bounded(k) == k \in Connection /\ Len(k.queue) <= QueueSize

(* Every loss is covered by a notice under way, or remembered.             *)
Telling(k) ==
    \A e \in Untold(k) : NoticeFor(k, e) \/ (k.lagged /\ k.queue # <<>>)

(* A remembered loss has a frame behind which the writer will look at it:  *)
(* with a notice queued the writer passes that by, so there are two.       *)
Reminded(k) ==
    /\ k.lagged => k.queue # <<>>
    /\ k.lagged /\ k.noticed /\ k.sending = Nothing => Len(k.queue) >= 2

Served(k) == k.writer = "up" => Telling(k) /\ Reminded(k)

-----------------------------------------------------------------------------
(* The frames of a queue that is appended to, or loses its head.           *)
LEMMA RangeAppend ==
    ASSUME NEW S, NEW q \in Seq(S), NEW f \in S
    PROVE  Range(Append(q, f)) = Range(q) \cup {f}
<1>1. /\ DOMAIN Append(q, f) = 1..(Len(q) + 1)
      /\ DOMAIN q = 1..Len(q)
      /\ Len(q) \in Nat
      /\ \A i \in 1..Len(q) : Append(q, f)[i] = q[i]
      /\ Append(q, f)[Len(q) + 1] = f
  OBVIOUS
<1>2. ASSUME NEW x \in Range(Append(q, f)) PROVE x \in Range(q) \cup {f}
  <2>1. PICK i \in 1..(Len(q) + 1) : x = Append(q, f)[i]
    BY <1>1, <1>2 DEF Range
  <2> QED BY <1>1, <2>1 DEF Range
<1>3. ASSUME NEW x \in Range(q) \cup {f} PROVE x \in Range(Append(q, f))
  <2>1. CASE x = f
    BY <1>1, <2>1 DEF Range
  <2>2. CASE x \in Range(q)
    <3>1. PICK i \in 1..Len(q) : x = q[i]
      BY <1>1, <2>2 DEF Range
    <3> QED BY <1>1, <3>1 DEF Range
  <2> QED BY <1>3, <2>1, <2>2
<1> QED BY <1>2, <1>3

LEMMA RangeTail ==
    ASSUME NEW S, NEW q \in Seq(S), q # <<>>
    PROVE  /\ Head(q) \in S
           /\ Tail(q) \in Seq(S)
           /\ Len(Tail(q)) = Len(q) - 1
           /\ Range(q) = Range(Tail(q)) \cup {Head(q)}
<1>1. /\ DOMAIN q = 1..Len(q)
      /\ Len(q) \in Nat \ {0}
      /\ Head(q) = q[1]
      /\ Tail(q) \in Seq(S)
      /\ Len(Tail(q)) = Len(q) - 1
      /\ DOMAIN Tail(q) = 1..(Len(q) - 1)
      /\ \A i \in 1..(Len(q) - 1) : Tail(q)[i] = q[i + 1]
  OBVIOUS
<1>2. ASSUME NEW x \in Range(q) PROVE x \in Range(Tail(q)) \cup {Head(q)}
  <2>1. PICK i \in 1..Len(q) : x = q[i]
    BY <1>1, <1>2 DEF Range
  <2>2. CASE i = 1
    BY <1>1, <2>1, <2>2
  <2>3. CASE i # 1
    <3>1. i - 1 \in 1..(Len(q) - 1) /\ x = Tail(q)[i - 1]
      BY <1>1, <2>1, <2>3
    <3> QED BY <1>1, <3>1 DEF Range
  <2> QED BY <2>2, <2>3
<1>3. ASSUME NEW x \in Range(Tail(q)) PROVE x \in Range(q)
  <2>1. PICK i \in 1..(Len(q) - 1) : x = Tail(q)[i]
    BY <1>1, <1>3 DEF Range
  <2>2. i + 1 \in 1..Len(q) /\ x = q[i + 1]
    BY <1>1, <2>1
  <2> QED BY <1>1, <2>2 DEF Range
<1>4. Head(q) \in Range(q) /\ Head(q) \in S
  <2>1. 1 \in 1..Len(q)
    BY <1>1
  <2> QED BY <1>1, <2>1 DEF Range
<1> QED BY <1>1, <1>2, <1>3, <1>4

-----------------------------------------------------------------------------
(* What a frame is.                                                        *)
LEMMA FrameTypes ==
    /\ \A f \in Frames : f.type \in {"event", "lag"}
    /\ \A f \in Frames : f.type = "event" => f.event \in Events
    /\ \A f \in Frames : f.type = "lag" => f.covers \in SUBSET Events
    /\ \A f \in Frames : LostWith(f) \in SUBSET Events
    /\ \A e \in Events : EventFrame(e) \in Frames
    /\ Nothing \notin Frames
<1>1. \A e \in Events : EventFrame(e) \in EventFrames /\ EventFrame(e).type = "event" /\ EventFrame(e).event = e
  BY DEF EventFrames, EventFrame
<1>2. ASSUME NEW f \in EventFrames
      PROVE  f.type = "event" /\ f.event \in Events /\ LostWith(f) \in SUBSET Events
  <2>1. PICK e \in Events : f = EventFrame(e)
    BY DEF EventFrames
  <2>2. f.type = "event" /\ f.event \in Events
    BY <1>1, <2>1
  <2> QED BY <2>2 DEF LostWith
<1>3. ASSUME NEW f \in LagFrames
      PROVE  f.type = "lag" /\ f.covers \in SUBSET Events /\ LostWith(f) = {}
  BY DEF LagFrames, LostWith
<1>4. Nothing.type = "none"
  BY DEF Nothing
<1>5. Nothing \notin Frames
  BY <1>2, <1>3, <1>4 DEF Frames
<1> QED BY <1>1, <1>2, <1>3, <1>5 DEF Frames

(* The sets that sequence numbers and marks range over.                    *)
LEMMA NumbersTyped ==
    /\ QueueSize \in Nat /\ QueueSize >= 2
    /\ MaxSeq \in Nat
BY SizesPositive

LEMMA FreshGood ==
    ASSUME NEW phase \in {"out", "admitted", "open"}, NEW writer \in {"up", "down"}
    PROVE  Bounded(Fresh(phase, writer)) /\ Served(Fresh(phase, writer))
<1>1. NoMark \in Marks
  BY NumbersTyped DEF NoMark, Marks
<1>2. <<>> \in Seq(Frames) /\ Len(<<>>) = 0
  OBVIOUS
<1>3. Bounded(Fresh(phase, writer))
  BY <1>1, <1>2, NumbersTyped DEF Bounded, Fresh, Connection
<1>4. Served(Fresh(phase, writer))
  BY DEF Served, Telling, Reminded, Untold, Fresh
<1> QED BY <1>3, <1>4

LEMMA LagFrameTyped ==
    ASSUME NEW k \in Connection
    PROVE  LagFrame(k) \in Frames /\ LagFrame(k).type = "lag" /\ LagFrame(k).covers = k.lost
<1>1. k.seen \in Marks /\ k.lost \in SUBSET Events
  BY DEF Connection
<1> QED BY <1>1 DEF LagFrame, Frames, LagFrames

LEMMA NotedGood ==
    ASSUME NEW k, Bounded(k), Served(k), NEW e \in Events
    PROVE  Bounded(Noted(k, e)) /\ Served(Noted(k, e))
<1>1. k \in Connection /\ k.seen \in Marks /\ k.offered \in SUBSET Events
  BY DEF Bounded, Connection
<1>2. e.repo \in Repos /\ e.seq \in 0..MaxSeq
  BY NumbersTyped DEF Events
<1>3. Noted(k, e).seen \in Marks
  BY <1>1, <1>2 DEF Noted, Marks, Connection
<1>4. Noted(k, e) = [k EXCEPT !.seen = Noted(k, e).seen, !.offered = k.offered \cup {e}]
  BY <1>1 DEF Noted, Connection
<1>5. Noted(k, e) \in Connection
  <2>1. k.offered \cup {e} \in SUBSET Events
    BY <1>1
  <2> DEFINE seen == Noted(k, e).seen
  <2> DEFINE offered == k.offered \cup {e}
  <2>2. [k EXCEPT !.seen = seen, !.offered = offered] \in Connection
    <3> HIDE DEF seen, offered
    <3>1. ASSUME NEW s \in Marks, NEW o \in SUBSET Events
          PROVE  [k EXCEPT !.seen = s, !.offered = o] \in Connection
      BY <1>1 DEF Connection
    <3> QED BY <1>3, <2>1, <3>1 DEF seen, offered
  <2> QED BY <1>4, <2>2
<1>6. /\ Noted(k, e).queue = k.queue /\ Noted(k, e).lagged = k.lagged
      /\ Noted(k, e).noticed = k.noticed /\ Noted(k, e).sending = k.sending
      /\ Noted(k, e).writer = k.writer
      /\ Noted(k, e).lost = k.lost /\ Noted(k, e).told = k.told
  BY <1>1 DEF Noted, Connection
<1> QED BY <1>5, <1>6 DEF Bounded, Served, Telling, Reminded, Untold, NoticeFor

LEMMA NoticeInRoomGood ==
    ASSUME NEW k, k \in Connection, Len(k.queue) = QueueSize
    PROVE  Bounded(NoticeInRoom(k)) /\ Served(NoticeInRoom(k))
<1> DEFINE j == [k EXCEPT !.lost = @ \cup LostWith(Head(k.queue))]
<1> DEFINE n == NoticeInRoom(k)
<1>1. k.queue \in Seq(Frames) /\ k.queue # <<>>
  BY NumbersTyped DEF Connection
<1>2. /\ Head(k.queue) \in Frames /\ Tail(k.queue) \in Seq(Frames)
      /\ Len(Tail(k.queue)) = QueueSize - 1
  BY <1>1, RangeTail
<1>3. j \in Connection
  BY <1>2, FrameTypes DEF Connection
<1>4. LagFrame(j) \in Frames /\ LagFrame(j).type = "lag" /\ LagFrame(j).covers = j.lost
  BY <1>3, LagFrameTyped
<1> DEFINE q == Append(Tail(k.queue), LagFrame(j))
<1>5. /\ q \in Seq(Frames) /\ Len(q) = QueueSize
      /\ Range(q) = Range(Tail(k.queue)) \cup {LagFrame(j)}
  <2> HIDE DEF j
  <2>1. q \in Seq(Frames) /\ Len(q) = QueueSize
    BY <1>2, <1>4, NumbersTyped
  <2>2. Range(q) = Range(Tail(k.queue)) \cup {LagFrame(j)}
    <3>1. ASSUME NEW t \in Seq(Frames), NEW f \in Frames
          PROVE  Range(Append(t, f)) = Range(t) \cup {f}
      BY RangeAppend
    <3> QED BY <1>2, <1>4, <3>1
  <2> QED BY <2>1, <2>2
<1>6. n = [j EXCEPT !.queue = q, !.lagged = FALSE, !.noticed = TRUE]
  BY DEF NoticeInRoom
<1>7. n \in Connection /\ n.queue = q /\ n.lagged = FALSE /\ n.lost = j.lost
  <2> HIDE DEF j, q, n
  <2> QED BY <1>3, <1>5, <1>6 DEF Connection
<1>8. Bounded(n)
  <2> HIDE DEF j, q, n
  <2> QED BY <1>5, <1>7, NumbersTyped DEF Bounded
<1>9. Served(n)
  <2> HIDE DEF j, q, n
  <2> QED BY <1>4, <1>5, <1>7 DEF Served, Telling, Reminded, Untold, NoticeFor
<1> QED BY <1>8, <1>9

LEMMA EnqueuedGood ==
    ASSUME NEW k, Bounded(k), Served(k), NEW e \in Events
    PROVE  Bounded(Enqueued(k, e)) /\ Served(Enqueued(k, e))
<1>1. /\ k \in Connection /\ k.queue \in Seq(Frames) /\ k.lost \in SUBSET Events
      /\ Len(k.queue) \in Nat /\ Len(k.queue) <= QueueSize
      /\ EventFrame(e) \in Frames
  BY FrameTypes DEF Bounded, Connection
<1>2. CASE Len(k.queue) < QueueSize
  <2> DEFINE q == Append(k.queue, EventFrame(e))
  <2> DEFINE n == [k EXCEPT !.queue = q]
  <2>1. Enqueued(k, e) = n
    BY <1>2 DEF Enqueued
  <2>2. /\ q \in Seq(Frames) /\ Len(q) = Len(k.queue) + 1 /\ q # <<>>
        /\ Range(q) = Range(k.queue) \cup {EventFrame(e)}
    BY <1>1, RangeAppend
  <2>3. /\ n \in Connection /\ n.queue = q /\ n.lagged = k.lagged
        /\ n.noticed = k.noticed /\ n.sending = k.sending /\ n.writer = k.writer
        /\ n.lost = k.lost /\ n.told = k.told
    <3> HIDE DEF q
    <3> QED BY <1>1, <2>2 DEF Connection
  <2>4. Bounded(n)
    <3> HIDE DEF q, n
    <3> QED BY <1>1, <1>2, <2>2, <2>3, NumbersTyped DEF Bounded
  <2>5. Served(n)
    <3> HIDE DEF q, n
    <3>1. k.writer = "up" => Telling(n)
      BY <2>2, <2>3 DEF Served, Telling, Untold, NoticeFor
    <3>2. k.writer = "up" => Reminded(n)
      BY <1>1, <2>2, <2>3 DEF Served, Reminded
    <3> QED BY <2>3, <3>1, <3>2 DEF Served
  <2> QED BY <2>1, <2>4, <2>5
<1>3. CASE ~(Len(k.queue) < QueueSize)
  <2> DEFINE d == [k EXCEPT !.lost = @ \cup {e}, !.lagged = TRUE]
  <2>1. Enqueued(k, e) = IF k.noticed THEN d ELSE NoticeInRoom(d)
    BY <1>3 DEF Enqueued, Overflow
  <2>2. Len(k.queue) = QueueSize
    BY <1>1, <1>3, NumbersTyped
  <2>3. /\ d \in Connection /\ d.queue = k.queue /\ d.lagged = TRUE
        /\ d.writer = k.writer
    BY <1>1 DEF Connection
  <2>4. Bounded(d)
    BY <1>1, <2>3 DEF Bounded
  <2>5. Served(d)
    <3>1. k.queue # <<>> /\ Len(k.queue) >= 2
      BY <1>1, <2>2, NumbersTyped
    <3> HIDE DEF d
    <3> QED BY <2>3, <3>1 DEF Served, Telling, Reminded
  <2>6. Bounded(NoticeInRoom(d)) /\ Served(NoticeInRoom(d))
    <3> HIDE DEF d
    <3> QED BY <2>2, <2>3, NoticeInRoomGood
  <2> QED BY <2>1, <2>4, <2>5, <2>6
<1> QED BY <1>2, <1>3

LEMMA OfferedGood ==
    ASSUME NEW k, Bounded(k), Served(k), NEW e \in Events
    PROVE  Bounded(Offered(k, e)) /\ Served(Offered(k, e))
BY NotedGood, EnqueuedGood DEF Offered

LEMMA TakenGood ==
    ASSUME NEW k, Bounded(k), Served(k), k.writer = "up", k.sending = Nothing, k.queue # <<>>
    PROVE  Bounded(Taken(k)) /\ Served(Taken(k))
<1> DEFINE f == Head(k.queue)
<1> DEFINE behind == k.lagged /\ ~k.noticed
<1> DEFINE j == [k EXCEPT !.queue = Tail(@),
                          !.lost = @ \cup (IF behind THEN LostWith(f) ELSE {})]
<1> DEFINE n == Taken(k)
<1>1. /\ k \in Connection /\ k.queue \in Seq(Frames) /\ Len(k.queue) \in Nat
      /\ Len(k.queue) <= QueueSize /\ k.lost \in SUBSET Events
      /\ k.lagged \in BOOLEAN /\ k.noticed \in BOOLEAN
  BY DEF Bounded, Connection
<1>2. /\ f \in Frames /\ Tail(k.queue) \in Seq(Frames)
      /\ Len(Tail(k.queue)) = Len(k.queue) - 1
      /\ Range(k.queue) = Range(Tail(k.queue)) \cup {f}
      /\ Len(k.queue) # 0
  <2>1. ASSUME NEW t \in Seq(Frames), t # <<>>
        PROVE  /\ Head(t) \in Frames /\ Tail(t) \in Seq(Frames)
               /\ Len(Tail(t)) = Len(t) - 1
               /\ Range(t) = Range(Tail(t)) \cup {Head(t)}
               /\ Len(t) # 0
    BY <2>1, RangeTail
  <2> QED BY <1>1, <2>1
<1>3. /\ j \in Connection /\ j.queue = Tail(k.queue) /\ j.told = k.told
      /\ j.writer = k.writer /\ j.lagged = k.lagged /\ j.noticed = k.noticed
      /\ ~behind => j.lost = k.lost
  <2>1. k.lost \cup (IF behind THEN LostWith(f) ELSE {}) \in SUBSET Events
    BY <1>1, <1>2, FrameTypes
  <2> HIDE DEF f, behind
  <2> QED BY <1>1, <1>2, <2>1 DEF Connection
<1>4. LagFrame(j) \in Frames /\ LagFrame(j).type = "lag" /\ LagFrame(j).covers = j.lost
  BY <1>3, LagFrameTyped
<1>5. n = [j EXCEPT !.sending = IF behind THEN LagFrame(j) ELSE f,
                    !.lagged = @ /\ ~behind,
                    !.noticed = @ \/ behind]
  BY DEF Taken
<1>6. /\ n \in Connection /\ n.queue = Tail(k.queue) /\ n.lost = j.lost /\ n.told = k.told
      /\ n.writer = k.writer /\ n.sending = (IF behind THEN LagFrame(j) ELSE f)
      /\ n.lagged = (k.lagged /\ ~behind) /\ n.noticed = (k.noticed \/ behind)
  <2> HIDE DEF j, f, behind, n
  <2>1. /\ (IF behind THEN LagFrame(j) ELSE f) \in Frames
        /\ (j.lagged /\ ~behind) \in BOOLEAN /\ (j.noticed \/ behind) \in BOOLEAN
    BY <1>2, <1>4
  <2> QED BY <1>3, <1>5, <2>1 DEF Connection
<1>7. Bounded(n)
  <2> HIDE DEF j, f, behind, n
  <2> QED BY <1>1, <1>2, <1>6, NumbersTyped DEF Bounded
<1>8. n.sending # Nothing
  <2> HIDE DEF j, f, behind, n
  <2> QED BY <1>2, <1>4, <1>6, FrameTypes
<1>9. CASE behind
  <2>1. Telling(n)
    <3> HIDE DEF j, f, behind, n
    <3> QED BY <1>4, <1>6, <1>9 DEF Telling, Untold, NoticeFor
  <2>2. Reminded(n)
    <3> HIDE DEF j, f, behind, n
    <3> QED BY <1>6, <1>8, <1>9 DEF Reminded
  <2> QED BY <1>7, <2>1, <2>2 DEF Served
<1>10. CASE ~behind
  <2>1. k.lagged => Tail(k.queue) # <<>>
    <3>1. k.lagged => Len(k.queue) >= 2
      BY <1>1, <1>10 DEF Served, Reminded
    <3>2. k.lagged => Len(Tail(k.queue)) >= 1
      BY <1>1, <1>2, <3>1
    <3>3. ASSUME NEW t \in Seq(Frames), Len(t) >= 1
          PROVE  t # <<>>
      BY <3>3
    <3> QED BY <1>2, <3>2, <3>3
  <2>2. Telling(n)
    <3> SUFFICES ASSUME NEW e \in Untold(n)
                 PROVE  NoticeFor(n, e) \/ (n.lagged /\ n.queue # <<>>)
      BY DEF Telling
    <3>1. e \in Untold(k)
      BY <1>3, <1>6, <1>10 DEF Untold
    <3>2. n.sending = f /\ n.lagged = k.lagged
      BY <1>1, <1>6, <1>10
    <3>3. CASE k.lagged
      BY <1>6, <2>1, <3>2, <3>3
    <3>4. CASE ~k.lagged
      <4>1. NoticeFor(k, e)
        BY <3>1, <3>4 DEF Served, Telling
      <4>2. PICK g \in Range(k.queue) \cup {k.sending} : g.type = "lag" /\ e \in g.covers
        BY <4>1 DEF NoticeFor
      <4>3. g \in Range(k.queue)
        BY <4>2 DEF Nothing
      <4>4. g \in Range(n.queue) \cup {n.sending}
        <5> HIDE DEF f, j, behind, n
        <5> QED BY <1>2, <1>6, <3>2, <4>3
      <4> QED BY <4>2, <4>4 DEF NoticeFor
    <3> QED BY <3>3, <3>4
  <2>3. Reminded(n)
    <3> HIDE DEF j, f, behind, n
    <3> QED BY <1>6, <1>8, <2>1 DEF Reminded
  <2> QED BY <1>7, <2>2, <2>3 DEF Served
<1> QED BY <1>9, <1>10

LEMMA SentOffGood ==
    ASSUME NEW k, Bounded(k), Served(k), k.sending # Nothing
    PROVE  Bounded(SentOff(k)) /\ Served(SentOff(k))
<1> DEFINE news == IF k.sending.type = "lag" THEN k.sending.covers ELSE {}
<1> DEFINE n == SentOff(k)
<1>1. k \in Connection /\ k.sending \in Frames /\ k.told \in SUBSET Events
  BY DEF Bounded, Connection
<1>2. k.told \cup news \in SUBSET Events
  BY <1>1, FrameTypes
<1>3. n = [k EXCEPT !.sending = Nothing, !.noticed = FALSE, !.told = k.told \cup news]
  BY DEF SentOff
<1>4. /\ n \in Connection /\ n.queue = k.queue /\ n.sending = Nothing
      /\ n.noticed = FALSE /\ n.lagged = k.lagged /\ n.writer = k.writer
      /\ n.lost = k.lost /\ n.told = k.told \cup news
  <2> HIDE DEF n, news
  <2> QED BY <1>1, <1>2, <1>3 DEF Connection
<1>5. Bounded(n)
  BY <1>4 DEF Bounded
<1>6. k.writer = "up" => Telling(n)
  <2> SUFFICES ASSUME k.writer = "up", NEW e \in Untold(n)
               PROVE  NoticeFor(n, e) \/ (n.lagged /\ n.queue # <<>>)
    BY DEF Telling
  <2>1. e \in Untold(k) /\ e \notin news
    <3> HIDE DEF n, news
    <3> QED BY <1>4 DEF Untold
  <2>2. CASE k.lagged /\ k.queue # <<>>
    BY <1>4, <2>2
  <2>3. CASE NoticeFor(k, e)
    <3>1. PICK g \in Range(k.queue) \cup {k.sending} : g.type = "lag" /\ e \in g.covers
      BY <2>3 DEF NoticeFor
    <3>2. g \in Range(n.queue)
      BY <1>4, <2>1, <3>1
    <3> QED BY <3>1, <3>2 DEF NoticeFor
  <2> QED BY <2>1, <2>2, <2>3 DEF Served, Telling
<1>7. k.writer = "up" => Reminded(n)
  BY <1>4 DEF Served, Reminded
<1> QED BY <1>4, <1>5, <1>6, <1>7 DEF Served

-----------------------------------------------------------------------------
(* The greatest of a bounded set of numbers, by way of its least bound.    *)
LEMMA LeastNatural ==
    ASSUME NEW T, T \subseteq Nat, T # {}
    PROVE  \E m \in T : \A n \in T : m <= n
<1> DEFINE R == OpToRel(<, Nat)
<1>1. IsWellFoundedOn(R, Nat)
  BY NatLessThanWellFounded
<1>2. \A x, y \in Nat : x < y => <<x, y>> \in R
  BY DEF OpToRel
<1>3. \E x \in T : \A y \in T : ~ (<<y, x>> \in R)
  <2> HIDE DEF R
  <2> QED BY <1>1, WFMin
<1>4. PICK m \in T : \A y \in T : ~ (<<y, m>> \in R)
  BY <1>3
<1>5. ASSUME NEW n \in T PROVE m <= n
  <2>1. m \in Nat /\ n \in Nat /\ ~(n < m)
    BY <1>2, <1>4
  <2> QED BY <2>1
<1> QED BY <1>4, <1>5

LEMMA Greatest ==
    ASSUME NEW N \in Nat, NEW S \in SUBSET (1..N)
    PROVE  \E n \in 0..N : (n = 0 \/ n \in S) /\ \A s \in S : s <= n
<1> DEFINE T == {n \in 0..N : \A s \in S : s <= n}
<1>1. T \subseteq Nat /\ N \in T
  OBVIOUS
<1>2. PICK m \in T : \A n \in T : m <= n
  BY <1>1, LeastNatural
<1>3. CASE m = 0 \/ m \in S
  BY <1>2, <1>3
<1>4. CASE m # 0 /\ m \notin S
  <2>1. m - 1 \in T
    BY <1>2, <1>4
  <2>2. ~(m <= m - 1)
    BY <1>1, <1>2
  <2> QED BY <1>2, <2>1, <2>2
<1> QED BY <1>3, <1>4

(* What the hello says: no stored event lies above it.                     *)
LEMMA LatestSeqsTell ==
    ASSUME stored \subseteq Events
    PROVE  /\ LatestSeqs \in Marks
           /\ \A e \in stored : e.seq <= LatestSeqs[e.repo]
<1> DEFINE P(r, n) == /\ n = 0 \/ [repo |-> r, seq |-> n] \in stored
                      /\ \A e \in stored : e.repo = r => e.seq <= n
<1>1. ASSUME NEW r \in Repos PROVE \E n \in 0..MaxSeq : P(r, n)
  <2> DEFINE S == {n \in 1..MaxSeq : [repo |-> r, seq |-> n] \in stored}
  <2>1. PICK n \in 0..MaxSeq : (n = 0 \/ n \in S) /\ \A s \in S : s <= n
    BY NumbersTyped, Greatest
  <2>2. ASSUME NEW e \in stored, e.repo = r PROVE e.seq <= n
    <3>1. e.seq \in 1..MaxSeq /\ e = [repo |-> r, seq |-> e.seq]
      BY <2>2 DEF Events
    <3> QED BY <2>1, <3>1
  <2> QED BY <2>1, <2>2
<1>2. ASSUME NEW r \in Repos
      PROVE  LatestSeqs[r] \in 0..MaxSeq /\ P(r, LatestSeqs[r])
  <2>1. LatestSeqs[r] = CHOOSE n \in 0..MaxSeq : P(r, n)
    BY DEF LatestSeqs
  <2> HIDE DEF P
  <2> QED BY <1>1, <2>1
<1>3. LatestSeqs \in Marks
  BY <1>2 DEF LatestSeqs, Marks
<1>4. ASSUME NEW e \in stored PROVE e.seq <= LatestSeqs[e.repo]
  BY <1>2 DEF Events
<1> QED BY <1>3, <1>4

-----------------------------------------------------------------------------
(* Types and service, of the whole room.                                   *)
RoomInv == TypeOK /\ \A c \in Conns : Served(conn[c])

LEMMA ConnsGood ==
    RoomInv <=> /\ stored \subseteq Events
                /\ pending \in [Publishers -> SUBSET Events]
                /\ fanning \in Publishers \cup {NoOne}
                /\ fanning # NoOne => pending[fanning] # {}
                /\ conn \in [Conns -> Connection]
                /\ \A c \in Conns : Bounded(conn[c]) /\ Served(conn[c])
BY DEF RoomInv, TypeOK, Bounded

(* A step that puts one good connection in the place of another.           *)
LEMMA UpdateGood ==
    ASSUME RoomInv, NEW c \in Conns, NEW k, Bounded(k), Served(k), Update(c, k),
           UNCHANGED <<stored, pending, fanning>>
    PROVE  RoomInv'
<1>1. conn \in [Conns -> Connection] /\ k \in Connection
  BY ConnsGood DEF Bounded
<1>2. /\ conn' \in [Conns -> Connection]
      /\ \A d \in Conns : conn'[d] = IF d = c THEN k ELSE conn[d]
  BY <1>1 DEF Update
<1>3. \A d \in Conns : Bounded(conn'[d]) /\ Served(conn'[d])
  BY <1>2, ConnsGood
<1> QED BY <1>2, <1>3 DEF RoomInv, TypeOK, Bounded

LEMMA RoomStep == RoomInv /\ [Next]_vars => RoomInv'
<1> SUFFICES ASSUME RoomInv, [Next]_vars PROVE RoomInv'
  OBVIOUS
<1>1. /\ conn \in [Conns -> Connection]
      /\ \A c \in Conns : Bounded(conn[c]) /\ Served(conn[c]) /\ conn[c] \in Connection
  BY ConnsGood
<1>2. Bounded(Out) /\ Served(Out) /\ Out \in Connection
  BY FreshGood DEF Out, Bounded
<1>3. CASE UNCHANGED vars
  BY <1>3 DEF RoomInv, TypeOK, vars
<1>4. ASSUME NEW c \in Conns, Admit(c) PROVE RoomInv'
  BY <1>4, FreshGood, UpdateGood DEF Admit
<1>5. ASSUME NEW c \in Conns, Hello(c) PROVE RoomInv'
  <2> DEFINE k == [conn[c] EXCEPT !.phase = "open", !.latest = LatestSeqs]
  <2>1. LatestSeqs \in Marks
    BY LatestSeqsTell DEF RoomInv, TypeOK
  <2>2. /\ k \in Connection /\ k.queue = conn[c].queue /\ k.lagged = conn[c].lagged
        /\ k.noticed = conn[c].noticed /\ k.sending = conn[c].sending
        /\ k.writer = conn[c].writer /\ k.lost = conn[c].lost /\ k.told = conn[c].told
    BY <1>1, <2>1 DEF Connection
  <2>3. Bounded(k) /\ Served(k)
    <3> HIDE DEF k
    <3> QED BY <1>1, <2>2 DEF Bounded, Served, Telling, Reminded, Untold, NoticeFor
  <2> QED BY <1>5, <2>3, UpdateGood DEF Hello
<1>6. ASSUME NEW c \in Conns, Take(c) PROVE RoomInv'
  BY <1>1, <1>6, TakenGood, UpdateGood DEF Take
<1>7. ASSUME NEW c \in Conns, Sent(c) PROVE RoomInv'
  BY <1>1, <1>7, SentOffGood, UpdateGood DEF Sent
<1>8. ASSUME NEW c \in Conns, SendFails(c) PROVE RoomInv'
  <2> DEFINE k == [conn[c] EXCEPT !.sending = Nothing, !.writer = "down"]
  <2>1. k \in Connection /\ k.queue = conn[c].queue /\ k.writer = "down"
    BY <1>1 DEF Connection
  <2>2. Bounded(k) /\ Served(k)
    <3> HIDE DEF k
    <3> QED BY <1>1, <2>1 DEF Bounded, Served
  <2> QED BY <1>8, <2>2, UpdateGood DEF SendFails
<1>9. ASSUME NEW c \in Conns, Close(c) PROVE RoomInv'
  BY <1>2, <1>9, UpdateGood DEF Close
<1>10. ASSUME NEW p \in Publishers, Publish(p) PROVE RoomInv'
  <2>1. PICK rows \in SUBSET Events :
            /\ stored' = stored \cup rows
            /\ pending' = [pending EXCEPT ![p] = Accepted(rows)]
            /\ conn' = OwnedBy(p, rows)
            /\ UNCHANGED fanning
    BY <1>10 DEF Publish
  <2>2. Accepted(rows) \in SUBSET Events
    BY DEF Accepted
  <2>3. pending' \in [Publishers -> SUBSET Events] /\ stored' \subseteq Events
    BY <2>1, <2>2 DEF RoomInv, TypeOK
  <2>4. fanning' = NoOne
    BY <1>10, <2>1 DEF Publish, MayPublish
  <2>5. ASSUME NEW c \in Conns
        PROVE  /\ conn'[c] \in Connection
               /\ Bounded(conn'[c]) /\ Served(conn'[c])
    <3> DEFINE k == [conn[c] EXCEPT !.own = @ \cup rows]
    <3>1. /\ k \in Connection /\ k.queue = conn[c].queue /\ k.lagged = conn[c].lagged
          /\ k.noticed = conn[c].noticed /\ k.sending = conn[c].sending
          /\ k.writer = conn[c].writer /\ k.lost = conn[c].lost /\ k.told = conn[c].told
      <4>1. conn[c].own \cup rows \in SUBSET Events
        BY <1>1 DEF Connection
      <4> QED BY <1>1, <4>1 DEF Connection
    <3>2. Bounded(k) /\ Served(k)
      <4> HIDE DEF k
      <4> QED BY <1>1, <3>1 DEF Bounded, Served, Telling, Reminded, Untold, NoticeFor
    <3>3. conn'[c] = k \/ conn'[c] = conn[c]
      BY <1>1, <2>1 DEF OwnedBy
    <3> QED BY <1>1, <3>1, <3>2, <3>3
  <2>6. conn' \in [Conns -> Connection]
    <3>1. DOMAIN conn' = Conns /\ conn' = [c \in Conns |-> conn'[c]]
      BY <1>1, <2>1 DEF OwnedBy
    <3> QED BY <2>5, <3>1
  <2> QED BY <2>3, <2>4, <2>5, <2>6 DEF RoomInv, TypeOK, Bounded
<1>11. ASSUME NEW p \in Publishers, FanOutBegins(p) PROVE RoomInv'
  BY <1>11 DEF FanOutBegins, RoomInv, TypeOK, Served, Telling, Reminded, Untold, NoticeFor
<1>12. CASE FanOut
  <2>1. PICK e \in pending[fanning] :
          /\ conn' = [c \in Conns |->
                 IF c \in Recipients(fanning) THEN Offered(conn[c], e) ELSE conn[c]]
          /\ pending' = [pending EXCEPT ![fanning] = pending[fanning] \ {e}]
          /\ fanning' = IF pending[fanning] \ {e} = {} THEN NoOne ELSE fanning
          /\ stored' = stored
    BY <1>12 DEF FanOut
  <2>2. fanning \in Publishers /\ pending[fanning] \in SUBSET Events /\ e \in Events
    BY <1>12 DEF FanOut, RoomInv, TypeOK
  <2>3. pending' \in [Publishers -> SUBSET Events]
    BY <2>1, <2>2 DEF RoomInv, TypeOK
  <2>4. /\ fanning' \in Publishers \cup {NoOne}
        /\ fanning' # NoOne => pending'[fanning'] # {}
    BY <2>1, <2>2 DEF RoomInv, TypeOK
  <2>5. ASSUME NEW c \in Conns
        PROVE  conn'[c] \in Connection /\ Bounded(conn'[c]) /\ Served(conn'[c])
    <3>1. Bounded(Offered(conn[c], e)) /\ Served(Offered(conn[c], e))
      BY <1>1, <2>2, OfferedGood
    <3>2. conn'[c] = Offered(conn[c], e) \/ conn'[c] = conn[c]
      BY <2>1
    <3> QED BY <1>1, <3>1, <3>2 DEF Bounded
  <2>6. conn' \in [Conns -> Connection]
    <3>1. conn' = [c \in Conns |-> conn'[c]]
      BY <2>1
    <3> QED BY <2>5, <3>1
  <2>7. stored' \subseteq Events
    BY <2>1 DEF RoomInv, TypeOK
  <2> QED BY <2>3, <2>4, <2>5, <2>6, <2>7 DEF RoomInv, TypeOK, Bounded
<1>13. CASE Restart
  <2>1. conn' \in [Conns -> Connection] /\ \A c \in Conns : conn'[c] = Out
    BY <1>2, <1>13 DEF Restart
  <2>2. \A c \in Conns : Bounded(conn'[c]) /\ Served(conn'[c])
    BY <1>2, <2>1
  <2>3. /\ stored' \subseteq Events /\ fanning' = NoOne
        /\ pending' \in [Publishers -> SUBSET Events]
    BY <1>13 DEF Restart, RoomInv, TypeOK
  <2> QED BY <2>1, <2>2, <2>3 DEF RoomInv, TypeOK, Bounded
<1> QED BY <1>3, <1>4, <1>5, <1>6, <1>7, <1>8, <1>9, <1>10, <1>11, <1>12, <1>13 DEF Next

LEMMA RoomStarts == Init => RoomInv
<1> SUFFICES ASSUME Init PROVE RoomInv
  OBVIOUS
<1>1. Bounded(Out) /\ Served(Out) /\ Out \in Connection
  BY FreshGood DEF Out, Bounded
<1>2. conn \in [Conns -> Connection] /\ \A c \in Conns : conn[c] = Out
  BY <1>1 DEF Init
<1>3. \A c \in Conns : Bounded(conn[c]) /\ Served(conn[c])
  BY <1>1, <1>2
<1> QED BY <1>2, <1>3 DEF Init, RoomInv, TypeOK, Bounded

(* The room stays well typed and no queue exceeds its bound.               *)
THEOREM HubTyped == Spec => []TypeOK
<1>1. RoomInv => TypeOK
  BY DEF RoomInv
<1> QED BY <1>1, RoomStarts, RoomStep, PTL DEF Spec

(* A client whose writer lives is never left without notice of a loss      *)
(* (hub.py:251-333), however long its queue and the bursts that hit it.    *)
THEOREM LaggedClientIsTold == Spec => []NoticeOnItsWay
<1>1. RoomInv => NoticeOnItsWay
  BY DEF RoomInv, NoticeOnItsWay, Served, Telling, Registered
<1> QED BY <1>1, RoomStarts, RoomStep, PTL DEF Spec

-----------------------------------------------------------------------------
(* What the hub's operators leave alone of what the next proofs look at.   *)
Same(j, k) == j.phase = k.phase /\ j.latest = k.latest /\ j.own = k.own

LEMMA NoticeInRoomKeeps ==
    ASSUME NEW k \in Connection
    PROVE  Same(NoticeInRoom(k), k) /\ NoticeInRoom(k).offered = k.offered
BY DEF NoticeInRoom, Same, Connection

LEMMA OfferedKeeps ==
    ASSUME NEW k \in Connection, NEW e \in Events
    PROVE  Same(Offered(k, e), k) /\ Offered(k, e).offered = k.offered \cup {e}
<1> DEFINE j == Noted(k, e)
<1>1. /\ Same(j, k) /\ j.offered = k.offered \cup {e}
  BY DEF Noted, Same, Connection
<1>2. j \in Connection
  <2>1. k.seen \in Marks /\ e.repo \in Repos /\ e.seq \in 0..MaxSeq
    BY NumbersTyped DEF Connection, Events
  <2>2. j = [k EXCEPT !.seen = j.seen, !.offered = k.offered \cup {e}]
    BY DEF Noted, Connection
  <2>3. j.seen \in Marks
    BY <2>1 DEF Noted, Marks, Connection
  <2>4. k.offered \cup {e} \in SUBSET Events
    BY DEF Connection
  <2>5. ASSUME NEW t \in Marks, NEW o \in SUBSET Events
        PROVE  [k EXCEPT !.seen = t, !.offered = o] \in Connection
    BY DEF Connection
  <2> HIDE DEF j
  <2> QED BY <2>2, <2>3, <2>4, <2>5
<1>3. ASSUME NEW i \in Connection
      PROVE  Same(Enqueued(i, e), i) /\ Enqueued(i, e).offered = i.offered
  <2> DEFINE d == [i EXCEPT !.lost = @ \cup {e}, !.lagged = TRUE]
  <2>1. /\ d \in Connection /\ Same(d, i) /\ d.offered = i.offered
    <3>1. i.lost \cup {e} \in SUBSET Events
      BY DEF Connection
    <3> QED BY <3>1 DEF Connection, Same
  <2>2. Same(NoticeInRoom(d), i) /\ NoticeInRoom(d).offered = i.offered
    <3> HIDE DEF d
    <3> QED BY <2>1, NoticeInRoomKeeps DEF Same
  <2>3. CASE Len(i.queue) < QueueSize
    BY <2>3 DEF Enqueued, Same, Connection
  <2>4. CASE ~(Len(i.queue) < QueueSize)
    <3>1. Enqueued(i, e) = IF i.noticed THEN d ELSE NoticeInRoom(d)
      BY <2>4 DEF Enqueued, Overflow
    <3> HIDE DEF d
    <3> QED BY <2>1, <2>2, <3>1
  <2> QED BY <2>3, <2>4
<1> HIDE DEF j
<1>4. Offered(k, e) = Enqueued(j, e)
  BY DEF Offered, j
<1> QED BY <1>1, <1>2, <1>3, <1>4 DEF Same

LEMMA WriterKeeps ==
    ASSUME NEW k \in Connection
    PROVE  /\ Same(Taken(k), k) /\ Taken(k).offered = k.offered
           /\ Same(SentOff(k), k) /\ SentOff(k).offered = k.offered
BY DEF Taken, SentOff, Same, Connection

(* Where an event can be: nothing is pending or was offered that is not    *)
(* stored, and what is new in the store is in no other hands.              *)
Placed ==
    /\ \A p \in Publishers : pending[p] \subseteq stored
    /\ \A c \in Conns : conn[c].offered \subseteq stored
    /\ OfferedOnce
    /\ NoGapAtHello

(* A step of one connection that hands it nothing.                         *)
LEMMA QuietStep ==
    ASSUME RoomInv, Placed, NEW c \in Conns, NEW k, Update(c, k),
           k.offered \subseteq conn[c].offered,
           k.phase # "out" => conn[c].phase # "out" \/ k.offered = {},
           k.phase = "open" =>
               \A e \in stored : \/ e.seq <= k.latest[e.repo]
                                 \/ conn[c].phase = "open" /\ Same(k, conn[c])
                                       /\ k.offered = conn[c].offered,
           UNCHANGED <<stored, pending, fanning>>
    PROVE  Placed'
<1>1. \A d \in Conns : conn'[d] = IF d = c THEN k ELSE conn[d]
  BY DEF Update, RoomInv, TypeOK
<1>2. \A d \in Conns : conn'[d].offered \subseteq conn[d].offered
  BY <1>1
<1>3. (\A p \in Publishers : pending[p] \subseteq stored)'
  BY DEF Placed
<1>4. (\A d \in Conns : conn[d].offered \subseteq stored)'
  BY <1>2 DEF Placed
<1>5. OfferedOnce'
  <2>1. ASSUME NEW p \in Publishers, NEW d \in Recipients(p)'
        PROVE  pending[p] \cap conn'[d].offered = {}
    <3>1. d \in Conns /\ d # p /\ conn'[d].phase # "out"
      BY DEF Recipients, Registered
    <3>2. conn'[d].offered = {} \/ d \in Recipients(p)
      BY <1>1, <3>1 DEF Recipients, Registered
    <3> QED BY <1>2, <3>1, <3>2 DEF Placed, OfferedOnce
  <2> QED BY <2>1 DEF Placed, OfferedOnce
<1>6. NoGapAtHello'
  <2> SUFFICES ASSUME NEW d \in Conns, conn'[d].phase = "open", NEW e \in stored
               PROVE  \/ e.seq <= conn'[d].latest[e.repo]
                      \/ e \in conn'[d].own \cup conn'[d].offered
                      \/ \E p \in Publishers \ {d} : e \in pending[p]
    BY DEF NoGapAtHello
  <2>1. CASE d = c
    BY <1>1, <2>1 DEF Placed, NoGapAtHello, Same
  <2>2. CASE d # c
    BY <1>1, <2>2 DEF Placed, NoGapAtHello
  <2> QED BY <2>1, <2>2
<1> QED BY <1>3, <1>4, <1>5, <1>6 DEF Placed

LEMMA PlacedStep == RoomInv /\ Placed /\ [Next]_vars => Placed'
<1> SUFFICES ASSUME RoomInv, Placed, [Next]_vars PROVE Placed'
  OBVIOUS
<1>1. /\ conn \in [Conns -> Connection] /\ stored \subseteq Events
      /\ pending \in [Publishers -> SUBSET Events]
      /\ \A c \in Conns : conn[c] \in Connection
      /\ Conns \subseteq Publishers
  BY DEF RoomInv, TypeOK, Publishers
<1>2. Out.phase = "out" /\ Out.offered = {}
  BY DEF Out, Fresh
<1>3. CASE UNCHANGED vars
  BY <1>3 DEF vars, Placed, OfferedOnce, NoGapAtHello, Recipients, Registered
<1>4. ASSUME NEW c \in Conns, Admit(c) PROVE Placed'
  <2>1. /\ Fresh("admitted", "up").phase = "admitted"
        /\ Fresh("admitted", "up").offered = {}
    BY DEF Fresh
  <2> QED BY <1>4, <2>1, QuietStep DEF Admit
<1>5. ASSUME NEW c \in Conns, Hello(c) PROVE Placed'
  <2> DEFINE k == [conn[c] EXCEPT !.phase = "open", !.latest = LatestSeqs]
  <2>1. k.offered = conn[c].offered /\ k.latest = LatestSeqs
    BY <1>1 DEF Connection
  <2>2. \A e \in stored : e.seq <= k.latest[e.repo]
    BY <1>1, <2>1, LatestSeqsTell
  <2>3. Update(c, k) /\ conn[c].phase # "out" /\ UNCHANGED <<stored, pending, fanning>>
    BY <1>5 DEF Hello
  <2> HIDE DEF k
  <2> QED BY <2>1, <2>2, <2>3, QuietStep
<1>6. ASSUME NEW c \in Conns, Take(c) PROVE Placed'
  <2>1. Same(Taken(conn[c]), conn[c]) /\ Taken(conn[c]).offered = conn[c].offered
    BY <1>1, WriterKeeps
  <2> QED BY <1>6, <2>1, QuietStep DEF Take, Same
<1>7. ASSUME NEW c \in Conns, Sent(c) PROVE Placed'
  <2>1. Same(SentOff(conn[c]), conn[c]) /\ SentOff(conn[c]).offered = conn[c].offered
    BY <1>1, WriterKeeps
  <2> QED BY <1>7, <2>1, QuietStep DEF Sent, Same
<1>8. ASSUME NEW c \in Conns, SendFails(c) PROVE Placed'
  <2> DEFINE k == [conn[c] EXCEPT !.sending = Nothing, !.writer = "down"]
  <2>1. Same(k, conn[c]) /\ k.offered = conn[c].offered
    BY <1>1 DEF Connection, Same
  <2> HIDE DEF k
  <2> QED BY <1>8, <2>1, QuietStep DEF SendFails, Same, k
<1>9. ASSUME NEW c \in Conns, Close(c) PROVE Placed'
  BY <1>2, <1>9, QuietStep DEF Close
<1>10. ASSUME NEW p \in Publishers, Publish(p) PROVE Placed'
  <2>1. PICK rows \in SUBSET Events :
            /\ stored' = stored \cup rows
            /\ pending' = [pending EXCEPT ![p] = rows \ stored]
            /\ conn' = OwnedBy(p, rows)
    BY <1>10 DEF Publish, Accepted
  <2>2. \A q \in Publishers : pending'[q] = IF q = p THEN rows \ stored ELSE pending[q]
    BY <1>1, <2>1
  <2>3. pending[p] = {}
    BY <1>10 DEF Publish, MayPublish
  <2>4. ASSUME NEW c \in Conns
        PROVE  /\ conn'[c].phase = conn[c].phase /\ conn'[c].latest = conn[c].latest
               /\ conn'[c].offered = conn[c].offered
               /\ conn'[c].own = IF c = p THEN conn[c].own \cup rows ELSE conn[c].own
    <3>1. CASE p \in Conns
      BY <1>1, <2>1, <3>1 DEF OwnedBy, Connection
    <3>2. CASE p \notin Conns
      BY <2>1, <3>2 DEF OwnedBy
    <3> QED BY <3>1, <3>2
  <2>5. (\A q \in Publishers : pending[q] \subseteq stored)'
    BY <2>1, <2>2 DEF Placed
  <2>6. (\A c \in Conns : conn[c].offered \subseteq stored)'
    BY <2>1, <2>4 DEF Placed
  <2>7. OfferedOnce'
    <3>1. ASSUME NEW q \in Publishers, NEW r \in Publishers \ {q}
          PROVE  pending'[q] \cap pending'[r] = {}
      BY <2>2 DEF Placed, OfferedOnce
    <3>2. ASSUME NEW q \in Publishers, NEW c \in Recipients(q)'
          PROVE  pending'[q] \cap conn'[c].offered = {}
      <4>1. c \in Conns /\ c \in Recipients(q)
        BY <2>4 DEF Recipients, Registered
      <4>2. conn[c].offered \subseteq stored /\ conn'[c].offered = conn[c].offered
        BY <2>4, <4>1 DEF Placed
      <4>3. pending[q] \cap conn[c].offered = {}
        BY <4>1 DEF Placed, OfferedOnce
      <4> QED BY <2>2, <4>2, <4>3
    <3> QED BY <3>1, <3>2 DEF OfferedOnce
  <2>8. NoGapAtHello'
    <3> SUFFICES ASSUME NEW c \in Conns, conn'[c].phase = "open", NEW e \in stored'
                 PROVE  \/ e.seq <= conn'[c].latest[e.repo]
                        \/ e \in conn'[c].own \cup conn'[c].offered
                        \/ \E q \in Publishers \ {c} : e \in pending'[q]
      BY DEF NoGapAtHello
    <3>1. CASE e \in stored
      <4>1. \/ e.seq <= conn[c].latest[e.repo]
            \/ e \in conn[c].own \cup conn[c].offered
            \/ \E q \in Publishers \ {c} : e \in pending[q]
        BY <2>4, <3>1 DEF Placed, NoGapAtHello
      <4>2. \A q \in Publishers : pending[q] \subseteq pending'[q]
        BY <2>2, <2>3
      <4>3. conn[c].own \subseteq conn'[c].own
        BY <2>4
      <4>4. conn'[c].latest = conn[c].latest /\ conn'[c].offered = conn[c].offered
        BY <2>4
      <4>5. CASE \E q \in Publishers \ {c} : e \in pending[q]
        BY <4>2, <4>5
      <4>6. CASE e.seq <= conn[c].latest[e.repo] \/ e \in conn[c].own \cup conn[c].offered
        BY <4>3, <4>4, <4>6
      <4> QED BY <4>1, <4>5, <4>6
    <3>2. CASE e \notin stored
      <4>1. e \in rows /\ e \in pending'[p]
        BY <2>1, <2>2, <3>2
      <4>2. CASE c = p
        BY <2>4, <4>1, <4>2
      <4>3. CASE c # p
        BY <4>1, <4>3
      <4> QED BY <4>2, <4>3
    <3> QED BY <3>1, <3>2
  <2> QED BY <2>5, <2>6, <2>7, <2>8 DEF Placed
<1>11. ASSUME NEW p \in Publishers, FanOutBegins(p) PROVE Placed'
  BY <1>11 DEF FanOutBegins, Placed, OfferedOnce, NoGapAtHello, Recipients, Registered
<1>12. CASE FanOut
  <2>1. PICK e \in pending[fanning] :
          /\ conn' = [c \in Conns |->
                 IF c \in Recipients(fanning) THEN Offered(conn[c], e) ELSE conn[c]]
          /\ pending' = [pending EXCEPT ![fanning] = pending[fanning] \ {e}]
          /\ stored' = stored
    BY <1>12 DEF FanOut
  <2>2. fanning \in Publishers /\ e \in Events /\ e \in stored
    BY <1>12, <1>1 DEF FanOut, RoomInv, TypeOK, Placed
  <2>3. \A q \in Publishers :
            pending'[q] = IF q = fanning THEN pending[q] \ {e} ELSE pending[q]
    BY <1>1, <2>1
  <2>4. ASSUME NEW c \in Conns
        PROVE  /\ Same(conn'[c], conn[c])
               /\ conn'[c].offered = IF c \in Recipients(fanning)
                                     THEN conn[c].offered \cup {e} ELSE conn[c].offered
    BY <1>1, <2>1, <2>2, OfferedKeeps DEF Same
  <2>5. (\A q \in Publishers : pending[q] \subseteq stored)'
    BY <2>1, <2>3 DEF Placed
  <2>6. (\A c \in Conns : conn[c].offered \subseteq stored)'
    BY <2>1, <2>2, <2>4 DEF Placed
  <2>7. OfferedOnce'
    <3>1. ASSUME NEW q \in Publishers, NEW r \in Publishers \ {q}
          PROVE  pending'[q] \cap pending'[r] = {}
      BY <2>3 DEF Placed, OfferedOnce
    <3>2. ASSUME NEW q \in Publishers, NEW c \in Recipients(q)'
          PROVE  pending'[q] \cap conn'[c].offered = {}
      <4>1. c \in Conns /\ c \in Recipients(q)
        BY <2>4 DEF Recipients, Registered, Same
      <4>2. pending[q] \cap conn[c].offered = {}
        BY <4>1 DEF Placed, OfferedOnce
      <4>3. e \notin pending'[q]
        BY <2>2, <2>3 DEF Placed, OfferedOnce
      <4> QED BY <2>3, <2>4, <4>1, <4>2, <4>3
    <3> QED BY <3>1, <3>2 DEF OfferedOnce
  <2>8. NoGapAtHello'
    <3> SUFFICES ASSUME NEW c \in Conns, conn'[c].phase = "open", NEW f \in stored
                 PROVE  \/ f.seq <= conn'[c].latest[f.repo]
                        \/ f \in conn'[c].own \cup conn'[c].offered
                        \/ \E q \in Publishers \ {c} : f \in pending'[q]
      BY <2>1 DEF NoGapAtHello
    <3>1. \/ f.seq <= conn[c].latest[f.repo]
          \/ f \in conn[c].own \cup conn[c].offered
          \/ \E q \in Publishers \ {c} : f \in pending[q]
      BY <2>4 DEF Placed, NoGapAtHello, Same
    <3>2. CASE \E q \in Publishers \ {c} : f \in pending[q]
      <4>1. PICK q \in Publishers \ {c} : f \in pending[q]
        BY <3>2
      <4>2. CASE f = e /\ q = fanning
        <5>1. c \in Recipients(fanning)
          BY <2>4, <4>1, <4>2 DEF Recipients, Registered, Same
        <5> QED BY <2>4, <4>2, <5>1
      <4>3. CASE ~(f = e /\ q = fanning)
        BY <2>3, <4>1, <4>3
      <4> QED BY <4>2, <4>3
    <3>3. CASE f.seq <= conn[c].latest[f.repo] \/ f \in conn[c].own \cup conn[c].offered
      BY <2>4, <3>3 DEF Same
    <3> QED BY <3>1, <3>2, <3>3
  <2> QED BY <2>5, <2>6, <2>7, <2>8 DEF Placed
<1>13. CASE Restart
  <2>1. /\ \A c \in Conns : conn'[c] = Out
        /\ \A p \in Publishers : pending'[p] = {}
    BY <1>13 DEF Restart
  <2> QED BY <1>2, <2>1 DEF Placed, OfferedOnce, NoGapAtHello, Recipients, Registered
<1> QED BY <1>3, <1>4, <1>5, <1>6, <1>7, <1>8, <1>9, <1>10, <1>11, <1>12, <1>13 DEF Next

LEMMA PlacedInit == Init => Placed
<1> SUFFICES ASSUME Init PROVE Placed
  OBVIOUS
<1>1. \A c \in Conns : conn[c].phase = "out" /\ conn[c].offered = {}
  BY DEF Init, Out, Fresh
<1> QED BY <1>1 DEF Init, Placed, OfferedOnce, NoGapAtHello, Recipients, Registered

LEMMA PlacedInvariant == Spec => []Placed
BY RoomStarts, RoomStep, PlacedInit, PlacedStep, PTL DEF Spec

(* No event is published to a connection twice (routes.py:638-642), however*)
(* many publishers repeat each other's batches.                            *)
THEOREM NeverOfferedTwice == Spec => []OfferedOnce
<1>1. Placed => OfferedOnce
  BY DEF Placed
<1> QED BY <1>1, PlacedInvariant, PTL

(* Between the hello and the fan-out no event falls through                *)
(* (routes.py:650-689), whatever is published while a client is admitted.  *)
THEOREM HelloLeavesNoGap == Spec => []NoGapAtHello
<1>1. Placed => NoGapAtHello
  BY DEF Placed
<1> QED BY <1>1, PlacedInvariant, PTL

-----------------------------------------------------------------------------
(* Invites and members.                                                    *)

Called == {"locked", "used", "found", "joined", "admitted", "refused", "failed"}

Redemption ==
    [subject : Subjects \cup {NoMember}, invite : Invites \cup {NoMember}, saw : 0..3,
     at : Called \cup {"none"}]

RedeemTyped ==
    /\ redeem \in [Redemptions -> Redemption]
    /\ \A r \in Redemptions : redeem[r].at # "none" =>
        redeem[r].subject \in Subjects /\ redeem[r].invite \in Invites
    /\ used \in [Invites -> Nat] /\ void \subseteq Invites
    /\ role \in [Subjects -> 0..3] /\ token \in [Redemptions -> 0..3]
    /\ crossed \subseteq Subjects

(* An invite's row is locked by one redemption, which has found it usable, *)
(* and every redemption past the count was counted.                        *)
OneLock ==
    \A r \in Redemptions : redeem[r].at = "locked" =>
        /\ used[redeem[r].invite] < UsesGiven[redeem[r].invite]
        /\ \A q \in Redemptions :
            redeem[q].at = "locked" /\ redeem[q].invite = redeem[r].invite => q = r

UsesCounted ==
    \A i \in Invites :
        /\ used[i] <= UsesGiven[i]
        /\ IsFiniteSet(Counted(i)) /\ Cardinality(Counted(i)) <= used[i]

(* An invite that somebody has joined with gave this role.                 *)
Gave(s, rank) ==
    \E r \in Redemptions :
        /\ redeem[r].subject = s /\ redeem[r].at \in {"joined", "admitted"}
        /\ RoleGiven[redeem[r].invite] = rank

RolesGiven ==
    /\ \A s \in Subjects : role[s] = 0 \/ Gave(s, role[s])
    /\ \A r \in Redemptions :
        redeem[r].at = "admitted" => token[r] = 0 \/ Gave(redeem[r].subject, token[r])
    /\ \A r \in Redemptions : redeem[r].at # "admitted" => token[r] = 0

(* Who is about to write a member none of whose redemptions crossed, knows *)
(* what the member is; and it is the highest it was made.                  *)
HighestKept ==
    \A s \in Subjects \ crossed :
        /\ \A r \in Redemptions :
            redeem[r].subject = s /\ redeem[r].at = "found" => redeem[r].saw = role[s]
        /\ \A rank \in 1..3 : Gave(s, rank) => role[s] >= rank

RedeemInv == RedeemTyped /\ OneLock /\ UsesCounted /\ RolesGiven /\ HighestKept

LEMMA RedeemStarts == RoomInit => RedeemInv
<1> SUFFICES ASSUME RoomInit PROVE RedeemInv
    OBVIOUS
<1>1. RedeemTyped
    BY DEF RoomInit, RedeemTyped, Redemption, Called
<1>2. \A r \in Redemptions : redeem[r].at = "none"
    BY DEF RoomInit
<1>3. ASSUME NEW i \in Invites PROVE Counted(i) = {}
    BY <1>2 DEF Counted
<1>4. UsesCounted
    BY <1>3, FS_EmptySet, InvitesGive DEF RoomInit, UsesCounted
<1>5. OneLock /\ RolesGiven /\ HighestKept
    BY <1>2 DEF RoomInit, OneLock, RolesGiven, HighestKept, Gave
<1> QED
    BY <1>1, <1>4, <1>5 DEF RedeemInv

(* A redemption that moves on, without being counted or joining, changes   *)
(* no more than that.                                                      *)
LEMMA MovesOn ==
    ASSUME RedeemInv, NEW r \in Redemptions, NEW to \in Redemption,
           redeem' = [redeem EXCEPT ![r] = to],
           UNCHANGED <<used, void, role, token, crossed>>,
           to.at # "none" => to.subject \in Subjects /\ to.invite \in Invites,
           to.at = "locked" =>
                /\ used[to.invite] < UsesGiven[to.invite]
                /\ \A q \in Redemptions \ {r} :
                    ~(redeem[q].at = "locked" /\ redeem[q].invite = to.invite),
           to.at \in {"used", "found", "joined", "admitted"} =>
                /\ redeem[r].at \in {"used", "found", "joined", "admitted"}
                /\ redeem[r].invite = to.invite,
           redeem[r].at \notin {"joined", "admitted"} /\ to.at \notin {"joined", "admitted"},
           to.at = "found" => to.saw = role[to.subject]
    PROVE  RedeemInv'
<1> USE DEF RedeemInv
<1>1. /\ redeem'[r] = to /\ \A q \in Redemptions \ {r} : redeem'[q] = redeem[q]
      /\ redeem' \in [Redemptions -> Redemption]
    BY DEF RedeemTyped
<1>2. RedeemTyped'
    BY <1>1 DEF RedeemTyped
<1>3. OneLock'
    BY <1>1 DEF OneLock
<1>4. UsesCounted'
    <2> SUFFICES ASSUME NEW i \in Invites
                 PROVE  IsFiniteSet(Counted(i)') /\ Cardinality(Counted(i)') <= used[i]
        BY DEF UsesCounted
    <2>1. Counted(i)' \subseteq Counted(i)
        BY <1>1 DEF Counted
    <2>2. /\ IsFiniteSet(Counted(i)') /\ Cardinality(Counted(i)') <= Cardinality(Counted(i))
          /\ Cardinality(Counted(i)') \in Nat /\ Cardinality(Counted(i)) \in Nat
        BY <2>1, FS_Subset, FS_CardinalityType DEF UsesCounted
    <2> QED
        BY <2>2 DEF UsesCounted, RedeemTyped
<1>5. \A s, rank : Gave(s, rank)' <=> Gave(s, rank)
    BY <1>1 DEF Gave
<1>6. RolesGiven'
    BY <1>1, <1>5 DEF RolesGiven
<1>7. HighestKept'
    BY <1>1, <1>5 DEF HighestKept
<1> QED
    BY <1>2, <1>3, <1>4, <1>6, <1>7

(* One redemption joins, with a role or without changing it.               *)
LEMMA Joins ==
    ASSUME RedeemInv, NEW r \in Redemptions, redeem[r].at = "found",
           redeem' = [redeem EXCEPT ![r].at = "joined"],
           LET s == redeem[r].subject
               given == RoleGiven[redeem[r].invite]
           IN  \/ role' = [role EXCEPT ![s] = given] /\ (s \notin crossed => given >= role[s])
               \/ role' = role /\ given <= redeem[r].saw,
           Crosses(r), UNCHANGED <<used, void, token>>
    PROVE  RedeemInv'
<1> USE DEF RedeemInv
<1> DEFINE s == redeem[r].subject
           given == RoleGiven[redeem[r].invite]
           GaveNow(x, rank) ==
                \E q \in Redemptions :
                    /\ redeem'[q].subject = x /\ redeem'[q].at \in {"joined", "admitted"}
                    /\ RoleGiven[redeem'[q].invite] = rank
<1>1. /\ redeem' \in [Redemptions -> Redemption]
      /\ \A q \in Redemptions \ {r} : redeem'[q] = redeem[q]
      /\ redeem'[r].at = "joined" /\ redeem'[r].subject = s
      /\ redeem'[r].invite = redeem[r].invite
    BY DEF RedeemTyped, Redemption, Called
<1>2. s \in Subjects /\ given \in 1..3 /\ redeem[r].invite \in Invites /\ role[s] \in 0..3
    BY InvitesGive DEF RedeemTyped
<1>3. /\ role' \in [Subjects -> 0..3] /\ \A x \in Subjects \ {s} : role'[x] = role[x]
      /\ \/ role'[s] = given /\ (s \notin crossed => given >= role[s])
         \/ role'[s] = role[s] /\ given <= redeem[r].saw
    BY <1>2 DEF RedeemTyped
<1>4. /\ crossed \subseteq crossed' /\ crossed' \subseteq crossed \cup {s}
      /\ s \notin crossed' => \A q \in Redemptions \ {r} :
            ~(redeem[q].at = "found" /\ redeem[q].subject = s)
    BY DEF Crosses, Rivals
<1>5. /\ \A x, rank : Gave(x, rank) => GaveNow(x, rank)
      /\ \A x, rank : GaveNow(x, rank) => Gave(x, rank) \/ (x = s /\ rank = given)
      /\ GaveNow(s, given)
    BY <1>1 DEF Gave
<1>6. RedeemTyped'
    BY <1>1, <1>2, <1>3, <1>4 DEF RedeemTyped
<1>7. OneLock'
    BY <1>1 DEF OneLock
<1>8. UsesCounted'
    <2>1. \A i \in Invites : Counted(i)' = Counted(i)
        BY <1>1 DEF Counted
    <2> QED
        BY <2>1 DEF UsesCounted
<1> HIDE DEF s, given, GaveNow
<1>9. RolesGiven'
    <2>1. \A x \in Subjects : role'[x] = 0 \/ GaveNow(x, role'[x])
        BY <1>3, <1>5 DEF RolesGiven
    <2>2. \A q \in Redemptions : redeem'[q].at = "admitted" =>
            redeem[q].at = "admitted" /\ redeem'[q].subject = redeem[q].subject
        BY <1>1
    <2>3. \A q \in Redemptions : redeem'[q].at # "admitted" => redeem[q].at # "admitted"
        BY <1>1
    <2> QED
        <3>1. \A q \in Redemptions : redeem'[q].at = "admitted" =>
                token'[q] = 0 \/ GaveNow(redeem'[q].subject, token'[q])
            BY <1>5, <2>2 DEF RolesGiven
        <3>2. \A q \in Redemptions : redeem'[q].at # "admitted" => token'[q] = 0
            BY <2>3 DEF RolesGiven
        <3> QED
            BY <2>1, <3>1, <3>2 DEF RolesGiven, Gave, GaveNow
<1>10. HighestKept'
    <2> SUFFICES ASSUME NEW x \in Subjects \ crossed'
                 PROVE  /\ \A q \in Redemptions :
                            redeem'[q].subject = x /\ redeem'[q].at = "found" =>
                                redeem'[q].saw = role'[x]
                        /\ \A rank \in 1..3 : GaveNow(x, rank) => role'[x] >= rank
        BY DEF HighestKept, Gave, GaveNow
    <2>1. x \in Subjects \ crossed
        BY <1>4
    <2>2. CASE x # s
        BY <1>1, <1>3, <1>5, <2>1, <2>2 DEF HighestKept, s
    <2>3. CASE x = s
        <3>1. redeem[r].saw = role[s]
            BY <2>1, <2>3 DEF HighestKept, s
        <3>2. role'[s] >= given /\ role'[s] >= role[s] /\ role'[s] \in 0..3
            <4>1. s \notin crossed
                BY <2>1, <2>3
            <4>2. CASE role'[s] = given /\ given >= role[s]
                BY <1>2, <4>2
            <4>3. CASE role'[s] = role[s] /\ given <= redeem[r].saw
                BY <1>2, <3>1, <4>3
            <4> QED
                BY <1>3, <4>1, <4>2, <4>3
        <3>3. \A rank \in 1..3 : GaveNow(s, rank) => role'[s] >= rank
            <4> SUFFICES ASSUME NEW rank \in 1..3, GaveNow(s, rank) PROVE role'[s] >= rank
                OBVIOUS
            <4>1. CASE rank = given
                BY <3>2, <4>1
            <4>2. CASE Gave(s, rank)
                <5>1. role[s] >= rank
                    BY <2>1, <2>3, <4>2 DEF HighestKept
                <5> QED
                    BY <1>2, <3>2, <5>1
            <4> QED
                BY <1>5, <4>1, <4>2
        <3> QED
            BY <1>1, <1>4, <2>3, <3>3
    <2> QED
        BY <2>2, <2>3
<1> QED
    BY <1>6, <1>7, <1>8, <1>9, <1>10

LEMMA RedeemStep == RedeemInv /\ [RoomNext]_roomVars => RedeemInv'
<1> SUFFICES ASSUME RedeemInv, [RoomNext]_roomVars PROVE RedeemInv'
    OBVIOUS
<1>1. ASSUME NEW r \in Redemptions, NEW s \in Subjects, NEW i \in Invites, LockInvite(r, s, i)
      PROVE  RedeemInv'
    <2> DEFINE to == [subject |-> s, invite |-> i, at |-> IF Usable(i) THEN "locked" ELSE "refused",
                      saw |-> 0]
    <2>1. /\ to \in Redemption /\ to.subject = s /\ to.invite = i /\ to.at \in {"locked", "refused"}
          /\ to.at = "locked" => Usable(i)
        BY DEF Redemption, Called
    <2>2. /\ redeem' = [redeem EXCEPT ![r] = to] /\ redeem[r].at = "none" /\ ~Locked(i)
          /\ UNCHANGED <<used, void, role, token, crossed>>
        BY <1>1 DEF LockInvite, Calls
    <2> HIDE DEF to
    <2> QED
        BY <2>1, <2>2, MovesOn DEF Usable, Locked
<1>2. ASSUME NEW r \in Redemptions, CountUse(r) PROVE RedeemInv'
    <2> DEFINE i == redeem[r].invite
    <2>1. i \in Invites /\ redeem[r] \in Redemption /\ redeem[r].at = "locked"
        BY <1>2 DEF CountUse, RedeemInv, RedeemTyped
    <2>2. CASE redeem' = [redeem EXCEPT ![r].at = "failed"] /\ UNCHANGED used
        <3> DEFINE to == [redeem[r] EXCEPT !.at = "failed"]
        <3>1. redeem' = [redeem EXCEPT ![r] = to] /\ UNCHANGED <<used, void, role, token, crossed>>
            BY <1>2, <2>2 DEF CountUse
        <3>2. to \in Redemption /\ to.at = "failed" /\ to.subject \in Subjects /\ to.invite \in Invites
            BY <2>1 DEF Redemption, Called, RedeemInv, RedeemTyped
        <3> HIDE DEF to
        <3> QED
            BY <2>1, <3>1, <3>2, MovesOn
    <2>3. CASE /\ used' = [used EXCEPT ![i] = @ + 1]
               /\ redeem' = [redeem EXCEPT ![r].at = "used"]
        <3> USE DEF RedeemInv
        <3>1. UNCHANGED <<void, role, token, crossed>>
            BY <1>2 DEF CountUse
        <3>2. /\ redeem' \in [Redemptions -> Redemption]
              /\ \A q \in Redemptions \ {r} : redeem'[q] = redeem[q]
              /\ redeem'[r].at = "used" /\ redeem'[r].subject = redeem[r].subject
              /\ redeem'[r].invite = i
            BY <2>1, <2>3 DEF RedeemTyped, Redemption, Called
        <3>3. /\ used' \in [Invites -> Nat] /\ used'[i] = used[i] + 1
              /\ \A j \in Invites \ {i} : used'[j] = used[j]
              /\ used[i] \in Nat /\ UsesGiven[i] \in Nat /\ used[i] < UsesGiven[i]
            <4>1. used[i] \in Nat /\ UsesGiven[i] \in Nat /\ used[i] < UsesGiven[i]
                BY <2>1, InvitesGive DEF RedeemTyped, OneLock
            <4>2. used' \in [Invites -> Nat] /\ used'[i] = used[i] + 1
                BY <2>1, <2>3, <4>1 DEF RedeemTyped
            <4>3. \A j \in Invites \ {i} : used'[j] = used[j]
                BY <2>3 DEF RedeemTyped
            <4> QED
                BY <4>1, <4>2, <4>3
        <3> HIDE DEF i
        <3>4. RedeemTyped'
            BY <2>1, <3>1, <3>2, <3>3 DEF RedeemTyped
        <3>5. OneLock'
            <4> SUFFICES ASSUME NEW q \in Redemptions, redeem'[q].at = "locked"
                         PROVE  /\ used'[redeem'[q].invite] < UsesGiven[redeem'[q].invite]
                                /\ \A p \in Redemptions :
                                    redeem'[p].at = "locked" /\ redeem'[p].invite = redeem'[q].invite
                                        => p = q
                BY DEF OneLock
            <4>1. q # r /\ redeem'[q] = redeem[q]
                BY <3>2
            <4>2. redeem[q].invite # i /\ redeem[q].invite \in Invites
                BY <2>1, <4>1 DEF OneLock, RedeemTyped, i
            <4> QED
                BY <3>2, <3>3, <4>1, <4>2 DEF OneLock
        <3>6. UsesCounted'
            <4> SUFFICES ASSUME NEW j \in Invites
                         PROVE  /\ used'[j] <= UsesGiven[j] /\ IsFiniteSet(Counted(j)')
                                /\ Cardinality(Counted(j)') <= used'[j]
                BY DEF UsesCounted
            <4>1. used[j] <= UsesGiven[j] /\ IsFiniteSet(Counted(j)) /\ Cardinality(Counted(j)) <= used[j]
                BY DEF UsesCounted
            <4>2. CASE j # i
                <5>1. Counted(j)' = Counted(j)
                    BY <2>1, <3>2, <4>2 DEF Counted, i
                <5> QED
                    BY <3>3, <4>1, <4>2, <5>1
            <4>3. CASE j = i
                <5>1. Counted(j)' = Counted(j) \cup {r} /\ r \notin Counted(j)
                    BY <2>1, <3>2, <4>3 DEF Counted
                <5>2. /\ IsFiniteSet(Counted(j)')
                      /\ Cardinality(Counted(j)') = Cardinality(Counted(j)) + 1
                    BY <4>1, <5>1, FS_AddElement
                <5>3. Cardinality(Counted(j)) \in Nat
                    BY <4>1, FS_CardinalityType
                <5> QED
                    BY <3>3, <4>1, <4>3, <5>2, <5>3
            <4> QED
                BY <4>2, <4>3
        <3>7. \A x, rank : Gave(x, rank)' <=> Gave(x, rank)
            BY <2>1, <3>2 DEF Gave
        <3>8. RolesGiven'
            BY <2>1, <3>1, <3>2, <3>7 DEF RolesGiven
        <3>9. HighestKept'
            BY <3>1, <3>2, <3>7 DEF HighestKept
        <3> QED
            BY <3>4, <3>5, <3>6, <3>8, <3>9
    <2> QED
        BY <1>2, <2>2, <2>3 DEF CountUse
<1>3. ASSUME NEW r \in Redemptions, FindMember(r) PROVE RedeemInv'
    <2> DEFINE to == [redeem[r] EXCEPT !.at = "found", !.saw = role[redeem[r].subject]]
    <2>1. /\ redeem[r].at = "used" /\ redeem' = [redeem EXCEPT ![r] = to]
          /\ UNCHANGED <<used, void, role, token, crossed>>
        BY <1>3 DEF FindMember
    <2>2. redeem[r] \in Redemption /\ redeem[r].subject \in Subjects /\ redeem[r].invite \in Invites
        BY <2>1 DEF RedeemInv, RedeemTyped
    <2>3. role[redeem[r].subject] \in 0..3
        BY <2>2 DEF RedeemInv, RedeemTyped
    <2>4. /\ to \in Redemption /\ to.at = "found" /\ to.subject = redeem[r].subject
          /\ to.invite = redeem[r].invite /\ to.saw = role[redeem[r].subject]
        BY <2>2, <2>3 DEF Redemption, Called
    <2> HIDE DEF to
    <2> QED
        BY <2>1, <2>2, <2>4, MovesOn
<1>4. ASSUME NEW r \in Redemptions, InsertMember(r) \/ RaiseMember(r) PROVE RedeemInv'
    <2>1. redeem[r].at = "found" /\ UNCHANGED <<used, void, token>>
        BY <1>4 DEF InsertMember, RaiseMember
    <2>2. CASE redeem' = [redeem EXCEPT ![r].at = "failed"] /\ UNCHANGED <<role, crossed>>
        <3> DEFINE to == [redeem[r] EXCEPT !.at = "failed"]
        <3>1. redeem' = [redeem EXCEPT ![r] = to]
            BY <2>2
        <3>2. to \in Redemption /\ to.at = "failed" /\ to.subject \in Subjects /\ to.invite \in Invites
            BY <2>1 DEF Redemption, Called, RedeemInv, RedeemTyped
        <3> HIDE DEF to
        <3> QED
            BY <2>1, <2>2, <3>1, <3>2, MovesOn
    <2>3. CASE ~(redeem' = [redeem EXCEPT ![r].at = "failed"] /\ UNCHANGED <<role, crossed>>)
        <3> DEFINE s == redeem[r].subject
                   given == RoleGiven[redeem[r].invite]
        <3>1. redeem' = [redeem EXCEPT ![r].at = "joined"] /\ Crosses(r)
            BY <1>4, <2>3 DEF InsertMember, RaiseMember
        <3>2. /\ redeem[r].subject \in Subjects /\ role[s] \in 0..3 /\ redeem[r].saw \in 0..3
              /\ given \in 1..3
            BY <2>1, InvitesGive DEF RedeemInv, RedeemTyped, Redemption
        <3>3. s \notin crossed => redeem[r].saw = role[s]
            BY <2>1, <3>2 DEF RedeemInv, HighestKept
        <3>4. \/ role' = [role EXCEPT ![s] = given] /\ (role[s] = 0 \/ given > redeem[r].saw)
              \/ role' = role /\ given <= redeem[r].saw
            BY <1>4, <2>3, <3>2 DEF InsertMember, RaiseMember
        <3>5. \/ role' = [role EXCEPT ![s] = given] /\ (s \notin crossed => given >= role[s])
              \/ role' = role /\ given <= redeem[r].saw
            BY <3>2, <3>3, <3>4
        <3> QED
            BY <2>1, <3>1, <3>5, Joins
    <2> QED
        BY <2>2, <2>3
<1>5. ASSUME NEW r \in Redemptions, IssueToken(r) PROVE RedeemInv'
    <2> USE DEF RedeemInv
    <2>1. /\ redeem[r].at = "joined" /\ redeem' = [redeem EXCEPT ![r].at = "admitted"]
          /\ token' = [token EXCEPT ![r] = role[redeem[r].subject]]
          /\ UNCHANGED <<used, void, role, crossed>>
        BY <1>5 DEF IssueToken
    <2>2. /\ redeem' \in [Redemptions -> Redemption]
          /\ \A q \in Redemptions \ {r} : redeem'[q] = redeem[q]
          /\ redeem'[r].at = "admitted" /\ redeem'[r].subject = redeem[r].subject
          /\ redeem'[r].invite = redeem[r].invite
        BY <2>1 DEF RedeemTyped, Redemption, Called
    <2>3. redeem[r].subject \in Subjects /\ redeem[r].invite \in Invites
        BY <2>1 DEF RedeemTyped
    <2>4. /\ token' \in [Redemptions -> 0..3] /\ token'[r] = role[redeem[r].subject]
          /\ \A q \in Redemptions \ {r} : token'[q] = token[q]
        BY <2>1, <2>3 DEF RedeemTyped
    <2>5. RedeemTyped'
        BY <2>1, <2>2, <2>3, <2>4 DEF RedeemTyped
    <2>6. OneLock'
        BY <2>1, <2>2 DEF OneLock
    <2>7. UsesCounted'
        <3>1. \A i \in Invites : Counted(i)' = Counted(i)
            BY <2>1, <2>2 DEF Counted
        <3> QED
            BY <2>1, <3>1 DEF UsesCounted
    <2>8. \A x, rank : Gave(x, rank)' <=> Gave(x, rank)
        BY <2>1, <2>2 DEF Gave
    <2>9. RolesGiven'
        BY <2>1, <2>2, <2>3, <2>4, <2>8 DEF RolesGiven
    <2>10. HighestKept'
        BY <2>1, <2>2, <2>8 DEF HighestKept
    <2> QED
        BY <2>5, <2>6, <2>7, <2>9, <2>10
<1>6. ASSUME NEW i \in Invites, Expire(i) \/ RevokeInvite(i) PROVE RedeemInv'
    <2>1. void' = void \cup {i} /\ UNCHANGED <<redeem, used, role, token, crossed>>
        BY <1>6 DEF Expire, RevokeInvite
    <2> QED
        BY <2>1 DEF RedeemInv, RedeemTyped, OneLock, UsesCounted, RolesGiven, HighestKept, Counted,
            Gave
<1>7. CASE UNCHANGED roomVars
    BY <1>7 DEF roomVars, RedeemInv, RedeemTyped, OneLock, UsesCounted, RolesGiven, HighestKept,
        Counted, Gave
<1> QED
    BY <1>1, <1>2, <1>3, <1>4, <1>5, <1>6, <1>7 DEF RoomNext

LEMMA RedeemIsTyped == RedeemInv => RoomTypeOK
<1> SUFFICES ASSUME RedeemInv PROVE RoomTypeOK
    OBVIOUS
<1> DEFINE Row == [subject : Subjects \cup {NoMember}, invite : Invites \cup {NoMember},
                   saw : 0..3, at : {"none", "locked", "used", "found", "joined",
                                     "admitted", "refused", "failed"}]
<1>1. Redemption \subseteq Row
    BY DEF Redemption, Called
<1>2. redeem \in [Redemptions -> Row]
    BY <1>1 DEF RedeemInv, RedeemTyped
<1> QED
    BY <1>2 DEF RedeemInv, RedeemTyped, RoomTypeOK

(* Whatever requests overlap, roles stay ranks and uses counts             *)
(* (redeem_invite, upsert_member).                                         *)
THEOREM RoomsTyped == RoomSpec => []RoomTypeOK
BY RedeemIsTyped, RedeemStarts, RedeemStep, PTL DEF RoomSpec

(* For any invites, subjects and redemptions at once: an invite lets in no *)
(* more than its uses, roles and tokens are what invites of the same       *)
(* subject gave, and the highest of these unless two of its redemptions    *)
(* crossed (redeem_invite, upsert_member).                                 *)
THEOREM InvitesHonoured == RoomSpec => []AdmittedAsInvited
<1>1. RedeemInv => AdmittedAsInvited
    <2> SUFFICES ASSUME RedeemInv PROVE AdmittedAsInvited
        OBVIOUS
    <2>1. \A i \in Invites : Cardinality(Counted(i)) <= used[i] /\ used[i] <= UsesGiven[i]
        BY DEF RedeemInv, UsesCounted
    <2>2. ASSUME NEW s \in Subjects, NEW given, given = {RoleGiven[redeem[r].invite] : r \in Joined(s)}
          PROVE  /\ role[s] \in given \cup {0}
                 /\ \A r \in Joined(s) : token[r] \in given \cup {0}
                 /\ s \notin crossed => \A rank \in given : role[s] >= rank
        <3>1. \A rank : Gave(s, rank) <=> rank \in given
            BY <2>2 DEF Gave, Joined
        <3>2. given \subseteq 1..3
            BY <2>2, InvitesGive DEF Joined, RedeemInv, RedeemTyped
        <3> QED
            BY <3>1, <3>2 DEF RedeemInv, RolesGiven, HighestKept, Joined
    <2> QED
        BY <2>1, <2>2 DEF AdmittedAsInvited
<1> QED
    BY <1>1, RedeemStarts, RedeemStep, PTL DEF RoomSpec

-----------------------------------------------------------------------------
(* What the relay serves, together.                                        *)

(* The components move one at a time.                                      *)
LEMMA RelayMoves == [RelayNext]_relayVars => [Next]_vars /\ [RoomNext]_roomVars
BY DEF RelayNext, OnlyPart, relayVars

(* For every number of connections, invites and requests the relay's state *)
(* keeps its type, queues their bounds among it (Hub, the relay's store).  *)
THEOREM RelayTyped == RelaySpec => []RelayTypeOK
<1>1. RelayInit => RoomInv /\ RedeemInv
    BY RoomStarts, RedeemStarts DEF RelayInit
<1>2. RoomInv /\ RedeemInv /\ [RelayNext]_relayVars => (RoomInv /\ RedeemInv)'
    BY RelayMoves, RoomStep, RedeemStep
<1>3. RoomInv /\ RedeemInv => RelayTypeOK
    BY RedeemIsTyped DEF RoomInv, RelayTypeOK
<1> QED
    BY <1>1, <1>2, <1>3, PTL DEF RelaySpec
=============================================================================
