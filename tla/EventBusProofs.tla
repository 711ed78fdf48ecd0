--------------------------- MODULE EventBusProofs ---------------------------
(***************************************************************************)
(* What EventBus promises for any number of emitters, subscriptions and    *)
(* readers, and any queue and page size.                                   *)
(*                                                                         *)
(* The order of the log rests on one fact about the write lock: whoever    *)
(* has an uncommitted row holds the lock, so its number is above every     *)
(* committed row and nobody else can be given a number meanwhile.          *)
(***************************************************************************)
EXTENDS EventBus, FiniteSetTheorems, SequenceTheorems, TLAPS

-----------------------------------------------------------------------------
(* The inductive invariants.                                               *)

(* An uncommitted row holds the write lock and its number is above every   *)
(* committed row; numbers identify rows.                                   *)
LogOrder ==
    /\ \A e \in Emitters : pc[e] = "inserted" =>
           /\ writeLock = e
           /\ seqOf[e] > 0
           /\ \A row \in rows : row.seq < seqOf[e]
    /\ \A a, b \in rows : a.seq = b.seq => a = b

(* A cursor stands at a row, or before the first one.                      *)
CursorAtRow == \A r \in Readers : cursor[r] = 0 \/ cursor[r] \in Seqs

(* What a committed emitter is about to publish is in the log, is not about*)
(* to be published by another, and has not been handed to anyone.          *)
PublishedOnce ==
    /\ \A e \in Emitters : pc[e] = "committed" =>
           /\ [seq |-> seqOf[e], event |-> event[e]] \in rows
           /\ \A f \in Emitters :
                  pc[f] = "committed" /\ seqOf[f] = seqOf[e] => f = e
           /\ \A s \in active : seqOf[e] \notin RangeOf(Delivered(s))

-----------------------------------------------------------------------------
(* Type correctness.                                                       *)

(* Every step of the bus keeps the variables in their types.               *)
LEMMA TypeStep == TypeOK /\ LogOrder /\ [Next]_vars => TypeOK'
<1> SUFFICES ASSUME TypeOK, LogOrder, [Next]_vars PROVE TypeOK'
    OBVIOUS
<1> USE DEF TypeOK, Row, Filters, emitVars, subVars, tailVars
<1>1. ASSUME NEW e \in Emitters, CheckDuplicate(e) PROVE TypeOK'
    BY <1>1 DEF CheckDuplicate
<1>2. ASSUME NEW e \in Emitters, Insert(e) PROVE TypeOK'
    <2>1. \A last \in Largest(Seqs) : last \in Nat
        BY DEF Largest, Seqs
    <2> QED BY <1>2, <2>1 DEF Insert
<1>3. ASSUME NEW e \in Emitters, LockTimeout(e) PROVE TypeOK'
    BY <1>3 DEF LockTimeout
<1>4. ASSUME NEW e \in Emitters, Commit(e) PROVE TypeOK'
    <2>1. [seq |-> seqOf[e], event |-> event[e]] \in Row
        BY <1>4 DEF Commit, LogOrder
    <2> QED BY <1>4, <2>1 DEF Commit
<1>5. ASSUME NEW e \in Emitters, Publish(e) PROVE TypeOK'
    <2>1. queue' \in [Subscribers -> Seq(Nat)]
        BY <1>5 DEF Publish
    <2>2. missed' \in [Subscribers -> SUBSET Nat]
        BY <1>5 DEF Publish
    <2> QED BY <1>5, <2>1, <2>2 DEF Publish
<1>6. ASSUME NEW e \in Emitters, Cancel(e) PROVE TypeOK'
    BY <1>6 DEF Cancel
<1>7. ASSUME NEW s \in Subscribers, Subscribe(s) PROVE TypeOK'
    <2>1. Seqs \subseteq Nat
        BY DEF Seqs
    <2> QED BY <1>7, <2>1 DEF Subscribe
<1>8. ASSUME NEW s \in Subscribers, Consume(s) PROVE TypeOK'
    <2>1. Head(queue[s]) \in Nat /\ Tail(queue[s]) \in Seq(Nat)
        BY <1>8, HeadTailProperties DEF Consume
    <2> QED BY <1>8, <2>1 DEF Consume
<1>9. ASSUME NEW s \in Subscribers, Unsubscribe(s) PROVE TypeOK'
    BY <1>9 DEF Unsubscribe
<1>10. ASSUME NEW r \in Readers, Poll(r) PROVE TypeOK'
    <2>1. Fresh(r) \subseteq Nat
        BY DEF Fresh
    <2> QED BY <1>10, <2>1 DEF Poll, Largest
<1>11. ASSUME Crash PROVE TypeOK'
    BY <1>11 DEF Crash
<1>12. CASE UNCHANGED vars
    BY <1>12 DEF vars
<1> QED BY <1>1, <1>2, <1>3, <1>4, <1>5, <1>6, <1>7, <1>8, <1>9, <1>10, <1>11, <1>12 DEF Next, EmitStep

-----------------------------------------------------------------------------
(* The order of the log.                                                   *)

(* Only Insert gives out numbers and only Commit adds a row.               *)
LEMMA LogOrderStep == TypeOK /\ LogOrder /\ [Next]_vars => LogOrder'
<1> SUFFICES ASSUME TypeOK, LogOrder, [Next]_vars PROVE LogOrder'
    OBVIOUS
<1> USE DEF TypeOK, LogOrder, emitVars
<1>1. ASSUME NEW e \in Emitters, CheckDuplicate(e) PROVE LogOrder'
    BY <1>1 DEF CheckDuplicate
<1>2. ASSUME NEW e \in Emitters, Insert(e) PROVE LogOrder'
    <2>1. PICK last \in Largest(Seqs) : seqOf' = [seqOf EXCEPT ![e] = last + 1]
        BY <1>2 DEF Insert
    <2>2. last \in Nat /\ \A row \in rows : row.seq \in Nat /\ row.seq <= last
        BY DEF Largest, Seqs, Row
    <2>3. \A f \in Emitters \ {e} : pc[f] # "inserted"
        BY <1>2, MarkersDistinct DEF Insert
    <2> QED BY <1>2, <2>1, <2>2, <2>3 DEF Insert
<1>3. ASSUME NEW e \in Emitters, LockTimeout(e) PROVE LogOrder'
    BY <1>3 DEF LockTimeout
<1>4. ASSUME NEW e \in Emitters, Commit(e) PROVE LogOrder'
    <2>1. \A f \in Emitters : pc'[f] # "inserted"
        BY <1>4 DEF Commit
    <2>2. \A a, b \in rows' : a.seq = b.seq => a = b
        BY <1>4 DEF Commit, Row
    <2> QED BY <2>1, <2>2
<1>5. ASSUME NEW e \in Emitters, Publish(e) PROVE LogOrder'
    BY <1>5 DEF Publish
<1>6. ASSUME NEW e \in Emitters, Cancel(e) PROVE LogOrder'
    BY <1>6 DEF Cancel
<1>7. ASSUME Crash PROVE LogOrder'
    BY <1>7 DEF Crash
<1>8. ASSUME UNCHANGED emitVars PROVE LogOrder'
    BY <1>8
<1> QED BY <1>1, <1>2, <1>3, <1>4, <1>5, <1>6, <1>7, <1>8
        DEF Next, EmitStep, vars, Subscribe, Consume, Unsubscribe, Poll

(* The types and the log's order hold in every reachable state.            *)
THEOREM LogInvariant == Spec => [](TypeOK /\ LogOrder)
<1>1. Init => TypeOK /\ LogOrder
    BY DEF Init, TypeOK, LogOrder, Row, Filters
<1>2. TypeOK /\ LogOrder /\ [Next]_vars => (TypeOK /\ LogOrder)'
    BY TypeStep, LogOrderStep
<1> QED BY <1>1, <1>2, PTL DEF Spec

(* The variables always have their types.                                  *)
THEOREM TypeCorrect == Spec => []TypeOK
    BY LogInvariant, PTL

(* One committed row at a time, numbered above all the others.             *)
LEMMA OneRowAtATime ==
    ASSUME TypeOK, LogOrder, [Next]_vars
    PROVE  rows' = rows \/ \E new \in Row :
               /\ rows' = rows \cup {new}
               /\ \A old \in rows : old.seq < new.seq
<1>1. ASSUME NEW e \in Emitters, Commit(e)
      PROVE \E new \in Row :
               /\ rows' = rows \cup {new}
               /\ \A old \in rows : old.seq < new.seq
    <2>1. [seq |-> seqOf[e], event |-> event[e]] \in Row
        BY <1>1 DEF Commit, LogOrder, TypeOK, Row
    <2>2. \A old \in rows : old.seq < seqOf[e]
        BY <1>1 DEF Commit, LogOrder
    <2> QED BY <1>1, <2>1, <2>2 DEF Commit
<1> QED BY <1>1
        DEF Next, EmitStep, vars, emitVars, CheckDuplicate, Insert, LockTimeout, Publish,
            Cancel, Crash, Subscribe, Consume, Unsubscribe, Poll

(* Rows become visible in the order of their numbers (CommittedInOrder):   *)
(* because an insert holds the write lock until its commit or rollback, no *)
(* step ever adds a row below one that is already visible.                 *)
THEOREM Ordered == Spec => CommittedInOrder
<1>1. TypeOK /\ LogOrder /\ [Next]_vars =>
        [/\ rows \subseteq rows'
         /\ \A new \in rows' \ rows, old \in rows : old.seq < new.seq]_rows
    BY OneRowAtATime
<1> QED BY <1>1, LogInvariant, PTL DEF Spec, CommittedInOrder

(* The bus's log implements the abstract append-only log: every step of    *)
(* every coroutine appends one row at the end or leaves the log alone.     *)
THEOREM Refines == Spec => LogSpec
<1>1. Init => Log!Init
    BY DEF Init, Log!Init
<1>2. TypeOK /\ LogOrder /\ TypeOK' /\ [Next]_vars => [Log!Append]_rows
    <2> SUFFICES ASSUME TypeOK, LogOrder, TypeOK', [Next]_vars, rows' # rows
                 PROVE Log!Append
        OBVIOUS
    <2>1. PICK new \in Row : /\ rows' = rows \cup {new}
                             /\ \A old \in rows : old.seq < new.seq
        BY OneRowAtATime
    <2>2. rows' \subseteq Log!Row
        BY DEF TypeOK, Row, Log!Row
    <2>3. new \in rows' \ rows
        BY <2>1
    <2> QED BY <2>1, <2>2, <2>3 DEF Log!Append
<1> QED BY <1>1, <1>2, LogInvariant, PTL DEF Spec, LogSpec, Log!Spec

-----------------------------------------------------------------------------
(* Polling by the largest number read.                                     *)

(* A new row lies above every cursor, and a poll moves the cursor over     *)
(* exactly the rows it returns.                                            *)
LEMMA TailStep ==
    TypeOK /\ LogOrder /\ CursorAtRow /\ TailComplete /\ [Next]_vars
        => CursorAtRow' /\ TailComplete'
<1> SUFFICES ASSUME TypeOK, LogOrder, CursorAtRow, TailComplete, [Next]_vars
             PROVE  CursorAtRow' /\ TailComplete'
    OBVIOUS
<1> USE DEF CursorAtRow, TailComplete, Seqs
<1>1. ASSUME NEW r \in Readers, Poll(r) PROVE CursorAtRow' /\ TailComplete'
    <2>1. PICK page \in SUBSET Fresh(r) :
            /\ IsPage(r, page)
            /\ read' = [read EXCEPT ![r] = @ \cup page]
            /\ \E last \in Largest(page) : cursor' = [cursor EXCEPT ![r] = last]
        BY <1>1 DEF Poll
    <2>2. PICK last \in Largest(page) : cursor' = [cursor EXCEPT ![r] = last]
        BY <2>1
    <2>3. page # {}
        BY <1>1, <2>1, FS_EmptySet, SizesPositive DEF Poll, IsPage
    <2>4. page \subseteq Nat \ {0} /\ Fresh(r) \subseteq Nat \ {0}
        BY DEF Fresh, TypeOK, Row
    <2>5. last \in page /\ \A n \in page : n <= last
        <3>1. last \in page \cup {0} /\ \A n \in page : n <= last
            BY DEF Largest
        <3>2. PICK n \in page : n <= last /\ n \in Nat \ {0}
            BY <2>3, <2>4, <3>1
        <3> QED BY <3>1, <3>2
    <2>6. \A n \in Fresh(r) : n <= last <=> n \in page
        BY <2>1, <2>4, <2>5 DEF IsPage
    <2>7. last \in Seqs /\ last > cursor[r]
        BY <2>5 DEF Fresh
    <2>8. read[r] \cup page = {row.seq : row \in
            {x \in rows : x.event.session = tailSession[r] /\ x.seq <= last}}
        <3>1. ASSUME NEW row \in rows, row.event.session = tailSession[r]
              PROVE  row.seq <= last <=> row.seq <= cursor[r] \/ row.seq \in page
            <4>1. row.seq \in Nat /\ cursor[r] \in Nat /\ last \in Nat
                BY <2>4, <2>5 DEF TypeOK, Row
            <4>2. CASE row.seq <= cursor[r]
                BY <4>1, <4>2, <2>7
            <4>3. CASE ~(row.seq <= cursor[r])
                <5>1. row.seq \in Fresh(r)
                    BY <4>1, <4>3, <3>1 DEF Fresh
                <5> QED BY <5>1, <2>6, <4>3
            <4> QED BY <4>2, <4>3
        <3>2. \A n \in page : \E row \in rows :
                row.event.session = tailSession[r] /\ row.seq = n
            BY DEF Fresh
        <3> QED BY <3>1, <3>2
    <2>9. UNCHANGED <<rows, tailSession>>
        BY <1>1 DEF Poll, emitVars
    <2>10. CursorAtRow'
        BY <2>2, <2>7, <2>9 DEF TypeOK
    <2>11. TailComplete'
        BY <2>1, <2>2, <2>8, <2>9 DEF TypeOK
    <2> QED BY <2>10, <2>11
<1>2. ASSUME UNCHANGED tailVars PROVE CursorAtRow' /\ TailComplete'
    <2>1. CASE rows' = rows
        BY <1>2, <2>1 DEF tailVars
    <2>2. CASE \E new \in Row :
               /\ rows' = rows \cup {new}
               /\ \A old \in rows : old.seq < new.seq
        <3>1. PICK new \in Row : /\ rows' = rows \cup {new}
                                 /\ \A old \in rows : old.seq < new.seq
            BY <2>2
        <3>2. \A r \in Readers : cursor[r] < new.seq
            BY <3>1 DEF Row, TypeOK
        <3>3. \A r \in Readers : \A x \in rows' : x.seq <= cursor[r] <=> x \in rows /\ x.seq <= cursor[r]
            BY <3>1, <3>2 DEF Row, TypeOK
        <3>4. TailComplete'
            BY <1>2, <3>3, <3>1 DEF tailVars
        <3>5. CursorAtRow'
            BY <1>2, <3>1 DEF tailVars
        <3> QED BY <3>4, <3>5
    <2> QED BY <2>1, <2>2, OneRowAtATime
<1> QED BY <1>1, <1>2
        DEF Next, EmitStep, vars, CheckDuplicate, Insert, LockTimeout, Commit, Publish,
            Cancel, Crash, Subscribe, Consume, Unsubscribe

(* A reader that polls by the largest number it has read has read every    *)
(* row of its session up to that number, whatever the page size: the       *)
(* promise the TUI and the log's tail rest on (TailComplete).              *)
THEOREM PollingLosesNothing == Spec => []TailComplete
<1>1. Init => CursorAtRow /\ TailComplete
    BY DEF Init, CursorAtRow, TailComplete
<1> QED BY <1>1, TailStep, LogInvariant, PTL DEF Spec

-----------------------------------------------------------------------------
(* Fan-out.                                                                *)

(* Consuming an event moves it from the queue to what was yielded.         *)
LEMMA ConsumeKeepsDelivered ==
    ASSUME NEW a \in Seq(Nat), NEW q \in Seq(Nat), q # <<>>
    PROVE  Append(a, Head(q)) \o Tail(q) = a \o q
<1>1. Append(a, Head(q)) \in Seq(Nat) /\ Tail(q) \in Seq(Nat)
    BY HeadTailProperties
<1>2. Len(Append(a, Head(q)) \o Tail(q)) = Len(a \o q)
    BY <1>1, HeadTailProperties, ConcatProperties, LenProperties
<1>3. ASSUME NEW i \in 1 .. Len(a \o q)
      PROVE (Append(a, Head(q)) \o Tail(q))[i] = (a \o q)[i]
    BY <1>1, HeadTailProperties, ConcatProperties, LenProperties
<1>4. Append(a, Head(q)) \o Tail(q) \in Seq(Nat) /\ a \o q \in Seq(Nat)
    BY <1>1, ConcatProperties
<1> QED BY <1>2, <1>3, <1>4, SeqEqual

(* An event put in a queue comes after everything already delivered.       *)
LEMMA AppendExtendsDelivered ==
    ASSUME NEW a \in Seq(Nat), NEW q \in Seq(Nat), NEW n \in Nat
    PROVE  /\ a \o Append(q, n) = Append(a \o q, n)
           /\ RangeOf(Append(a \o q, n)) = RangeOf(a \o q) \cup {n}
<1>1. a \o q \in Seq(Nat) /\ Append(q, n) \in Seq(Nat) /\ Len(Append(q, n)) = Len(q) + 1
    BY ConcatProperties
<1>2. a \o Append(q, n) \in Seq(Nat) /\ Append(a \o q, n) \in Seq(Nat)
    BY <1>1, ConcatProperties
<1>3. Len(a \o q) = Len(a) + Len(q) /\ Len(a) \in Nat /\ Len(q) \in Nat
    BY ConcatProperties, LenProperties
<1>4. Len(a \o Append(q, n)) = Len(a) + Len(q) + 1
    BY <1>1, <1>3, ConcatProperties
<1>5. Len(Append(a \o q, n)) = Len(a) + Len(q) + 1
    BY <1>1, <1>3
<1>6. ASSUME NEW i \in 1 .. Len(a) + Len(q) + 1
      PROVE  (a \o Append(q, n))[i] = Append(a \o q, n)[i]
    <2> DEFINE t == Append(q, n)
    <2>0. t \in Seq(Nat) /\ i \in 1 .. Len(a) + Len(t)
        BY <1>1, <1>3
    <2> HIDE DEF t
    <2>1. (a \o t)[i] = IF i <= Len(a) THEN a[i] ELSE t[i - Len(a)]
        BY <2>0, ConcatProperties
    <2>2. i <= Len(a) + Len(q) =>
            (a \o q)[i] = IF i <= Len(a) THEN a[i] ELSE q[i - Len(a)]
        BY <1>3, ConcatProperties
    <2>3. Append(a \o q, n)[i] = IF i <= Len(a) + Len(q) THEN (a \o q)[i] ELSE n
        BY <1>1, <1>3
    <2>4. i > Len(a) => t[i - Len(a)]
                          = IF i <= Len(a) + Len(q) THEN q[i - Len(a)] ELSE n
        BY <1>3 DEF t
    <2>5. (a \o t)[i] = Append(a \o q, n)[i]
        <3> HIDE DEF t
        <3>1. CASE i <= Len(a)
            BY <3>1, <1>3, <2>1, <2>2, <2>3
        <3>2. CASE i > Len(a) /\ i <= Len(a) + Len(q)
            <4>1. (a \o t)[i] = q[i - Len(a)]
                BY <3>2, <1>3, <2>1, <2>4
            <4>2. (a \o q)[i] = q[i - Len(a)]
                BY <3>2, <1>3, <2>2
            <4> QED BY <3>2, <4>1, <4>2, <2>3
        <3>3. CASE i > Len(a) + Len(q)
            <4>0. ~(i <= Len(a)) /\ i > Len(a) /\ ~(i <= Len(a) + Len(q))
                BY <3>3, <1>3
            <4>1. (a \o t)[i] = t[i - Len(a)]
                BY <4>0, <2>1
            <4>2. t[i - Len(a)] = n
                BY <4>0, <2>4
            <4>3. Append(a \o q, n)[i] = n
                BY <4>0, <2>3
            <4> QED BY <4>1, <4>2, <4>3, Zenon
        <3>4. \/ i <= Len(a)
              \/ i > Len(a) /\ i <= Len(a) + Len(q)
              \/ i > Len(a) + Len(q)
            BY <1>3
        <3> QED BY <3>1, <3>2, <3>3, <3>4, Zenon
    <2> QED BY <2>5 DEF t
<1>7. a \o Append(q, n) = Append(a \o q, n)
    BY <1>2, <1>4, <1>5, <1>6, SeqEqual
<1>8. RangeOf(Append(a \o q, n)) = RangeOf(a \o q) \cup {n}
    <2> DEFINE d == a \o q
    <2>1. d \in Seq(Nat) /\ Len(d) \in Nat /\ DOMAIN d = 1 .. Len(d)
        BY <1>1, LenProperties
    <2> HIDE DEF d
    <2>2. DOMAIN Append(d, n) = 1 .. Len(d) + 1
        BY <2>1
    <2>3. \A i \in 1 .. Len(d) : Append(d, n)[i] = d[i]
        BY <2>1
    <2>4. Append(d, n)[Len(d) + 1] = n
        BY <2>1
    <2>5. 1 .. Len(d) + 1 = (1 .. Len(d)) \cup {Len(d) + 1}
        BY <2>1
    <2>6. RangeOf(Append(d, n)) = RangeOf(d) \cup {n}
        BY <2>1, <2>2, <2>3, <2>4, <2>5, Zenon DEF RangeOf
    <2> QED BY <2>6 DEF d
<1> QED BY <1>7, <1>8

(* A number not yet delivered keeps the delivered ones distinct.           *)
LEMMA AppendKeepsDistinct ==
    ASSUME NEW d \in Seq(Nat), NEW n \in Nat, n \notin RangeOf(d),
           \A i, j \in DOMAIN d : d[i] = d[j] => i = j
    PROVE  \A i, j \in DOMAIN Append(d, n) : Append(d, n)[i] = Append(d, n)[j] => i = j
<1>1. Len(d) \in Nat /\ DOMAIN d = 1 .. Len(d) /\ DOMAIN Append(d, n) = 1 .. Len(d) + 1
    BY LenProperties
<1>2. \A i \in 1 .. Len(d) : Append(d, n)[i] = d[i] /\ d[i] # n
    BY <1>1 DEF RangeOf
<1>3. Append(d, n)[Len(d) + 1] = n
    BY <1>1
<1>4. \A i \in 1 .. Len(d) + 1 : i \in 1 .. Len(d) \/ i = Len(d) + 1
    BY <1>1
<1> QED BY <1>1, <1>2, <1>3, <1>4, Zenon

(* The number of a row in the log is one of the log's numbers.             *)
LEMMA NumberOfRow ==
    ASSUME NEW n, NEW ev, [seq |-> n, event |-> ev] \in rows
    PROVE  n \in Seqs
<1>1. [seq |-> n, event |-> ev].seq = n
    OBVIOUS
<1> QED BY <1>1, Zenon DEF Seqs

Delivery == PublishedOnce /\ PersistedBeforeDelivered /\ LossAccounted

(* What each step does to the subscriptions' view of the log.              *)
LEMMA DeliveryStep == TypeOK /\ LogOrder /\ Delivery /\ [Next]_vars => Delivery'
<1> SUFFICES ASSUME TypeOK, LogOrder, Delivery, [Next]_vars PROVE Delivery'
    OBVIOUS
<1> USE DEF Delivery, PublishedOnce, PersistedBeforeDelivered, LossAccounted
<1>0. \A s \in Subscribers : seen[s] \in Seq(Nat) /\ queue[s] \in Seq(Nat)
                             /\ Delivered(s) \in Seq(Nat)
    BY ConcatProperties DEF TypeOK, Delivered
<1>a. UNCHANGED <<queue, seen>> => \A s : Delivered(s)' = Delivered(s)
    BY DEF Delivered
<1>1. ASSUME NEW e \in Emitters, CheckDuplicate(e) PROVE Delivery'
    BY <1>1, <1>a DEF CheckDuplicate, subVars, Seqs, TypeOK
<1>2. ASSUME NEW e \in Emitters, Insert(e) PROVE Delivery'
    <2>1. \A f \in Emitters : pc'[f] = "committed" <=> pc[f] = "committed"
        BY <1>2 DEF Insert, TypeOK
    <2>2. \A f \in Emitters : pc[f] = "committed" => seqOf'[f] = seqOf[f]
        BY <1>2 DEF Insert, TypeOK
    <2> QED BY <1>2, <1>a, <2>1, <2>2 DEF Insert, subVars, Seqs
<1>3. ASSUME NEW e \in Emitters, LockTimeout(e) PROVE Delivery'
    BY <1>3, <1>a DEF LockTimeout, subVars, Seqs, TypeOK
<1>4. ASSUME NEW e \in Emitters, Commit(e) PROVE Delivery'
    <2> DEFINE new == [seq |-> seqOf[e], event |-> event[e]]
    <2>1. /\ rows' = rows \cup {new}
          /\ pc' = [pc EXCEPT ![e] = "committed"]
          /\ UNCHANGED <<event, seqOf, active, filter, queue, seen, missed, before, unpublished>>
        BY <1>4 DEF Commit, subVars
    <2>2. \A row \in rows : row.seq \in Nat /\ row.seq < seqOf[e]
        BY <1>4 DEF Commit, LogOrder, TypeOK, Row
    <2>3. seqOf[e] \in Nat /\ seqOf[e] \notin Seqs
        BY <2>2 DEF Seqs, TypeOK
    <2>4. Seqs' = Seqs \cup {seqOf[e]}
        <3>1. new.seq = seqOf[e]
            OBVIOUS
        <3> HIDE DEF new
        <3> QED BY <2>1, <3>1, Zenon DEF Seqs
    <2>5. \A s : Delivered(s)' = Delivered(s)
        BY <2>1, <1>a
    <2>6. PersistedBeforeDelivered'
        BY <2>1, <2>4, <2>5
    <2>7. \A f \in Emitters : pc[f] = "committed" => seqOf[f] \in Seqs
        BY NumberOfRow
    <2>8. \A s \in active : seqOf[e] \notin RangeOf(Delivered(s))
        BY <2>3
    <2>9. PublishedOnce'
        BY <2>1, <2>3, <2>5, <2>7, <2>8 DEF TypeOK
    <2>10. LossAccounted'
        <3> SUFFICES ASSUME NEW s \in active, NEW row \in rows'
                     PROVE \/ row.seq \in before[s] \cup unpublished
                           \/ ~Matches(filter[s], row.event)
                           \/ \E f \in Emitters : pc'[f] = "committed" /\ seqOf[f] = row.seq
                           \/ row.seq \in RangeOf(Delivered(s)) \cup missed[s]
            BY <2>1, <2>5 DEF Matches
        <3>1. CASE row = new
            BY <3>1, <2>1 DEF TypeOK
        <3>2. CASE row \in rows
            BY <3>2, <2>1 DEF TypeOK
        <3> QED BY <3>1, <3>2, <2>1
    <2> QED BY <2>6, <2>9, <2>10
<1>5. ASSUME NEW e \in Emitters, Publish(e) PROVE Delivery'
    <2> DEFINE wants(s) == s \in active /\ Matches(filter[s], event[e])
    <2> DEFINE full(s)  == Len(queue[s]) >= QueueSize
    <2>1. /\ pc[e] = "committed"
          /\ queue' = [s \in Subscribers |->
               IF wants(s) /\ ~full(s) THEN Append(queue[s], seqOf[e]) ELSE queue[s]]
          /\ missed' = [s \in Subscribers |->
               IF wants(s) /\ full(s) THEN missed[s] \cup {seqOf[e]} ELSE missed[s]]
          /\ pc' = [pc EXCEPT ![e] = "idle"]
          /\ UNCHANGED <<rows, event, seqOf, active, filter, seen, before, unpublished>>
        BY <1>5 DEF Publish
    <2>2. seqOf[e] \in Nat /\ seqOf[e] \in Seqs
        BY <2>1, NumberOfRow DEF TypeOK
    <2>3. \A s \in Subscribers : wants(s) /\ ~full(s) =>
            /\ Delivered(s)' = Append(Delivered(s), seqOf[e])
            /\ RangeOf(Delivered(s)') = RangeOf(Delivered(s)) \cup {seqOf[e]}
        <3> SUFFICES ASSUME NEW s \in Subscribers, wants(s), ~full(s)
                     PROVE /\ Delivered(s)' = Append(Delivered(s), seqOf[e])
                           /\ RangeOf(Delivered(s)') = RangeOf(Delivered(s)) \cup {seqOf[e]}
            OBVIOUS
        <3>1. queue'[s] = Append(queue[s], seqOf[e]) /\ seen'[s] = seen[s]
            BY <2>1
        <3>2. Delivered(s)' = seen[s] \o Append(queue[s], seqOf[e])
            BY <3>1 DEF Delivered
        <3> HIDE DEF wants, full
        <3>3. /\ seen[s] \o Append(queue[s], seqOf[e]) = Append(seen[s] \o queue[s], seqOf[e])
              /\ RangeOf(Append(seen[s] \o queue[s], seqOf[e]))
                    = RangeOf(seen[s] \o queue[s]) \cup {seqOf[e]}
            <4> DEFINE a == seen[s]  q == queue[s]  n == seqOf[e]
            <4>1. a \in Seq(Nat) /\ q \in Seq(Nat) /\ n \in Nat
                BY <2>2, <1>0
            <4> HIDE DEF a, q, n
            <4>2. /\ a \o Append(q, n) = Append(a \o q, n)
                  /\ RangeOf(Append(a \o q, n)) = RangeOf(a \o q) \cup {n}
                BY <4>1, AppendExtendsDelivered
            <4> QED BY <4>2 DEF a, q, n
        <3> QED BY <3>2, <3>3, Zenon DEF Delivered
    <2>4. \A s \in Subscribers : ~(wants(s) /\ ~full(s)) => Delivered(s)' = Delivered(s)
        BY <2>1 DEF Delivered
    <2> HIDE DEF wants, full
    <2>5. active \subseteq Subscribers
        BY DEF TypeOK
    <2>6. PublishedOnce'
        <3>1. \A f \in Emitters : pc'[f] = "committed" => f # e /\ pc[f] = "committed"
            BY <2>1 DEF TypeOK
        <3>2. \A f \in Emitters : pc'[f] = "committed" => seqOf[f] # seqOf[e]
            BY <3>1, <2>1
        <3>3. \A s \in active, f \in Emitters : pc'[f] = "committed" =>
                seqOf[f] \notin RangeOf(Delivered(s)')
            BY <3>1, <3>2, <2>3, <2>4, <2>5
        <3> QED BY <3>1, <3>3, <2>1
    <2>7. PersistedBeforeDelivered'
        <3> SUFFICES ASSUME NEW s \in active
                     PROVE /\ RangeOf(Delivered(s)') \subseteq Seqs
                           /\ \A i, j \in DOMAIN Delivered(s)' :
                                  Delivered(s)'[i] = Delivered(s)'[j] => i = j
            BY <2>1 DEF Seqs
        <3>1. CASE wants(s) /\ ~full(s)
            <4>1. seqOf[e] \notin RangeOf(Delivered(s))
                BY <2>1
            <4> QED BY <3>1, <4>1, <2>2, <2>3, <2>5, <1>0, AppendKeepsDistinct
        <3>2. CASE ~(wants(s) /\ ~full(s))
            BY <3>2, <2>4, <2>5
        <3> QED BY <3>1, <3>2
    <2>8. LossAccounted'
        <3> SUFFICES ASSUME NEW s \in active, NEW row \in rows
                     PROVE \/ row.seq \in before[s] \cup unpublished
                           \/ ~Matches(filter[s], row.event)
                           \/ \E f \in Emitters : pc'[f] = "committed" /\ seqOf[f] = row.seq
                           \/ row.seq \in RangeOf(Delivered(s)') \cup missed'[s]
            BY <2>1 DEF Matches
        <3>0. s \in Subscribers /\ RangeOf(Delivered(s)) \subseteq RangeOf(Delivered(s)')
              /\ missed[s] \subseteq missed'[s]
            BY <2>1, <2>3, <2>4, <2>5
        <3>1. CASE row.seq = seqOf[e]
            <4>1. row.event = event[e]
                <5> DEFINE mine == [seq |-> seqOf[e], event |-> event[e]]
                <5>1. mine \in rows /\ mine.seq = row.seq /\ mine.event = event[e]
                    BY <3>1, <2>1
                <5> HIDE DEF mine
                <5> QED BY <5>1 DEF LogOrder
            <4>2. CASE ~wants(s)
                BY <4>1, <4>2 DEF wants
            <4>3. CASE wants(s) /\ ~full(s)
                BY <4>3, <3>1, <3>0, <2>3
            <4>4. CASE wants(s) /\ full(s)
                BY <4>4, <3>1, <3>0, <2>1
            <4> QED BY <4>2, <4>3, <4>4
        <3>2. CASE row.seq # seqOf[e]
            <4>1. \A f \in Emitters : pc[f] = "committed" /\ seqOf[f] = row.seq => pc'[f] = "committed"
                BY <3>2, <2>1 DEF TypeOK
            <4> QED BY <4>1, <3>0
        <3> QED BY <3>1, <3>2
    <2> QED BY <2>6, <2>7, <2>8
<1>6. ASSUME NEW e \in Emitters, Cancel(e) PROVE Delivery'
    <2>1. \A f \in Emitters : pc'[f] = "committed" => pc[f] = "committed"
        BY <1>6 DEF Cancel, TypeOK
    <2>2. \A f \in Emitters : pc[f] = "committed" /\ ~(pc'[f] = "committed")
            => seqOf[f] \in unpublished'
        BY <1>6 DEF Cancel, TypeOK
    <2>3. unpublished \subseteq unpublished'
        BY <1>6 DEF Cancel
    <2> QED BY <1>6, <1>a, <2>1, <2>2, <2>3 DEF Cancel, Seqs
<1>7. ASSUME NEW s \in Subscribers, Subscribe(s) PROVE Delivery'
    <2>1. /\ active' = active \cup {s}
          /\ UNCHANGED <<rows, pc, event, seqOf, unpublished>>
          /\ \A x \in active : x # s /\ x \in Subscribers
          /\ \A x \in Subscribers \ {s} : /\ Delivered(x)' = Delivered(x)
                                         /\ filter'[x] = filter[x]
                                         /\ missed'[x] = missed[x]
                                         /\ before'[x] = before[x]
        BY <1>7 DEF Subscribe, emitVars, Delivered, TypeOK
    <2>2. Delivered(s)' = <<>>
        BY <1>7, ConcatEmptySeq, EmptySeq DEF Subscribe, Delivered, TypeOK
    <2>3. RangeOf(Delivered(s)') = {} /\ DOMAIN Delivered(s)' = {}
        BY <2>2 DEF RangeOf
    <2>4. before'[s] = Seqs
        BY <1>7 DEF Subscribe, TypeOK
    <2> QED BY <2>1, <2>3, <2>4 DEF Seqs, Matches
<1>8. ASSUME NEW s \in Subscribers, Consume(s) PROVE Delivery'
    <2>1. \A x \in Subscribers : Delivered(x)' = Delivered(x)
        <3>1. ASSUME NEW x \in Subscribers, x # s PROVE Delivered(x)' = Delivered(x)
            BY <1>8, <3>1 DEF Consume, Delivered, TypeOK
        <3>2. Delivered(s)' = Append(seen[s], Head(queue[s])) \o Tail(queue[s])
            BY <1>8 DEF Consume, Delivered, TypeOK
        <3>3. Delivered(s)' = Delivered(s)
            BY <3>2, <1>8, <1>0, ConsumeKeepsDelivered DEF Consume, Delivered
        <3> QED BY <3>1, <3>3
    <2> QED BY <1>8, <2>1 DEF Consume, emitVars, Seqs, TypeOK
<1>9. ASSUME NEW s \in Subscribers, Unsubscribe(s) PROVE Delivery'
    BY <1>9, <1>a DEF Unsubscribe, emitVars, Seqs
<1>10. ASSUME NEW r \in Readers, Poll(r) PROVE Delivery'
    BY <1>10, <1>a DEF Poll, emitVars, subVars, Seqs
<1>11. ASSUME Crash PROVE Delivery'
    BY <1>11 DEF Crash
<1>12. CASE UNCHANGED vars
    BY <1>12, <1>a DEF vars, emitVars, subVars, Seqs
<1> QED BY <1>1, <1>2, <1>3, <1>4, <1>5, <1>6, <1>7, <1>8, <1>9, <1>10, <1>11, <1>12
        DEF Next, EmitStep

(* No subscriber is handed an event the log does not hold, or the same one *)
(* twice (PersistedBeforeDelivered): emit persists before it publishes, and*)
(* a number belongs to one emitter.                                        *)
THEOREM PersistedFirst == Spec => []PersistedBeforeDelivered
<1>1. Init => Delivery
    BY DEF Init, Delivery, PublishedOnce, PersistedBeforeDelivered, LossAccounted
<1>2. Delivery => PersistedBeforeDelivered
    BY DEF Delivery
<1> QED BY <1>1, <1>2, DeliveryStep, LogInvariant, PTL DEF Spec

(* Every event a subscription wants is delivered or counted as dropped,    *)
(* unless its emitter was cancelled before the fan-out (LossAccounted).    *)
THEOREM NoSilentLoss == Spec => []LossAccounted
<1>1. Init => Delivery
    BY DEF Init, Delivery, PublishedOnce, PersistedBeforeDelivered, LossAccounted
<1>2. Delivery => LossAccounted
    BY DEF Delivery
<1> QED BY <1>1, <1>2, DeliveryStep, LogInvariant, PTL DEF Spec
=============================================================================
