---------------------------- MODULE KnowledgeBase ----------------------------
(***************************************************************************)
(* The brain: what lanes and people reported about a repository.           *)
(*                                                                         *)
(* Every operation of the store reads entries in one database session,     *)
(* changes the objects it read, and writes them whole, each in a session   *)
(* of its own: what others wrote in between is overwritten.  What an       *)
(* operation will write is decided by what it read, so the model keeps     *)
(* only that.                                                              *)
(***************************************************************************)
EXTENDS Naturals

CONSTANTS
    Visitors,       \* operations of the store in progress
    Entries,        \* ids
    Topics,         \* a title with the path it is anchored to
    Reporters,      \* lanes a candidate names as its source
    Unnamed         \* the source of a candidate that names no lane

ASSUME UnnamedIsNoLane == Unnamed \notin Reporters

VARIABLES
    entry,          \* rows
    pending,        \* what each operation has still to write
    reported        \* history: which sources reported which topic

knowledgeVars == <<entry, pending, reported>>

(* The confidences the store uses: 0.45, 0.6, 0.8 and 1.0.                 *)
Guess == 0
Echo == 1
Shared == 2
Certain == 3

(* select_for_injection skips what is below 0.5.                           *)
Injectable(row) == row.confidence > Guess

NoEntries == [k \in {} |-> {}]
Only(k, row) == [x \in {k} |-> row]

Known == DOMAIN entry
Busy(v) == DOMAIN pending[v] # {}
IdsInUse == Known \cup UNION {DOMAIN pending[v] : v \in Visitors}

Matching(topic) == {k \in Known : entry[k].topic = topic /\ entry[k].status # "retired"}

-----------------------------------------------------------------------------
KnowledgeInit ==
    /\ entry = NoEntries
    /\ pending = [v \in Visitors |-> NoEntries]
    /\ reported = {}

Decides(v, rows) ==
    /\ ~Busy(v)
    /\ pending' = [pending EXCEPT ![v] = rows]

NewEntry(topic, source, human) ==
    [topic |-> topic, source |-> source, status |-> "active",
     confidence |-> IF human THEN Certain ELSE Guess,
     vouched |-> IF human THEN "person" ELSE "nobody"]

(* promote, no entry matches the candidate.                                *)
Create(v, topic, source, human) ==
    /\ Matching(topic) = {}
    /\ \E k \in Entries \ IdsInUse : Decides(v, Only(k, NewEntry(topic, source, human)))
    /\ reported' = reported \cup {<<topic, source>>}
    /\ UNCHANGED entry

SameSource(row, source) == source # Unnamed /\ source = row.source

(* Mutant: a candidate without a source is taken for another lane.         *)
ObserversAnyhow(row, source) == {row.source, source}

Observers(row, source) == {row.source, source} \ {Unnamed}

(* A second lane makes an entry shared; anybody else only an echo.         *)
Corroborated(row, source) ==
    IF \E x, y \in Observers(row, source) : x # y
    THEN [row EXCEPT !.confidence = Shared,
                     !.vouched = IF row.vouched = "nobody" THEN "lanes" ELSE row.vouched]
    ELSE [row EXCEPT !.confidence = IF @ < Echo THEN Echo ELSE @]

(* promote, an entry matches.  The lane's own repetition counts for nothing*)
(* and is not written.                                                     *)
Corroborate(v, topic, source) ==
    /\ \E k \in Matching(topic) :
        /\ ~SameSource(entry[k], source)
        /\ Decides(v, Only(k, Corroborated(entry[k], source)))
    /\ reported' = reported \cup {<<topic, source>>}
    /\ UNCHANGED entry

Repeat(topic, source) ==
    /\ \E k \in Matching(topic) : SameSource(entry[k], source)
    /\ reported' = reported \cup {<<topic, source>>}
    /\ UNCHANGED <<entry, pending>>

Confirm(v, k) ==
    /\ k \in Known
    /\ Decides(v, Only(k, [entry[k] EXCEPT !.confidence = Certain, !.vouched = "person"]))
    /\ UNCHANGED <<entry, reported>>

(* supersede and retire.                                                   *)
SetStatus(v, k, status) ==
    /\ k \in Known
    /\ Decides(v, Only(k, [entry[k] EXCEPT !.status = status]))
    /\ UNCHANGED <<entry, reported>>

ActiveEntries == {k \in Known : entry[k].status = "active"}

(* check_anchors: the entries whose file changed are marked.               *)
Sweep(v, drifted) ==
    /\ drifted \subseteq ActiveEntries
    /\ Decides(v, [k \in drifted |-> [entry[k] EXCEPT !.status = "stale"]])
    /\ UNCHANGED <<entry, reported>>

(* select_for_injection: what is chosen is counted, and so written.        *)
Inject(v, chosen) ==
    /\ chosen \subseteq {k \in ActiveEntries : Injectable(entry[k])}
    /\ Decides(v, [k \in chosen |-> entry[k]])
    /\ UNCHANGED <<entry, reported>>

Store(v, k) ==
    /\ k \in DOMAIN pending[v]
    /\ entry' = [x \in Known \cup {k} |-> IF x = k THEN pending[v][k] ELSE entry[x]]
    /\ pending' = [pending EXCEPT ![v] = [x \in DOMAIN @ \ {k} |-> @[x]]]
    /\ UNCHANGED reported

(* The database stays locked: what is left is not written.                 *)
StoreFails(v) ==
    /\ Busy(v)
    /\ pending' = [pending EXCEPT ![v] = NoEntries]
    /\ UNCHANGED <<entry, reported>>

KnowledgeNext ==
    \/ \E topic \in Topics, source \in Reporters \cup {Unnamed} :
        \/ \E v \in Visitors, human \in BOOLEAN : Create(v, topic, source, human)
        \/ \E v \in Visitors : Corroborate(v, topic, source)
        \/ Repeat(topic, source)
    \/ \E v \in Visitors, k \in Entries :
        Confirm(v, k) \/ (\E s \in {"stale", "retired"} : SetStatus(v, k, s)) \/ Store(v, k)
    \/ \E v \in Visitors, ks \in SUBSET Entries : Sweep(v, ks) \/ Inject(v, ks)
    \/ \E v \in Visitors : StoreFails(v)

KnowledgeSpec == KnowledgeInit /\ [][KnowledgeNext]_knowledgeVars

-----------------------------------------------------------------------------
EntryRow ==
    [topic : Topics, source : Reporters \cup {Unnamed}, confidence : Guess .. Certain,
     status : {"active", "stale", "retired"}, vouched : {"nobody", "lanes", "person"}]

AreEntries(f) == DOMAIN f \subseteq Entries /\ \A k \in DOMAIN f : f[k] \in EntryRow

(* Type correctness.                                                       *)
KnowledgeTypeOK ==
    /\ AreEntries(entry)
    /\ DOMAIN pending = Visitors /\ \A v \in Visitors : AreEntries(pending[v])
    /\ reported \subseteq Topics \X (Reporters \cup {Unnamed})

TwoLanesReported(topic) ==
    \E x, y \in Reporters : x # y /\ {<<topic, x>>, <<topic, y>>} \subseteq reported

(* The store believes an entry as much as a shared observation only when a *)
(* person vouched for it or two different lanes reported it, however the   *)
(* operations overlap: no lane manufactures consensus by repeating itself, *)
(* and no candidate without a source counts as a second lane.              *)
CorroborationIsIndependent ==
    \A k \in Known :
        entry[k].confidence >= Shared =>
            entry[k].vouched = "person" \/ TwoLanesReported(entry[k].topic)
=============================================================================
