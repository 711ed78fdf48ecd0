----------------------------- MODULE LessonBook -----------------------------
(***************************************************************************)
(* Lessons: advice that is put in front of every lane of a session, or of  *)
(* the repository, until it is retired for helping nobody.                 *)
(*                                                                         *)
(* As in the brain, an operation reads lessons in one database session and *)
(* writes each back whole in another; "pending" is what it has decided to  *)
(* write.  Counts of concurrent operations are lost that way.  What is     *)
(* delivered to a lane is counted after it was chosen.                     *)
(***************************************************************************)
EXTENDS Naturals, FiniteSets

CONSTANTS
    Workers,        \* operations of the store in progress
    Lessons,        \* ids
    Witnesses,      \* lanes, as sources and as receivers of lessons
    Nameless,       \* the source of a candidate that names no lane
    MinSamples,     \* injections before a lesson is judged
    HitPercent,     \* share of injections that must help
    MaxInjections   \* bound: injections of a lesson

ASSUME NamelessIsNoLane == Nameless \notin Witnesses
ASSUME LessonBounds == MinSamples \in Nat /\ HitPercent \in Nat /\ MaxInjections \in Nat

VARIABLES
    lesson,         \* rows; all have one title
    writes,         \* what each operation has still to write
    heardFrom,      \* history: sources that reported the title
    delivered,      \* history: times each lesson was chosen for a lane
    outcomes        \* history: lessons of which a lane told an outcome

lessonVars == <<lesson, writes, heardFrom, delivered, outcomes>>

NoLessons == [k \in {} |-> {}]
One(k, row) == [x \in {k} |-> row]

Written == DOMAIN lesson
Live(k) == k \in Written /\ lesson[k].status = "live"
Taken == Written \cup UNION {DOMAIN writes[w] : w \in Workers}

-----------------------------------------------------------------------------
LessonInit ==
    /\ lesson = NoLessons
    /\ writes = [w \in Workers |-> NoLessons]
    /\ heardFrom = {}
    /\ delivered = [k \in Lessons |-> 0]
    /\ outcomes = {}

WillWrite(w, rows) ==
    /\ DOMAIN writes[w] = {}
    /\ writes' = [writes EXCEPT ![w] = rows]

(* promote without a live lesson of the title.  A lesson of wide scope is  *)
(* held back until a second source has it.                                 *)
Learn(w, source, wide) ==
    /\ ~ \E k \in Lessons : Live(k)
    /\ \E k \in Lessons \ Taken :
        WillWrite(w, One(k, [source |-> source, wide |-> wide, status |-> "live",
                             sure |-> FALSE, injections |-> 0, helped |-> {}, ignored |-> {}]))
    /\ heardFrom' = heardFrom \cup {source}
    /\ UNCHANGED <<lesson, delivered, outcomes>>

Another(row, source) == source # Nameless /\ source # row.source

(* Mutant of the step below: the report is counted as an injection.        *)
MergeCounted(w, source) ==
    /\ \E k \in Written :
        /\ Live(k)
        /\ WillWrite(w, One(k, [lesson[k] EXCEPT !.sure = @ \/ Another(lesson[k], source),
                                                !.injections = @ + 1]))
    /\ heardFrom' = heardFrom \cup {source}
    /\ UNCHANGED <<lesson, delivered, outcomes>>

(* promote with one: a report of another lane makes it sure.  It is not an *)
(* injection.                                                              *)
Merge(w, source) ==
    /\ \E k \in Written :
        /\ Live(k)
        /\ WillWrite(w, One(k, [lesson[k] EXCEPT !.sure = @ \/ Another(lesson[k], source)]))
    /\ heardFrom' = heardFrom \cup {source}
    /\ UNCHANGED <<lesson, delivered, outcomes>>

Eligible(row) == row.status = "live" /\ (row.wide => row.sure)

(* select_for_injection: what is chosen goes to a lane and is counted.     *)
InjectLessons(w, chosen) ==
    /\ chosen # {}
    /\ \A k \in chosen :
        k \in Written /\ Eligible(lesson[k]) /\ delivered[k] < MaxInjections
    /\ WillWrite(w, [k \in chosen |-> [lesson[k] EXCEPT !.injections = @ + 1]])
    /\ delivered' = [k \in Lessons |-> delivered[k] + IF k \in chosen THEN 1 ELSE 0]
    /\ UNCHANGED <<lesson, heardFrom, outcomes>>

(* record_outcome, whatever the state of the lesson.                       *)
Outcome(w, k, lane, helped) ==
    /\ k \in Written
    /\ WillWrite(w, One(k,
        IF helped THEN [lesson[k] EXCEPT !.helped = @ \cup {lane}]
                  ELSE [lesson[k] EXCEPT !.ignored = @ \cup {lane}]))
    /\ outcomes' = outcomes \cup {k}
    /\ UNCHANGED <<lesson, heardFrom, delivered>>

RetireLesson(w, k) ==
    /\ k \in Written
    /\ WillWrite(w, One(k, [lesson[k] EXCEPT !.status = "retired"]))
    /\ UNCHANGED <<lesson, heardFrom, delivered, outcomes>>

(* Injected often enough, judged by somebody, and seldom of help.          *)
Noise(row) ==
    /\ row.injections >= MinSamples
    /\ row.helped \cup row.ignored # {}
    /\ Cardinality(row.helped) * 100 < HitPercent * row.injections

(* evict_noise.                                                            *)
Evict(w) ==
    /\ WillWrite(w, [k \in {x \in Written : Live(x) /\ Noise(lesson[x])} |->
                        [lesson[k] EXCEPT !.status = "evicted"]])
    /\ UNCHANGED <<lesson, heardFrom, delivered, outcomes>>

StoreLesson(w, k) ==
    /\ k \in DOMAIN writes[w]
    /\ lesson' = [x \in Written \cup {k} |-> IF x = k THEN writes[w][k] ELSE lesson[x]]
    /\ writes' = [writes EXCEPT ![w] = [x \in DOMAIN @ \ {k} |-> @[x]]]
    /\ UNCHANGED <<heardFrom, delivered, outcomes>>

StoreLessonFails(w) ==
    /\ writes' = [writes EXCEPT ![w] = NoLessons]
    /\ UNCHANGED <<lesson, heardFrom, delivered, outcomes>>

LessonNext ==
    \E w \in Workers :
        \/ \E source \in Witnesses \cup {Nameless} :
            (\E wide \in BOOLEAN : Learn(w, source, wide)) \/ Merge(w, source)
        \/ \E ks \in SUBSET Lessons : InjectLessons(w, ks)
        \/ \E k \in Lessons :
            \/ \E lane \in Witnesses, helped \in BOOLEAN : Outcome(w, k, lane, helped)
            \/ RetireLesson(w, k)
            \/ StoreLesson(w, k)
        \/ Evict(w)
        \/ StoreLessonFails(w)

LessonSpec == LessonInit /\ [][LessonNext]_lessonVars

-----------------------------------------------------------------------------
LessonRow ==
    [source : Witnesses \cup {Nameless}, wide : BOOLEAN, sure : BOOLEAN,
     status : {"live", "retired", "evicted"}, injections : Nat,
     helped : SUBSET Witnesses, ignored : SUBSET Witnesses]

AreLessons(f) == DOMAIN f \subseteq Lessons /\ \A k \in DOMAIN f : f[k] \in LessonRow

(* Type correctness.                                                       *)
LessonTypeOK ==
    /\ AreLessons(lesson)
    /\ DOMAIN writes = Workers /\ \A w \in Workers : AreLessons(writes[w])
    /\ heardFrom \subseteq Witnesses \cup {Nameless}
    /\ delivered \in [Lessons -> 0 .. MaxInjections]
    /\ outcomes \subseteq Lessons

(* A lesson is evicted on evidence only, however the operations overlap: it*)
(* really was delivered the number of times it takes to be judged, and a   *)
(* lane told how that went.  A report of the lesson is no delivery.        *)
EvictedOnEvidence ==
    \A k \in Written :
        lesson[k].status = "evicted" => delivered[k] >= MinSamples /\ k \in outcomes

(* A lesson of wide scope reaches lanes only after two different sources   *)
(* reported it.                                                            *)
SpreadOnTwoReports ==
    \A k \in Written :
        lesson[k].wide /\ delivered[k] > 0 => \E x, y \in heardFrom : x # y
=============================================================================
