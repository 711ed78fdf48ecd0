--------------------------- MODULE WorkspaceProofs ---------------------------
(***************************************************************************)
(* What claims, knowledge, lessons, tasks, the radar and the shared        *)
(* document promise for any number of commands, rows and clients.          *)
(*                                                                         *)
(* Operations on rows write back what they read some time ago.  Each of    *)
(* their promises rests on an invariant of single rows that is as true of  *)
(* a row somebody still holds as of the row that is stored, and that       *)
(* nothing which happens in between makes false.                           *)
(***************************************************************************)
EXTENDS MCWorkspace, PlanBoardProofs, DelegationLedgerProofs, TaskLifecycle,
        FiniteSetTheorems, TLAPS

-----------------------------------------------------------------------------
(* Claims.                                                                 *)

Ended == {"released", "expired"}

(* What a command saw was active then; and a claim that was recorded over  *)
(* others was forced, and one of the others is no longer active.           *)
ClaimHistory ==
    \A c \in Creators :
        /\ \A d \in saw[c] : status[d] \in Ended \cup {"active"} /\ d # c
        /\ status[c] = "active" =>
            saw[c] = {} \/ (claim[c].force /\ \E first \in saw[c] : status[first] \in Ended)

ClaimsInv == ClaimsTypeOK /\ ClaimHistory

(* A step that moves claims only from active to settled, apart from one    *)
(* claim that is recorded, keeps the history.                              *)
LEMMA Settling ==
    ASSUME ClaimsInv, UNCHANGED <<claim, saw>>,
           status' \in [Creators -> {"none", "checked", "reported", "active",
                                     "released", "expired"}],
           NEW c,
           \A d \in Creators : status[d] = "none" <=> status'[d] = "none",
           \A d \in Creators \ {c} :
                status'[d] = status[d]
                    \/ (status[d] \in Ended \cup {"active"} /\ status'[d] \in Ended),
           c \in Creators =>
            /\ status[c] = "checked" /\ status'[c] \in {"reported", "active"}
            /\ status'[c] = "active" => saw[c] = {}
                    \/ (claim[c].force /\ \E first \in saw[c] : status'[first] \in Ended),
           overdue' \subseteq Creators
    PROVE  ClaimsInv'
<1>1. ClaimsTypeOK'
    BY DEF ClaimsInv, ClaimsTypeOK, Claim
<1>2. ASSUME NEW x \in Creators, NEW d \in saw[x]
      PROVE  status'[d] \in Ended \cup {"active"} /\ d # x
    <2>1. d \in Creators /\ status[d] \in Ended \cup {"active"} /\ d # x
        BY DEF ClaimsInv, ClaimHistory, ClaimsTypeOK
    <2>2. d # c
        BY <2>1 DEF Ended
    <2> QED
        BY <2>1, <2>2
<1>3. ASSUME NEW x \in Creators, status'[x] = "active"
      PROVE  saw[x] = {}
                \/ (claim[x].force /\ \E first \in saw[x] : status'[first] \in Ended)
    <2>1. CASE x = c
        BY <1>3, <2>1
    <2>2. CASE x # c
        <3>1. status[x] = "active"
            BY <1>3, <2>2 DEF Ended
        <3>2. ASSUME NEW first \in saw[x], status[first] \in Ended
              PROVE  status'[first] \in Ended
            BY <3>2 DEF ClaimsInv, ClaimHistory, ClaimsTypeOK, Ended
        <3> QED
            BY <3>1, <3>2 DEF ClaimsInv, ClaimHistory
    <2> QED
        BY <2>1, <2>2
<1> QED
    BY <1>1, <1>2, <1>3 DEF ClaimsInv, ClaimHistory

LEMMA ClaimsStep == ClaimsInv /\ [ClaimsNext]_claimVars => ClaimsInv'
<1> SUFFICES ASSUME ClaimsInv, [ClaimsNext]_claimVars PROVE ClaimsInv'
    OBVIOUS
<1> USE DEF ClaimsInv
<1>1. ASSUME NEW c \in Creators, NEW asked \in Claim, FindConflicts(c, asked)
      PROVE  ClaimsInv'
    <2>1. /\ status[c] = "none" /\ status'[c] = "checked"
          /\ \A x \in Creators \ {c} : status'[x] = status[x] /\ saw'[x] = saw[x]
          /\ saw'[c] \subseteq Active
          /\ \A x \in DOMAIN claim : x # c => claim'[x] = claim[x]
        BY <1>1 DEF FindConflicts, ClaimsTypeOK
    <2>2. ClaimsTypeOK'
        <3>1. DOMAIN claim' = DOMAIN claim \cup {c} /\ claim'[c] = asked
            BY <1>1 DEF FindConflicts
        <3>2. status' \in [Creators -> {"none", "checked", "reported", "active",
                                        "released", "expired"}]
            BY <1>1 DEF FindConflicts, ClaimsTypeOK
        <3>3. saw' \in [Creators -> SUBSET Creators]
            BY <1>1 DEF FindConflicts, ClaimsTypeOK, Active
        <3> QED
            BY <1>1, <2>1, <3>1, <3>2, <3>3 DEF FindConflicts, ClaimsTypeOK
    <2>3. \A x \in Creators : \A d \in saw'[x] :
            d \in Creators /\ status[d] \in Ended \cup {"active"} /\ d # x
        BY <2>1 DEF Active, ClaimHistory, ClaimsTypeOK
    <2>4. \A x \in Creators : \A d \in saw'[x] : status'[d] = status[d]
        BY <2>1, <2>3 DEF Ended
    <2>5. ASSUME NEW x \in Creators, status'[x] = "active"
          PROVE  saw'[x] = {}
                    \/ (claim'[x].force /\ \E first \in saw'[x] : status'[first] \in Ended)
        <3>1. x # c /\ status[x] = "active" /\ x \in DOMAIN claim
            BY <2>1, <2>5 DEF ClaimsTypeOK
        <3> QED
            BY <2>1, <2>4, <3>1 DEF ClaimHistory
    <2> QED
        BY <2>2, <2>3, <2>4, <2>5 DEF ClaimHistory
<1>2. ASSUME NEW c \in Creators, Record(c) \/ Report(c) PROVE ClaimsInv'
    BY <1>2, Settling DEF Record, Report, ClaimsTypeOK
<1>3. ASSUME NEW c \in Creators, Override(c) PROVE ClaimsInv'
    <2>1. PICK first \in saw[c] :
            status' = [status EXCEPT ![first] = "released", ![c] = "active"]
        BY <1>3 DEF Override
    <2>2. /\ first \in Creators /\ first # c
          /\ status[first] \in Ended \cup {"active"}
        BY <2>1 DEF ClaimHistory, ClaimsTypeOK
    <2>3. /\ status'[first] = "released" /\ status'[c] = "active" /\ status[c] = "checked"
          /\ \A d \in Creators \ {c, first} : status'[d] = status[d]
          /\ status' \in [Creators -> {"none", "checked", "reported", "active",
                                       "released", "expired"}]
        BY <1>3, <2>1, <2>2 DEF Override, ClaimsTypeOK
    <2>4. \A d \in Creators : status[d] = "none" <=> status'[d] = "none"
        BY <2>2, <2>3 DEF Ended
    <2> QED
        BY <1>3, <2>1, <2>2, <2>3, <2>4, Settling DEF Override, Ended, ClaimsTypeOK
<1>4. ASSUME NEW r \in Resources, Release(r) PROVE ClaimsInv'
    <2>1. PICK d \in Active : status' = [status EXCEPT ![d] = "released"]
        BY <1>4 DEF Release
    <2>2. d \in Creators /\ status[d] = "active"
        BY DEF Active
    <2>3. UNCHANGED <<claim, saw, overdue>>
        BY <1>4 DEF Release
    <2>4. /\ \A x \in Creators : status'[x] = IF x = d THEN "released" ELSE status[x]
          /\ status' \in [Creators -> {"none", "checked", "reported", "active",
                                       "released", "expired"}]
        BY <2>1, <2>2 DEF ClaimsTypeOK
    <2>5. PICK nobody : nobody \notin Creators
        BY NoSetContainsEverything
    <2> QED
        BY <2>2, <2>3, <2>4, <2>5, Settling DEF Ended, ClaimsTypeOK
<1>5. ASSUME NEW c \in Creators, RunsOut(c) PROVE ClaimsInv'
    BY <1>5 DEF RunsOut, ClaimsTypeOK, ClaimHistory
<1>6. CASE List
    <2>1. \A x \in Creators :
            status'[x] = status[x] \/ (status[x] = "active" /\ status'[x] = "expired")
        BY <1>6 DEF List, Active
    <2>2. status' \in [Creators -> {"none", "checked", "reported", "active",
                                    "released", "expired"}]
        BY <1>6 DEF List, ClaimsTypeOK
    <2>3. PICK nobody : nobody \notin Creators
        BY NoSetContainsEverything
    <2> QED
        BY <1>6, <2>1, <2>2, <2>3, Settling DEF List, Ended, ClaimsTypeOK
<1>7. CASE UNCHANGED claimVars
    BY <1>7 DEF claimVars, ClaimsTypeOK, ClaimHistory
<1> QED
    BY <1>1, <1>2, <1>3, <1>4, <1>5, <1>6, <1>7 DEF ClaimsNext

(* Whatever commands overlap, a claim is known of exactly the commands     *)
(* that were called, and each has its status (claim_create, claim_release).*)
THEOREM ClaimsTyped == ClaimsSpec => []ClaimsTypeOK
<1>1. ClaimsInit => ClaimsInv
    BY DEF ClaimsInit, ClaimsInv, ClaimsTypeOK, ClaimHistory
<1>2. ClaimsInv => ClaimsTypeOK
    BY DEF ClaimsInv
<1> QED
    BY <1>1, <1>2, ClaimsStep, PTL DEF ClaimsSpec

(* Overlapping claims of two lanes are the work of commands that could not *)
(* see each other, or of an override that released one holder of several   *)
(* (claim_create).                                                         *)
THEOREM OverlapsExplained == ClaimsSpec => []OverlapExplained
<1>1. ClaimsInit => ClaimsInv
    BY DEF ClaimsInit, ClaimsInv, ClaimsTypeOK, ClaimHistory
<1>2. ClaimsInv => OverlapExplained
    <2> SUFFICES ASSUME ClaimsInv, NEW c \in Active, NEW d \in Active, d \in saw[c]
                 PROVE  claim[c].force /\ \E x, y \in saw[c] : x # y
        BY DEF OverlapExplained
    <2>1. claim[c].force /\ \E first \in saw[c] : status[first] \in Ended
        BY DEF ClaimsInv, ClaimHistory, Active
    <2>2. status[d] = "active"
        BY DEF Active
    <2> QED
        BY <2>1, <2>2 DEF Ended
<1> QED
    BY <1>1, <1>2, ClaimsStep, PTL DEF ClaimsSpec

-----------------------------------------------------------------------------
(* Knowledge.                                                              *)

(* A row of the brain, stored or about to be: its source reported its      *)
(* topic, and if it is believed, then for a reason.                        *)
Backed(e, known) ==
    /\ e \in EntryRow
    /\ <<e.topic, e.source>> \in known
    /\ e.confidence >= Shared =>
        \/ e.vouched = "person"
        \/ \E x, y \in Reporters : x # y /\ {<<e.topic, x>>, <<e.topic, y>>} \subseteq known

AllBacked(rows, known) ==
    DOMAIN rows \subseteq Entries /\ \A k \in DOMAIN rows : Backed(rows[k], known)

KnowledgeInv ==
    /\ reported \subseteq Topics \X (Reporters \cup {Unnamed})
    /\ AllBacked(entry, reported)
    /\ DOMAIN pending = Visitors
    /\ \A v \in Visitors : AllBacked(pending[v], reported)

(* Reports are never taken back.                                           *)
LEMMA BackedStays ==
    ASSUME NEW rows, NEW known, NEW more, AllBacked(rows, known), known \subseteq more
    PROVE  AllBacked(rows, more)
BY DEF AllBacked, Backed

LEMMA OnlyBacked ==
    ASSUME NEW k \in Entries, NEW e, NEW known, Backed(e, known)
    PROVE  AllBacked(Only(k, e), known)
BY DEF AllBacked, Only

LEMMA NothingBacked == ASSUME NEW known PROVE AllBacked(NoEntries, known)
<1>1. DOMAIN NoEntries = {}
    BY DEF NoEntries
<1> QED
    BY <1>1 DEF AllBacked

(* What backs a row backs another one that claims no more.                 *)
LEMMA ClaimsNoMore ==
    ASSUME NEW e, NEW f \in EntryRow, NEW known, NEW more, Backed(e, known),
           known \subseteq more, f.topic = e.topic, f.source = e.source,
           \/ f.vouched = "person"
           \/ f.vouched = e.vouched /\ (f.confidence >= Shared => e.confidence >= Shared)
    PROVE  Backed(f, more)
<1>1. <<f.topic, f.source>> \in more
    BY DEF Backed
<1>2. ASSUME f.confidence >= Shared, f.vouched # "person"
      PROVE  \E x, y \in Reporters : x # y /\ {<<f.topic, x>>, <<f.topic, y>>} \subseteq more
    <2>1. \E x, y \in Reporters : x # y /\ {<<e.topic, x>>, <<e.topic, y>>} \subseteq known
        BY <1>2 DEF Backed
    <2> QED
        BY <2>1
<1> QED
    BY <1>1, <1>2 DEF Backed

(* A second report of another lane backs any confidence; without one the   *)
(* row gains none that counts.                                             *)
LEMMA CorroboratedBacked ==
    ASSUME NEW e, NEW source \in Reporters \cup {Unnamed}, NEW known, Backed(e, known)
    PROVE  Backed(Corroborated(e, source), known \cup {<<e.topic, source>>})
<1> DEFINE c == Corroborated(e, source)
           more == known \cup {<<e.topic, source>>}
<1>1. e \in EntryRow /\ <<e.topic, e.source>> \in known
    BY DEF Backed
<1>2. /\ e.topic \in Topics /\ e.source \in Reporters \cup {Unnamed}
      /\ e.confidence \in 0 .. 3 /\ e.status \in {"active", "stale", "retired"}
      /\ e.vouched \in {"nobody", "lanes", "person"}
    BY <1>1 DEF EntryRow, Guess, Certain
<1>3. CASE \E x, y \in Observers(e, source) : x # y
    <2> DEFINE whose == IF e.vouched = "nobody" THEN "lanes" ELSE e.vouched
    <2>1. whose \in {"nobody", "lanes", "person"}
        BY <1>2
    <2>6. c = [e EXCEPT !.confidence = Shared, !.vouched = whose]
        BY <1>3 DEF Corroborated
    <2> HIDE DEF whose
    <2>2. c.topic = e.topic /\ c.source = e.source /\ c \in EntryRow
        <3>1. Shared \in Guess .. Certain
            BY DEF Guess, Shared, Certain
        <3> HIDE DEF c
        <3> QED
            BY <1>1, <2>1, <2>6, <3>1 DEF EntryRow
    <2>3. e.source \in Reporters /\ source \in Reporters /\ e.source # source
        BY <1>2, <1>3, UnnamedIsNoLane DEF Observers
    <2>4. {<<e.topic, e.source>>, <<e.topic, source>>} \subseteq more
        BY <1>1
    <2> HIDE DEF c, more
    <2>5. \E x, y \in Reporters : x # y /\ {<<c.topic, x>>, <<c.topic, y>>} \subseteq more
        BY <2>2, <2>3, <2>4
    <2> QED
        BY <2>2, <2>4, <2>5 DEF Backed, c, more
<1>4. CASE ~ \E x, y \in Observers(e, source) : x # y
    <2>1. c = [e EXCEPT !.confidence = IF @ < 1 THEN 1 ELSE @]
        BY <1>4 DEF Corroborated, Echo
    <2>2. /\ c.topic = e.topic /\ c.source = e.source /\ c \in EntryRow
          /\ c.vouched = e.vouched /\ (c.confidence >= 2 => e.confidence >= 2)
        BY <1>1, <1>2, <2>1 DEF EntryRow, Guess, Certain
    <2>3. known \subseteq more
        OBVIOUS
    <2> HIDE DEF c, more
    <2>4. Backed(c, more)
        BY <2>2, <2>3, ClaimsNoMore DEF Shared
    <2> QED
        BY <2>4 DEF c, more
<1> QED
    BY <1>3, <1>4

(* An operation that decides to write backed rows keeps the invariant.     *)
LEMMA Deciding ==
    ASSUME KnowledgeInv, NEW v \in Visitors, NEW STATE rows, Decides(v, rows),
           AllBacked(rows, reported'), UNCHANGED entry, reported \subseteq reported',
           reported' \subseteq Topics \X (Reporters \cup {Unnamed})
    PROVE  KnowledgeInv'
<1>1. /\ DOMAIN pending' = Visitors
      /\ \A x \in Visitors : pending'[x] = IF x = v THEN rows ELSE pending[x]
    BY DEF Decides, KnowledgeInv
<1>2. AllBacked(entry', reported')
    BY BackedStays DEF KnowledgeInv
<1>3. ASSUME NEW x \in Visitors PROVE AllBacked(pending'[x], reported')
    <2>1. CASE x = v
        BY <1>1, <2>1
    <2>2. CASE x # v
        BY <1>1, <2>2, BackedStays DEF KnowledgeInv
    <2> QED
        BY <2>1, <2>2
<1> QED
    BY <1>1, <1>2, <1>3 DEF KnowledgeInv

(* Every operation of the store keeps rows backed.                         *)
LEMMA KnowledgeStep == KnowledgeInv /\ [KnowledgeNext]_knowledgeVars => KnowledgeInv'
<1> SUFFICES ASSUME KnowledgeInv, [KnowledgeNext]_knowledgeVars PROVE KnowledgeInv'
    OBVIOUS
<1>1. \A k \in Known : k \in Entries /\ Backed(entry[k], reported)
    BY DEF KnowledgeInv, AllBacked, Known
<1>2. reported \subseteq Topics \X (Reporters \cup {Unnamed})
    BY DEF KnowledgeInv
<1>3. ASSUME NEW topic \in Topics, NEW source \in Reporters \cup {Unnamed},
             NEW v \in Visitors, NEW human \in BOOLEAN, Create(v, topic, source, human)
      PROVE  KnowledgeInv'
    <2>1. PICK k \in Entries : Decides(v, Only(k, NewEntry(topic, source, human)))
        BY <1>3 DEF Create
    <2>2. reported' = reported \cup {<<topic, source>>} /\ UNCHANGED entry
        BY <1>3 DEF Create
    <2>3. Backed(NewEntry(topic, source, human), reported')
        BY <2>2 DEF Backed, NewEntry, EntryRow, Guess, Shared, Certain
    <2>4. AllBacked(Only(k, NewEntry(topic, source, human)), reported')
        BY <2>3, OnlyBacked
    <2>5. reported' \subseteq Topics \X (Reporters \cup {Unnamed})
        BY <1>2, <2>2
    <2> QED
        BY <2>1, <2>2, <2>4, <2>5, Deciding
<1>4. ASSUME NEW topic \in Topics, NEW source \in Reporters \cup {Unnamed},
             NEW v \in Visitors, Corroborate(v, topic, source)
      PROVE  KnowledgeInv'
    <2>1. PICK k \in Matching(topic) : Decides(v, Only(k, Corroborated(entry[k], source)))
        BY <1>4 DEF Corroborate
    <2>2. k \in Entries /\ entry[k].topic = topic /\ Backed(entry[k], reported)
        BY <1>1 DEF Matching
    <2>3. reported' = reported \cup {<<topic, source>>} /\ UNCHANGED entry
        BY <1>4 DEF Corroborate
    <2>4. Backed(Corroborated(entry[k], source), reported')
        BY <2>2, <2>3, CorroboratedBacked
    <2>5. AllBacked(Only(k, Corroborated(entry[k], source)), reported')
        BY <2>2, <2>4, OnlyBacked
    <2> QED
        BY <1>2, <2>1, <2>3, <2>5, Deciding
<1>5. ASSUME NEW topic \in Topics, NEW source \in Reporters \cup {Unnamed},
             Repeat(topic, source)
      PROVE  KnowledgeInv'
    <2>1. /\ UNCHANGED <<entry, pending>> /\ reported \subseteq reported'
          /\ reported' \subseteq Topics \X (Reporters \cup {Unnamed})
        BY <1>2, <1>5 DEF Repeat
    <2> QED
        BY <2>1, BackedStays DEF KnowledgeInv
<1>6. ASSUME NEW v \in Visitors, NEW k \in Known, NEW STATE new, new \in EntryRow,
             new.topic = entry[k].topic, new.source = entry[k].source,
             new.vouched = "person" \/ (new.vouched = entry[k].vouched
                                          /\ new.confidence = entry[k].confidence),
             Decides(v, Only(k, new)), UNCHANGED <<entry, reported>>
      PROVE  KnowledgeInv'
    <2>1. Backed(new, reported')
        BY <1>1, <1>6, ClaimsNoMore
    <2>2. AllBacked(Only(k, new), reported')
        BY <1>1, <2>1, OnlyBacked
    <2> QED
        BY <1>2, <1>6, <2>2, Deciding
<1>7. ASSUME NEW v \in Visitors, NEW k \in Entries, Confirm(v, k) PROVE KnowledgeInv'
    <2> DEFINE new == [entry[k] EXCEPT !.confidence = Certain, !.vouched = "person"]
    <2>1. k \in Known /\ entry[k] \in EntryRow
        BY <1>1, <1>7 DEF Confirm, Backed
    <2>2. /\ new \in EntryRow /\ new.topic = entry[k].topic
          /\ new.source = entry[k].source /\ new.vouched = "person"
        <3>1. Certain \in Guess .. Certain
            BY DEF Guess, Certain
        <3> QED
            BY <2>1, <3>1 DEF EntryRow
    <2>3. Decides(v, Only(k, new)) /\ UNCHANGED <<entry, reported>>
        BY <1>7 DEF Confirm
    <2> HIDE DEF new
    <2> QED
        BY <1>6, <2>1, <2>2, <2>3
<1>8. ASSUME NEW v \in Visitors, NEW k \in Entries, NEW value \in {"stale", "retired"},
             SetStatus(v, k, value)
      PROVE  KnowledgeInv'
    <2> DEFINE new == [entry[k] EXCEPT !.status = value]
    <2>1. k \in Known /\ entry[k] \in EntryRow
        BY <1>1, <1>8 DEF SetStatus, Backed
    <2>2. /\ new \in EntryRow /\ new.topic = entry[k].topic
          /\ new.source = entry[k].source /\ new.vouched = entry[k].vouched
          /\ new.confidence = entry[k].confidence
        BY <2>1 DEF EntryRow
    <2>3. Decides(v, Only(k, new)) /\ UNCHANGED <<entry, reported>>
        BY <1>8 DEF SetStatus
    <2> HIDE DEF new
    <2> QED
        BY <1>6, <2>1, <2>2, <2>3
<1>9. ASSUME NEW v \in Visitors, NEW k \in Entries, Store(v, k) PROVE KnowledgeInv'
    <2>1. UNCHANGED reported /\ k \in DOMAIN pending[v] /\ AllBacked(pending[v], reported)
        BY <1>9 DEF Store, KnowledgeInv
    <2>2. AllBacked(entry', reported')
        <3>1. entry' = [x \in Known \cup {k} |-> IF x = k THEN pending[v][k] ELSE entry[x]]
            BY <1>9 DEF Store
        <3> QED
            BY <1>1, <2>1, <3>1 DEF AllBacked
    <2>3. ASSUME NEW x \in Visitors PROVE AllBacked(pending'[x], reported')
        <3>1. CASE x # v
            BY <1>9, <2>1, <3>1 DEF Store, KnowledgeInv
        <3>2. CASE x = v
            <4>1. pending'[v] = [y \in DOMAIN pending[v] \ {k} |-> pending[v][y]]
                BY <1>9 DEF Store, KnowledgeInv
            <4> QED
                BY <2>1, <3>2, <4>1 DEF AllBacked
        <3> QED
            BY <3>1, <3>2
    <2>4. DOMAIN pending' = Visitors
        BY <1>9 DEF Store, KnowledgeInv
    <2> QED
        BY <1>2, <2>1, <2>2, <2>3, <2>4 DEF KnowledgeInv
<1>10. ASSUME NEW v \in Visitors, NEW ks \in SUBSET Entries, Sweep(v, ks)
       PROVE  KnowledgeInv'
    <2> DEFINE rows == [k \in ks |-> [entry[k] EXCEPT !.status = "stale"]]
    <2>1. /\ ks \subseteq Known /\ Decides(v, rows) /\ UNCHANGED <<entry, reported>>
        BY <1>10 DEF Sweep, ActiveEntries
    <2>2. ASSUME NEW k \in ks PROVE Backed(rows[k], reported)
        <3>1. Backed(entry[k], reported) /\ entry[k] \in EntryRow
            BY <1>1, <2>1 DEF Backed
        <3>2. /\ rows[k] \in EntryRow /\ rows[k].topic = entry[k].topic
              /\ rows[k].source = entry[k].source /\ rows[k].vouched = entry[k].vouched
              /\ rows[k].confidence = entry[k].confidence
            BY <3>1 DEF EntryRow
        <3> HIDE DEF rows
        <3> QED
            BY <3>1, <3>2, ClaimsNoMore
    <2>3. DOMAIN rows = ks
        OBVIOUS
    <2> HIDE DEF rows
    <2>4. AllBacked(rows, reported')
        BY <2>1, <2>2, <2>3 DEF AllBacked
    <2> QED
        BY <1>2, <2>1, <2>4, Deciding
<1>11. ASSUME NEW v \in Visitors, NEW ks \in SUBSET Entries, Inject(v, ks)
       PROVE  KnowledgeInv'
    <2> DEFINE rows == [k \in ks |-> entry[k]]
    <2>1. /\ ks \subseteq Known /\ Decides(v, rows) /\ UNCHANGED <<entry, reported>>
        BY <1>11 DEF Inject, ActiveEntries
    <2>2. DOMAIN rows = ks /\ \A k \in ks : Backed(rows[k], reported)
        BY <1>1, <2>1
    <2> HIDE DEF rows
    <2>3. AllBacked(rows, reported')
        BY <2>1, <2>2 DEF AllBacked
    <2> QED
        BY <1>2, <2>1, <2>3, Deciding
<1>12. ASSUME NEW v \in Visitors, StoreFails(v) PROVE KnowledgeInv'
    <2>1. /\ UNCHANGED <<entry, reported>> /\ DOMAIN pending' = Visitors
          /\ \A x \in Visitors : pending'[x] = IF x = v THEN NoEntries ELSE pending[x]
        BY <1>12 DEF StoreFails, KnowledgeInv
    <2> QED
        BY <2>1, NothingBacked DEF KnowledgeInv
<1>13. CASE UNCHANGED knowledgeVars
    BY <1>13 DEF knowledgeVars, KnowledgeInv
<1> QED
    BY <1>3, <1>4, <1>5, <1>7, <1>8, <1>9, <1>10, <1>11, <1>12, <1>13 DEF KnowledgeNext

(* What the brain believes as a shared observation a person vouched for or *)
(* two different lanes reported, for any number of overlapping operations  *)
(* (promote, _corroborate).                                                *)
THEOREM IndependentCorroboration == KnowledgeSpec => []CorroborationIsIndependent
<1>1. KnowledgeInit => KnowledgeInv
    BY NothingBacked DEF KnowledgeInit, KnowledgeInv
<1>2. KnowledgeInv => CorroborationIsIndependent
    BY DEF KnowledgeInv, CorroborationIsIndependent, AllBacked, Backed, Known,
        TwoLanesReported
<1> QED
    BY <1>1, <1>2, KnowledgeStep, PTL DEF KnowledgeSpec
-----------------------------------------------------------------------------
(* Tasks.                                                                  *)

(* A caller that writes a task of the session into it, and holds a task of *)
(* it then, keeps the types.                                               *)
LEMMA WritesTyped ==
    ASSUME TaskTypeOK, NEW c \in Callers, NEW t \in Tasks, NEW state \in TaskStates,
           NEW next \in Stages, Saved(t, state), UNCHANGED usable,
           held' = [held EXCEPT ![c] = [task |-> t, state |-> state]],
           stage' = [stage EXCEPT ![c] = next]
    PROVE  TaskTypeOK'
<1>1. /\ usable /\ Submitted' = Submitted \cup {t}
      /\ \A x \in Submitted' : row'[x] = IF x = t THEN state ELSE row[x]
    BY DEF Saved, Submitted
<1>2. /\ stage' \in [Callers -> Stages]
      /\ \A d \in Callers \ {c} : stage'[d] = stage[d]
    BY DEF TaskTypeOK
<1>3. /\ held' \in [Callers -> [task : Tasks \cup {NoTask}, state : TaskStates]]
      /\ held'[c].task = t
      /\ \A d \in Callers \ {c} : held'[d] = held[d]
    BY DEF TaskTypeOK
<1> QED
    BY <1>1, <1>2, <1>3, NoTaskIsNoTask DEF TaskTypeOK

(* A caller whose object stays, or becomes another of a task of the        *)
(* session, while the rows stay.                                           *)
LEMMA TakesTyped ==
    ASSUME TaskTypeOK, NEW c \in Callers, NEW e \in [task : Submitted, state : TaskStates],
           usable, UNCHANGED <<row, usable, stage>>, held' = [held EXCEPT ![c] = e]
    PROVE  TaskTypeOK'
<1>1. Submitted' = Submitted /\ e.task \in Submitted /\ e.task # NoTask
    BY NoTaskIsNoTask DEF Submitted, TaskTypeOK
<1>2. /\ held' \in [Callers -> [task : Tasks \cup {NoTask}, state : TaskStates]]
      /\ held'[c] = e /\ \A d \in Callers \ {c} : held'[d] = held[d]
    BY DEF TaskTypeOK
<1> QED
    BY <1>1, <1>2 DEF TaskTypeOK

LEMMA TaskStep == TaskTypeOK /\ [TaskNext]_taskVars => TaskTypeOK'
<1> SUFFICES ASSUME TaskTypeOK, [TaskNext]_taskVars PROVE TaskTypeOK'
    OBVIOUS
<1>1. /\ "submitted" \in TaskStates /\ "input_required" \in TaskStates
      /\ SavedStates \subseteq TaskStates
    BY DEF TaskStates, SavedStates
<1>2. \A d \in Callers :
        /\ stage[d] \in Stages /\ held[d].state \in TaskStates
        /\ held[d] \in [task : Tasks \cup {NoTask}, state : TaskStates]
        /\ held[d].task # NoTask => held[d].task \in Tasks
    BY DEF TaskTypeOK
<1>3. ASSUME NEW c \in Callers, NEW t \in Tasks, Submit(c, t) PROVE TaskTypeOK'
    <2>1. stage' = [stage EXCEPT ![c] = stage[c]]
        BY <1>3 DEF Submit, TaskTypeOK
    <2> QED
        BY <1>1, <1>2, <1>3, <2>1, WritesTyped DEF Submit, Takes
<1>4. ASSUME NEW c \in Callers, NEW t \in Tasks, Load(c, t) PROVE TaskTypeOK'
    <2>1. [task |-> t, state |-> row[t]] \in [task : Submitted, state : TaskStates]
        BY <1>4 DEF Load, TaskTypeOK
    <2> QED
        BY <1>4, <2>1, TakesTyped DEF Load, Takes
<1>5. ASSUME NEW c \in Callers, NEW t \in Tasks, Resubmit(c, t) PROVE TaskTypeOK'
    <2>1. PICK next \in Stages : stage' = [stage EXCEPT ![c] = next]
        BY <1>5 DEF Resubmit, GoesTo, Stages
    <2> QED
        BY <1>1, <1>5, <2>1, WritesTyped DEF Resubmit, Takes
<1>6. ASSUME NEW c \in Callers, NEW target \in SavedStates, Transition(c, target)
      PROVE  TaskTypeOK'
    <2>1. stage' = [stage EXCEPT ![c] = stage[c]]
        BY <1>6 DEF Transition, TaskTypeOK
    <2>2. held[c].task \in Tasks
        BY <1>2, <1>6 DEF Transition
    <2> QED
        BY <1>1, <1>2, <1>6, <2>1, <2>2, WritesTyped DEF Transition, Takes
<1>7. ASSUME NEW c \in Callers, RequestInput(c) PROVE TaskTypeOK'
    <2>1. held[c].task \in Submitted
        BY <1>7 DEF RequestInput, TaskTypeOK
    <2>2. [task |-> held[c].task, state |-> "input_required"]
            \in [task : Submitted, state : TaskStates]
        BY <1>1, <2>1
    <2> QED
        BY <1>7, <2>2, TakesTyped DEF RequestInput, Takes
<1>8. ASSUME NEW c \in Callers, Retry(c) \/ SaveAgain(c) PROVE TaskTypeOK'
    <2>1. PICK next \in Stages : stage' = [stage EXCEPT ![c] = next]
        BY <1>8 DEF Retry, SaveAgain, GoesTo, Stages
    <2>2. held[c].task \in Tasks
        BY <1>2, <1>8 DEF Retry, SaveAgain, TaskTypeOK
    <2>3. held' = [held EXCEPT ![c] = [task |-> held[c].task, state |-> held[c].state]]
        BY <1>2, <1>8 DEF Retry, SaveAgain, TaskTypeOK
    <2> QED
        BY <1>2, <1>8, <2>1, <2>2, <2>3, WritesTyped DEF Retry, SaveAgain
<1>9. ASSUME NEW c \in Callers, SaveFails(c) \/ RetryEnds(c) PROVE TaskTypeOK'
    <2>1. /\ stage' \in [Callers -> Stages] /\ stage'[c] = "rest"
          /\ \A d \in Callers \ {c} : stage'[d] = stage[d]
        BY <1>9 DEF SaveFails, RetryEnds, GoesTo, TaskTypeOK, Stages
    <2>2. CASE SaveFails(c)
        <3>1. Submitted' = {} /\ usable' = FALSE /\ UNCHANGED held
            BY <2>2 DEF SaveFails, NoRows, Submitted
        <3> QED
            BY <2>1, <3>1 DEF TaskTypeOK
    <2>3. CASE RetryEnds(c)
        <3>1. Submitted' = Submitted /\ UNCHANGED <<row, usable, held>>
            BY <2>3 DEF RetryEnds, Submitted
        <3> QED
            BY <2>1, <3>1 DEF TaskTypeOK
    <2> QED
        BY <1>9, <2>2, <2>3
<1>10. CASE DaemonDies
    <2>1. Submitted' = {}
        BY <1>10 DEF DaemonDies, NoRows, Submitted
    <2> QED
        BY <1>1, <1>10, <2>1 DEF DaemonDies, Empty, Stages, TaskTypeOK
<1>11. CASE UNCHANGED taskVars
    BY <1>11 DEF taskVars, TaskTypeOK, Submitted
<1> QED
    BY <1>3, <1>4, <1>5, <1>6, <1>7, <1>8, <1>9, <1>10, <1>11 DEF TaskNext

LEMMA TaskStarts == TaskInit => TaskTypeOK
<1> SUFFICES ASSUME TaskInit PROVE TaskTypeOK
    OBVIOUS
<1>1. Submitted = {}
    BY DEF TaskInit, NoRows, Submitted
<1> QED
    BY <1>1 DEF TaskInit, TaskTypeOK, Empty, Stages, TaskStates

(* Whatever callers overlap, fail and die, an object is of a task that the *)
(* manager's session holds as long as that works (submit, retry, _persist).*)
THEOREM TasksTyped == TaskSpec => []TaskTypeOK
    BY TaskStarts, TaskStep, PTL DEF TaskSpec

(* A finished task changes only by the write of a caller that read it      *)
(* before it finished, for any number of callers (start, complete, fail,   *)
(* cancel, reject, retry).                                                 *)
THEOREM FinishedStays == TaskSpec => FinishedUnlessStale
<1> DEFINE Kept ==
        \A t \in Submitted \cap DOMAIN row' :
            row[t] \in Terminal /\ row'[t] # row[t] =>
                \E c \in Callers : held[c].task = t /\ held[c].state # row[t]
<1>1. ASSUME TaskTypeOK, [TaskNext]_taskVars, NEW t \in Submitted, t \in DOMAIN row',
             row[t] \in Terminal, row'[t] # row[t]
      PROVE  \E c \in Callers : held[c].task = t /\ held[c].state # row[t]
    <2>1. ~DaemonDies
        BY <1>1 DEF DaemonDies, NoRows
    <2>2. PICK c \in Callers :
            \/ \E x \in Tasks : Submit(c, x) \/ Load(c, x) \/ Resubmit(c, x)
            \/ \E target \in SavedStates : Transition(c, target)
            \/ RequestInput(c) \/ Retry(c) \/ SaveAgain(c)
            \/ SaveFails(c) \/ RetryEnds(c)
        BY <1>1, <2>1 DEF TaskNext, taskVars
    <2>3. ASSUME NEW x \in Tasks, Submit(c, x) \/ Load(c, x) \/ Resubmit(c, x) PROVE FALSE
        BY <1>1, <2>3 DEF Submit, Load, Resubmit, Saved
    <2>4. ASSUME Retry(c) \/ SaveAgain(c)
          PROVE  held[c].task = t /\ held[c].state # row[t]
        BY <1>1, <2>4 DEF Retry, SaveAgain, Saved
    <2>5. ASSUME NEW target \in SavedStates, Transition(c, target)
          PROVE  held[c].task = t /\ held[c].state # row[t]
        <3>1. held[c].task = t /\ row'[t] = target /\ CanTransition(held[c].state, target)
            BY <1>1, <2>5 DEF Transition, Saved
        <3>2. Targets(row[t]) = {}
            BY <1>1 DEF Terminal, Targets
        <3> QED
            BY <1>1, <3>1, <3>2 DEF CanTransition
    <2>6. ~(RequestInput(c) \/ SaveFails(c) \/ RetryEnds(c))
        BY <1>1 DEF RequestInput, SaveFails, RetryEnds, NoRows
    <2> QED
        BY <2>2, <2>3, <2>4, <2>5, <2>6
<1>2. TaskTypeOK /\ [TaskNext]_taskVars => [Kept]_taskVars
    BY <1>1
<1> QED
    BY <1>2, TaskStarts, TaskStep, PTL DEF TaskSpec, FinishedUnlessStale

-----------------------------------------------------------------------------
(* Lessons.                                                                *)

(* A row of lesson k, stored or about to be, when n deliveries were chosen *)
(* and told is what lanes gave outcomes of.                                *)
Judged(k, r, n, told) ==
    /\ r \in LessonRow
    /\ r.injections <= n
    /\ r.helped \cup r.ignored # {} => k \in told
    /\ r.status = "evicted" => n >= MinSamples /\ k \in told

AllJudged(rows, counts, told) ==
    DOMAIN rows \subseteq Lessons /\ \A k \in DOMAIN rows : Judged(k, rows[k], counts[k], told)

LessonInv ==
    /\ delivered \in [Lessons -> Nat]
    /\ DOMAIN writes = Workers
    /\ AllJudged(lesson, delivered, outcomes)
    /\ \A w \in Workers : AllJudged(writes[w], delivered, outcomes)

(* Deliveries and outcomes only add up.                                    *)
LEMMA JudgedStays ==
    ASSUME NEW rows, NEW n \in [Lessons -> Nat], NEW m \in [Lessons -> Nat], NEW told,
           NEW more, AllJudged(rows, n, told), told \subseteq more,
           \A k \in Lessons : n[k] <= m[k]
    PROVE  AllJudged(rows, m, more)
<1> SUFFICES ASSUME NEW k \in DOMAIN rows PROVE Judged(k, rows[k], m[k], more)
    BY DEF AllJudged
<1>1. /\ k \in Lessons /\ Judged(k, rows[k], n[k], told)
      /\ n[k] \in Nat /\ m[k] \in Nat /\ n[k] <= m[k]
    BY DEF AllJudged
<1>2. rows[k].injections \in Nat
    BY <1>1 DEF Judged, LessonRow
<1> QED
    BY <1>1, <1>2, LessonBounds DEF Judged

LEMMA OneJudged ==
    ASSUME NEW k \in Lessons, NEW r, NEW n, NEW told, Judged(k, r, n[k], told)
    PROVE  AllJudged(One(k, r), n, told)
BY DEF AllJudged, One

LEMMA NoneJudged == ASSUME NEW n, NEW told PROVE AllJudged(NoLessons, n, told)
<1>1. DOMAIN NoLessons = {}
    BY DEF NoLessons
<1> QED
    BY <1>1 DEF AllJudged

(* A step that adds to the counts and decides to write judged rows.        *)
LEMMA Judging ==
    ASSUME LessonInv, NEW w \in Workers, NEW STATE rows,
           writes' = [writes EXCEPT ![w] = rows], UNCHANGED lesson,
           AllJudged(rows, delivered', outcomes'), delivered' \in [Lessons -> Nat],
           outcomes \subseteq outcomes', \A k \in Lessons : delivered[k] <= delivered'[k]
    PROVE  LessonInv'
<1>1. AllJudged(lesson', delivered', outcomes')
    BY JudgedStays DEF LessonInv
<1>2. ASSUME NEW x \in Workers PROVE AllJudged(writes'[x], delivered', outcomes')
    <2>1. CASE x = w
        BY <2>1 DEF LessonInv
    <2>2. CASE x # w
        BY <2>2, JudgedStays DEF LessonInv
    <2> QED
        BY <2>1, <2>2
<1> QED
    BY <1>1, <1>2 DEF LessonInv

(* Every operation of the store keeps rows judged.                         *)
LEMMA LessonStep == LessonInv /\ [LessonNext]_lessonVars => LessonInv'
<1> SUFFICES ASSUME LessonInv, [LessonNext]_lessonVars PROVE LessonInv'
    OBVIOUS
<1>1. \A k \in Written : /\ k \in Lessons /\ Judged(k, lesson[k], delivered[k], outcomes)
                         /\ lesson[k] \in LessonRow
    BY DEF LessonInv, AllJudged, Judged, Written
<1>2. delivered \in [Lessons -> Nat] /\ \A k \in Lessons : delivered[k] <= delivered[k]
    BY DEF LessonInv
<1>3. ASSUME NEW w \in Workers, NEW source \in Witnesses \cup {Nameless},
             NEW wide \in BOOLEAN, Learn(w, source, wide)
      PROVE  LessonInv'
    <2> DEFINE new == [source |-> source, wide |-> wide, status |-> "live", sure |-> FALSE,
                       injections |-> 0, helped |-> {}, ignored |-> {}]
    <2>1. PICK k \in Lessons : WillWrite(w, One(k, new))
        BY <1>3 DEF Learn
    <2>2. /\ new \in LessonRow /\ new.injections = 0 /\ new.status = "live"
          /\ new.helped \cup new.ignored = {}
        BY DEF LessonRow
    <2>3. UNCHANGED <<lesson, delivered, outcomes>>
        BY <1>3 DEF Learn
    <2> HIDE DEF new
    <2>4. Judged(k, new, delivered[k], outcomes)
        BY <1>2, <2>2 DEF Judged
    <2>5. AllJudged(One(k, new), delivered', outcomes')
        BY <2>3, <2>4, OneJudged
    <2> QED
        BY <1>2, <2>1, <2>3, <2>5, Judging DEF WillWrite
<1>4. ASSUME NEW w \in Workers, NEW k \in Written, NEW STATE new,
             WillWrite(w, One(k, new)), Judged(k, new, delivered[k], outcomes'),
             UNCHANGED <<lesson, delivered>>, outcomes \subseteq outcomes'
      PROVE  LessonInv'
    <2>1. AllJudged(One(k, new), delivered', outcomes')
        BY <1>1, <1>4, OneJudged
    <2> QED
        BY <1>2, <1>4, <2>1, Judging DEF WillWrite
<1>5. ASSUME NEW w \in Workers, NEW source \in Witnesses \cup {Nameless}, Merge(w, source)
      PROVE  LessonInv'
    <2>1. PICK k \in Written :
            WillWrite(w, One(k, [lesson[k] EXCEPT !.sure = @ \/ Another(lesson[k], source)]))
        BY <1>5 DEF Merge
    <2> DEFINE known == lesson[k].sure \/ Another(lesson[k], source)
               new == [lesson[k] EXCEPT !.sure = known]
    <2>2. known \in BOOLEAN
        BY <1>1 DEF LessonRow
    <2>3. WillWrite(w, One(k, new)) /\ UNCHANGED <<lesson, delivered, outcomes>>
        BY <1>5, <2>1 DEF Merge
    <2> HIDE DEF known
    <2>4. /\ new \in LessonRow /\ new.injections = lesson[k].injections
          /\ new.helped = lesson[k].helped /\ new.ignored = lesson[k].ignored
          /\ new.status = lesson[k].status
        BY <1>1, <2>2 DEF LessonRow
    <2> HIDE DEF new
    <2>5. Judged(k, new, delivered[k], outcomes')
        BY <1>1, <2>3, <2>4 DEF Judged
    <2> QED
        BY <1>4, <2>3, <2>5
<1>6. ASSUME NEW w \in Workers, NEW ks \in SUBSET Lessons, InjectLessons(w, ks)
      PROVE  LessonInv'
    <2> DEFINE rows == [k \in ks |-> [lesson[k] EXCEPT !.injections = @ + 1]]
    <2>1. /\ ks \subseteq Written /\ WillWrite(w, rows) /\ UNCHANGED <<lesson, outcomes>>
          /\ delivered' = [k \in Lessons |-> delivered[k] + IF k \in ks THEN 1 ELSE 0]
        BY <1>6 DEF InjectLessons
    <2>2. /\ delivered' \in [Lessons -> Nat]
          /\ \A k \in Lessons : delivered[k] <= delivered'[k]
          /\ \A k \in ks : delivered'[k] = delivered[k] + 1
        BY <1>2, <2>1
    <2>3. ASSUME NEW k \in ks PROVE Judged(k, rows[k], delivered'[k], outcomes')
        <3>1. /\ k \in Lessons /\ lesson[k] \in LessonRow
              /\ Judged(k, lesson[k], delivered[k], outcomes)
            BY <1>1, <2>1
        <3>2. lesson[k].injections \in Nat /\ delivered[k] \in Nat
            BY <1>2, <3>1 DEF LessonRow
        <3>3. /\ rows[k] \in LessonRow /\ rows[k].injections = lesson[k].injections + 1
              /\ rows[k].helped = lesson[k].helped /\ rows[k].ignored = lesson[k].ignored
              /\ rows[k].status = lesson[k].status
            BY <3>1, <3>2 DEF LessonRow
        <3> HIDE DEF rows
        <3> QED
            BY <2>1, <2>2, <3>1, <3>2, <3>3, LessonBounds DEF Judged
    <2>4. DOMAIN rows = ks
        OBVIOUS
    <2> HIDE DEF rows
    <2>5. AllJudged(rows, delivered', outcomes')
        BY <2>3, <2>4 DEF AllJudged
    <2> QED
        BY <2>1, <2>2, <2>5, Judging DEF WillWrite
<1>7. ASSUME NEW w \in Workers, NEW k \in Lessons, NEW lane \in Witnesses,
             NEW helped \in BOOLEAN, Outcome(w, k, lane, helped)
      PROVE  LessonInv'
    <2> DEFINE new == IF helped THEN [lesson[k] EXCEPT !.helped = @ \cup {lane}]
                                ELSE [lesson[k] EXCEPT !.ignored = @ \cup {lane}]
    <2>1. /\ k \in Written /\ WillWrite(w, One(k, new)) /\ UNCHANGED <<lesson, delivered>>
          /\ outcomes' = outcomes \cup {k}
        BY <1>7 DEF Outcome
    <2>2. /\ new \in LessonRow /\ new.injections = lesson[k].injections
          /\ new.status = lesson[k].status
        <3>1. CASE helped
            BY <1>1, <2>1, <3>1 DEF LessonRow
        <3>2. CASE ~helped
            BY <1>1, <2>1, <3>2 DEF LessonRow
        <3> QED
            BY <3>1, <3>2
    <2> HIDE DEF new
    <2>3. Judged(k, new, delivered[k], outcomes')
        BY <1>1, <2>1, <2>2 DEF Judged
    <2> QED
        BY <1>4, <2>1, <2>3
<1>8. ASSUME NEW w \in Workers, NEW k \in Lessons, RetireLesson(w, k) PROVE LessonInv'
    <2> DEFINE new == [lesson[k] EXCEPT !.status = "retired"]
    <2>1. /\ k \in Written /\ WillWrite(w, One(k, new))
          /\ UNCHANGED <<lesson, delivered, outcomes>>
        BY <1>8 DEF RetireLesson
    <2>2. /\ new \in LessonRow /\ new.injections = lesson[k].injections
          /\ new.helped = lesson[k].helped /\ new.ignored = lesson[k].ignored
          /\ new.status = "retired"
        BY <1>1, <2>1 DEF LessonRow
    <2> HIDE DEF new
    <2>3. Judged(k, new, delivered[k], outcomes')
        BY <1>1, <2>1, <2>2 DEF Judged
    <2> QED
        BY <1>4, <2>1, <2>3
<1>9. ASSUME NEW w \in Workers, Evict(w) PROVE LessonInv'
    <2> DEFINE ks == {x \in Written : Live(x) /\ Noise(lesson[x])}
               rows == [k \in ks |-> [lesson[k] EXCEPT !.status = "evicted"]]
    <2>1. WillWrite(w, rows) /\ UNCHANGED <<lesson, delivered, outcomes>>
        BY <1>9 DEF Evict
    <2>2. ASSUME NEW k \in ks PROVE Judged(k, rows[k], delivered[k], outcomes)
        <3>1. /\ k \in Lessons /\ lesson[k] \in LessonRow
              /\ Judged(k, lesson[k], delivered[k], outcomes)
              /\ lesson[k].injections >= MinSamples
              /\ lesson[k].helped \cup lesson[k].ignored # {}
            BY <1>1 DEF Noise
        <3>2. lesson[k].injections \in Nat /\ delivered[k] \in Nat
            BY <1>2, <3>1 DEF LessonRow
        <3>3. /\ rows[k] \in LessonRow /\ rows[k].injections = lesson[k].injections
              /\ rows[k].helped = lesson[k].helped /\ rows[k].ignored = lesson[k].ignored
            BY <3>1 DEF LessonRow
        <3> HIDE DEF rows
        <3> QED
            BY <3>1, <3>2, <3>3, LessonBounds DEF Judged
    <2>3. DOMAIN rows = ks /\ ks \subseteq Lessons
        BY <1>1
    <2> HIDE DEF rows, ks
    <2>4. AllJudged(rows, delivered', outcomes')
        BY <2>1, <2>2, <2>3 DEF AllJudged
    <2> QED
        BY <1>2, <2>1, <2>4, Judging DEF WillWrite
<1>10. ASSUME NEW w \in Workers, NEW k \in Lessons, StoreLesson(w, k) PROVE LessonInv'
    <2>1. /\ k \in DOMAIN writes[w] /\ UNCHANGED <<delivered, outcomes>>
          /\ AllJudged(writes[w], delivered, outcomes)
        BY <1>10 DEF StoreLesson, LessonInv
    <2> DEFINE rest == [x \in DOMAIN writes[w] \ {k} |-> writes[w][x]]
    <2>2. AllJudged(rest, delivered, outcomes)
        BY <2>1 DEF AllJudged
    <2>3. writes' = [writes EXCEPT ![w] = rest]
        BY <1>10 DEF StoreLesson, LessonInv
    <2>4. AllJudged(lesson', delivered, outcomes)
        <3>1. lesson' = [x \in Written \cup {k} |-> IF x = k THEN writes[w][k] ELSE lesson[x]]
            BY <1>10 DEF StoreLesson
        <3> QED
            BY <1>1, <2>1, <3>1 DEF AllJudged
    <2> HIDE DEF rest
    <2>5. DOMAIN writes' = Workers /\ \A x \in Workers : AllJudged(writes'[x], delivered, outcomes)
        BY <2>2, <2>3 DEF LessonInv
    <2> QED
        BY <1>2, <2>1, <2>4, <2>5 DEF LessonInv
<1>11. ASSUME NEW w \in Workers, StoreLessonFails(w) PROVE LessonInv'
    BY <1>2, <1>11, NoneJudged, Judging DEF StoreLessonFails
<1>12. CASE UNCHANGED lessonVars
    BY <1>12 DEF lessonVars, LessonInv
<1> QED
    BY <1>3, <1>5, <1>6, <1>7, <1>8, <1>9, <1>10, <1>11, <1>12 DEF LessonNext

(* No lesson is thrown away before it had its chance: whatever overlaps, it*)
(* was delivered as often as it takes to be judged and a lane told how that*)
(* went (evict_noise).                                                     *)
THEOREM EvictionHasEvidence == LessonSpec => []EvictedOnEvidence
<1>1. LessonInit => LessonInv
    BY NoneJudged DEF LessonInit, LessonInv
<1>2. LessonInv => EvictedOnEvidence
    BY DEF LessonInv, EvictedOnEvidence, AllJudged, Judged, Written
<1> QED
    BY <1>1, <1>2, LessonStep, PTL DEF LessonSpec

(* A lesson is sure for a reason.                                          *)
TwoHeard(heard) == \E x, y \in heard : x # y
Sourced(r, heard) == r.source \in heard /\ (r.sure => TwoHeard(heard))

(* How far a lesson spreads was decided when it was learned: every copy of *)
(* a written row agrees on it, and a row not yet written has one copy.     *)
SpreadInv ==
    /\ \A k \in Written : Sourced(lesson[k], heardFrom)
    /\ \A w \in Workers : \A k \in DOMAIN writes[w] : Sourced(writes[w][k], heardFrom)
    /\ \A k \in Lessons : delivered[k] > 0 => k \in Written
    /\ SpreadOnTwoReports
    /\ \A w \in Workers : \A k \in DOMAIN writes[w] :
        /\ k \in Written => writes[w][k].wide = lesson[k].wide
        /\ k \notin Written => \A x \in Workers \ {w} : k \notin DOMAIN writes[x]

(* An operation that decides to write copies of what is written.           *)
LEMMA Restating ==
    ASSUME LessonInv, SpreadInv, NEW w \in Workers, NEW STATE rows,
           writes' = [writes EXCEPT ![w] = rows], DOMAIN rows \subseteq Written,
           \A k \in DOMAIN rows : rows[k].wide = lesson[k].wide /\ Sourced(rows[k], heardFrom'),
           UNCHANGED lesson, heardFrom \subseteq heardFrom',
           \A k \in Lessons : delivered'[k] > 0 =>
                k \in Written /\ (lesson[k].wide => TwoHeard(heardFrom'))
    PROVE  SpreadInv'
<1>1. /\ DOMAIN writes' = Workers
      /\ \A x \in Workers : writes'[x] = IF x = w THEN rows ELSE writes[x]
    BY DEF LessonInv
<1>2. Written' = Written /\ Written \subseteq Lessons
    BY DEF Written, LessonInv, AllJudged
<1>3. \A k \in Written' : Sourced(lesson'[k], heardFrom')
    BY <1>2 DEF SpreadInv, Sourced, TwoHeard
<1>4. ASSUME NEW x \in Workers, NEW k \in DOMAIN writes'[x]
      PROVE  /\ Sourced(writes'[x][k], heardFrom')
             /\ k \in Written => writes'[x][k].wide = lesson[k].wide
             /\ k \notin Written => \A y \in Workers \ {x} : k \notin DOMAIN writes'[y]
    <2>1. CASE x = w
        BY <1>1, <1>4, <2>1
    <2>2. CASE x # w
        BY <1>1, <1>4, <2>2 DEF SpreadInv, Sourced, TwoHeard
    <2> QED
        BY <2>1, <2>2
<1>5. SpreadOnTwoReports'
    BY <1>2 DEF SpreadOnTwoReports, TwoHeard
<1> QED
    BY <1>2, <1>3, <1>4, <1>5 DEF SpreadInv

LEMMA SpreadStep == LessonInv /\ SpreadInv /\ [LessonNext]_lessonVars => SpreadInv'
<1> SUFFICES ASSUME LessonInv, SpreadInv, [LessonNext]_lessonVars PROVE SpreadInv'
    OBVIOUS
<1>1. \A k \in Written : /\ k \in Lessons /\ lesson[k] \in LessonRow
                         /\ Sourced(lesson[k], heardFrom)
    BY DEF LessonInv, AllJudged, Judged, Written, SpreadInv
<1>2. delivered \in [Lessons -> Nat] /\ DOMAIN writes = Workers
    BY DEF LessonInv
<1>3. \A k \in Lessons : delivered[k] > 0 =>
            k \in Written /\ (lesson[k].wide => TwoHeard(heardFrom))
    BY DEF SpreadInv, SpreadOnTwoReports, TwoHeard
<1>4. ASSUME NEW w \in Workers, NEW source \in Witnesses \cup {Nameless},
             NEW wide \in BOOLEAN, Learn(w, source, wide)
      PROVE  SpreadInv'
    <2> DEFINE new == [source |-> source, wide |-> wide, status |-> "live", sure |-> FALSE,
                       injections |-> 0, helped |-> {}, ignored |-> {}]
    <2>1. PICK k \in Lessons \ Taken : WillWrite(w, One(k, new))
        BY <1>4 DEF Learn
    <2>2. /\ UNCHANGED <<lesson, delivered, outcomes>>
          /\ heardFrom' = heardFrom \cup {source}
        BY <1>4 DEF Learn
    <2>3. Sourced(new, heardFrom')
        BY <2>2 DEF Sourced
    <2> HIDE DEF new
    <2>4. /\ k \notin Written /\ \A x \in Workers : k \notin DOMAIN writes[x]
          /\ \A x \in Workers : writes'[x] = IF x = w THEN One(k, new) ELSE writes[x]
          /\ DOMAIN writes[w] = {}
        BY <1>2, <2>1 DEF Taken, WillWrite
    <2>5. DOMAIN One(k, new) = {k} /\ One(k, new)[k] = new
        BY DEF One
    <2>6. Written' = Written
        BY <2>2 DEF Written
    <2>7. ASSUME NEW x \in Workers, NEW l \in DOMAIN writes'[x]
          PROVE  /\ Sourced(writes'[x][l], heardFrom')
                 /\ l \in Written => writes'[x][l].wide = lesson[l].wide
                 /\ l \notin Written => \A y \in Workers \ {x} : l \notin DOMAIN writes'[y]
        <3>1. CASE x = w
            BY <2>3, <2>4, <2>5, <2>7, <3>1
        <3>2. CASE x # w
            <4>1. writes'[x] = writes[x] /\ l \in DOMAIN writes[x] /\ l # k
                BY <2>4, <2>7, <3>2
            <4>2. Sourced(writes[x][l], heardFrom) =>  Sourced(writes[x][l], heardFrom')
                BY <2>2 DEF Sourced, TwoHeard
            <4> QED
                BY <2>4, <2>5, <4>1, <4>2 DEF SpreadInv
        <3> QED
            BY <3>1, <3>2
    <2>8. \A l \in Written' : Sourced(lesson'[l], heardFrom')
        BY <1>1, <2>2, <2>6 DEF Sourced, TwoHeard
    <2>9. SpreadOnTwoReports'
        BY <2>2, <2>6 DEF SpreadInv, SpreadOnTwoReports
    <2> QED
        BY <2>2, <2>6, <2>7, <2>8, <2>9 DEF SpreadInv
<1>5. ASSUME NEW w \in Workers, NEW k \in Written, NEW STATE new,
             WillWrite(w, One(k, new)), new.wide = lesson[k].wide, Sourced(new, heardFrom'),
             UNCHANGED <<lesson, delivered>>, heardFrom \subseteq heardFrom'
      PROVE  SpreadInv'
    <2>1. DOMAIN One(k, new) = {k} /\ One(k, new)[k] = new
        BY DEF One
    <2>2. \A l \in Lessons : delivered'[l] > 0 =>
                l \in Written /\ (lesson[l].wide => TwoHeard(heardFrom'))
        BY <1>3, <1>5 DEF TwoHeard
    <2> QED
        BY <1>5, <2>1, <2>2, Restating DEF WillWrite
<1>6. ASSUME NEW w \in Workers, NEW source \in Witnesses \cup {Nameless}, Merge(w, source)
      PROVE  SpreadInv'
    <2>1. PICK k \in Written :
            WillWrite(w, One(k, [lesson[k] EXCEPT !.sure = @ \/ Another(lesson[k], source)]))
        BY <1>6 DEF Merge
    <2> DEFINE known == lesson[k].sure \/ Another(lesson[k], source)
               new == [lesson[k] EXCEPT !.sure = known]
    <2>2. known \in BOOLEAN
        BY <1>1 DEF LessonRow
    <2>3. /\ WillWrite(w, One(k, new)) /\ UNCHANGED <<lesson, delivered>>
          /\ heardFrom' = heardFrom \cup {source}
        BY <1>6, <2>1 DEF Merge
    <2>4. known => TwoHeard(heardFrom')
        BY <1>1, <2>3 DEF Another, Sourced, TwoHeard
    <2> HIDE DEF known
    <2>5. /\ new.sure = known /\ new.wide = lesson[k].wide /\ new.source = lesson[k].source
        BY <1>1, <2>2 DEF LessonRow
    <2> HIDE DEF new
    <2>6. Sourced(new, heardFrom')
        BY <1>1, <2>3, <2>4, <2>5 DEF Sourced
    <2> QED
        BY <1>5, <2>3, <2>5, <2>6
<1>7. ASSUME NEW w \in Workers, NEW ks \in SUBSET Lessons, InjectLessons(w, ks)
      PROVE  SpreadInv'
    <2> DEFINE rows == [k \in ks |-> [lesson[k] EXCEPT !.injections = @ + 1]]
    <2>1. /\ ks \subseteq Written /\ WillWrite(w, rows) /\ UNCHANGED <<lesson, heardFrom>>
          /\ \A k \in ks : lesson[k].wide => lesson[k].sure
          /\ delivered' = [k \in Lessons |-> delivered[k] + IF k \in ks THEN 1 ELSE 0]
        BY <1>7 DEF InjectLessons, Eligible
    <2>2. ASSUME NEW k \in ks
          PROVE  rows[k].wide = lesson[k].wide /\ Sourced(rows[k], heardFrom')
        <3>1. /\ lesson[k] \in LessonRow /\ Sourced(lesson[k], heardFrom)
            BY <1>1, <2>1
        <3>2. /\ rows[k].wide = lesson[k].wide /\ rows[k].sure = lesson[k].sure
              /\ rows[k].source = lesson[k].source
            BY <3>1 DEF LessonRow
        <3> HIDE DEF rows
        <3> QED
            BY <2>1, <3>1, <3>2 DEF Sourced
    <2>3. DOMAIN rows = ks
        OBVIOUS
    <2> HIDE DEF rows
    <2>4. ASSUME NEW k \in Lessons, delivered'[k] > 0
          PROVE  k \in Written /\ (lesson[k].wide => TwoHeard(heardFrom'))
        <3>1. CASE k \in ks
            BY <1>1, <2>1, <3>1 DEF Sourced
        <3>2. CASE k \notin ks
            BY <1>2, <1>3, <2>1, <2>4, <3>2
        <3> QED
            BY <3>1, <3>2
    <2> QED
        BY <2>1, <2>2, <2>3, <2>4, Restating DEF WillWrite
<1>8. ASSUME NEW w \in Workers, NEW k \in Lessons, NEW lane \in Witnesses,
             NEW helped \in BOOLEAN, Outcome(w, k, lane, helped)
      PROVE  SpreadInv'
    <2> DEFINE new == IF helped THEN [lesson[k] EXCEPT !.helped = @ \cup {lane}]
                                ELSE [lesson[k] EXCEPT !.ignored = @ \cup {lane}]
    <2>1. /\ k \in Written /\ WillWrite(w, One(k, new))
          /\ UNCHANGED <<lesson, delivered, heardFrom>>
        BY <1>8 DEF Outcome
    <2>2. /\ new.wide = lesson[k].wide /\ new.sure = lesson[k].sure
          /\ new.source = lesson[k].source
        <3>1. CASE helped
            BY <1>1, <2>1, <3>1 DEF LessonRow
        <3>2. CASE ~helped
            BY <1>1, <2>1, <3>2 DEF LessonRow
        <3> QED
            BY <3>1, <3>2
    <2> HIDE DEF new
    <2>3. Sourced(new, heardFrom')
        BY <1>1, <2>1, <2>2 DEF Sourced
    <2> QED
        BY <1>5, <2>1, <2>2, <2>3
<1>9. ASSUME NEW w \in Workers, NEW k \in Lessons, RetireLesson(w, k) PROVE SpreadInv'
    <2> DEFINE new == [lesson[k] EXCEPT !.status = "retired"]
    <2>1. /\ k \in Written /\ WillWrite(w, One(k, new))
          /\ UNCHANGED <<lesson, delivered, heardFrom>>
        BY <1>9 DEF RetireLesson
    <2>2. /\ new.wide = lesson[k].wide /\ new.sure = lesson[k].sure
          /\ new.source = lesson[k].source
        BY <1>1, <2>1 DEF LessonRow
    <2> HIDE DEF new
    <2>3. Sourced(new, heardFrom')
        BY <1>1, <2>1, <2>2 DEF Sourced
    <2> QED
        BY <1>5, <2>1, <2>2, <2>3
<1>10. ASSUME NEW w \in Workers, Evict(w) PROVE SpreadInv'
    <2> DEFINE ks == {x \in Written : Live(x) /\ Noise(lesson[x])}
               rows == [k \in ks |-> [lesson[k] EXCEPT !.status = "evicted"]]
    <2>1. WillWrite(w, rows) /\ UNCHANGED <<lesson, delivered, heardFrom>>
        BY <1>10 DEF Evict
    <2>2. ASSUME NEW k \in ks
          PROVE  rows[k].wide = lesson[k].wide /\ Sourced(rows[k], heardFrom')
        <3>1. /\ lesson[k] \in LessonRow /\ Sourced(lesson[k], heardFrom)
            BY <1>1
        <3>2. /\ rows[k].wide = lesson[k].wide /\ rows[k].sure = lesson[k].sure
              /\ rows[k].source = lesson[k].source
            BY <3>1 DEF LessonRow
        <3> HIDE DEF rows
        <3> QED
            BY <2>1, <3>1, <3>2 DEF Sourced
    <2>3. DOMAIN rows = ks /\ ks \subseteq Written
        OBVIOUS
    <2> HIDE DEF rows, ks
    <2> QED
        BY <1>3, <2>1, <2>2, <2>3, Restating DEF WillWrite
<1>11. ASSUME NEW w \in Workers, NEW k \in Lessons, StoreLesson(w, k) PROVE SpreadInv'
    <2>1. /\ k \in DOMAIN writes[w] /\ UNCHANGED <<heardFrom, delivered>>
          /\ lesson' = [x \in Written \cup {k} |-> IF x = k THEN writes[w][k] ELSE lesson[x]]
          /\ Written' = Written \cup {k}
        BY <1>11 DEF StoreLesson, Written
    <2>2. \A x \in Workers : writes'[x] =
            IF x = w THEN [y \in DOMAIN writes[w] \ {k} |-> writes[w][y]] ELSE writes[x]
        BY <1>2, <1>11 DEF StoreLesson
    <2>3. /\ \A x \in Workers : DOMAIN writes'[x] \subseteq DOMAIN writes[x]
          /\ \A x \in Workers : \A y \in DOMAIN writes'[x] : writes'[x][y] = writes[x][y]
          /\ k \notin DOMAIN writes'[w]
        BY <2>2
    <2>4. \A l \in Written' : Sourced(lesson'[l], heardFrom')
        BY <2>1 DEF SpreadInv
    <2>5. \A x \in Workers : \A y \in DOMAIN writes'[x] : Sourced(writes'[x][y], heardFrom')
        BY <2>1, <2>3 DEF SpreadInv
    <2>6. \A l \in Lessons : delivered'[l] > 0 => l \in Written'
        BY <2>1 DEF SpreadInv
    <2>7. \A l \in Written : lesson'[l].wide = lesson[l].wide
        BY <2>1 DEF SpreadInv
    <2>8. SpreadOnTwoReports'
        <3> SUFFICES ASSUME NEW l \in Written', lesson'[l].wide, delivered'[l] > 0
                     PROVE  TwoHeard(heardFrom')
            BY DEF SpreadOnTwoReports, TwoHeard
        <3>1. l \in Lessons /\ delivered[l] > 0
            BY <1>1, <2>1
        <3> QED
            BY <1>3, <2>1, <2>7, <3>1
    <2>9. ASSUME NEW x \in Workers, NEW y \in DOMAIN writes'[x]
          PROVE  /\ y \in Written' => writes'[x][y].wide = lesson'[y].wide
                 /\ y \notin Written' => \A z \in Workers \ {x} : y \notin DOMAIN writes'[z]
        <3>1. y \in DOMAIN writes[x] /\ writes'[x][y] = writes[x][y]
            BY <2>3, <2>9
        <3>2. CASE y \in Written
            BY <2>1, <2>7, <3>1, <3>2 DEF SpreadInv
        <3>3. CASE y \notin Written
            <4>1. y # k
                BY <2>1, <2>3, <2>9, <3>1, <3>3 DEF SpreadInv
            <4> QED
                BY <2>1, <2>3, <3>1, <3>3, <4>1 DEF SpreadInv
        <3> QED
            BY <3>2, <3>3
    <2> QED
        BY <2>4, <2>5, <2>6, <2>8, <2>9 DEF SpreadInv
<1>12. ASSUME NEW w \in Workers, StoreLessonFails(w) PROVE SpreadInv'
    <2>1. DOMAIN NoLessons = {}
        BY DEF NoLessons
    <2>2. /\ writes' = [writes EXCEPT ![w] = NoLessons]
          /\ UNCHANGED <<lesson, heardFrom, delivered>>
        BY <1>12 DEF StoreLessonFails
    <2> QED
        BY <1>3, <2>1, <2>2, Restating
<1>13. CASE UNCHANGED lessonVars
    BY <1>13 DEF lessonVars, SpreadInv, SpreadOnTwoReports, Written
<1> QED
    BY <1>4, <1>6, <1>7, <1>8, <1>9, <1>10, <1>11, <1>12, <1>13 DEF LessonNext

(* A lesson of wide scope reaches lanes only after two sources reported it,*)
(* whatever overlaps (promote, select_for_injection).                      *)
THEOREM WideNeedsTwo == LessonSpec => []SpreadOnTwoReports
<1>1. LessonInit => LessonInv /\ SpreadInv
    <2>1. DOMAIN NoLessons = {}
        BY DEF NoLessons
    <2> QED
        BY <2>1, NoneJudged DEF LessonInit, LessonInv, SpreadInv, SpreadOnTwoReports, Written
<1>2. SpreadInv => SpreadOnTwoReports
    BY DEF SpreadInv
<1> QED
    BY <1>1, <1>2, LessonStep, SpreadStep, PTL DEF LessonSpec

-----------------------------------------------------------------------------
(* The radar.                                                              *)

Reads == UNION {[S -> SUBSET Paths] : S \in SUBSET RadarLanes}

Scans ==
    [at : {"none", "read", "scanning", "done", "failed"}, op : {"scan", "intents"},
     read : Reads, todo : SUBSET Pairs,
     judging : Pairs \cup {{}}, fresh : Seq(Conflicts), seen : [Pairs -> Nat]]

RadarTyped ==
    /\ DOMAIN intents = RadarLanes
    /\ scanCount \in Nat
    /\ announced \in [Conflicts -> Nat]
    /\ \A k \in Conflicts : announced[k] <= scanCount
    /\ scan \in [RadarCalls -> Scans]
    /\ said \subseteq Conflicts /\ swallowed \subseteq Conflicts
    /\ looked \in [Pairs -> Nat]

(* What a request has looked at, it looked at in a scan.                   *)
ScansAreCounted ==
    \A r \in RadarCalls :
        /\ Phase(r) = "scanning" => scanCount > 0
        /\ Phase(r) \in {"none", "read"} => \A pair \in Pairs : scan[r].seen[pair] = 0

(* A conflict that is remembered is in the log, about to be put there, or  *)
(* was lost with the request that should have.                             *)
RememberedIsSaid ==
    \A k \in Conflicts : announced[k] > 0 =>
        k \in said \/ k \in swallowed \/ \E r \in RadarCalls : k \in Pending(r)

(* A look at two lanes that share files left the conflict remembered, from *)
(* then or from not long before.                                           *)
Collision(pair) == [pair |-> pair, files |-> SharedFiles(pair)]

Remembered(pair, n) ==
    SharedFiles(pair) # {} /\ n > 0 =>
        /\ announced[Collision(pair)] > 0
        /\ n < announced[Collision(pair)] + ReannounceAfter

LooksAreRemembered ==
    \A pair \in Pairs :
        /\ Remembered(pair, looked[pair])
        /\ \A r \in RadarCalls : Remembered(pair, scan[r].seen[pair])

RadarInv == RadarTyped /\ ScansAreCounted /\ RememberedIsSaid /\ LooksAreRemembered

LEMMA CollisionIsConflict == \A pair \in Pairs : Collision(pair) \in Conflicts
BY DEF Collision, SharedFiles, Conflicts

LEMMA ReadsOfSome ==
    /\ \A S \in SUBSET RadarLanes : [S -> SUBSET Paths] \subseteq Reads
    /\ \A read \in Reads : DOMAIN read \subseteq RadarLanes
    /\ [l \in {} |-> {}] \in Reads
<1>1. ASSUME NEW S \in SUBSET RadarLanes PROVE [S -> SUBSET Paths] \subseteq Reads
    BY DEF Reads
<1>2. ASSUME NEW read \in Reads PROVE DOMAIN read \subseteq RadarLanes
    <2>1. PICK T \in {[S -> SUBSET Paths] : S \in SUBSET RadarLanes} : read \in T
        BY Zenon DEF Reads
    <2>2. PICK S \in SUBSET RadarLanes : T = [S -> SUBSET Paths]
        OBVIOUS
    <2> QED
        BY <2>1, <2>2
<1>3. [l \in {} |-> {}] \in [{} -> SUBSET Paths] /\ {} \in SUBSET RadarLanes
    OBVIOUS
<1> QED
    BY <1>1, <1>2, <1>3

LEMMA RadarStarts == RadarInit => RadarInv
<1> SUFFICES ASSUME RadarInit PROVE RadarInv
    OBVIOUS
<1>1. [l \in {} |-> {}] \in Reads
    BY ReadsOfSome
<1>2. RadarTyped
    BY <1>1 DEF RadarInit, RadarTyped, Scans
<1>3. ScansAreCounted /\ RememberedIsSaid /\ LooksAreRemembered
    BY DEF RadarInit, Phase, ScansAreCounted, RememberedIsSaid, LooksAreRemembered, Remembered
<1> QED
    BY <1>2, <1>3 DEF RadarInv

(* What is pending after one more, one less.                               *)
LEMMA OneMore ==
    ASSUME NEW S, NEW s \in Seq(S), NEW k \in S
    PROVE  /\ Append(s, k) \in Seq(S)
           /\ {Append(s, k)[n] : n \in DOMAIN Append(s, k)} = {s[n] : n \in DOMAIN s} \cup {k}
<1>1. /\ Append(s, k) \in Seq(S) /\ Len(s) \in Nat /\ Len(Append(s, k)) = Len(s) + 1
      /\ DOMAIN s = 1..Len(s) /\ DOMAIN Append(s, k) = 1..Len(s) + 1
      /\ \A n \in 1..Len(s) : Append(s, k)[n] = s[n]
      /\ Append(s, k)[Len(s) + 1] = k
    OBVIOUS
<1> QED
    BY <1>1

LEMMA OneLess ==
    ASSUME NEW S, NEW s \in Seq(S), s # <<>>
    PROVE  /\ Tail(s) \in Seq(S) /\ Head(s) \in S
           /\ {s[n] : n \in DOMAIN s} = {Tail(s)[n] : n \in DOMAIN Tail(s)} \cup {Head(s)}
<1>1. /\ Tail(s) \in Seq(S) /\ Head(s) \in S /\ Len(s) \in Nat /\ Len(s) > 0
      /\ Len(Tail(s)) = Len(s) - 1 /\ DOMAIN s = 1..Len(s)
      /\ DOMAIN Tail(s) = 1..Len(s) - 1
      /\ \A n \in 1..Len(s) - 1 : Tail(s)[n] = s[n + 1]
      /\ Head(s) = s[1]
    OBVIOUS
<1>2. \A n \in 1..Len(s) : n = 1 \/ (n - 1 \in 1..Len(s) - 1 /\ Tail(s)[n - 1] = s[n])
    BY <1>1
<1>3. \A n \in 1..Len(s) - 1 : n + 1 \in 1..Len(s)
    BY <1>1
<1>4. ASSUME NEW n \in 1..Len(s) PROVE s[n] \in {Tail(s)[m] : m \in DOMAIN Tail(s)} \cup {Head(s)}
    BY <1>1, <1>2
<1>5. ASSUME NEW n \in 1..Len(s) - 1 PROVE Tail(s)[n] \in {s[m] : m \in DOMAIN s}
    BY <1>1, <1>3
<1>6. Head(s) \in {s[m] : m \in DOMAIN s}
    BY <1>1
<1> QED
    BY <1>1, <1>4, <1>5, <1>6

(* A conflict that is found is remembered from now, or still is.           *)
LEMMA Finding ==
    ASSUME RadarInv, NEW r \in RadarCalls, NEW k \in Conflicts, NEW next \in Scans,
           next.fresh = scan[r].fresh, Found(r, k, next)
    PROVE  /\ scan' \in [RadarCalls -> Scans] /\ announced' \in [Conflicts -> Nat]
           /\ \A j \in Conflicts : announced'[j] <= scanCount /\ announced[j] <= announced'[j]
           /\ said' \subseteq said /\ swallowed' \subseteq swallowed
           /\ RememberedIsSaid'
           /\ \A q \in RadarCalls \ {r} : scan'[q] = scan[q]
           /\ scan'[r].at = next.at /\ scan'[r].seen = next.seen
           /\ scanCount > 0 =>
                announced'[k] > 0 /\ scanCount < announced'[k] + ReannounceAfter
<1> USE DEF RadarInv
<1>1. CASE Due(k)
    <2> DEFINE told == [next EXCEPT !.fresh = Append(@, k)]
    <2>1. /\ announced' = [announced EXCEPT ![k] = scanCount]
          /\ said' = said \ {k} /\ swallowed' = swallowed \ {k}
          /\ scan' = [scan EXCEPT ![r] = told]
        BY <1>1 DEF Found
    <2>2. next.fresh \in Seq(Conflicts)
        BY DEF Scans
    <2>3. /\ told \in Scans /\ told.fresh = Append(next.fresh, k)
          /\ told.at = next.at /\ told.seen = next.seen
        BY <2>2, OneMore DEF Scans
    <2> HIDE DEF told
    <2>4. scan' \in [RadarCalls -> Scans] /\ scan'[r] = told
        BY <2>1, <2>3 DEF RadarTyped
    <2>5. Pending(r)' = Pending(r) \cup {k}
        <3>1. scan'[r].fresh = Append(scan[r].fresh, k) /\ scan[r].fresh \in Seq(Conflicts)
            BY <2>2, <2>3, <2>4
        <3>2. {Append(scan[r].fresh, k)[n] : n \in DOMAIN Append(scan[r].fresh, k)} =
                {scan[r].fresh[n] : n \in DOMAIN scan[r].fresh} \cup {k}
            BY <3>1, OneMore
        <3> QED
            BY <3>1, <3>2 DEF Pending
    <2>6. \A q \in RadarCalls \ {r} : scan'[q] = scan[q] /\ Pending(q)' = Pending(q)
        BY <2>1 DEF RadarTyped, Pending
    <2>7. /\ announced' \in [Conflicts -> Nat] /\ announced'[k] = scanCount
          /\ \A j \in Conflicts \ {k} : announced'[j] = announced[j]
        BY <2>1 DEF RadarTyped
    <2>8. RememberedIsSaid'
        BY <2>1, <2>5, <2>6, <2>7 DEF RememberedIsSaid
    <2>9. \A j \in Conflicts : announced'[j] <= scanCount /\ announced[j] <= announced'[j]
        BY <2>7 DEF RadarTyped
    <2>10. scanCount < scanCount + ReannounceAfter
        BY RadarAssumption DEF RadarTyped
    <2> QED
        BY <2>1, <2>3, <2>4, <2>6, <2>7, <2>8, <2>9, <2>10
<1>2. CASE ~Due(k)
    <2>1. scan' = [scan EXCEPT ![r] = next] /\ UNCHANGED <<announced, said, swallowed>>
        BY <1>2 DEF Found
    <2>2. /\ scan' \in [RadarCalls -> Scans] /\ scan'[r] = next
          /\ \A q \in RadarCalls \ {r} : scan'[q] = scan[q]
        BY <2>1 DEF RadarTyped
    <2>3. \A q \in RadarCalls : Pending(q)' = Pending(q)
        BY <2>2 DEF Pending
    <2>4. RememberedIsSaid'
        BY <2>1, <2>3 DEF RememberedIsSaid
    <2>5. announced[k] > 0 /\ scanCount < announced[k] + ReannounceAfter
        BY <1>2, RadarAssumption DEF Due, RadarTyped
    <2> QED
        BY <2>1, <2>2, <2>4, <2>5 DEF RadarTyped
<1> QED
    BY <1>1, <1>2

LEMMA RememberedLonger ==
    ASSUME RadarInv, NEW pair \in Pairs, NEW n \in Nat, Remembered(pair, n),
           UNCHANGED intents, announced' \in [Conflicts -> Nat],
           \A j \in Conflicts : announced[j] <= announced'[j]
    PROVE  Remembered(pair, n)'
<1>1. Collision(pair)' = Collision(pair) /\ SharedFiles(pair)' = SharedFiles(pair)
    BY DEF Collision, SharedFiles
<1>2. Collision(pair) \in Conflicts
    BY CollisionIsConflict
<1> QED
    BY <1>1, <1>2, RadarAssumption DEF Remembered, RadarInv, RadarTyped

LEMMA RadarStep == RadarInv /\ [RadarNext]_radarVars => RadarInv'
<1> SUFFICES ASSUME RadarInv, [RadarNext]_radarVars PROVE RadarInv'
    OBVIOUS
<1> USE DEF RadarInv
<1>1. ASSUME NEW r \in RadarCalls, NEW op \in {"scan", "intents"}, NEW session \in Sessions,
             ReadRecords(r, op, session)
      PROVE  RadarInv'
    <2>1. PICK read \in [{l \in RadarLanes : SessionOf[l] = session} -> SUBSET Paths] :
            scan' = [scan EXCEPT ![r].at = "read", ![r].op = op, ![r].read = read]
        BY <1>1 DEF ReadRecords
    <2>2. read \in Reads
        BY ReadsOfSome
    <2>3. scan' \in [RadarCalls -> Scans]
        <3>1. scan[r] \in Scans /\ [scan[r] EXCEPT !.at = "read", !.op = op, !.read = read] \in Scans
            BY <2>2 DEF RadarTyped, Scans
        <3>2. scan' = [scan EXCEPT ![r] = [scan[r] EXCEPT !.at = "read", !.op = op, !.read = read]]
            BY <2>1
        <3> QED
            BY <3>1, <3>2 DEF RadarTyped
    <2>4. \A q \in RadarCalls :
            /\ scan'[q].fresh = scan[q].fresh /\ scan'[q].seen = scan[q].seen
            /\ q # r => scan'[q].at = scan[q].at
        BY <2>1 DEF RadarTyped, Scans
    <2>5. Phase(r) = "none" /\ scan'[r].at = "read"
        BY <1>1, <2>1 DEF ReadRecords, RadarTyped, Scans
    <2>6. UNCHANGED <<intents, announced, scanCount, said, swallowed, looked>>
        BY <1>1 DEF ReadRecords
    <2>7. RadarTyped'
        BY <2>3, <2>6 DEF RadarTyped
    <2>8. ScansAreCounted'
        BY <2>4, <2>5, <2>6 DEF ScansAreCounted, Phase
    <2>9. RememberedIsSaid'
        BY <2>4, <2>6 DEF RememberedIsSaid, Pending
    <2>10. LooksAreRemembered'
        BY <2>4, <2>6 DEF LooksAreRemembered, Remembered, Collision, SharedFiles
    <2> QED
        BY <2>7, <2>8, <2>9, <2>10
<1>2. ASSUME NEW r \in RadarCalls, Refresh(r) PROVE RadarInv'
    <2> DEFINE read == scan[r].read
               changed == {l \in RadarLanes : intents'[l] # intents[l]}
               known == {l \in RadarLanes : intents'[l] # NoIntent}
               scans == scan[r].op = "scan"
               kept(q) == [pair \in Pairs |->
                            IF pair \cap changed # {} THEN 0 ELSE scan[q].seen[pair]]
    <2>1. DOMAIN read \subseteq RadarLanes
        BY ReadsOfSome DEF RadarTyped, Scans
    <2>2. changed = {l \in DOMAIN read : intents[l] # read[l]}
        BY <1>2, <2>1 DEF Refresh, SetIntents
    <2>3. /\ DOMAIN intents' = RadarLanes
          /\ announced' = [k \in Conflicts |-> IF Touches(k, changed) THEN 0 ELSE announced[k]]
        BY <1>2, <2>2 DEF Refresh, SetIntents
    <2>4. HistoryOf(changed) /\ scanCount' = (IF scans THEN scanCount + 1 ELSE scanCount)
        BY <1>2 DEF Refresh
    <2>5. scan' = [q \in RadarCalls |->
                    IF q = r
                    THEN [scan[q] EXCEPT
                            !.at = IF scans THEN "scanning" ELSE "done",
                            !.read = [l \in {} |-> {}],
                            !.todo = IF scans THEN Pairs \cap SUBSET known ELSE {}]
                    ELSE [scan[q] EXCEPT !.seen = kept(q)]]
        BY <1>2 DEF Refresh
    <2> HIDE DEF changed, known, scans, kept
    <2>6. \A q \in RadarCalls : kept(q) \in [Pairs -> Nat]
        BY DEF kept, RadarTyped, Scans
    <2>7. [l \in {} |-> {}] \in Reads
        BY ReadsOfSome
    <2>8. scan' \in [RadarCalls -> Scans]
        <3>1. \A q \in RadarCalls : scan[q] \in Scans /\ [scan[q] EXCEPT !.seen = kept(q)] \in Scans
            BY <2>6 DEF RadarTyped, Scans
        <3>2. [scan[r] EXCEPT
                !.at = IF scans THEN "scanning" ELSE "done",
                !.read = [l \in {} |-> {}],
                !.todo = IF scans THEN Pairs \cap SUBSET known ELSE {}] \in Scans
            BY <2>7, <3>1 DEF Scans
        <3> QED
            BY <2>5, <3>1, <3>2
    <2>9. \A q \in RadarCalls : scan'[q].fresh = scan[q].fresh
        BY <2>5 DEF RadarTyped, Scans
    <2>10. \A q \in RadarCalls \ {r} : scan'[q].seen = kept(q) /\ scan'[q].at = scan[q].at
        BY <2>5 DEF RadarTyped, Scans
    <2>11. /\ scan'[r].seen = scan[r].seen
           /\ scan'[r].at \in {"scanning", "done"} /\ (scan'[r].at = "scanning" => scans)
        BY <2>5 DEF RadarTyped, Scans
    <2>12. \A pair \in Pairs : scan[r].seen[pair] = 0
        BY <1>2 DEF Refresh, ScansAreCounted
    <2>13. scanCount' \in Nat /\ scanCount' >= scanCount /\ (scans => scanCount' > 0)
        BY <2>4 DEF RadarTyped
    <2>14. RadarTyped'
        <3>1. announced' \in [Conflicts -> Nat]
            BY <2>3 DEF RadarTyped
        <3>2. \A k \in Conflicts : announced'[k] <= scanCount'
            BY <2>3, <2>13 DEF RadarTyped
        <3>3. said' \subseteq Conflicts /\ swallowed' \subseteq Conflicts /\ looked' \in [Pairs -> Nat]
            BY <2>4 DEF HistoryOf, RadarTyped
        <3> QED
            BY <2>3, <2>8, <2>13, <3>1, <3>2, <3>3 DEF RadarTyped
    <2>15. ScansAreCounted'
        <3>1. ASSUME NEW q \in RadarCalls \ {r}, NEW pair \in Pairs,
                     scan[q].seen[pair] = 0
              PROVE  scan'[q].seen[pair] = 0
            BY <2>10, <3>1 DEF kept
        <3> QED
            BY <2>10, <2>11, <2>13, <3>1 DEF ScansAreCounted, Phase, RadarTyped
    <2>16. RememberedIsSaid'
        BY <2>3, <2>4, <2>9 DEF RememberedIsSaid, Pending, HistoryOf
    <2>17. LooksAreRemembered'
        <3> SUFFICES ASSUME NEW pair \in Pairs
                     PROVE  /\ Remembered(pair, looked[pair])'
                            /\ \A q \in RadarCalls : Remembered(pair, scan[q].seen[pair])'
            BY DEF LooksAreRemembered
        <3>1. \A q \in RadarCalls : scan'[q].seen[pair] =
                IF pair \cap changed # {} THEN 0 ELSE scan[q].seen[pair]
            <4>1. \A q \in RadarCalls : kept(q)[pair] =
                    IF pair \cap changed # {} THEN 0 ELSE scan[q].seen[pair]
                BY DEF kept
            <4> QED
                BY <2>10, <2>11, <2>12, <4>1
        <3>2. looked'[pair] = IF pair \cap changed # {} THEN 0 ELSE looked[pair]
            BY <2>4 DEF HistoryOf
        <3>3. CASE pair \cap changed # {}
            BY <3>1, <3>2, <3>3 DEF Remembered
        <3>4. CASE pair \cap changed = {}
            <4>1. \A l \in pair : intents'[l] = intents[l]
                BY <3>4 DEF changed, Pairs
            <4>2. SharedFiles(pair)' = SharedFiles(pair) /\ Collision(pair)' = Collision(pair)
                BY <4>1 DEF SharedFiles, Collision
            <4>3. announced'[Collision(pair)] = announced[Collision(pair)]
                BY <2>3, <3>4, CollisionIsConflict DEF Touches, Collision
            <4> QED
                BY <3>1, <3>2, <3>4, <4>2, <4>3 DEF LooksAreRemembered, Remembered
        <3> QED
            BY <3>3, <3>4
    <2> QED
        BY <2>14, <2>15, <2>16, <2>17
<1>3. ASSUME NEW r \in RadarCalls, NEW pair \in Pairs, LookAt(r, pair) PROVE RadarInv'
    <2> DEFINE next == [scan[r] EXCEPT !.todo = @ \ {pair}, !.seen[pair] = scanCount]
               asked == [next EXCEPT !.judging = pair]
    <2>1. /\ next \in Scans /\ next.fresh = scan[r].fresh
          /\ next.at = scan[r].at
          /\ next.seen = [scan[r].seen EXCEPT ![pair] = scanCount]
        BY DEF RadarTyped, Scans
    <2>2. /\ asked \in Scans /\ asked.fresh = scan[r].fresh
          /\ asked.at = scan[r].at
          /\ asked.seen = [scan[r].seen EXCEPT ![pair] = scanCount]
        BY <2>1 DEF Scans
    <2>3. Phase(r) = "scanning" /\ scanCount > 0 /\ scanCount \in Nat
        BY <1>3 DEF LookAt, ScansAreCounted, RadarTyped
    <2>4. ASSUME NEW to \in Scans, to.fresh = scan[r].fresh, to.at = scan[r].at,
                 to.seen = [scan[r].seen EXCEPT ![pair] = scanCount],
                 FoundNone(r, to), SharedFiles(pair) = {}
          PROVE  RadarInv'
        <3>1. UNCHANGED <<intents, announced, scanCount, said, swallowed, looked>>
            BY <2>4 DEF FoundNone
        <3>2. /\ scan' \in [RadarCalls -> Scans] /\ scan'[r] = to
              /\ \A q \in RadarCalls \ {r} : scan'[q] = scan[q]
            BY <2>4 DEF FoundNone, RadarTyped
        <3>3. \A q \in RadarCalls : scan'[q].at = scan[q].at /\ Pending(q)' = Pending(q)
            BY <2>4, <3>2 DEF Pending
        <3>4. RadarTyped'
            BY <3>1, <3>2 DEF RadarTyped
        <3>5. ScansAreCounted'
            BY <2>3, <3>1, <3>2, <3>3 DEF ScansAreCounted, Phase
        <3>6. RememberedIsSaid'
            BY <3>1, <3>3 DEF RememberedIsSaid
        <3>7. \A p \in Pairs : SharedFiles(p)' = SharedFiles(p) /\ Collision(p)' = Collision(p)
            BY <3>1 DEF SharedFiles, Collision
        <3>8. \A p \in Pairs, q \in RadarCalls :
                scan'[q].seen[p] = scan[q].seen[p] \/ SharedFiles(p) = {}
            <4>1. scan[r].seen \in [Pairs -> Nat]
                BY DEF RadarTyped, Scans
            <4>2. \A p \in Pairs \ {pair} : to.seen[p] = scan[r].seen[p]
                BY <2>4, <4>1
            <4> QED
                BY <2>4, <3>2, <4>2
        <3>9. LooksAreRemembered'
            BY <3>1, <3>7, <3>8 DEF LooksAreRemembered, Remembered
        <3> QED
            BY <3>4, <3>5, <3>6, <3>9
    <2>5. ASSUME Found(r, Collision(pair), next), SharedFiles(pair) # {} PROVE RadarInv'
        <3>1. UNCHANGED <<intents, scanCount, looked>>
            BY <2>5 DEF Found
        <3>2. /\ scan' \in [RadarCalls -> Scans] /\ announced' \in [Conflicts -> Nat]
              /\ \A j \in Conflicts : announced'[j] <= scanCount /\ announced[j] <= announced'[j]
              /\ said' \subseteq said /\ swallowed' \subseteq swallowed
              /\ RememberedIsSaid'
              /\ \A q \in RadarCalls \ {r} : scan'[q] = scan[q]
              /\ scan'[r].at = next.at /\ scan'[r].seen = next.seen
              /\ announced'[Collision(pair)] > 0
              /\ scanCount < announced'[Collision(pair)] + ReannounceAfter
            <4>1. Collision(pair) \in Conflicts
                BY CollisionIsConflict
            <4> HIDE DEF next
            <4> QED
                BY <2>1, <2>3, <2>5, <4>1, Finding
        <3> HIDE DEF next
        <3>3. RadarTyped'
            BY <3>1, <3>2 DEF RadarTyped
        <3>4. ScansAreCounted'
            BY <2>1, <2>3, <3>1, <3>2 DEF ScansAreCounted, Phase
        <3>5. LooksAreRemembered'
            <4> SUFFICES ASSUME NEW p \in Pairs
                         PROVE  /\ Remembered(p, looked[p])'
                                /\ \A q \in RadarCalls : Remembered(p, scan[q].seen[p])'
                BY DEF LooksAreRemembered
            <4>1. \A q \in RadarCalls :
                    \/ scan'[q].seen[p] = scan[q].seen[p]
                    \/ p = pair /\ scan'[q].seen[p] = scanCount
                <5>1. scan[r].seen \in [Pairs -> Nat]
                    BY DEF RadarTyped, Scans
                <5>2. scan'[r].seen = [scan[r].seen EXCEPT ![pair] = scanCount]
                    BY <2>1, <3>2
                <5>3. scan'[r].seen[p] = IF p = pair THEN scanCount ELSE scan[r].seen[p]
                    BY <5>1, <5>2
                <5> QED
                    BY <3>2, <5>3
            <4>2. looked'[p] = looked[p]
                BY <3>1
            <4>3. SharedFiles(p)' = SharedFiles(p) /\ Collision(p)' = Collision(p)
                BY <3>1 DEF SharedFiles, Collision
            <4>4. Collision(p) \in Conflicts
                BY CollisionIsConflict
            <4>5. ASSUME NEW n \in Nat, Remembered(p, n)
                  PROVE  SharedFiles(p) # {} /\ n > 0 =>
                           /\ announced'[Collision(p)] > 0
                           /\ n < announced'[Collision(p)] + ReannounceAfter
                BY <3>2, <4>4, <4>5, RadarAssumption DEF Remembered, RadarTyped
            <4>6. \A q \in RadarCalls : scan[q].seen[p] \in Nat /\ looked[p] \in Nat
                BY DEF RadarTyped, Scans
            <4>7. Remembered(p, looked[p])'
                BY <4>2, <4>3, <4>5, <4>6 DEF LooksAreRemembered, Remembered, RadarTyped
            <4>8. ASSUME NEW q \in RadarCalls PROVE Remembered(p, scan[q].seen[p])'
                BY <3>2, <4>1, <4>3, <4>5, <4>6 DEF LooksAreRemembered, Remembered
            <4> QED
                BY <4>7, <4>8
        <3> QED
            BY <3>2, <3>3, <3>4, <3>5
    <2>6. \/ SharedFiles(pair) # {} /\ Found(r, Collision(pair), next)
          \/ SharedFiles(pair) = {} /\ (FoundNone(r, next) \/ FoundNone(r, asked))
        BY <1>3 DEF LookAt, Collision
    <2> HIDE DEF next, asked
    <2> QED
        BY <2>1, <2>2, <2>4, <2>5, <2>6
<1>4. ASSUME NEW r \in RadarCalls, Verdict(r) PROVE RadarInv'
    <2> DEFINE next == [scan[r] EXCEPT !.judging = {}]
               k == [pair |-> scan[r].judging, files |-> {}]
    <2>1. /\ next \in Scans /\ next.fresh = scan[r].fresh
          /\ next.at = scan[r].at /\ next.seen = scan[r].seen
        BY DEF RadarTyped, Scans
    <2>2. k \in Conflicts
        BY <1>4 DEF Verdict, Conflicts, RadarTyped, Scans
    <2>3. FoundNone(r, next) \/ Found(r, k, next)
        BY <1>4 DEF Verdict
    <2> HIDE DEF next, k
    <2>4. UNCHANGED <<intents, scanCount, looked>>
        BY <2>3 DEF FoundNone, Found
    <2>5. /\ scan' \in [RadarCalls -> Scans] /\ announced' \in [Conflicts -> Nat]
          /\ \A j \in Conflicts : announced'[j] <= scanCount /\ announced[j] <= announced'[j]
          /\ said' \subseteq Conflicts /\ swallowed' \subseteq Conflicts
          /\ RememberedIsSaid'
          /\ \A q \in RadarCalls : scan'[q].at = scan[q].at /\ scan'[q].seen = scan[q].seen
        <3>1. CASE FoundNone(r, next)
            <4>1. /\ scan' \in [RadarCalls -> Scans] /\ scan'[r] = next
                  /\ \A q \in RadarCalls \ {r} : scan'[q] = scan[q]
                BY <2>1, <3>1 DEF FoundNone, RadarTyped
            <4>2. UNCHANGED <<announced, said, swallowed>>
                BY <3>1 DEF FoundNone
            <4>3. RememberedIsSaid'
                BY <2>1, <4>1, <4>2 DEF RememberedIsSaid, Pending
            <4> QED
                BY <2>1, <4>1, <4>2, <4>3 DEF RadarTyped
        <3>2. CASE Found(r, k, next)
            <4>1. /\ scan' \in [RadarCalls -> Scans] /\ announced' \in [Conflicts -> Nat]
                  /\ \A j \in Conflicts : announced'[j] <= scanCount /\ announced[j] <= announced'[j]
                  /\ said' \subseteq said /\ swallowed' \subseteq swallowed
                  /\ RememberedIsSaid'
                  /\ \A q \in RadarCalls \ {r} : scan'[q] = scan[q]
                  /\ scan'[r].at = next.at /\ scan'[r].seen = next.seen
                BY <2>1, <2>2, <3>2, Finding
            <4> QED
                BY <2>1, <4>1 DEF RadarTyped
        <3> QED
            BY <2>3, <3>1, <3>2
    <2>6. RadarTyped'
        BY <2>4, <2>5 DEF RadarTyped
    <2>7. ScansAreCounted'
        BY <2>4, <2>5 DEF ScansAreCounted, Phase
    <2>8. LooksAreRemembered'
        <3> SUFFICES ASSUME NEW p \in Pairs
                     PROVE  /\ Remembered(p, looked[p])'
                            /\ \A q \in RadarCalls : Remembered(p, scan[q].seen[p])'
            BY DEF LooksAreRemembered
        <3>1. \A n \in Nat : Remembered(p, n) => Remembered(p, n)'
            BY <2>4, <2>5, RememberedLonger
        <3>2. looked'[p] = looked[p] /\ looked[p] \in Nat
            BY <2>4 DEF RadarTyped
        <3>3. \A q \in RadarCalls : scan'[q].seen[p] = scan[q].seen[p] /\ scan[q].seen[p] \in Nat
            BY <2>5 DEF RadarTyped, Scans
        <3> QED
            BY <3>1, <3>2, <3>3 DEF LooksAreRemembered, Remembered
    <2> QED
        BY <2>5, <2>6, <2>7, <2>8
<1>5. ASSUME NEW r \in RadarCalls, Announce(r) \/ AnnounceFails(r) \/ ScanReturns(r)
      PROVE  RadarInv'
    <2>1. UNCHANGED <<intents, announced, scanCount>>
        BY <1>5 DEF Announce, AnnounceFails, ScanReturns
    <2>2. /\ scan' \in [RadarCalls -> Scans]
          /\ \A q \in RadarCalls \ {r} : scan'[q] = scan[q]
          /\ scan'[r].seen = scan[r].seen
          /\ Phase(r) = "scanning" /\ scan'[r].at \in {"scanning", "done", "failed"}
        <3>1. CASE Announce(r)
            <4> DEFINE rest == Tail(scan[r].fresh)
            <4>1. scan[r].fresh \in Seq(Conflicts) /\ scan[r].fresh # <<>>
                BY <3>1 DEF Announce, RadarTyped, Scans
            <4>2. rest \in Seq(Conflicts)
                BY <4>1, OneLess
            <4>3. scan' = [scan EXCEPT ![r].fresh = rest] /\ Phase(r) = "scanning"
                BY <3>1 DEF Announce, LookedAll
            <4> DEFINE next == [scan[r] EXCEPT !.fresh = rest]
            <4> HIDE DEF rest
            <4>4. scan' = [scan EXCEPT ![r] = next]
                BY <4>3
            <4>5. next \in Scans /\ next.seen = scan[r].seen /\ next.at = scan[r].at
                BY <4>2 DEF RadarTyped, Scans
            <4> HIDE DEF next
            <4>6. /\ scan' \in [RadarCalls -> Scans] /\ scan'[r] = next
                  /\ \A q \in RadarCalls \ {r} : scan'[q] = scan[q]
                BY <4>4, <4>5 DEF RadarTyped
            <4> QED
                BY <4>3, <4>5, <4>6 DEF Phase
        <3>2. CASE AnnounceFails(r)
            <4> DEFINE none == <<>>
                       next == [scan[r] EXCEPT !.at = "failed", !.fresh = none]
            <4>1. none \in Seq(Conflicts)
                OBVIOUS
            <4>2. scan' = [scan EXCEPT ![r] = next] /\ Phase(r) = "scanning"
                BY <3>2 DEF AnnounceFails, LookedAll
            <4> HIDE DEF none
            <4>3. next \in Scans /\ next.seen = scan[r].seen /\ next.at = "failed"
                BY <4>1 DEF RadarTyped, Scans
            <4> HIDE DEF next
            <4> QED
                BY <4>2, <4>3 DEF RadarTyped
        <3>3. CASE ScanReturns(r)
            BY <3>3 DEF ScanReturns, LookedAll, RadarTyped, Scans
        <3> QED
            BY <1>5, <3>1, <3>2, <3>3
    <2>3. \/ /\ said' \subseteq Conflicts /\ said \subseteq said' /\ swallowed' = swallowed
             /\ Pending(r) \subseteq Pending(r)' \cup said'
          \/ said' = said /\ swallowed' = swallowed \cup Pending(r) /\ swallowed' \subseteq Conflicts
        <3>1. CASE Announce(r)
            <4>1. scan[r].fresh \in Seq(Conflicts) /\ scan[r].fresh # <<>>
                BY <3>1 DEF Announce, RadarTyped, Scans
            <4>2. scan'[r].fresh = Tail(scan[r].fresh) /\ said' = said \cup {Head(scan[r].fresh)}
                BY <3>1 DEF Announce, RadarTyped, Scans
            <4>3. /\ Head(scan[r].fresh) \in Conflicts
                  /\ {scan[r].fresh[n] : n \in DOMAIN scan[r].fresh} =
                        {Tail(scan[r].fresh)[n] : n \in DOMAIN Tail(scan[r].fresh)}
                            \cup {Head(scan[r].fresh)}
                BY <4>1, OneLess
            <4> QED
                BY <3>1, <4>2, <4>3 DEF Announce, Pending, RadarTyped
        <3>2. CASE AnnounceFails(r)
            <4>1. scan[r].fresh \in Seq(Conflicts)
                BY DEF RadarTyped, Scans
            <4>2. Pending(r) \subseteq Conflicts
                BY <4>1 DEF Pending
            <4> QED
                BY <3>2, <4>2 DEF AnnounceFails, RadarTyped
        <3>3. CASE ScanReturns(r)
            <4>1. scan[r].fresh = <<>>
                BY <3>3 DEF ScanReturns
            <4>2. Pending(r) = {}
                BY <4>1 DEF Pending
            <4> QED
                BY <3>3, <4>2 DEF ScanReturns, RadarTyped
        <3> QED
            BY <1>5, <3>1, <3>2, <3>3
    <2>4. \A pair \in Pairs : /\ looked'[pair] \in {looked[pair], scan[r].seen[pair]}
                             /\ looked'[pair] \in Nat
        BY <1>5 DEF Announce, AnnounceFails, ScanReturns, RadarTyped, Scans
    <2>5. looked' \in [Pairs -> Nat]
        BY <1>5 DEF Announce, AnnounceFails, ScanReturns, RadarTyped, Scans
    <2>6. RadarTyped'
        BY <2>1, <2>2, <2>3, <2>5 DEF RadarTyped
    <2>7. ScansAreCounted'
        BY <2>1, <2>2 DEF ScansAreCounted, Phase
    <2>8. RememberedIsSaid'
        <3>1. \A q \in RadarCalls \ {r} : Pending(q)' = Pending(q)
            BY <2>2 DEF Pending
        <3> QED
            BY <2>1, <2>3, <3>1 DEF RememberedIsSaid
    <2>9. LooksAreRemembered'
        <3>1. \A pair \in Pairs : SharedFiles(pair)' = SharedFiles(pair) /\ Collision(pair)' = Collision(pair)
            BY <2>1 DEF SharedFiles, Collision
        <3>2. \A q \in RadarCalls : scan'[q].seen = scan[q].seen
            BY <2>2
        <3> QED
            BY <2>1, <2>4, <3>1, <3>2 DEF LooksAreRemembered, Remembered
    <2> QED
        BY <2>6, <2>7, <2>8, <2>9
<1>6. CASE UNCHANGED radarVars
    BY <1>6 DEF radarVars, RadarTyped, ScansAreCounted, RememberedIsSaid, LooksAreRemembered,
        Remembered, Collision, SharedFiles, Pending, Phase
<1> QED
    BY <1>1, <1>2, <1>3, <1>4, <1>5, <1>6 DEF RadarNext

(* For any lanes, sessions, files and requests: the log says of every pair *)
(* of lanes a returned scan has looked at that they share files, or a scan *)
(* is about to say so, or it was lost, and then for no more than           *)
(* ReannounceAfter scans (_is_new, set_intent, run_radar_scan).            *)
THEOREM CollisionsSaid == RadarSpec => []KnownCollisionSaid
<1>1. RadarInv => KnownCollisionSaid
    <2> SUFFICES ASSUME RadarInv, NEW pair \in Pairs, looked[pair] > 0, SharedFiles(pair) # {}
                 PROVE  \/ Collision(pair) \in said
                        \/ \E r \in RadarCalls : Collision(pair) \in Pending(r)
                        \/ /\ Collision(pair) \in swallowed
                           /\ looked[pair] < announced[Collision(pair)] + ReannounceAfter
        BY DEF KnownCollisionSaid, Collision
    <2>1. Collision(pair) \in Conflicts
        BY CollisionIsConflict
    <2>2. /\ announced[Collision(pair)] > 0
          /\ looked[pair] < announced[Collision(pair)] + ReannounceAfter
        BY DEF RadarInv, LooksAreRemembered, Remembered
    <2> QED
        BY <2>1, <2>2 DEF RadarInv, RememberedIsSaid
<1> QED
    BY <1>1, RadarStarts, RadarStep, PTL DEF RadarSpec

-----------------------------------------------------------------------------
(* The shared document.                                                    *)

(* The edits in a queue of updates.                                        *)
Within(queue) == UNION {queue[n] : n \in DOMAIN queue}

Queues == Seq(SUBSET Edits)
InHand == {{}} \cup {{update} : update \in SUBSET Edits}

DocTyped ==
    /\ doc \in [Clients -> SUBSET Edits]
    /\ sock \in [Clients -> {"closed", "joined", "greeted", "ready"}]
    /\ greeting \in [Clients -> SUBSET Edits]
    /\ up \in [Clients -> Queues] /\ down \in [Clients -> Queues]
    /\ handled \in [Clients -> InHand] /\ writing \in [Clients -> InHand]
    /\ orphaned \subseteq SUBSET Edits
    /\ snapshot \subseteq Edits /\ relayed \subseteq Edits
    /\ mayMiss \in [Clients -> SUBSET Edits]

(* What was relayed is in a connected client's document, on its way there, *)
(* or may be missing.                                                      *)
RelayedComes ==
    \A c \in Connected :
        relayed \subseteq doc[c] \cup mayMiss[c] \cup Within(down[c]) \cup UNION writing[c]

(* What a client holds that may write, has been relayed or will be.        *)
HeldIsSent ==
    \A c \in mayWrite :
        sock[c] = "ready" => doc[c] \subseteq relayed \cup Within(up[c]) \cup UNION handled[c]

(* What goes to a client was relayed, and what comes from it it holds.     *)
FramesAreKnown ==
    \A c \in Clients :
        /\ Within(down[c]) \cup UNION writing[c] \subseteq relayed
        /\ Within(up[c]) \cup UNION handled[c] \subseteq doc[c]

DocInv == DocTyped /\ mayWrite \subseteq Clients /\ RelayedComes /\ HeldIsSent /\ FramesAreKnown

LEMMA WithinNone == Within(<<>>) = {} /\ <<>> \in Queues
BY DEF Within, Queues

LEMMA WithinAppend ==
    ASSUME NEW queue \in Queues, NEW update \in SUBSET Edits
    PROVE  /\ Append(queue, update) \in Queues
           /\ Within(Append(queue, update)) = Within(queue) \cup update
<1> DEFINE longer == Append(queue, update)
<1>1. /\ longer \in Queues /\ Len(queue) \in Nat
      /\ DOMAIN queue = 1..Len(queue) /\ DOMAIN longer = 1..Len(queue) + 1
      /\ \A n \in 1..Len(queue) : longer[n] = queue[n]
      /\ longer[Len(queue) + 1] = update
    BY DEF Queues
<1> HIDE DEF longer
<1>2. {longer[n] : n \in DOMAIN longer} = {queue[n] : n \in DOMAIN queue} \cup {update}
    BY <1>1
<1>3. Within(longer) = Within(queue) \cup update
    BY <1>2 DEF Within
<1> QED
    BY <1>1, <1>3 DEF longer

LEMMA WithinTail ==
    ASSUME NEW queue \in Queues, queue # <<>>
    PROVE  /\ Tail(queue) \in Queues /\ Head(queue) \in SUBSET Edits
           /\ Within(queue) = Within(Tail(queue)) \cup Head(queue)
<1> DEFINE rest == Tail(queue)
           first == Head(queue)
<1>1. /\ rest \in Queues /\ first \in SUBSET Edits /\ Len(queue) \in Nat
      /\ DOMAIN queue = 1..Len(queue) /\ DOMAIN rest = 1..Len(queue) - 1 /\ Len(queue) > 0
      /\ \A n \in 1..Len(queue) - 1 : rest[n] = queue[n + 1]
      /\ first = queue[1]
    BY DEF Queues
<1> HIDE DEF rest, first
<1>2. ASSUME NEW n \in 1..Len(queue) PROVE n = 1 \/ (n - 1 \in DOMAIN rest /\ queue[n] = rest[n - 1])
    BY <1>1
<1>3. ASSUME NEW n \in DOMAIN rest PROVE n + 1 \in DOMAIN queue /\ rest[n] = queue[n + 1]
    BY <1>1
<1>4. {queue[n] : n \in DOMAIN queue} \subseteq {rest[n] : n \in DOMAIN rest} \cup {first}
    BY <1>1, <1>2
<1>5. {rest[n] : n \in DOMAIN rest} \subseteq {queue[n] : n \in DOMAIN queue}
    BY <1>3
<1>6. first \in {queue[n] : n \in DOMAIN queue}
    BY <1>1
<1>7. {queue[n] : n \in DOMAIN queue} = {rest[n] : n \in DOMAIN rest} \cup {first}
    BY <1>4, <1>5, <1>6
<1>8. Within(queue) = Within(rest) \cup first
    BY <1>7 DEF Within
<1> QED
    BY <1>1, <1>8 DEF rest, first

LEMMA HandHolds ==
    ASSUME NEW hand \in InHand, NEW update \in hand
    PROVE  hand = {update} /\ update \in SUBSET Edits /\ UNION hand = update
BY DEF InHand

LEMMA HandMay ==
    /\ {} \in InHand /\ UNION {} = {}
    /\ \A update \in SUBSET Edits : {update} \in InHand /\ UNION {update} = update
BY DEF InHand

LEMMA DocStarts == DocInit => DocInv
<1> SUFFICES ASSUME DocInit PROVE DocInv
    OBVIOUS
<1>1. DocTyped
    BY WithinNone, HandMay DEF DocInit, DocTyped
<1>2. FramesAreKnown
    BY WithinNone, HandMay DEF DocInit, FramesAreKnown
<1> QED
    BY <1>1, <1>2 DEF DocInit, DocInv, RelayedComes, HeldIsSent, Connected

(* An update is passed on to some clients, who are connected, while each   *)
(* of the other clients that are, holds it.                                *)
LEMMA PassedOn ==
    ASSUME DocInv, NEW update \in SUBSET Edits, NEW to \in SUBSET Connected,
           \A c \in Connected \ to : update \subseteq doc[c],
           PassOn(update, to)
    PROVE  /\ down' \in [Clients -> Queues] /\ mayMiss' \in [Clients -> SUBSET Edits]
           /\ relayed' = relayed \cup update /\ writing' = writing
           /\ \A c \in Connected :
                relayed' \subseteq doc[c] \cup mayMiss'[c] \cup Within(down'[c]) \cup UNION writing[c]
           /\ \A c \in Clients : Within(down'[c]) \subseteq relayed'
<1> DEFINE full == {d \in to : Len(down[d]) >= FrameMax}
           evicting == full \ noticed
           notice(d) == Append(Tail(down[d]), {})
<1>1. /\ down' = [d \in Clients |->
                    CASE d \in evicting -> notice(d)
                      [] d \in to \ full -> Append(down[d], update)
                      [] OTHER -> down[d]]
      /\ mayMiss' = [d \in Clients |->
                    CASE d \in evicting -> mayMiss[d] \cup update \cup Head(down[d])
                      [] d \in full \ evicting -> mayMiss[d] \cup update
                      [] OTHER -> mayMiss[d]]
      /\ relayed' = relayed \cup update /\ writing' = writing
    BY DEF PassOn
<1>2. \A d \in full : down[d] # <<>> /\ down[d] \in Queues
    BY FramesAreQueued DEF DocInv, DocTyped, Connected, Queues
<1>3. full \subseteq to /\ evicting \subseteq full
    OBVIOUS
<1> HIDE DEF full, evicting, notice
<1>4. ASSUME NEW d \in Clients
      PROVE  /\ down'[d] \in Queues /\ mayMiss'[d] \in SUBSET Edits
             /\ Within(down'[d]) \subseteq relayed'
             /\ d \in Connected =>
                relayed' \subseteq doc[d] \cup mayMiss'[d] \cup Within(down'[d]) \cup UNION writing[d]
    <2>1. /\ down[d] \in Queues /\ mayMiss[d] \in SUBSET Edits
          /\ Within(down[d]) \subseteq relayed
          /\ d \in Connected =>
                relayed \subseteq doc[d] \cup mayMiss[d] \cup Within(down[d]) \cup UNION writing[d]
        BY DEF DocInv, DocTyped, FramesAreKnown, RelayedComes
    <2>2. CASE d \in evicting
        <3> DEFINE rest == Tail(down[d])
                   first == Head(down[d])
        <3>1. down'[d] = Append(rest, {})
            <4>1. down'[d] = notice(d)
                BY <1>1, <1>3, <2>2
            <4> QED
                BY <4>1 DEF notice
        <3>2. mayMiss'[d] = mayMiss[d] \cup update \cup first
            BY <1>1, <2>2
        <3>3. /\ rest \in Queues /\ first \in SUBSET Edits
              /\ Within(down[d]) = Within(rest) \cup first
            BY <1>2, <1>3, <2>2, WithinTail
        <3> HIDE DEF rest, first
        <3>4. Append(rest, {}) \in Queues /\ Within(Append(rest, {})) = Within(rest)
            <4>1. {} \in SUBSET Edits
                OBVIOUS
            <4>2. /\ Append(rest, {}) \in Queues
                  /\ Within(Append(rest, {})) = Within(rest) \cup {}
                BY <3>3, <4>1, WithinAppend
            <4> QED
                BY <4>2
        <3> QED
            BY <1>1, <2>1, <3>1, <3>2, <3>3, <3>4
    <2>3. CASE d \in to \ full
        <3>1. down'[d] = Append(down[d], update) /\ mayMiss'[d] = mayMiss[d]
            BY <1>1, <1>3, <2>3
        <3>2. down'[d] \in Queues /\ Within(down'[d]) = Within(down[d]) \cup update
            BY <2>1, <3>1, WithinAppend
        <3> QED
            BY <1>1, <2>1, <3>1, <3>2
    <2>4. CASE d \in full \ evicting
        <3>1. down'[d] = down[d] /\ mayMiss'[d] = mayMiss[d] \cup update
            BY <1>1, <1>3, <2>4
        <3> QED
            BY <1>1, <2>1, <3>1
    <2>5. CASE d \notin to
        <3>1. down'[d] = down[d] /\ mayMiss'[d] = mayMiss[d]
            BY <1>1, <1>3, <2>5
        <3>2. d \in Connected => update \subseteq doc[d]
            BY <2>5
        <3> QED
            BY <1>1, <2>1, <3>1, <3>2
    <2> QED
        BY <1>3, <2>2, <2>3, <2>4, <2>5
<1>5. down' \in [Clients -> Queues] /\ mayMiss' \in [Clients -> SUBSET Edits]
    <2>1. DOMAIN down' = Clients /\ DOMAIN mayMiss' = Clients
        BY <1>1
    <2>2. down' = [d \in Clients |-> down'[d]] /\ mayMiss' = [d \in Clients |-> mayMiss'[d]]
        BY <1>1
    <2> QED
        BY <1>4, <2>2
<1> QED
    BY <1>1, <1>4, <1>5 DEF Connected

LEMMA DocStep == DocInv /\ [DocNext]_docVars => DocInv'
<1> SUFFICES ASSUME DocInv, [DocNext]_docVars PROVE DocInv'
    OBVIOUS
<1> USE DEF DocInv
<1>1. ASSUME NEW c \in Clients, NEW e \in Edits, Edit(c, e) PROVE DocInv'
    <2>1. /\ doc' \in [Clients -> SUBSET Edits]
          /\ doc'[c] = doc[c] \cup {e} /\ \A d \in Clients \ {c} : doc'[d] = doc[d]
        BY <1>1 DEF Edit, DocTyped
    <2>2. /\ up' \in [Clients -> Queues] /\ \A d \in Clients \ {c} : up'[d] = up[d]
          /\ IF sock[c] = "ready" THEN Within(up'[c]) = Within(up[c]) \cup {e} ELSE up'[c] = up[c]
        <3>1. up[c] \in Queues /\ {e} \in SUBSET Edits
            BY DEF DocTyped
        <3>2. up' = [up EXCEPT ![c] = IF sock[c] = "ready" THEN Append(@, {e}) ELSE @]
            BY <1>1 DEF Edit
        <3>3. Append(up[c], {e}) \in Queues /\ Within(Append(up[c], {e})) = Within(up[c]) \cup {e}
            BY <3>1, WithinAppend
        <3> QED
            BY <3>2, <3>3 DEF DocTyped
    <2>3. UNCHANGED <<sock, mayWrite, greeting, handled, orphaned, down, writing,
                      snapshot, relayed, mayMiss>>
        BY <1>1 DEF Edit, writerVars
    <2>4. DocTyped'
        BY <2>1, <2>2, <2>3 DEF DocTyped
    <2>5. RelayedComes'
        BY <2>1, <2>3 DEF RelayedComes, Connected
    <2>6. HeldIsSent'
        BY <2>1, <2>2, <2>3 DEF HeldIsSent
    <2>7. FramesAreKnown'
        BY <2>1, <2>2, <2>3 DEF FramesAreKnown
    <2> QED
        BY <2>3, <2>4, <2>5, <2>6, <2>7
<1>2. ASSUME NEW c \in Clients, Join(c) PROVE DocInv'
    <2>1. /\ sock[c] = "closed" /\ sock' = [sock EXCEPT ![c] = "joined"]
          /\ mayWrite' \subseteq mayWrite \cup {c} /\ mayMiss' = [mayMiss EXCEPT ![c] = relayed]
          /\ UNCHANGED <<doc, greeting, up, handled, orphaned, down, writing, snapshot, relayed>>
        BY <1>2 DEF Join
    <2>2. DocTyped'
        BY <2>1 DEF DocTyped
    <2>3. RelayedComes'
        BY <2>1 DEF RelayedComes, Connected, DocTyped
    <2>4. HeldIsSent'
        BY <2>1 DEF HeldIsSent, DocTyped
    <2>5. FramesAreKnown'
        BY <2>1 DEF FramesAreKnown
    <2> QED
        BY <2>1, <2>2, <2>3, <2>4, <2>5
<1>3. ASSUME NEW c \in Clients, SendHello(c) PROVE DocInv'
    <2>1. /\ sock[c] = "joined" /\ sock' = [sock EXCEPT ![c] = "greeted"]
          /\ greeting' = [greeting EXCEPT ![c] = snapshot]
          /\ UNCHANGED <<doc, mayWrite, up, handled, orphaned, down, writing,
                         snapshot, relayed, mayMiss>>
        BY <1>3 DEF SendHello, writerVars
    <2>2. DocTyped'
        BY <2>1 DEF DocTyped
    <2>3. RelayedComes'
        BY <2>1 DEF RelayedComes, Connected, DocTyped
    <2>4. HeldIsSent'
        BY <2>1 DEF HeldIsSent, DocTyped
    <2>5. FramesAreKnown'
        BY <2>1 DEF FramesAreKnown
    <2> QED
        BY <2>1, <2>2, <2>3, <2>4, <2>5
<1>4. ASSUME NEW c \in Clients, TakeHello(c) PROVE DocInv'
    <2> DEFINE merged == doc[c] \cup greeting[c]
    <2>1. /\ sock[c] = "greeted" /\ sock' = [sock EXCEPT ![c] = "ready"]
          /\ doc' = [doc EXCEPT ![c] = merged] /\ up' = [up EXCEPT ![c] = Append(@, doc'[c])]
          /\ greeting' = [greeting EXCEPT ![c] = {}]
          /\ UNCHANGED <<mayWrite, handled, orphaned, down, writing, snapshot, relayed, mayMiss>>
        BY <1>4 DEF TakeHello, writerVars
    <2>2. up[c] \in Queues /\ merged \in SUBSET Edits /\ doc'[c] = merged
        BY <2>1 DEF DocTyped
    <2>3. /\ Append(up[c], merged) \in Queues
          /\ Within(Append(up[c], merged)) = Within(up[c]) \cup merged
        BY <2>2, WithinAppend
    <2>4. /\ up' \in [Clients -> Queues] /\ Within(up'[c]) = Within(up[c]) \cup merged
          /\ \A d \in Clients \ {c} : up'[d] = up[d] /\ doc'[d] = doc[d] /\ sock'[d] = sock[d]
        BY <2>1, <2>2, <2>3 DEF DocTyped
    <2>5. DocTyped'
        BY <2>1, <2>2, <2>4 DEF DocTyped
    <2>6. RelayedComes'
        BY <2>1, <2>2, <2>4 DEF RelayedComes, Connected, DocTyped
    <2>7. HeldIsSent'
        BY <2>1, <2>2, <2>4 DEF HeldIsSent, DocTyped
    <2>8. FramesAreKnown'
        BY <2>1, <2>2, <2>4 DEF FramesAreKnown
    <2> QED
        BY <2>1, <2>5, <2>6, <2>7, <2>8
<1>5. ASSUME NEW c \in Clients, WriteFrame(c) PROVE DocInv'
    <2> DEFINE rest == Tail(down[c])
               first == Head(down[c])
    <2>1. /\ writing[c] = {} /\ down[c] # <<>> /\ down' = [down EXCEPT ![c] = rest]
          /\ \/ writing' = [writing EXCEPT ![c] = {first}] /\ UNCHANGED mayMiss
             \/ /\ writing' = [writing EXCEPT ![c] = {{}}]
                /\ mayMiss' = [mayMiss EXCEPT ![c] = @ \cup first]
          /\ UNCHANGED <<doc, sock, mayWrite, greeting, up, handled, orphaned, snapshot, relayed>>
        BY <1>5 DEF WriteFrame, DocTyped
    <2>2. down[c] \in Queues
        BY DEF DocTyped
    <2>3. rest \in Queues /\ first \in SUBSET Edits /\ Within(down[c]) = Within(rest) \cup first
        BY <2>1, <2>2, WithinTail
    <2> HIDE DEF rest, first
    <2>4. /\ {first} \in InHand /\ UNION {first} = first
          /\ {{}} \in InHand /\ UNION {{}} = {} /\ UNION {} = {}
        <3>1. {} \in SUBSET Edits
            OBVIOUS
        <3> QED
            BY <2>3, <3>1, HandMay
    <2>5. DocTyped'
        <3>1. writing' \in [Clients -> InHand] /\ mayMiss' \in [Clients -> SUBSET Edits]
            <4>1. CASE writing' = [writing EXCEPT ![c] = {first}] /\ UNCHANGED mayMiss
                BY <2>4, <4>1 DEF DocTyped
            <4>2. CASE /\ writing' = [writing EXCEPT ![c] = {{}}]
                       /\ mayMiss' = [mayMiss EXCEPT ![c] = @ \cup first]
                BY <2>3, <2>4, <4>2 DEF DocTyped
            <4> QED
                BY <2>1, <4>1, <4>2
        <3>2. down' \in [Clients -> Queues]
            BY <2>1, <2>3 DEF DocTyped
        <3> QED
            BY <2>1, <3>1, <3>2 DEF DocTyped
    <2>6. /\ \A d \in Clients \ {c} : /\ down'[d] = down[d] /\ writing'[d] = writing[d]
                                     /\ mayMiss'[d] = mayMiss[d]
          /\ down'[c] = rest
          /\ \/ writing'[c] = {first} /\ mayMiss'[c] = mayMiss[c]
             \/ writing'[c] = {{}} /\ mayMiss'[c] = mayMiss[c] \cup first
        BY <2>1 DEF DocTyped
    <2>7. RelayedComes'
        BY <2>1, <2>3, <2>4, <2>6 DEF RelayedComes, Connected
    <2>8. HeldIsSent'
        BY <2>1 DEF HeldIsSent
    <2>9. FramesAreKnown'
        BY <2>1, <2>3, <2>4, <2>6 DEF FramesAreKnown
    <2> QED
        BY <2>1, <2>5, <2>7, <2>8, <2>9
<1>6. ASSUME NEW c \in Clients, FrameWritten(c) PROVE DocInv'
    <2>1. PICK frame \in writing[c] : doc' = [doc EXCEPT ![c] = @ \cup frame]
        BY <1>6 DEF FrameWritten
    <2>2. /\ writing' = [writing EXCEPT ![c] = {}]
          /\ UNCHANGED <<sock, mayWrite, greeting, up, handled, orphaned, down,
                         snapshot, relayed, mayMiss>>
        BY <1>6 DEF FrameWritten
    <2>3. frame \in SUBSET Edits /\ UNION writing[c] = frame
        BY HandHolds DEF DocTyped
    <2>4. {} \in InHand /\ UNION {} = {}
        BY HandMay
    <2>5. DocTyped'
        BY <2>1, <2>2, <2>3, <2>4 DEF DocTyped
    <2>6. /\ \A d \in Clients \ {c} : writing'[d] = writing[d] /\ doc'[d] = doc[d]
          /\ writing'[c] = {} /\ doc'[c] = doc[c] \cup frame
        BY <2>1, <2>2 DEF DocTyped
    <2>7. RelayedComes'
        BY <2>2, <2>3, <2>4, <2>6 DEF RelayedComes, Connected
    <2>8. HeldIsSent'
        BY <2>2, <2>3, <2>6 DEF HeldIsSent, FramesAreKnown
    <2>9. FramesAreKnown'
        BY <2>2, <2>3, <2>4, <2>6 DEF FramesAreKnown
    <2> QED
        BY <2>2, <2>5, <2>7, <2>8, <2>9
<1>7. ASSUME NEW c \in Clients, FrameLost(c) PROVE DocInv'
    <2>1. PICK frame \in writing[c] : mayMiss' = [mayMiss EXCEPT ![c] = @ \cup frame]
        BY <1>7 DEF FrameLost
    <2>2. /\ writing' = [writing EXCEPT ![c] = {}]
          /\ UNCHANGED <<doc, sock, mayWrite, greeting, up, handled, orphaned, down,
                         snapshot, relayed>>
        BY <1>7 DEF FrameLost
    <2>3. frame \in SUBSET Edits /\ UNION writing[c] = frame
        BY HandHolds DEF DocTyped
    <2>4. {} \in InHand /\ UNION {} = {}
        BY HandMay
    <2>5. DocTyped'
        BY <2>1, <2>2, <2>3, <2>4 DEF DocTyped
    <2>6. /\ \A d \in Clients \ {c} : writing'[d] = writing[d] /\ mayMiss'[d] = mayMiss[d]
          /\ writing'[c] = {} /\ mayMiss'[c] = mayMiss[c] \cup frame
        BY <2>1, <2>2 DEF DocTyped
    <2>7. RelayedComes'
        BY <2>2, <2>3, <2>4, <2>6 DEF RelayedComes, Connected
    <2>8. HeldIsSent'
        BY <2>2 DEF HeldIsSent
    <2>9. FramesAreKnown'
        BY <2>2, <2>4, <2>6 DEF FramesAreKnown
    <2> QED
        BY <2>2, <2>5, <2>7, <2>8, <2>9
<1>8. ASSUME NEW c \in Clients, Refuse(c) \/ SaveUpdate(c) PROVE DocInv'
    <2> DEFINE rest == Tail(up[c])
               first == Head(up[c])
    <2>1. /\ up[c] # <<>> /\ up' = [up EXCEPT ![c] = rest]
          /\ \/ c \notin mayWrite /\ UNCHANGED <<handled, snapshot>>
             \/ /\ c \in mayWrite /\ handled[c] = {}
                /\ handled' = [handled EXCEPT ![c] = {first}] /\ snapshot' = first
          /\ UNCHANGED <<doc, sock, mayWrite, greeting, orphaned, down, writing,
                         relayed, mayMiss>>
        BY <1>8 DEF Refuse, SaveUpdate, writerVars
    <2>2. up[c] \in Queues
        BY DEF DocTyped
    <2>3. rest \in Queues /\ first \in SUBSET Edits /\ Within(up[c]) = Within(rest) \cup first
        BY <2>1, <2>2, WithinTail
    <2> HIDE DEF rest, first
    <2>4. {first} \in InHand /\ UNION {first} = first /\ UNION {} = {}
        BY <2>3, HandMay
    <2>5. DocTyped'
        BY <2>1, <2>3, <2>4 DEF DocTyped
    <2>6. /\ \A d \in Clients \ {c} : up'[d] = up[d] /\ handled'[d] = handled[d]
          /\ up'[c] = rest
          /\ \/ c \notin mayWrite /\ handled'[c] = handled[c]
             \/ handled[c] = {} /\ handled'[c] = {first}
        BY <2>1 DEF DocTyped
    <2>7. RelayedComes'
        BY <2>1 DEF RelayedComes, Connected
    <2>8. HeldIsSent'
        BY <2>1, <2>3, <2>4, <2>6 DEF HeldIsSent
    <2>9. FramesAreKnown'
        BY <2>1, <2>3, <2>4, <2>6 DEF FramesAreKnown
    <2> QED
        BY <2>1, <2>5, <2>7, <2>8, <2>9
<1>9. ASSUME NEW c \in Clients, PublishEdit(c) PROVE DocInv'
    <2>1. PICK update \in handled[c] : PassOn(update, Connected \ {c})
        BY <1>9 DEF PublishEdit
    <2>2. /\ handled' = [handled EXCEPT ![c] = {}]
          /\ UNCHANGED <<doc, sock, mayWrite, greeting, up, orphaned, snapshot>>
        BY <1>9 DEF PublishEdit
    <2>3. update \in SUBSET Edits /\ UNION handled[c] = update
        BY HandHolds DEF DocTyped
    <2>4. {} \in InHand /\ UNION {} = {}
        BY HandMay
    <2>5. update \subseteq doc[c]
        BY <2>3 DEF FramesAreKnown
    <2>6. /\ down' \in [Clients -> Queues] /\ mayMiss' \in [Clients -> SUBSET Edits]
          /\ relayed' = relayed \cup update /\ writing' = writing
          /\ \A d \in Connected :
                relayed' \subseteq doc[d] \cup mayMiss'[d] \cup Within(down'[d]) \cup UNION writing[d]
          /\ \A d \in Clients : Within(down'[d]) \subseteq relayed'
        <3>1. Connected \ {c} \in SUBSET Connected /\ \A d \in Connected \ (Connected \ {c}) : d = c
            OBVIOUS
        <3> QED
            BY <2>1, <2>3, <2>5, <3>1, PassedOn
    <2>7. DocTyped'
        BY <2>2, <2>3, <2>4, <2>6 DEF DocTyped
    <2>8. RelayedComes'
        BY <2>2, <2>6 DEF RelayedComes, Connected
    <2>9. (\A d \in Clients \ {c} : handled'[d] = handled[d]) /\ handled'[c] = {}
        BY <2>2 DEF DocTyped
    <2>10. HeldIsSent'
        BY <2>2, <2>3, <2>6, <2>9 DEF HeldIsSent
    <2>11. FramesAreKnown'
        BY <2>2, <2>4, <2>6, <2>9 DEF FramesAreKnown
    <2> QED
        BY <2>2, <2>7, <2>8, <2>10, <2>11
<1>10. ASSUME NEW update \in orphaned, PublishOrphan(update) PROVE DocInv'
    <2>1. /\ PassOn(update, Connected) /\ orphaned' = orphaned \ {update}
          /\ UNCHANGED <<doc, sock, mayWrite, greeting, up, handled, snapshot>>
        BY <1>10 DEF PublishOrphan
    <2>2. update \in SUBSET Edits
        BY DEF DocTyped
    <2>3. /\ down' \in [Clients -> Queues] /\ mayMiss' \in [Clients -> SUBSET Edits]
          /\ relayed' = relayed \cup update /\ writing' = writing
          /\ \A d \in Connected :
                relayed' \subseteq doc[d] \cup mayMiss'[d] \cup Within(down'[d]) \cup UNION writing[d]
          /\ \A d \in Clients : Within(down'[d]) \subseteq relayed'
        BY <2>1, <2>2, PassedOn
    <2>4. DocTyped'
        BY <2>1, <2>2, <2>3 DEF DocTyped
    <2>5. RelayedComes'
        BY <2>1, <2>3 DEF RelayedComes, Connected
    <2>6. HeldIsSent'
        BY <2>1, <2>3 DEF HeldIsSent
    <2>7. FramesAreKnown'
        BY <2>1, <2>3 DEF FramesAreKnown
    <2> QED
        BY <2>1, <2>4, <2>5, <2>6, <2>7
<1>11. ASSUME NEW c \in Clients, Disconnect(c) PROVE DocInv'
    <2>1. /\ sock' = [sock EXCEPT ![c] = "closed"] /\ mayWrite' = mayWrite \ {c}
          /\ up' = [up EXCEPT ![c] = <<>>] /\ down' = [down EXCEPT ![c] = <<>>]
          /\ writing' = [writing EXCEPT ![c] = {}] /\ handled' = [handled EXCEPT ![c] = {}]
          /\ greeting' = [greeting EXCEPT ![c] = {}]
          /\ orphaned' \in {orphaned, orphaned \cup handled[c]}
          /\ UNCHANGED <<doc, snapshot, relayed, mayMiss>>
        BY <1>11 DEF Disconnect
    <2>2. handled[c] \subseteq SUBSET Edits
        BY HandHolds DEF DocTyped
    <2>3. DocTyped'
        BY <2>1, <2>2, WithinNone, HandMay DEF DocTyped
    <2>4. /\ sock'[c] = "closed" /\ up'[c] = <<>> /\ down'[c] = <<>>
          /\ writing'[c] = {} /\ handled'[c] = {}
          /\ \A d \in Clients \ {c} :
                /\ sock'[d] = sock[d] /\ up'[d] = up[d] /\ down'[d] = down[d]
                /\ writing'[d] = writing[d] /\ handled'[d] = handled[d]
        BY <2>1 DEF DocTyped
    <2>5. RelayedComes'
        BY <2>1, <2>4 DEF RelayedComes, Connected
    <2>6. HeldIsSent'
        BY <2>1, <2>4 DEF HeldIsSent
    <2>7. FramesAreKnown'
        BY <2>1, <2>4, WithinNone, HandMay DEF FramesAreKnown
    <2> QED
        BY <2>1, <2>3, <2>5, <2>6, <2>7
<1>12. CASE UNCHANGED docVars
    BY <1>12 DEF docVars, writerVars, DocTyped, RelayedComes, HeldIsSent, FramesAreKnown, Connected
<1> QED
    BY <1>1, <1>2, <1>3, <1>4, <1>5, <1>6, <1>7, <1>8, <1>9, <1>10, <1>11, <1>12 DEF DocNext

(* For any number of clients and edits, and queues of any size: of two     *)
(* connected clients with nothing in flight, one lacks what the other, who *)
(* may write, holds, only where the relay passed it on before it joined, or*)
(* dropped it (rooms.py, the doc socket).                                  *)
THEOREM NothingElseIsMissing == DocSpec => []MissingIsOldOrDropped
<1>1. DocInv => MissingIsOldOrDropped
    <2> SUFFICES ASSUME DocInv, NEW c \in Clients, NEW d \in mayWrite, Settled(c), Settled(d)
                 PROVE  doc[d] \ doc[c] \subseteq mayMiss[c]
        BY DEF MissingIsOldOrDropped
    <2>1. relayed \subseteq doc[c] \cup mayMiss[c]
        BY WithinNone, HandMay DEF DocInv, RelayedComes, Settled, Connected
    <2>2. doc[d] \subseteq relayed
        BY WithinNone, HandMay DEF DocInv, HeldIsSent, Settled
    <2> QED
        BY <2>1, <2>2
<1> QED
    BY <1>1, DocStarts, DocStep, PTL DEF DocSpec

-----------------------------------------------------------------------------
(* What the brain, the lessons and the document keep.                      *)

(* The brain's rows, and those an operation is about to write, are entries,*)
(* whatever overlaps (BrainStore).                                         *)
THEOREM KnowledgeTyped == KnowledgeSpec => []KnowledgeTypeOK
<1>1. KnowledgeInv => KnowledgeTypeOK
    BY DEF KnowledgeInv, AllBacked, Backed, KnowledgeTypeOK, AreEntries
<1>2. KnowledgeInit => KnowledgeInv
    BY NothingBacked DEF KnowledgeInit, KnowledgeInv
<1> QED
    BY <1>1, <1>2, KnowledgeStep, PTL DEF KnowledgeSpec

(* What the histories of the lessons are kept in.                          *)
LessonTallies ==
    /\ heardFrom \subseteq Witnesses \cup {Nameless}
    /\ \A k \in Lessons : delivered[k] <= MaxInjections
    /\ outcomes \subseteq Lessons

LEMMA TalliesStep ==
    LessonInv /\ LessonTallies /\ [LessonNext]_lessonVars => LessonTallies'
<1> SUFFICES ASSUME LessonInv, LessonTallies, [LessonNext]_lessonVars PROVE LessonTallies'
    OBVIOUS
<1>1. ASSUME NEW w \in Workers, NEW source \in Witnesses \cup {Nameless},
             Merge(w, source) \/ \E wide \in BOOLEAN : Learn(w, source, wide)
      PROVE  LessonTallies'
    BY <1>1 DEF Learn, Merge, LessonTallies
<1>2. ASSUME NEW w \in Workers, NEW ks \in SUBSET Lessons, InjectLessons(w, ks)
      PROVE  LessonTallies'
    <2>1. /\ delivered' = [k \in Lessons |-> delivered[k] + IF k \in ks THEN 1 ELSE 0]
          /\ \A k \in ks : delivered[k] < MaxInjections
          /\ UNCHANGED <<heardFrom, outcomes>>
        BY <1>2 DEF InjectLessons
    <2>2. \A k \in Lessons : delivered[k] \in Nat
        BY DEF LessonInv
    <2>3. \A k \in Lessons : delivered'[k] <= MaxInjections
        BY <2>1, <2>2, LessonBounds DEF LessonTallies
    <2> QED
        BY <2>1, <2>3 DEF LessonTallies
<1>3. ASSUME NEW w \in Workers, NEW k \in Lessons,
             \/ \E lane \in Witnesses, helped \in BOOLEAN : Outcome(w, k, lane, helped)
             \/ RetireLesson(w, k)
             \/ StoreLesson(w, k)
      PROVE  LessonTallies'
    BY <1>3 DEF Outcome, RetireLesson, StoreLesson, LessonTallies
<1>4. ASSUME NEW w \in Workers, Evict(w) \/ StoreLessonFails(w) PROVE LessonTallies'
    BY <1>4 DEF Evict, StoreLessonFails, LessonTallies
<1>5. CASE UNCHANGED lessonVars
    BY <1>5 DEF lessonVars, LessonTallies
<1> QED
    BY <1>1, <1>2, <1>3, <1>4, <1>5 DEF LessonNext

LEMMA LessonIsTyped == LessonInv /\ LessonTallies => LessonTypeOK
<1> SUFFICES ASSUME LessonInv, LessonTallies PROVE LessonTypeOK
    OBVIOUS
<1>1. delivered \in [Lessons -> 0 .. MaxInjections]
    BY LessonBounds DEF LessonInv, LessonTallies
<1>2. AreLessons(lesson) /\ \A w \in Workers : AreLessons(writes[w])
    BY DEF LessonInv, AllJudged, Judged, AreLessons
<1> QED
    BY <1>1, <1>2 DEF LessonInv, LessonTallies, LessonTypeOK

LEMMA LessonsStart == LessonInit => LessonInv /\ LessonTallies
BY NoneJudged, LessonBounds DEF LessonInit, LessonInv, LessonTallies

(* Lessons, and those about to be written, are lessons, and no more are    *)
(* counted as delivered than there were injections (LessonStore).          *)
THEOREM LessonsTyped == LessonSpec => []LessonTypeOK
BY LessonsStart, LessonStep, TalliesStep, LessonIsTyped, PTL DEF LessonSpec

(* Who writes frames for a socket, or has a notice due, is connected, and  *)
(* no queue is longer than it may be.                                      *)
DocBounded ==
    /\ mayWrite \subseteq Connected /\ pumping \subseteq Connected
    /\ lagged \subseteq Connected /\ noticed \subseteq Connected
    /\ \A c \in Clients : Len(down[c]) <= FrameMax

LEMMA DocBoundedStep == DocInv /\ DocBounded /\ [DocNext]_docVars => DocBounded'
<1> SUFFICES ASSUME DocInv, DocBounded, [DocNext]_docVars PROVE DocBounded'
    OBVIOUS
<1>1. /\ sock \in [Clients -> {"closed", "joined", "greeted", "ready"}]
      /\ down \in [Clients -> Queues]
      /\ \A c \in Clients : Len(down[c]) \in Nat /\ down[c] \in Seq(SUBSET Edits)
      /\ FrameMax \in Nat /\ FrameMax > 0
    BY FramesAreQueued DEF DocInv, DocTyped, Queues
<1>2. ASSUME UNCHANGED <<sock, down, mayWrite>>, pumping' \subseteq pumping,
             lagged' \subseteq lagged, noticed' \subseteq noticed
      PROVE  DocBounded'
    BY <1>2 DEF DocBounded, Connected
<1>3. ASSUME NEW c \in Clients, \/ \E e \in Edits : Edit(c, e)
                                \/ FrameWritten(c) \/ FrameLost(c)
                                \/ Refuse(c) \/ SaveUpdate(c)
      PROVE  DocBounded'
    BY <1>2, <1>3 DEF Edit, FrameWritten, FrameLost, Refuse, SaveUpdate, writerVars
<1>4. ASSUME NEW c \in Clients, Join(c) \/ SendHello(c) \/ TakeHello(c) PROVE DocBounded'
    <2>1. /\ Connected' = Connected \cup {c} /\ UNCHANGED <<down, lagged, noticed>>
          /\ mayWrite' \subseteq mayWrite \cup {c} /\ pumping' \subseteq pumping \cup {c}
        BY <1>1, <1>4 DEF Join, SendHello, TakeHello, Connected, writerVars
    <2> QED
        BY <2>1 DEF DocBounded
<1>5. ASSUME NEW c \in Clients, WriteFrame(c) PROVE DocBounded'
    <2>1. /\ c \in pumping /\ UNCHANGED <<sock, mayWrite, pumping>>
          /\ lagged' \subseteq lagged /\ noticed' \subseteq noticed \cup {c}
          /\ down[c] # <<>> /\ down' = [down EXCEPT ![c] = Tail(@)]
        BY <1>5 DEF WriteFrame
    <2>2. \A d \in Clients : Len(down'[d]) <= FrameMax
        BY <1>1, <2>1 DEF DocBounded
    <2> QED
        BY <2>1, <2>2 DEF DocBounded, Connected
<1>6. ASSUME NEW update, NEW to \in SUBSET Connected, PassOn(update, to),
             UNCHANGED <<sock, mayWrite>>
      PROVE  DocBounded'
    <2> DEFINE full == {d \in to : Len(down[d]) >= FrameMax}
               evicting == full \ noticed
    <2>1. \A d \in Clients : down'[d] = CASE d \in evicting -> Append(Tail(down[d]), {})
                                          [] d \in to \ full -> Append(down[d], update)
                                          [] OTHER -> down[d]
        BY <1>6 DEF PassOn
    <2>2. ASSUME NEW d \in Clients PROVE Len(down'[d]) <= FrameMax
        <3>1. CASE d \in evicting
            <4>1. Len(down[d]) >= FrameMax /\ Len(down[d]) <= FrameMax
                BY <3>1 DEF DocBounded
            <4>2. down[d] \in Seq(SUBSET Edits) /\ down[d] # <<>>
                BY <1>1, <4>1
            <4>3. down'[d] = Append(Tail(down[d]), {})
                BY <2>1, <3>1
            <4>4. Len(down'[d]) = Len(down[d])
                BY <4>2, <4>3
            <4> QED
                BY <4>1, <4>4
        <3>2. CASE d \in to \ full
            <4>1. ~(Len(down[d]) >= FrameMax) /\ d \notin evicting
                BY <3>2
            <4>2. down'[d] = Append(down[d], update)
                BY <2>1, <3>2, <4>1
            <4>3. Len(down'[d]) = Len(down[d]) + 1
                BY <1>1, <4>2
            <4> QED
                BY <1>1, <4>1, <4>3
        <3>3. CASE d \notin evicting /\ d \notin to \ full
            BY <2>1, <3>3 DEF DocBounded
        <3> QED
            BY <3>1, <3>2, <3>3
    <2>3. /\ lagged' \subseteq lagged \cup to /\ noticed' \subseteq noticed \cup to
          /\ UNCHANGED pumping
        BY <1>6 DEF PassOn
    <2> QED
        BY <1>6, <2>2, <2>3 DEF DocBounded, Connected
<1>7. ASSUME NEW c \in Clients, PublishEdit(c) PROVE DocBounded'
    BY <1>6, <1>7 DEF PublishEdit
<1>8. ASSUME NEW update \in orphaned, PublishOrphan(update) PROVE DocBounded'
    BY <1>6, <1>8 DEF PublishOrphan
<1>9. ASSUME NEW c \in Clients, Disconnect(c) PROVE DocBounded'
    <2>1. /\ Connected' = Connected \ {c}
          /\ mayWrite' = mayWrite \ {c} /\ pumping' = pumping \ {c}
          /\ lagged' = lagged \ {c} /\ noticed' = noticed \ {c}
          /\ down' = [down EXCEPT ![c] = <<>>]
        BY <1>1, <1>9 DEF Disconnect, Connected
    <2> QED
        BY <1>1, <2>1 DEF DocBounded
<1>10. CASE UNCHANGED docVars
    BY <1>2, <1>10 DEF docVars, writerVars
<1> QED
    BY <1>3, <1>4, <1>5, <1>7, <1>8, <1>9, <1>10 DEF DocNext

LEMMA DocIsTyped == DocInv /\ DocBounded => DocTypeOK
<1> SUFFICES ASSUME DocInv, DocBounded PROVE DocTypeOK
    OBVIOUS
<1>1. ASSUME NEW c \in Clients
      PROVE  /\ \A n \in DOMAIN up[c] : up[c][n] \subseteq Edits
             /\ \A n \in DOMAIN down[c] : down[c][n] \subseteq Edits
    <2>1. up[c] \in Seq(SUBSET Edits) /\ down[c] \in Seq(SUBSET Edits)
        BY DEF DocInv, DocTyped, Queues
    <2>2. \A n \in DOMAIN up[c] : up[c][n] \in SUBSET Edits
        BY <2>1
    <2>3. \A n \in DOMAIN down[c] : down[c][n] \in SUBSET Edits
        BY <2>1
    <2> QED
        BY <2>2, <2>3
<1>2. InHand \subseteq SUBSET SUBSET Edits
    BY DEF InHand
<1>3. handled \in [Clients -> SUBSET SUBSET Edits] /\ writing \in [Clients -> SUBSET SUBSET Edits]
    BY <1>2 DEF DocInv, DocTyped
<1> QED
    BY <1>1, <1>3 DEF DocInv, DocTyped, DocBounded, DocTypeOK

LEMMA DocBoundedStarts == DocInit => DocBounded
BY FramesAreQueued DEF DocInit, DocBounded

(* However many clients come and go: no queue of the room exceeds its      *)
(* bound, and nothing is kept of a socket that is closed (_doc_socket, Hub)*)
THEOREM DocumentTyped == DocSpec => []DocTypeOK
BY DocStarts, DocStep, DocBoundedStarts, DocBoundedStep, DocIsTyped, PTL DEF DocSpec

-----------------------------------------------------------------------------
(* What the radar keeps.                                                   *)

(* The requests that have begun to scan, or to do without.                 *)
Begun == {r \in RadarCalls : Phase(r) \notin {"none", "read"}}

(* Each counts for one scan at most, and nothing was looked at later than  *)
(* in the last.                                                            *)
ScansBounded ==
    /\ intents \in [RadarLanes -> (SUBSET Paths) \cup {NoIntent}]
    /\ scanCount <= Cardinality(Begun)
    /\ \A pair \in Pairs :
        /\ looked[pair] <= scanCount
        /\ \A r \in RadarCalls : scan[r].seen[pair] <= scanCount

(* A step that begins no scan keeps the bounds.                            *)
LEMMA NoScanBegins ==
    ASSUME ScansBounded, UNCHANGED <<intents, scanCount>>,
           \A r \in RadarCalls :
                Phase(r)' \in {"none", "read"} <=> Phase(r) \in {"none", "read"},
           \A pair \in Pairs :
                /\ looked'[pair] <= scanCount
                /\ \A r \in RadarCalls : scan'[r].seen[pair] <= scanCount
    PROVE  ScansBounded'
<1>1. Begun' = Begun
    BY DEF Begun
<1> QED
    BY <1>1 DEF ScansBounded

LEMMA ScansBoundedStep ==
    RadarInv /\ ScansBounded /\ [RadarNext]_radarVars => ScansBounded'
<1> SUFFICES ASSUME RadarInv, ScansBounded, [RadarNext]_radarVars PROVE ScansBounded'
    OBVIOUS
<1>1. /\ scanCount \in Nat /\ scan \in [RadarCalls -> Scans] /\ looked \in [Pairs -> Nat]
      /\ \A r \in RadarCalls : scan[r] \in Scans /\ scan[r].seen \in [Pairs -> Nat]
    BY DEF RadarInv, RadarTyped, Scans
<1>2. \A pair \in Pairs :
        /\ looked[pair] <= scanCount
        /\ \A r \in RadarCalls : scan[r].seen[pair] <= scanCount
    BY DEF ScansBounded
<1>3. ASSUME NEW r \in RadarCalls, NEW op \in {"scan", "intents"}, NEW session \in Sessions,
             ReadRecords(r, op, session)
      PROVE  ScansBounded'
    <2>1. PICK read : scan' = [scan EXCEPT ![r].at = "read", ![r].op = op, ![r].read = read]
        BY <1>3 DEF ReadRecords
    <2>2. /\ \A q \in RadarCalls : scan'[q].seen = scan[q].seen
          /\ \A q \in RadarCalls \ {r} : scan'[q] = scan[q]
          /\ scan'[r].at = "read" /\ scan[r].at = "none"
        BY <1>1, <1>3, <2>1 DEF Scans, ReadRecords, Phase
    <2>3. UNCHANGED <<intents, scanCount, looked>>
        BY <1>3 DEF ReadRecords
    <2> QED
        BY <1>2, <2>2, <2>3, NoScanBegins DEF Phase
<1>4. ASSUME NEW r \in RadarCalls, Refresh(r) PROVE ScansBounded'
    <2> DEFINE read == scan[r].read
               changed == {l \in RadarLanes : intents'[l] # intents[l]}
               known == {l \in RadarLanes : intents'[l] # NoIntent}
               scans == scan[r].op = "scan"
               kept(q) == [pair \in Pairs |->
                            IF pair \cap changed # {} THEN 0 ELSE scan[q].seen[pair]]
    <2>1. read \in Reads
        BY <1>1 DEF Scans
    <2>2. \A l \in DOMAIN read : read[l] \in SUBSET Paths
        <3>1. PICK T \in {[S -> SUBSET Paths] : S \in SUBSET RadarLanes} : read \in T
            BY <2>1, Zenon DEF Reads
        <3>2. PICK S \in SUBSET RadarLanes : T = [S -> SUBSET Paths]
            OBVIOUS
        <3> QED
            BY <3>1, <3>2
    <2>3. intents' \in [RadarLanes -> (SUBSET Paths) \cup {NoIntent}]
        <3>1. SetIntents(read)
            BY <1>4 DEF Refresh
        <3> HIDE DEF read
        <3> QED
            BY <2>2, <3>1 DEF SetIntents, ScansBounded
    <2>4. Phase(r) = "read" /\ HistoryOf(changed)
          /\ scanCount' = (IF scans THEN scanCount + 1 ELSE scanCount)
        BY <1>4 DEF Refresh
    <2>5. scan' = [q \in RadarCalls |->
                    IF q = r
                    THEN [scan[q] EXCEPT
                            !.at = IF scans THEN "scanning" ELSE "done",
                            !.read = [l \in {} |-> {}],
                            !.todo = IF scans THEN Pairs \cap SUBSET known ELSE {}]
                    ELSE [scan[q] EXCEPT !.seen = kept(q)]]
        BY <1>4 DEF Refresh
    <2> HIDE DEF changed, known, scans, kept, read
    <2>6. \A q \in RadarCalls \ {r} : scan'[q].seen = kept(q) /\ scan'[q].at = scan[q].at
        BY <1>1, <2>5 DEF Scans
    <2>7. scan'[r].seen = scan[r].seen /\ scan'[r].at \in {"scanning", "done"}
        BY <1>1, <2>5 DEF Scans
    <2>8. scanCount' <= scanCount + 1 /\ scanCount' >= scanCount /\ scanCount' \in Nat
        BY <1>1, <2>4
    <2>9. ASSUME NEW pair \in Pairs
          PROVE  /\ looked'[pair] <= scanCount'
                 /\ \A q \in RadarCalls : scan'[q].seen[pair] <= scanCount'
        <3>1. looked'[pair] \in {0, looked[pair]}
            BY <2>4 DEF HistoryOf
        <3>2. \A q \in RadarCalls : scan'[q].seen[pair] \in {0, scan[q].seen[pair]}
            <4>1. \A q \in RadarCalls : kept(q)[pair] \in {0, scan[q].seen[pair]}
                BY DEF kept
            <4> QED
                BY <2>6, <2>7, <4>1
        <3>3. looked[pair] \in Nat /\ \A q \in RadarCalls : scan[q].seen[pair] \in Nat
            BY <1>1
        <3> QED
            BY <1>1, <1>2, <2>8, <3>1, <3>2, <3>3
    <2>10. Begun' = Begun \cup {r} /\ r \notin Begun
        BY <2>4, <2>6, <2>7 DEF Begun, Phase
    <2>11. IsFiniteSet(Begun) /\ Cardinality(Begun) \in Nat
        BY FS_Subset, FS_CardinalityType, RadarAssumption DEF Begun
    <2>12. Cardinality(Begun') = Cardinality(Begun) + 1
        BY <2>10, <2>11, FS_AddElement
    <2>13. scanCount <= Cardinality(Begun)
        BY DEF ScansBounded
    <2>14. scanCount' <= Cardinality(Begun')
        BY <1>1, <2>8, <2>11, <2>12, <2>13
    <2> QED
        BY <2>3, <2>9, <2>14 DEF ScansBounded
<1>5. ASSUME NEW r \in RadarCalls, NEW k, NEW next, Found(r, k, next) \/ FoundNone(r, next),
             next.at = scan[r].at, \A pair \in Pairs : next.seen[pair] <= scanCount,
             next \in Scans, k \in Conflicts
      PROVE  ScansBounded'
    <2>1. PICK to : /\ scan' = [scan EXCEPT ![r] = to]
                    /\ to.at = next.at /\ to.seen = next.seen
        <3> DEFINE told == [next EXCEPT !.fresh = Append(@, k)]
        <3>1. told.at = next.at /\ told.seen = next.seen
            BY <1>5 DEF Scans
        <3>2. \/ scan' = [scan EXCEPT ![r] = told]
              \/ scan' = [scan EXCEPT ![r] = next]
            BY <1>5 DEF Found, FoundNone
        <3> HIDE DEF told
        <3> QED
            BY <3>1, <3>2
    <2>2. scan'[r] = to /\ \A q \in RadarCalls \ {r} : scan'[q] = scan[q]
        BY <1>1, <2>1
    <2>3. UNCHANGED <<intents, scanCount, looked>>
        BY <1>5 DEF Found, FoundNone
    <2>4. \A q \in RadarCalls : Phase(q)' = Phase(q)
        BY <1>5, <2>1, <2>2 DEF Phase
    <2>5. \A pair \in Pairs, q \in RadarCalls : scan'[q].seen[pair] <= scanCount
        BY <1>2, <1>5, <2>1, <2>2
    <2> QED
        BY <1>2, <2>3, <2>4, <2>5, NoScanBegins
<1>6. ASSUME NEW r \in RadarCalls, NEW pair \in Pairs, LookAt(r, pair) PROVE ScansBounded'
    <2> DEFINE next == [scan[r] EXCEPT !.todo = @ \ {pair}, !.seen[pair] = scanCount]
               asked == [next EXCEPT !.judging = pair]
    <2>1. /\ next \in Scans /\ next.at = scan[r].at
          /\ next.seen = [scan[r].seen EXCEPT ![pair] = scanCount]
        BY <1>1 DEF Scans
    <2>2. /\ asked \in Scans /\ asked.at = scan[r].at
          /\ asked.seen = [scan[r].seen EXCEPT ![pair] = scanCount]
        BY <2>1 DEF Scans
    <2>3. \/ Found(r, Collision(pair), next)
          \/ FoundNone(r, next) \/ FoundNone(r, asked)
        BY <1>6 DEF LookAt, Collision
    <2>4. \A p \in Pairs : [scan[r].seen EXCEPT ![pair] = scanCount][p] <= scanCount
        BY <1>1, <1>2
    <2>5. Collision(pair) \in Conflicts
        BY CollisionIsConflict
    <2> HIDE DEF next, asked
    <2> QED
        BY <1>5, <2>1, <2>2, <2>3, <2>4, <2>5
<1>7. ASSUME NEW r \in RadarCalls, Verdict(r) PROVE ScansBounded'
    <2> DEFINE next == [scan[r] EXCEPT !.judging = {}]
               k == [pair |-> scan[r].judging, files |-> {}]
    <2>1. next \in Scans /\ next.at = scan[r].at /\ next.seen = scan[r].seen
        BY <1>1 DEF Scans
    <2>2. k \in Conflicts
        BY <1>1, <1>7 DEF Verdict, Conflicts, Scans
    <2>3. FoundNone(r, next) \/ Found(r, k, next)
        BY <1>7 DEF Verdict
    <2> HIDE DEF next, k
    <2> QED
        BY <1>2, <1>5, <2>1, <2>2, <2>3
<1>8. ASSUME NEW r \in RadarCalls, Announce(r) \/ AnnounceFails(r) \/ ScanReturns(r)
      PROVE  ScansBounded'
    <2>1. /\ scan[r].at = "scanning"
          /\ scan'[r].seen = scan[r].seen /\ scan'[r].at \in {"scanning", "done", "failed"}
          /\ \A q \in RadarCalls \ {r} : scan'[q] = scan[q]
        <3>1. CASE Announce(r)
            BY <1>1, <3>1 DEF Announce, LookedAll, Phase, Scans
        <3>2. CASE AnnounceFails(r)
            BY <1>1, <3>2 DEF AnnounceFails, LookedAll, Phase, Scans
        <3>3. CASE ScanReturns(r)
            BY <1>1, <3>3 DEF ScanReturns, LookedAll, Phase, Scans
        <3> QED
            BY <1>8, <3>1, <3>2, <3>3
    <2>2. \A q \in RadarCalls : Phase(q)' \in {"none", "read"} <=> Phase(q) \in {"none", "read"}
        BY <2>1 DEF Phase
    <2>3. \A pair \in Pairs : looked'[pair] \in {looked[pair], scan[r].seen[pair]}
        BY <1>1, <1>8 DEF Announce, AnnounceFails, ScanReturns
    <2>4. UNCHANGED <<intents, scanCount>>
        BY <1>8 DEF Announce, AnnounceFails, ScanReturns
    <2>5. \A q \in RadarCalls : scan'[q].seen = scan[q].seen
        BY <2>1
    <2> QED
        BY <1>2, <2>2, <2>3, <2>4, <2>5, NoScanBegins
<1>9. CASE UNCHANGED radarVars
    BY <1>2, <1>9, NoScanBegins DEF radarVars, Phase
<1> QED
    BY <1>3, <1>4, <1>6, <1>7, <1>8, <1>9 DEF RadarNext

LEMMA ScansBoundedStarts == RadarInit => ScansBounded
<1> SUFFICES ASSUME RadarInit PROVE ScansBounded
    OBVIOUS
<1>1. Begun = {}
    <2>1. \A r \in RadarCalls : Phase(r) = "none"
        BY DEF RadarInit, Phase
    <2> QED
        BY <2>1 DEF Begun
<1>2. scanCount = 0 /\ Cardinality(Begun) = 0
    BY <1>1, FS_EmptySet DEF RadarInit
<1>3. \A r \in RadarCalls : scan[r].seen = [pair \in Pairs |-> 0]
    BY DEF RadarInit
<1>4. \A pair \in Pairs : \A r \in RadarCalls : scan[r].seen[pair] = 0
    BY <1>3
<1>5. \A pair \in Pairs : looked[pair] = 0
    BY DEF RadarInit
<1>6. intents \in [RadarLanes -> (SUBSET Paths) \cup {NoIntent}]
    <2>1. intents = [l \in RadarLanes |-> NoIntent]
        BY DEF RadarInit
    <2> QED
        BY <2>1
<1> QED
    BY <1>2, <1>4, <1>5, <1>6 DEF ScansBounded

LEMMA RadarIsTyped == RadarInv /\ ScansBounded => RadarTypeOK
<1> SUFFICES ASSUME RadarInv, ScansBounded PROVE RadarTypeOK
    OBVIOUS
<1>1. /\ scanCount \in Nat /\ announced \in [Conflicts -> Nat] /\ looked \in [Pairs -> Nat]
      /\ scan \in [RadarCalls -> Scans]
      /\ \A k \in Conflicts : announced[k] <= scanCount
    BY DEF RadarInv, RadarTyped
<1>2. scanCount \in 0..Cardinality(RadarCalls)
    <2>1. /\ Begun \subseteq RadarCalls /\ IsFiniteSet(RadarCalls)
          /\ scanCount <= Cardinality(Begun)
        BY RadarAssumption DEF Begun, ScansBounded
    <2>2. /\ IsFiniteSet(Begun) /\ Cardinality(Begun) <= Cardinality(RadarCalls)
        BY <2>1, FS_Subset
    <2>3. Cardinality(Begun) \in Nat /\ Cardinality(RadarCalls) \in Nat
        BY <2>1, <2>2, FS_CardinalityType
    <2> QED
        BY <1>1, <2>1, <2>2, <2>3
<1>3. announced \in [Conflicts -> 0..scanCount] /\ looked \in [Pairs -> 0..scanCount]
    BY <1>1 DEF ScansBounded
<1>4. ASSUME NEW r \in RadarCalls
      PROVE  /\ Phase(r) \in {"none", "read", "scanning", "done", "failed"}
             /\ scan[r].todo \subseteq Pairs
             /\ scan[r].judging \in Pairs \cup {{}}
             /\ Pending(r) \subseteq Conflicts
             /\ scan[r].seen \in [Pairs -> 0..scanCount]
    <2>1. scan[r] \in Scans
        BY <1>1
    <2>2. scan[r].fresh \in Seq(Conflicts) /\ scan[r].seen \in [Pairs -> Nat]
        BY <2>1 DEF Scans
    <2>3. Pending(r) \subseteq Conflicts
        BY <2>2 DEF Pending
    <2>4. scan[r].seen \in [Pairs -> 0..scanCount]
        BY <1>1, <2>2 DEF ScansBounded
    <2> QED
        BY <2>1, <2>3, <2>4 DEF Scans, Phase
<1> QED
    BY <1>2, <1>3, <1>4 DEF RadarInv, RadarTyped, ScansBounded, RadarTypeOK

(* However many scans overlap: what the radar remembers is of scans it has *)
(* counted, at most one for each request (Radar.scan).                     *)
THEOREM RadarsTyped == RadarSpec => []RadarTypeOK
BY RadarStarts, RadarStep, ScansBoundedStarts, ScansBoundedStep, RadarIsTyped, PTL DEF RadarSpec

-----------------------------------------------------------------------------
(* The daemon's bookkeeping as a whole.                                    *)

(* The components move one at a time.                                      *)
LEMMA WorkspaceParts ==
    WorkspaceSpec =>
        /\ PlanSpec /\ ClaimsSpec /\ KnowledgeSpec /\ LessonSpec /\ LedgerSpec
        /\ RadarSpec /\ DocSpec
<1>1. WorkspaceInit =>
        /\ PlanInit /\ ClaimsInit /\ KnowledgeInit /\ LessonInit /\ LedgerInit
        /\ RadarInit /\ DocInit
    BY DEF WorkspaceInit
<1>2. [WorkspaceNext]_workspaceVars =>
        /\ [PlanNext]_planVars /\ [ClaimsNext]_claimVars /\ [KnowledgeNext]_knowledgeVars
        /\ [LessonNext]_lessonVars /\ [LedgerNext]_ledgerVars
        /\ [RadarNext]_radarVars /\ [DocNext]_docVars
    BY DEF WorkspaceNext, OnlyPart, workspaceVars
<1> QED
    BY <1>1, <1>2, PTL
        DEF WorkspaceSpec, PlanSpec, ClaimsSpec, KnowledgeSpec, LessonSpec, LedgerSpec,
            RadarSpec, DocSpec

(* What the daemon keeps in its database and its memory stays of its type, *)
(* for any commands, lanes, sessions and clients.                          *)
THEOREM WorkspaceTyped == WorkspaceSpec => []WorkspaceTypeOK
<1>1. /\ PlanTypeOK /\ ClaimsTypeOK /\ KnowledgeTypeOK /\ LessonTypeOK /\ LedgerTypeOK
      /\ RadarTypeOK /\ DocTypeOK
      => WorkspaceTypeOK
    BY DEF WorkspaceTypeOK
<1> QED
    BY <1>1, WorkspaceParts, PlansTyped, ClaimsTyped, KnowledgeTyped, LessonsTyped,
        LedgerTyped, RadarsTyped, DocumentTyped, PTL
=============================================================================
