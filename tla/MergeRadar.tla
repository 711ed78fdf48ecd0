----------------------------- MODULE MergeRadar ------------------------------
(***************************************************************************)
(* The radar: what each lane means to touch, and the conflicts announced.  *)
(*                                                                         *)
(* The daemon keeps one radar for all sessions.  A request reads the       *)
(* records of its session's lanes, sets their intents, and, if it is a     *)
(* scan, looks at every pair of lanes it knows of.  A conflict is          *)
(* remembered when it is found, so that it is not announced again, and     *)
(* announced when all pairs were looked at, event by event.                *)
(*                                                                         *)
(* An intent is a set of files.  Directories, symbols and steps only       *)
(* decide which other pairs the judge is asked about: it may find a        *)
(* conflict between any two lanes that share no file.  Pairs are looked at *)
(* one by one in any order; the code goes by name and pauses only for the  *)
(* judge, so it does less.  Rows of lanes are never removed, nor are lanes *)
(* from the radar.                                                         *)
(***************************************************************************)
EXTENDS Naturals, Sequences, FiniteSets

CONSTANTS
    RadarLanes,            \* lanes with rows in the database
    SessionOf,          \* the session of each
    Sessions,
    Paths,
    RadarCalls,         \* requests radar.scan and radar.intents
    ReannounceAfter,
    NoIntent

ASSUME RadarAssumption ==
    /\ SessionOf \in [RadarLanes -> Sessions]
    /\ ReannounceAfter \in Nat \ {0}
    /\ IsFiniteSet(RadarCalls)

Pairs == {pair \in SUBSET RadarLanes : Cardinality(pair) = 2}
Conflicts == [pair : Pairs, files : SUBSET Paths]  \* no files: the judge's word

VARIABLES
    intents,            \* intents the radar knows
    announced,          \* the scan at which each conflict was remembered, 0: none
    scanCount,
    scan,               \* each request: where it is and what it holds
    said,               \* conflicts in the log since both intents are what they are
    swallowed,          \* conflicts remembered by a scan that failed to log them
    looked              \* the last look at each pair, intents being what they are,
                        \* by a scan that has returned

radarVars == <<intents, announced, scanCount, scan, said, swallowed, looked>>

Phase(r) == scan[r].at
TrackedLanes == {l \in RadarLanes : intents[l] # NoIntent}
SharedFiles(pair) == {f \in Paths : \A l \in pair : f \in intents[l]}

-----------------------------------------------------------------------------
RadarInit ==
    /\ intents = [l \in RadarLanes |-> NoIntent]
    /\ announced = [k \in Conflicts |-> 0]
    /\ scanCount = 0
    /\ scan = [r \in RadarCalls |->
                [at |-> "none", op |-> "scan", read |-> [l \in {} |-> {}], todo |-> {},
                 judging |-> {}, fresh |-> <<>>, seen |-> [pair \in Pairs |-> 0]]]
    /\ said = {} /\ swallowed = {}
    /\ looked = [pair \in Pairs |-> 0]

(* The rows of the session's lanes are read: claims and plan steps, which  *)
(* may have changed in any way since they were last read ...               *)
ReadRecords(r, op, session) ==
    /\ Phase(r) = "none"
    /\ \E read \in [{l \in RadarLanes : SessionOf[l] = session} -> SUBSET Paths] :
        scan' = [scan EXCEPT ![r].at = "read", ![r].op = op, ![r].read = read]
    /\ UNCHANGED <<intents, announced, scanCount, said, swallowed, looked>>

Touches(k, lanes) == k.pair \cap lanes # {}

(* Mutant of the step below: what was announced stays so.                  *)
SetIntentsOnly(read) ==
    /\ intents' = [l \in RadarLanes |-> IF l \in DOMAIN read THEN read[l] ELSE intents[l]]
    /\ UNCHANGED announced

(* set_intent of every lane: one whose files are others than before is     *)
(* forgotten, that is, may be announced anew.                              *)
SetIntents(read) ==
    LET changed == {l \in DOMAIN read : intents[l] # read[l]} IN
    /\ intents' = [l \in RadarLanes |-> IF l \in changed THEN read[l] ELSE intents[l]]
    /\ announced' = [k \in Conflicts |-> IF Touches(k, changed) THEN 0 ELSE announced[k]]

(* What was said or looked at counts for the intents of its time.          *)
HistoryOf(changed) ==
    /\ said' = {k \in said : ~Touches(k, changed)}
    /\ swallowed' = {k \in swallowed : ~Touches(k, changed)}
    /\ looked' = [pair \in Pairs |-> IF pair \cap changed # {} THEN 0 ELSE looked[pair]]

(* ... and set, without a pause before the scan begins.                    *)
Refresh(r) ==
    /\ Phase(r) = "read"
    /\ SetIntents(scan[r].read)
    /\ LET scans == scan[r].op = "scan"
           changed == {l \in RadarLanes : intents'[l] # intents[l]}
           known == {l \in RadarLanes : intents'[l] # NoIntent}
       IN  /\ HistoryOf(changed)
           /\ scanCount' = IF scans THEN scanCount + 1 ELSE scanCount
           /\ scan' = [q \in RadarCalls |->
                LET kept == [pair \in Pairs |->
                                IF pair \cap changed # {} THEN 0 ELSE scan[q].seen[pair]]
                IN  IF q = r
                    THEN [scan[q] EXCEPT
                            !.at = IF scans THEN "scanning" ELSE "done",
                            !.read = [l \in {} |-> {}],
                            !.todo = IF scans THEN Pairs \cap SUBSET known ELSE {}]
                    ELSE [scan[q] EXCEPT !.seen = kept]]

-----------------------------------------------------------------------------
(* _is_new: a conflict is remembered, unless it was not long ago.          *)
Due(k) == announced[k] = 0 \/ scanCount - announced[k] >= ReannounceAfter

Found(r, k, at) ==
    /\ IF Due(k)
       THEN /\ announced' = [announced EXCEPT ![k] = scanCount]
            /\ said' = said \ {k} /\ swallowed' = swallowed \ {k}
            /\ scan' = [scan EXCEPT ![r] = [at EXCEPT !.fresh = Append(@, k)]]
       ELSE scan' = [scan EXCEPT ![r] = at] /\ UNCHANGED <<announced, said, swallowed>>
    /\ UNCHANGED <<intents, scanCount, looked>>

FoundNone(r, at) ==
    /\ scan' = [scan EXCEPT ![r] = at]
    /\ UNCHANGED <<intents, announced, scanCount, said, swallowed, looked>>

(* The same file is a conflict; of other pairs the judge may be asked.     *)
LookAt(r, pair) ==
    LET next == [scan[r] EXCEPT !.todo = @ \ {pair}, !.seen[pair] = scanCount] IN
    /\ Phase(r) = "scanning" /\ scan[r].judging = {} /\ pair \in scan[r].todo
    /\ IF SharedFiles(pair) # {}
       THEN Found(r, [pair |-> pair, files |-> SharedFiles(pair)], next)
       ELSE \/ FoundNone(r, next)
            \/ FoundNone(r, [next EXCEPT !.judging = pair])

(* The judge answers for the intents it was asked about.                   *)
Verdict(r) ==
    LET next == [scan[r] EXCEPT !.judging = {}] IN
    /\ scan[r].judging # {}
    /\ \/ FoundNone(r, next)
       \/ Found(r, [pair |-> scan[r].judging, files |-> {}], next)

LookedAll(r) == Phase(r) = "scanning" /\ scan[r].todo = {} /\ scan[r].judging = {}

(* radar.conflict is emitted, the flags it raises with it.                 *)
Announce(r) ==
    /\ LookedAll(r) /\ scan[r].fresh # <<>>
    /\ said' = said \cup {Head(scan[r].fresh)}
    /\ scan' = [scan EXCEPT ![r].fresh = Tail(@)]
    /\ UNCHANGED <<intents, announced, scanCount, swallowed, looked>>

Pending(r) == {scan[r].fresh[n] : n \in DOMAIN scan[r].fresh}

(* An emit raises, and the request with it.                                *)
AnnounceFails(r) ==
    /\ LookedAll(r)
    /\ swallowed' = swallowed \cup Pending(r)
    /\ scan' = [scan EXCEPT ![r].at = "failed", ![r].fresh = <<>>]
    /\ UNCHANGED <<intents, announced, scanCount, said, looked>>

ScanReturns(r) ==
    /\ LookedAll(r) /\ scan[r].fresh = <<>>
    /\ looked' = [pair \in Pairs |->
                    IF scan[r].seen[pair] > looked[pair] THEN scan[r].seen[pair]
                    ELSE looked[pair]]
    /\ scan' = [scan EXCEPT ![r].at = "done"]
    /\ UNCHANGED <<intents, announced, scanCount, said, swallowed>>

RadarNext ==
    \/ \E r \in RadarCalls :
        \/ \E op \in {"scan", "intents"}, session \in Sessions : ReadRecords(r, op, session)
        \/ Refresh(r) \/ \E pair \in Pairs : LookAt(r, pair)
        \/ Verdict(r) \/ Announce(r) \/ AnnounceFails(r) \/ ScanReturns(r)

RadarSpec == RadarInit /\ [][RadarNext]_radarVars

-----------------------------------------------------------------------------
RadarTypeOK ==
    /\ intents \in [RadarLanes -> (SUBSET Paths) \cup {NoIntent}]
    /\ announced \in [Conflicts -> 0..scanCount]
    /\ scanCount \in 0..Cardinality(RadarCalls)
    /\ \A r \in RadarCalls :
        /\ Phase(r) \in {"none", "read", "scanning", "done", "failed"}
        /\ scan[r].todo \subseteq Pairs
        /\ scan[r].judging \in Pairs \cup {{}}
        /\ Pending(r) \subseteq Conflicts
        /\ scan[r].seen \in [Pairs -> 0..scanCount]
    /\ said \subseteq Conflicts /\ swallowed \subseteq Conflicts
    /\ looked \in [Pairs -> 0..scanCount]

(* Once a scan that looked at two lanes has returned, and their intents    *)
(* are what they were, the log says that they share files; unless another  *)
(* scan is about to say so, or failed before it could: then the conflict   *)
(* is passed over in silence, but for no more than ReannounceAfter scans.  *)
KnownCollisionSaid ==
    \A pair \in Pairs : looked[pair] > 0 /\ SharedFiles(pair) # {} =>
        LET k == [pair |-> pair, files |-> SharedFiles(pair)] IN
        \/ k \in said
        \/ \E r \in RadarCalls : k \in Pending(r)
        \/ k \in swallowed /\ looked[pair] < announced[k] + ReannounceAfter
=============================================================================
