------------------------ MODULE SessionRecoveryProofs ------------------------
(***************************************************************************)
(* Proofs about SessionRecovery, for any set of lanes and requests and any *)
(* number of checkpoints and lives of the daemon, and about                *)
(* SessionRegistry, for any set of calls.                                  *)
(***************************************************************************)
EXTENDS SessionRecovery, SessionRegistry, FiniteSetTheorems, WellFoundedInduction, TLAPS

-----------------------------------------------------------------------------
(* The inductive invariant.                                                *)

(* A lane's next number is above those it has, and no number is above the  *)
(* count of checkpoints: this is what bounds them.                         *)
Numbered ==
    /\ \A i \in Indices : checkpoints[i].sequence <= i
    /\ taking # NotTaking =>
        /\ taking.lane \in Lanes
        /\ taking.sequence \in 1..Len(checkpoints) + 1
        /\ Len(checkpoints) < MaxCheckpoints
        /\ \A i \in Indices :
            checkpoints[i].lane = taking.lane => checkpoints[i].sequence < taking.sequence

(* What a request still has before it was used in this life of the daemon  *)
(* or not at all; what a lane was started from was used in the lane's life.*)
UsedInLife ==
    /\ life # 0
    /\ \A r \in Requests : \A i \in resume[r].todo : checkpoints[i].consumedIn \in {0, life}
    /\ \A r \in Requests : resume[r].pc = "consumed" =>
        /\ resume[r].current \in Indices
        /\ checkpoints[resume[r].current].consumedIn = life
    /\ \A l \in Lanes : lane[l] = "unused" => origin[l] = 0
    /\ \A l \in Lanes : origin[l] # 0 =>
        /\ checkpoints[origin[l]].consumedIn = born[l]
        /\ born[l] # 0

(* No lane is alive without the daemon, and each request that starts a lane*)
(* has one of its own.                                                     *)
OwnLane ==
    /\ ~up => \A l \in Lanes : lane[l] \notin {"starting", "running", "stray"}
    /\ \A r \in Requests : resume[r].pc = "starting" =>
        /\ resume[r].lane \in Lanes
        /\ lane[resume[r].lane] = "starting"
    /\ \A q, r \in Requests :
        resume[q].pc = "starting" /\ resume[r].pc = "starting" /\ resume[q].lane = resume[r].lane
            => q = r

(* A lane that has checkpoints was running once.                           *)
Ran == {l \in Lanes : lane[l] \in {"running", "stray", "stopped", "lost"}}

CheckpointsOfRan ==
    /\ \A i \in Indices : checkpoints[i].lane \in Ran
    /\ taking # NotTaking => taking.lane \in Ran

(* A lane that is not found and never will be.                             *)
Gone(l) == l \notin rows /\ lane[l] \in {"stopped", "lost"}

(* A checkpoint no resume starts from any more, or has started from.       *)
Settled(i) ==
    \/ checkpoints[i].consumedIn # 0
    \/ ~checkpoints[i].intact
    \/ Gone(checkpoints[i].lane)

(* A request works through its list, and through each lane's checkpoints   *)
(* from the oldest.                                                        *)
WorkedOn(r) ==
    /\ \A i \in resume[r].listed : i \in resume[r].todo \/ Settled(i)
    /\ \A j \in resume[r].todo : \A i \in Indices :
        i < j /\ checkpoints[i].lane = checkpoints[j].lane
            => i \in resume[r].todo \/ Settled(i)
    /\ resume[r].pc = "returned" => resume[r].todo = {}

Worked == \A r \in Requests : WorkedOn(r)

(* Once a checkpoint is used, the older ones of its lane are used or       *)
(* damaged: no resume that begins later starts from them.                  *)
OlderAreUsed ==
    \A i, j \in Indices :
        /\ checkpoints[i].lane = checkpoints[j].lane /\ i < j
        /\ checkpoints[j].consumedIn # 0
        => checkpoints[i].consumedIn # 0 \/ ~checkpoints[i].intact

(* No lane was started from this checkpoint, or from a newer one of its    *)
(* lane.                                                                   *)
NewerThanAll(i) ==
    \A k \in Lanes :
        origin[k] # 0 /\ checkpoints[origin[k]].lane = checkpoints[i].lane => origin[k] < i

(* A request has only such checkpoints before it, and the one it is about  *)
(* to start a lane from is older than the rest.                            *)
AheadOf(r) ==
    /\ \A i \in resume[r].todo : checkpoints[i].intact => NewerThanAll(i)
    /\ resume[r].pc = "consumed" =>
        /\ NewerThanAll(resume[r].current)
        /\ \A i \in resume[r].todo :
            checkpoints[i].lane = checkpoints[resume[r].current].lane => resume[r].current < i

(* That is so of a request that is at work alone.                          *)
Ahead == ~contended => \A r \in AtWork : AheadOf(r) /\ \A q \in AtWork : q = r

TypeInv == TypeOK /\ Numbered /\ OwnLane

IInv ==
    /\ TypeInv /\ CheckpointsOfRan /\ SequenceIsAge /\ UsedInLife /\ Worked
    /\ OlderAreUsed /\ Ahead

-----------------------------------------------------------------------------
(* How a step changes the rows of checkpoints.                             *)

Row == [lane : Lanes, sequence : 1..MaxCheckpoints, intact : BOOLEAN, consumedIn : Nat]

(* Replacing one element of a sequence.                                    *)
LEMMA Replaced ==
    ASSUME NEW S, NEW s \in Seq(S), NEW i \in 1..Len(s), NEW d \in S
    PROVE  /\ [s EXCEPT ![i] = d] \in Seq(S)
           /\ Len([s EXCEPT ![i] = d]) = Len(s)
           /\ \A j \in 1..Len(s) : [s EXCEPT ![i] = d][j] = IF j = i THEN d ELSE s[j]
OBVIOUS

LEMMA Marked ==
    ASSUME checkpoints \in Seq(Row), NEW i \in Indices, NEW n \in Nat,
           checkpoints' = [checkpoints EXCEPT ![i].consumedIn = n]
    PROVE  /\ checkpoints' \in Seq(Row) /\ Len(checkpoints') = Len(checkpoints)
           /\ Indices' = Indices
           /\ \A j \in Indices :
                /\ checkpoints'[j].lane = checkpoints[j].lane
                /\ checkpoints'[j].sequence = checkpoints[j].sequence
                /\ checkpoints'[j].intact = checkpoints[j].intact
                /\ checkpoints'[j].consumedIn = IF j = i THEN n ELSE checkpoints[j].consumedIn
<1> DEFINE d == [checkpoints[i] EXCEPT !.consumedIn = n]
<1>1. checkpoints[i] \in Row
  BY DEF Indices
<1>2. /\ d \in Row /\ d.lane = checkpoints[i].lane /\ d.sequence = checkpoints[i].sequence
      /\ d.intact = checkpoints[i].intact /\ d.consumedIn = n
  BY <1>1 DEF Row
<1>3. checkpoints' = [checkpoints EXCEPT ![i] = d]
  OBVIOUS
<1> HIDE DEF d
<1>4. i \in 1..Len(checkpoints) /\ d \in Row
  BY <1>2 DEF Indices
<1>5. /\ checkpoints' \in Seq(Row) /\ Len(checkpoints') = Len(checkpoints)
      /\ \A j \in 1..Len(checkpoints) : checkpoints'[j] = IF j = i THEN d ELSE checkpoints[j]
  BY ONLY checkpoints \in Seq(Row), <1>3, <1>4, Replaced
<1> QED BY <1>2, <1>5 DEF Indices

LEMMA Damaged ==
    ASSUME checkpoints \in Seq(Row), NEW i \in Indices,
           checkpoints' = [checkpoints EXCEPT ![i].intact = FALSE]
    PROVE  /\ checkpoints' \in Seq(Row) /\ Len(checkpoints') = Len(checkpoints)
           /\ Indices' = Indices
           /\ \A j \in Indices :
                /\ checkpoints'[j].lane = checkpoints[j].lane
                /\ checkpoints'[j].sequence = checkpoints[j].sequence
                /\ checkpoints'[j].consumedIn = checkpoints[j].consumedIn
                /\ checkpoints'[j].intact => checkpoints[j].intact
<1> DEFINE d == [checkpoints[i] EXCEPT !.intact = FALSE]
<1>1. checkpoints[i] \in Row
  BY DEF Indices
<1>2. /\ d \in Row /\ d.lane = checkpoints[i].lane /\ d.sequence = checkpoints[i].sequence
      /\ ~d.intact /\ d.consumedIn = checkpoints[i].consumedIn
  BY <1>1 DEF Row
<1>3. checkpoints' = [checkpoints EXCEPT ![i] = d]
  OBVIOUS
<1> HIDE DEF d
<1>4. i \in 1..Len(checkpoints) /\ d \in Row
  BY <1>2 DEF Indices
<1>5. /\ checkpoints' \in Seq(Row) /\ Len(checkpoints') = Len(checkpoints)
      /\ \A j \in 1..Len(checkpoints) : checkpoints'[j] = IF j = i THEN d ELSE checkpoints[j]
  BY ONLY checkpoints \in Seq(Row), <1>3, <1>4, Replaced
<1> QED BY <1>2, <1>5 DEF Indices

LEMMA Appended ==
    ASSUME checkpoints \in Seq(Row), NEW c \in Row, checkpoints' = Append(checkpoints, c)
    PROVE  /\ checkpoints' \in Seq(Row) /\ Len(checkpoints') = Len(checkpoints) + 1
           /\ Indices \subseteq Indices'
           /\ Indices' = Indices \cup {Len(checkpoints) + 1}
           /\ \A j \in Indices : checkpoints'[j] = checkpoints[j]
           /\ checkpoints'[Len(checkpoints) + 1] = c
BY DEF Row, Indices

-----------------------------------------------------------------------------
(* The type invariant.                                                     *)

LEMMA TypeInit == ASSUME Init PROVE TypeInv
<1>1. Indices = {}
  BY DEF Init, Indices
<1>2. contended \in BOOLEAN
  BY DEF Init
<1>3. Numbered /\ OwnLane
  BY <1>1 DEF Init, Numbered, OwnLane, NotTaking, NotRunning
<1>4. Len(checkpoints) = 0 /\ checkpoints \in Seq({})
  BY DEF Init
<1> QED BY <1>1, <1>2, <1>3, <1>4, LanesAssumed, NumbersNatural
         DEF Init, TypeInv, TypeOK, NotTaking, NotRunning, RequestState

(* What the type says of the rows.                                         *)
LEMMA Rows ==
    ASSUME TypeOK
    PROVE  /\ checkpoints \in Seq(Row) /\ Len(checkpoints) \in Nat
           /\ \A i \in Indices :
                /\ i \in Nat /\ i <= Len(checkpoints)
                /\ checkpoints[i] \in Row
                /\ checkpoints[i].lane \in Lanes /\ checkpoints[i].sequence \in Nat
                /\ checkpoints[i].intact \in BOOLEAN /\ checkpoints[i].consumedIn \in Nat
<1>1. checkpoints \in Seq(Row)
  BY DEF TypeOK, Row
<1>2. \A i \in Indices : checkpoints[i] \in Row /\ i \in Nat /\ i <= Len(checkpoints)
  BY <1>1 DEF Indices
<1>3. \A c \in Row : /\ c.lane \in Lanes /\ c.sequence \in Nat
                     /\ c.intact \in BOOLEAN /\ c.consumedIn \in Nat
  BY NumbersNatural DEF Row
<1> QED BY <1>1, <1>2, <1>3

(* A step that leaves the checkpoints and their taking alone.              *)
LEMMA NumberedKept ==
    ASSUME Numbered, UNCHANGED <<checkpoints, taking>>
    PROVE  Numbered' /\ Indices' = Indices /\ RequestState' = RequestState
BY DEF Numbered, Indices, NotTaking, RequestState

(* A step that moves one request elsewhere than to the start of a lane.    *)
LEMMA OwnLaneKept ==
    ASSUME OwnLane, NEW r \in Requests, UNCHANGED <<up, lane>>,
           resume'[r].pc # "starting",
           \A q \in Requests : q # r => resume'[q] = resume[q]
    PROVE  OwnLane'
BY DEF OwnLane

(* One request moves; the others stay where they are.                      *)
LEMMA Moved ==
    ASSUME TypeOK, NEW r \in Requests, NEW e \in RequestState,
           resume' = [resume EXCEPT ![r] = e]
    PROVE  /\ resume' \in [Requests -> RequestState]
           /\ resume'[r] = e
           /\ \A q \in Requests : q # r => resume'[q] = resume[q]
<1>1. resume \in [Requests -> RequestState]
  BY DEF TypeOK
<1> QED BY <1>1

(* How each step of resume_session moves its request.                      *)
LEMMA SkipMoves ==
    ASSUME TypeOK, NEW r \in Requests, Skip(r)
    PROVE  \E i \in resume[r].todo :
            /\ OldestFirst(r, i)
            /\ ~(checkpoints[i].intact /\ Resolvable(checkpoints[i].lane))
            /\ resume' \in [Requests -> RequestState]
            /\ resume'[r].pc = "next" /\ resume'[r].todo = resume[r].todo \ {i}
            /\ resume'[r].listed = resume[r].listed
            /\ \A q \in Requests : q # r => resume'[q] = resume[q]
<1>1. PICK i \in resume[r].todo :
            /\ OldestFirst(r, i)
            /\ ~(checkpoints[i].intact /\ Resolvable(checkpoints[i].lane))
            /\ resume' = [resume EXCEPT ![r].todo = @ \ {i}]
  BY DEF Skip
<1> DEFINE e == [resume[r] EXCEPT !.todo = @ \ {i}]
<1>2. resume[r] \in RequestState /\ resume[r].pc = "next"
  BY DEF TypeOK, Skip
<1>3. /\ e \in RequestState /\ e.todo = resume[r].todo \ {i}
      /\ e.pc = "next" /\ e.listed = resume[r].listed
  BY <1>2 DEF RequestState
<1>4. resume' = [resume EXCEPT ![r] = e]
  BY <1>1
<1> HIDE DEF e
<1> QED BY <1>1, <1>3, <1>4, Moved

LEMMA ConsumeMoves ==
    ASSUME TypeOK, NEW r \in Requests, Consume(r)
    PROVE  \E i \in resume[r].todo :
            /\ OldestFirst(r, i)
            /\ checkpoints[i].intact /\ Resolvable(checkpoints[i].lane)
            /\ checkpoints' = [checkpoints EXCEPT ![i].consumedIn = life]
            /\ resume' \in [Requests -> RequestState]
            /\ resume'[r].pc = "consumed" /\ resume'[r].current = i
            /\ resume'[r].todo = resume[r].todo \ {i}
            /\ resume'[r].listed = resume[r].listed
            /\ \A q \in Requests : q # r => resume'[q] = resume[q]
<1>1. PICK i \in resume[r].todo :
            /\ OldestFirst(r, i)
            /\ checkpoints[i].intact /\ Resolvable(checkpoints[i].lane)
            /\ checkpoints' = [checkpoints EXCEPT ![i].consumedIn = life]
            /\ resume' = [resume EXCEPT ![r].pc = "consumed", ![r].todo = @ \ {i}, ![r].current = i]
  BY DEF Consume
<1> DEFINE e == [resume[r] EXCEPT !.pc = "consumed", !.todo = @ \ {i}, !.current = i]
<1>2. resume[r] \in RequestState /\ i \in Indices
  BY DEF TypeOK, RequestState
<1>3. /\ e \in RequestState /\ e.todo = resume[r].todo \ {i}
      /\ e.pc = "consumed" /\ e.current = i /\ e.listed = resume[r].listed
  BY <1>2 DEF RequestState
<1>4. resume' = [resume EXCEPT ![r] = e]
  BY <1>1
<1> HIDE DEF e
<1> QED BY <1>1, <1>3, <1>4, Moved

LEMMA RespawnMoves ==
    ASSUME TypeOK, NEW r \in Requests, Respawn(r)
    PROVE  \E l \in Lanes :
            /\ lane[l] = "unused"
            /\ lane' = [lane EXCEPT ![l] = "starting"]
            /\ origin' = [origin EXCEPT ![l] = resume[r].current]
            /\ born' = [born EXCEPT ![l] = life]
            /\ resume' \in [Requests -> RequestState]
            /\ resume'[r].pc = "starting" /\ resume'[r].lane = l
            /\ resume'[r].todo = resume[r].todo /\ resume'[r].listed = resume[r].listed
            /\ \A q \in Requests : q # r => resume'[q] = resume[q]
<1>1. PICK l \in Lanes :
            /\ lane[l] = "unused"
            /\ lane' = [lane EXCEPT ![l] = "starting"]
            /\ origin' = [origin EXCEPT ![l] = resume[r].current]
            /\ born' = [born EXCEPT ![l] = life]
            /\ resume' = [resume EXCEPT ![r].pc = "starting", ![r].lane = l]
  BY DEF Respawn
<1> DEFINE e == [resume[r] EXCEPT !.pc = "starting", !.lane = l]
<1>2. resume[r] \in RequestState
  BY DEF TypeOK
<1>3. /\ e \in RequestState /\ e.todo = resume[r].todo
      /\ e.pc = "starting" /\ e.lane = l /\ e.listed = resume[r].listed
  BY <1>2 DEF RequestState
<1>4. resume' = [resume EXCEPT ![r] = e]
  BY <1>1
<1> HIDE DEF e
<1> QED BY <1>1, <1>3, <1>4, Moved

(* The request goes on with what is left, after a lane was started or not. *)
LEMMA NextMoves ==
    ASSUME TypeOK, NEW r \in Requests, RespawnFails(r) \/ Respawned(r)
    PROVE  /\ resume' \in [Requests -> RequestState]
           /\ resume'[r].pc = "next"
           /\ resume'[r].todo = resume[r].todo /\ resume'[r].listed = resume[r].listed
           /\ \A q \in Requests : q # r => resume'[q] = resume[q]
<1>1. resume[r] \in RequestState
  BY DEF TypeOK
<1>2. CASE RespawnFails(r)
  <2> DEFINE e == [resume[r] EXCEPT !.pc = "next", !.current = 0]
  <2>1. /\ e \in RequestState /\ e.todo = resume[r].todo
        /\ e.pc = "next" /\ e.listed = resume[r].listed
    BY <1>1 DEF RequestState
  <2>2. resume' = [resume EXCEPT ![r] = e]
    BY <1>2 DEF RespawnFails
  <2> HIDE DEF e
  <2> QED BY <2>1, <2>2, Moved
<1>3. CASE Respawned(r)
  <2> DEFINE e == [resume[r] EXCEPT !.pc = "next", !.current = 0, !.lane = NoLane]
  <2>1. /\ e \in RequestState /\ e.todo = resume[r].todo
        /\ e.pc = "next" /\ e.listed = resume[r].listed
    BY <1>1 DEF RequestState
  <2>2. resume' = [resume EXCEPT ![r] = e]
    BY <1>3 DEF Respawned
  <2> HIDE DEF e
  <2> QED BY <2>1, <2>2, Moved
<1> QED BY <1>2, <1>3

LEMMA ReturnMoves ==
    ASSUME TypeOK, NEW r \in Requests, ResumeReturns(r)
    PROVE  /\ resume' \in [Requests -> RequestState]
           /\ resume'[r].pc = "returned"
           /\ resume'[r].todo = resume[r].todo /\ resume'[r].listed = resume[r].listed
           /\ \A q \in Requests : q # r => resume'[q] = resume[q]
<1> DEFINE e == [resume[r] EXCEPT !.pc = "returned"]
<1>1. resume[r] \in RequestState
  BY DEF TypeOK
<1>2. /\ e \in RequestState /\ e.todo = resume[r].todo
      /\ e.pc = "returned" /\ e.listed = resume[r].listed
  BY <1>1 DEF RequestState
<1>3. resume' = [resume EXCEPT ![r] = e]
  BY DEF ResumeReturns
<1> HIDE DEF e
<1> QED BY <1>2, <1>3, Moved

LEMMA TypeStep == ASSUME TypeInv, [Next]_vars PROVE TypeInv'
<1> USE LanesAssumed, NumbersNatural DEF TypeInv
<1>1. ASSUME NEW l \in Lanes, StartLane(l) PROVE TypeInv'
  <2>1. Numbered' /\ Indices' = Indices /\ RequestState' = RequestState
    BY <1>1, NumberedKept DEF StartLane
  <2>2. TypeOK'
    BY <1>1, <2>1 DEF StartLane, TypeOK
  <2>3. OwnLane'
    BY <1>1 DEF StartLane, OwnLane, TypeOK
  <2> QED BY <2>1, <2>2, <2>3
<1>2. ASSUME NEW l \in Lanes, StopLane(l) PROVE TypeInv'
  <2>1. Numbered' /\ Indices' = Indices /\ RequestState' = RequestState
    BY <1>2, NumberedKept DEF StopLane
  <2>2. TypeOK'
    BY <1>2, <2>1 DEF StopLane, TypeOK
  <2>3. OwnLane'
    BY <1>2 DEF StopLane, OwnLane, TypeOK, Running
  <2> QED BY <2>1, <2>2, <2>3
<1>3. ASSUME NEW l \in Lanes, RestartLane(l) PROVE TypeInv'
  <2>1. Numbered' /\ Indices' = Indices /\ RequestState' = RequestState
    BY <1>3, NumberedKept DEF RestartLane
  <2> QED BY <1>3, <2>1 DEF RestartLane, TypeOK, OwnLane
<1>4. ASSUME CloseSession PROVE TypeInv'
  <2>1. Numbered' /\ Indices' = Indices /\ RequestState' = RequestState
    BY <1>4, NumberedKept DEF CloseSession
  <2> QED BY <1>4, <2>1 DEF CloseSession, TypeOK, OwnLane
<1>6. ASSUME NEW l \in Lanes, TakeBegins(l) PROVE TypeInv'
  <2>1. PICK n \in 0..MaxCheckpoints : Latest(l, n) /\ taking' = [lane |-> l, sequence |-> n + 1]
    BY <1>6 DEF TakeBegins
  <2>2. /\ n <= Len(checkpoints)
        /\ \A i \in Indices : checkpoints[i].lane = l => checkpoints[i].sequence < n + 1
    BY <2>1, Rows DEF Latest, Of, Numbered
  <2>3. Indices' = Indices /\ UNCHANGED checkpoints /\ Len(checkpoints) < MaxCheckpoints
    BY <1>6 DEF TakeBegins, Indices
  <2>4. taking'.lane = l /\ taking'.sequence = n + 1
    BY <2>1
  <2>5. Numbered'
    <3>1. \A i \in Indices' : checkpoints'[i].sequence <= i
      BY <2>3 DEF Numbered
    <3>2. taking'.sequence \in 1..Len(checkpoints') + 1
      BY <2>2, <2>3, <2>4, Rows
    <3>3. \A i \in Indices' :
            checkpoints'[i].lane = taking'.lane => checkpoints'[i].sequence < taking'.sequence
      BY ONLY <2>2, <2>3, <2>4
    <3> QED BY <2>3, <2>4, <3>1, <3>2, <3>3 DEF Numbered, NotTaking
  <2>6. TypeOK'
    <3>1. taking' \in [lane : Lanes \cup {NoLane}, sequence : 0..MaxCheckpoints]
      BY <2>1, <2>2, <2>3, Rows
    <3>2. up
      BY <1>6 DEF OwnLane, TakeBegins, Running
    <3>3. RequestState' = RequestState
      BY <2>3 DEF RequestState
    <3> QED BY <1>6, <2>3, <3>1, <3>2, <3>3 DEF TypeOK, TakeBegins
  <2> QED BY <1>6, <2>5, <2>6 DEF OwnLane, TakeBegins
<1>7. ASSUME TakeCommits PROVE TypeInv'
  <2> DEFINE c == [lane |-> taking.lane, sequence |-> taking.sequence, intact |-> TRUE, consumedIn |-> 0]
             n == Len(checkpoints) + 1
  <2>1. c \in Row /\ c.lane = taking.lane /\ c.sequence = taking.sequence
    BY <1>7, Rows DEF TakeCommits, Numbered, Row
  <2>2. checkpoints' = Append(checkpoints, c) /\ taking' = NotTaking
    BY <1>7 DEF TakeCommits
  <2> HIDE DEF c
  <2>3. /\ checkpoints' \in Seq(Row) /\ Len(checkpoints') = n
        /\ Indices' = Indices \cup {n}
        /\ \A j \in Indices : checkpoints'[j] = checkpoints[j]
        /\ checkpoints'[n] = c
    BY <2>1, <2>2, Rows, Appended
  <2>4. Numbered'
    <3>1. \A i \in Indices' : checkpoints'[i].sequence <= i
      <4>1. c.sequence <= n
        BY <1>7, <2>1, Rows DEF Numbered, TakeCommits
      <4> QED BY <2>3, <4>1 DEF Numbered
    <3> QED BY <2>2, <3>1 DEF Numbered, NotTaking
  <2>5. TypeOK'
    <3>1. Len(checkpoints') <= MaxCheckpoints
      BY <1>7, <2>3, Rows DEF Numbered, TakeCommits
    <3>2. resume' \in [Requests -> RequestState']
      <4>1. resume' = resume /\ Indices \subseteq Indices'
        BY <1>7, <2>3 DEF TakeCommits
      <4> QED BY <4>1 DEF TypeOK, RequestState
    <3>3. origin' \in [Lanes -> Indices' \cup {0}]
      BY <1>7, <2>3 DEF TakeCommits, TypeOK
    <3> QED BY <1>7, <2>3, <3>1, <3>2, <3>3 DEF TypeOK, TakeCommits, Row, NotTaking
  <2> QED BY <1>7, <2>4, <2>5 DEF OwnLane, TakeCommits
<1>8. ASSUME TakeFails PROVE TypeInv'
  <2>1. Indices' = Indices /\ checkpoints' = checkpoints /\ taking' = NotTaking
    BY <1>8 DEF TakeFails, Indices
  <2>2. Numbered'
    BY <2>1 DEF Numbered, NotTaking
  <2>3. RequestState' = RequestState
    BY <2>1 DEF RequestState
  <2> QED BY <1>8, <2>1, <2>2, <2>3 DEF TypeOK, OwnLane, TakeFails, NotTaking
<1>9. ASSUME NEW r \in Requests, ResumeBegins(r) PROVE TypeInv'
  <2>1. Numbered' /\ Indices' = Indices /\ RequestState' = RequestState
    BY <1>9, NumberedKept DEF ResumeBegins
  <2>2. TypeOK'
    BY <1>9, <2>1 DEF ResumeBegins, TypeOK, Unconsumed, RequestState
  <2> QED BY <1>9, <2>1, <2>2 DEF ResumeBegins, TypeOK, OwnLane
<1>10. ASSUME NEW r \in Requests, Skip(r) PROVE TypeInv'
  <2>1. Numbered' /\ Indices' = Indices /\ RequestState' = RequestState
    BY <1>10, NumberedKept DEF Skip
  <2>2. up
    BY <1>10 DEF Skip, TypeOK, NotRunning
  <2>3. TypeOK'
    BY <1>10, <2>1, <2>2, SkipMoves DEF Skip, TypeOK, RequestState
  <2> QED BY <1>10, <2>1, <2>2, <2>3, SkipMoves DEF Skip, OwnLane
<1>11. ASSUME NEW r \in Requests, Consume(r) PROVE TypeInv'
  <2>1. PICK i \in resume[r].todo : /\ OldestFirst(r, i)
                                    /\ checkpoints' = [checkpoints EXCEPT ![i].consumedIn = life]
    BY <1>11, ConsumeMoves
  <2>2. i \in Indices /\ life \in Nat
    BY DEF TypeOK, RequestState
  <2>3. /\ checkpoints' \in Seq(Row) /\ Len(checkpoints') = Len(checkpoints) /\ Indices' = Indices
        /\ \A j \in Indices : /\ checkpoints'[j].lane = checkpoints[j].lane
                              /\ checkpoints'[j].sequence = checkpoints[j].sequence
    BY <2>1, <2>2, Rows, Marked
  <2>4. Numbered'
    BY <1>11, <2>3 DEF Numbered, Consume, NotTaking
  <2>5. up
    BY <1>11 DEF Consume, TypeOK, NotRunning
  <2>6. TypeOK'
    BY <1>11, <2>3, <2>5, ConsumeMoves DEF TypeOK, Consume, Row, RequestState
  <2>7. UNCHANGED <<up, lane>> /\ resume'[r].pc # "starting"
    BY <1>11, ConsumeMoves DEF Consume
  <2>8. OwnLane'
    BY <1>11, <2>7, ConsumeMoves, OwnLaneKept
  <2> QED BY <2>4, <2>6, <2>8
<1>12. ASSUME NEW r \in Requests, Respawn(r) PROVE TypeInv'
  <2>1. Numbered' /\ Indices' = Indices /\ RequestState' = RequestState
    BY <1>12, NumberedKept DEF Respawn
  <2>2. up /\ resume[r].current \in Indices \cup {0}
    BY <1>12 DEF Respawn, TypeOK, NotRunning, RequestState
  <2>3. TypeOK'
    <3>1. lane' \in [Lanes -> {"unused", "starting", "running", "stray", "stopped", "failed", "lost"}]
      BY <1>12 DEF Respawn, TypeOK
    <3>2. origin' \in [Lanes -> Indices' \cup {0}] /\ born' \in [Lanes -> Nat]
      BY <1>12, <2>1, <2>2 DEF Respawn, TypeOK
    <3>3. resume' \in [Requests -> RequestState']
      BY <1>12, <2>1, RespawnMoves
    <3> QED BY <1>12, <2>1, <2>2, <3>1, <3>2, <3>3 DEF Respawn, TypeOK
  <2>4. OwnLane'
    <3>1. lane \in [Lanes -> {"unused", "starting", "running", "stray", "stopped", "failed", "lost"}]
      BY DEF TypeOK
    <3>2. PICK l \in Lanes :
            /\ lane[l] = "unused" /\ lane' = [lane EXCEPT ![l] = "starting"]
            /\ resume'[r].lane = l
            /\ \A q \in Requests : q # r => resume'[q] = resume[q]
      BY <1>12, RespawnMoves
    <3>3. up'
      BY <1>12, <2>2 DEF Respawn
    <3>4. \A q \in Requests : resume[q].pc = "starting" => resume[q].lane # l
      BY <3>2 DEF OwnLane
    <3> QED BY <3>1, <3>2, <3>3, <3>4 DEF OwnLane
  <2> QED BY <2>1, <2>3, <2>4
<1>13. ASSUME NEW r \in Requests, RespawnFails(r) PROVE TypeInv'
  <2>1. Numbered' /\ Indices' = Indices /\ RequestState' = RequestState
    BY <1>13, NumberedKept DEF RespawnFails
  <2>2. up
    BY <1>13 DEF RespawnFails, TypeOK, NotRunning
  <2>3. TypeOK'
    BY <1>13, <2>1, <2>2, NextMoves DEF RespawnFails, TypeOK, RequestState
  <2>4. UNCHANGED <<up, lane>> /\ resume'[r].pc # "starting"
    BY <1>13, NextMoves DEF RespawnFails
  <2>5. OwnLane'
    BY <1>13, <2>4, NextMoves, OwnLaneKept
  <2> QED BY <2>1, <2>3, <2>5
<1>14. ASSUME NEW r \in Requests, Respawned(r) PROVE TypeInv'
  <2>1. Numbered' /\ Indices' = Indices /\ RequestState' = RequestState
    BY <1>14, NumberedKept DEF Respawned
  <2>2. up /\ resume[r].lane \in Lanes
    BY <1>14 DEF Respawned, TypeOK, OwnLane, NotRunning
  <2>3. TypeOK'
    BY <1>14, <2>1, <2>2, NextMoves DEF Respawned, TypeOK, RequestState
  <2>4. OwnLane'
    <3>1. lane \in [Lanes -> {"unused", "starting", "running", "stray", "stopped", "failed", "lost"}]
      BY DEF TypeOK
    <3>2. up' /\ lane[resume[r].lane] = "starting"
      BY <1>14, <2>2 DEF Respawned, OwnLane
    <3>3. /\ resume'[r].pc = "next"
          /\ \A q \in Requests : q # r => resume'[q] = resume[q]
      BY <1>14, NextMoves
    <3>4. \A k \in Lanes : k # resume[r].lane => lane'[k] = lane[k]
      BY <1>14, <3>1 DEF Respawned
    <3>5. \A q \in Requests : q # r /\ resume[q].pc = "starting" => resume[q].lane # resume[r].lane
      BY <1>14 DEF Respawned, OwnLane
    <3> QED BY <3>2, <3>3, <3>4, <3>5 DEF OwnLane
  <2> QED BY <2>1, <2>3, <2>4
<1>15. ASSUME NEW r \in Requests, ResumeRaises(r) PROVE TypeInv'
  <2>1. Numbered' /\ Indices' = Indices /\ RequestState' = RequestState
    BY <1>15, NumberedKept DEF ResumeRaises
  <2>2. contended' \in BOOLEAN
    <3>1. contended' = (contended /\ AtWork # {r})
      BY <1>15 DEF ResumeRaises, Leaves
    <3> QED BY <3>1, Zenon
  <2>3. TypeOK'
    BY <1>15, <2>1, <2>2 DEF ResumeRaises, TypeOK, NotRunning, RequestState
  <2> QED BY <1>15, <2>1, <2>3 DEF ResumeRaises, TypeOK, OwnLane, NotRunning
<1>16. ASSUME NEW r \in Requests, ResumeReturns(r) PROVE TypeInv'
  <2>1. Numbered' /\ Indices' = Indices /\ RequestState' = RequestState
    BY <1>16, NumberedKept DEF ResumeReturns
  <2>2. up
    BY <1>16 DEF ResumeReturns, TypeOK, NotRunning
  <2>3. TypeOK'
    <3>1. contended' = (contended /\ AtWork # {r})
      BY <1>16 DEF ResumeReturns, Leaves
    <3>2. contended' \in BOOLEAN
      BY <3>1, Zenon
    <3> QED BY <1>16, <2>1, <2>2, <3>2, ReturnMoves DEF ResumeReturns, TypeOK, RequestState
  <2> QED BY <1>16, <2>1, <2>2, <2>3, ReturnMoves DEF ResumeReturns, OwnLane
<1>17. ASSUME Crash PROVE TypeInv'
  <2>1. Indices' = Indices /\ checkpoints' = checkpoints /\ taking' = NotTaking
    BY <1>17 DEF Crash, Indices
  <2>2. Numbered'
    BY <2>1 DEF Numbered, NotTaking
  <2>3. resume' \in [Requests -> RequestState] /\ RequestState' = RequestState
    BY <1>17, <2>1 DEF Crash, RequestState, NotRunning
  <2>4. lane' \in [Lanes -> {"unused", "starting", "running", "stray", "stopped", "failed", "lost"}]
    BY <1>17 DEF Crash, TypeOK
  <2>5. TypeOK'
    <3>1. taking' = NotTaking' /\ \A r \in Requests : resume'[r] = NotRunning'
      BY <1>17 DEF Crash, NotRunning, NotTaking
    <3>3. taking' \in [lane : Lanes \cup {NoLane}, sequence : 0..MaxCheckpoints]
      BY <1>17 DEF Crash, NotTaking
    <3> QED BY <1>17, <2>1, <2>3, <2>4, <3>1, <3>3 DEF Crash, TypeOK
  <2> QED BY <1>17, <2>2, <2>5 DEF Crash, OwnLane, NotRunning
<1>18. ASSUME Reboot PROVE TypeInv'
  <2>1. Numbered' /\ Indices' = Indices /\ RequestState' = RequestState
    BY <1>18, NumberedKept DEF Reboot
  <2> QED BY <1>18, <2>1 DEF Reboot, TypeOK, OwnLane
<1>19. ASSUME NEW i \in Indices, Damage(i) PROVE TypeInv'
  <2>1. /\ checkpoints' \in Seq(Row) /\ Len(checkpoints') = Len(checkpoints) /\ Indices' = Indices
        /\ \A j \in Indices : /\ checkpoints'[j].lane = checkpoints[j].lane
                              /\ checkpoints'[j].sequence = checkpoints[j].sequence
    BY <1>19, Rows, Damaged DEF Damage
  <2>2. Numbered'
    BY <1>19, <2>1 DEF Numbered, Damage, NotTaking
  <2>3. RequestState' = RequestState
    BY <2>1 DEF RequestState
  <2> QED BY <1>19, <2>1, <2>2, <2>3 DEF Damage, TypeOK, OwnLane, Row, NotTaking, NotRunning
<1>20. ASSUME UNCHANGED vars PROVE TypeInv'
  <2>1. Numbered' /\ Indices' = Indices /\ RequestState' = RequestState
    BY <1>20, NumberedKept DEF vars
  <2> QED BY <1>20, <2>1 DEF vars, TypeOK, OwnLane
<1> QED BY <1>1, <1>2, <1>3, <1>4, <1>6, <1>7, <1>8, <1>9, <1>10, <1>11, <1>12,
           <1>13, <1>14, <1>15, <1>16, <1>17, <1>18, <1>19, <1>20
        DEF Next, LaneStep, TakeStep, ResumeStep

(* Numbers of checkpoints and of lanes stay within their bounds, and no    *)
(* coroutine of a dead daemon goes on.                                     *)
THEOREM TypeCorrect == Spec => []TypeOK
<1>1. Init => TypeInv
  BY TypeInit
<1>2. TypeInv /\ [Next]_vars => TypeInv'
  BY TypeStep
<1>3. TypeInv => TypeOK
  BY DEF TypeInv
<1> QED BY <1>1, <1>2, <1>3, PTL DEF Spec

-----------------------------------------------------------------------------
(* How a step changes the rows, and what stays of them.                    *)

LEMMA RowSteps ==
    ASSUME [Next]_vars
    PROVE  \/ UNCHANGED checkpoints
           \/ \E r \in Requests : Consume(r)
           \/ TakeCommits
           \/ \E i \in Indices : Damage(i)
BY DEF Next, vars, LaneStep, TakeStep, ResumeStep, StartLane, StopLane, RestartLane, CloseSession,
       TakeBegins, TakeFails, ResumeBegins, Skip, Respawn, RespawnFails, Respawned,
       ResumeRaises, ResumeReturns, Crash, Reboot

LEMMA ConsumeRows ==
    ASSUME TypeOK, NEW r \in Requests, Consume(r)
    PROVE  \E i \in resume[r].todo :
            /\ i \in Indices
            /\ OldestFirst(r, i)
            /\ checkpoints[i].intact /\ Resolvable(checkpoints[i].lane)
            /\ Indices' = Indices
            /\ \A j \in Indices :
                /\ checkpoints'[j].lane = checkpoints[j].lane
                /\ checkpoints'[j].sequence = checkpoints[j].sequence
                /\ checkpoints'[j].intact = checkpoints[j].intact
                /\ checkpoints'[j].consumedIn = IF j = i THEN life ELSE checkpoints[j].consumedIn
            /\ resume'[r].pc = "consumed" /\ resume'[r].current = i
            /\ resume'[r].todo = resume[r].todo \ {i}
            /\ resume'[r].listed = resume[r].listed
            /\ \A q \in Requests : q # r => resume'[q] = resume[q]
<1>1. PICK i \in resume[r].todo :
            /\ OldestFirst(r, i)
            /\ checkpoints[i].intact /\ Resolvable(checkpoints[i].lane)
            /\ checkpoints' = [checkpoints EXCEPT ![i].consumedIn = life]
            /\ resume'[r].pc = "consumed" /\ resume'[r].current = i
            /\ resume'[r].todo = resume[r].todo \ {i}
            /\ resume'[r].listed = resume[r].listed
            /\ \A q \in Requests : q # r => resume'[q] = resume[q]
  BY ConsumeMoves
<1>2. i \in Indices /\ life \in Nat
  BY DEF TypeOK, RequestState
<1>3. /\ Indices' = Indices
      /\ \A j \in Indices :
                /\ checkpoints'[j].lane = checkpoints[j].lane
                /\ checkpoints'[j].sequence = checkpoints[j].sequence
                /\ checkpoints'[j].intact = checkpoints[j].intact
                /\ checkpoints'[j].consumedIn = IF j = i THEN life ELSE checkpoints[j].consumedIn
  <2>1. checkpoints \in Seq(Row)
    BY Rows
  <2>2. checkpoints' = [checkpoints EXCEPT ![i].consumedIn = life]
    BY <1>1
  <2> QED BY ONLY <1>2, <2>1, <2>2, Marked
<1> QED BY <1>1, <1>2, <1>3, Zenon

LEMMA CommitRows ==
    ASSUME TypeInv, TakeCommits
    PROVE  /\ Len(checkpoints) \in Nat
           /\ Indices' = Indices \cup {Len(checkpoints) + 1}
           /\ \A j \in Indices : checkpoints'[j] = checkpoints[j]
           /\ checkpoints'[Len(checkpoints) + 1].lane = taking.lane
           /\ checkpoints'[Len(checkpoints) + 1].sequence = taking.sequence
           /\ checkpoints'[Len(checkpoints) + 1].consumedIn = 0
<1> DEFINE c == [lane |-> taking.lane, sequence |-> taking.sequence, intact |-> TRUE, consumedIn |-> 0]
<1>1. /\ c \in Row /\ c.lane = taking.lane
      /\ c.sequence = taking.sequence /\ c.consumedIn = 0
  BY Rows, NumbersNatural DEF TypeInv, TakeCommits, Numbered, Row
<1>2. checkpoints' = Append(checkpoints, c)
  BY DEF TakeCommits
<1> HIDE DEF c
<1> QED BY <1>1, <1>2, Rows, Appended DEF TypeInv

(* Rows are never deleted, reused or repaired, and stay used.              *)
LEMMA RowsKept ==
    ASSUME TypeInv, life # 0, [Next]_vars
    PROVE  /\ Indices \subseteq Indices'
           /\ \A i \in Indices :
                /\ checkpoints'[i].lane = checkpoints[i].lane
                /\ checkpoints'[i].sequence = checkpoints[i].sequence
                /\ ~checkpoints[i].intact => ~checkpoints'[i].intact
                /\ checkpoints[i].consumedIn # 0 => checkpoints'[i].consumedIn # 0
<1>1. CASE UNCHANGED checkpoints
  BY <1>1 DEF Indices
<1>2. ASSUME NEW r \in Requests, Consume(r)
      PROVE  /\ Indices \subseteq Indices'
             /\ \A i \in Indices :
                /\ checkpoints'[i].lane = checkpoints[i].lane
                /\ checkpoints'[i].sequence = checkpoints[i].sequence
                /\ ~checkpoints[i].intact => ~checkpoints'[i].intact
                /\ checkpoints[i].consumedIn # 0 => checkpoints'[i].consumedIn # 0
  BY <1>2, ConsumeRows DEF TypeInv
<1>3. CASE TakeCommits
  BY <1>3, CommitRows
<1>4. ASSUME NEW i \in Indices, Damage(i)
      PROVE  /\ Indices \subseteq Indices'
             /\ \A j \in Indices :
                /\ checkpoints'[j].lane = checkpoints[j].lane
                /\ checkpoints'[j].sequence = checkpoints[j].sequence
                /\ ~checkpoints[j].intact => ~checkpoints'[j].intact
                /\ checkpoints[j].consumedIn # 0 => checkpoints'[j].consumedIn # 0
  BY <1>4, Rows, Damaged DEF TypeInv, Damage
<1> QED BY <1>1, <1>2, <1>3, <1>4, RowSteps

-----------------------------------------------------------------------------
(* Numbers.                                                                *)

LEMMA AgeStep == ASSUME TypeInv, SequenceIsAge, [Next]_vars PROVE SequenceIsAge'
<1>1. CASE UNCHANGED checkpoints
  BY <1>1 DEF SequenceIsAge, Indices
<1>2. ASSUME NEW r \in Requests, Consume(r) PROVE SequenceIsAge'
  BY <1>2, ConsumeRows DEF TypeInv, SequenceIsAge
<1>3. CASE TakeCommits
  <2>1. \A i \in Indices : checkpoints[i].lane = taking.lane
                              => checkpoints[i].sequence < taking.sequence
    BY <1>3 DEF TypeInv, Numbered, TakeCommits
  <2>2. \A i \in Indices : i \in Nat /\ i <= Len(checkpoints)
    BY Rows DEF TypeInv
  <2> QED BY <1>3, <2>1, <2>2, CommitRows DEF SequenceIsAge
<1>4. ASSUME NEW i \in Indices, Damage(i) PROVE SequenceIsAge'
  BY <1>4, Rows, Damaged DEF TypeInv, SequenceIsAge, Damage
<1> QED BY <1>1, <1>2, <1>3, <1>4, RowSteps

(* The numbers of a lane's checkpoints tell their age.                     *)
THEOREM AgeKnown == Spec => []SequenceIsAge
<1>1. ASSUME Init PROVE TypeInv /\ SequenceIsAge
  <2>1. Indices = {}
    BY <1>1 DEF Init, Indices
  <2> QED BY <1>1, <2>1, TypeInit DEF SequenceIsAge
<1>2. TypeInv /\ SequenceIsAge /\ [Next]_vars => TypeInv' /\ SequenceIsAge'
  BY TypeStep, AgeStep
<1> QED BY <1>1, <1>2, PTL DEF Spec

-----------------------------------------------------------------------------
(* The life in which a checkpoint is used.                                 *)

LEMMA UsedInit == ASSUME Init PROVE UsedInLife
BY DEF Init, UsedInLife, NotRunning

(* A step that leaves rows, lives and origins alone, and no request with   *)
(* more to do.                                                             *)
LEMMA UsedKept ==
    ASSUME UsedInLife, UNCHANGED <<checkpoints, life, origin, born>>,
           \A l \in Lanes : lane'[l] = "unused" => lane[l] = "unused",
           \A r \in Requests :
                /\ resume'[r].todo \subseteq resume[r].todo
                /\ resume'[r].pc = "consumed" => resume'[r] = resume[r]
    PROVE  UsedInLife'
BY DEF UsedInLife, Indices

LEMMA UsedStep == ASSUME TypeInv, UsedInLife, [Next]_vars PROVE UsedInLife'
<1> USE DEF TypeInv
<1>1. ASSUME NEW l \in Lanes, StartLane(l) PROVE UsedInLife'
  <2>1. origin[l] = 0 /\ UNCHANGED <<checkpoints, life, resume, origin>>
    BY <1>1 DEF StartLane, UsedInLife
  <2>2. \A k \in Lanes : k # l => lane'[k] = lane[k] /\ born'[k] = born[k]
    BY <1>1 DEF StartLane, TypeOK
  <2>3. lane'[l] # "unused"
    BY <1>1 DEF StartLane, TypeOK
  <2> QED BY <2>1, <2>2, <2>3 DEF UsedInLife, Indices
<1>2. ASSUME NEW l \in Lanes, StopLane(l) PROVE UsedInLife'
  BY <1>2, UsedKept DEF StopLane, TypeOK
<1>3. ASSUME NEW l \in Lanes, RestartLane(l) PROVE UsedInLife'
  BY <1>3, UsedKept DEF RestartLane
<1>4. ASSUME CloseSession PROVE UsedInLife'
  BY <1>4, UsedKept DEF CloseSession
<1>5. ASSUME (\E l \in Lanes : TakeBegins(l)) \/ TakeFails PROVE UsedInLife'
  BY <1>5, UsedKept DEF TakeBegins, TakeFails
<1>6. CASE TakeCommits
  <2>1. UNCHANGED <<lane, life, origin, born, resume>>
    BY <1>6 DEF TakeCommits
  <2>2. Indices \subseteq Indices' /\ \A j \in Indices : checkpoints'[j] = checkpoints[j]
    BY <1>6, CommitRows
  <2>3. /\ \A r \in Requests : resume[r].todo \subseteq Indices
        /\ \A l \in Lanes : origin[l] # 0 => origin[l] \in Indices
    BY DEF TypeOK, RequestState
  <2> QED BY <2>1, <2>2, <2>3 DEF UsedInLife
<1>7. ASSUME NEW r \in Requests, ResumeBegins(r) PROVE UsedInLife'
  <2>1. /\ resume'[r].todo = Unconsumed /\ resume'[r].pc = "next"
        /\ \A q \in Requests : q # r => resume'[q] = resume[q]
    BY <1>7 DEF ResumeBegins, TypeOK
  <2>2. UNCHANGED <<checkpoints, lane, life, origin, born>> /\ Indices' = Indices
    BY <1>7 DEF ResumeBegins, Indices
  <2> QED BY <2>1, <2>2 DEF UsedInLife, Unconsumed
<1>8. ASSUME NEW r \in Requests, Skip(r) PROVE UsedInLife'
  BY <1>8, SkipMoves, UsedKept DEF Skip
<1>9. ASSUME NEW r \in Requests, Consume(r) PROVE UsedInLife'
  <2>1. UNCHANGED <<lane, life, origin, born>>
    BY <1>9 DEF Consume
  <2>2. PICK i \in resume[r].todo :
            /\ i \in Indices
            /\ Indices' = Indices
            /\ \A j \in Indices :
                checkpoints'[j].consumedIn = IF j = i THEN life ELSE checkpoints[j].consumedIn
            /\ resume'[r].pc = "consumed" /\ resume'[r].current = i
            /\ resume'[r].todo = resume[r].todo \ {i}
            /\ \A q \in Requests : q # r => resume'[q] = resume[q]
    BY <1>9, ConsumeRows
  <2>3. /\ \A q \in Requests : resume[q].todo \subseteq Indices
        /\ \A l \in Lanes : origin[l] # 0 => origin[l] \in Indices
    BY DEF TypeOK, RequestState
  <2>4. checkpoints[i].consumedIn \in {0, life}
    BY DEF UsedInLife
  <2>5. \A q \in Requests : \A j \in resume'[q].todo : checkpoints'[j].consumedIn \in {0, life}
    BY <2>2, <2>3 DEF UsedInLife
  <2>6. \A q \in Requests : resume'[q].pc = "consumed" =>
            resume'[q].current \in Indices /\ checkpoints'[resume'[q].current].consumedIn = life
    BY <2>2 DEF UsedInLife
  <2>7. \A l \in Lanes : origin[l] # 0 => checkpoints'[origin[l]].consumedIn = born[l] /\ born[l] # 0
    BY <2>2, <2>3, <2>4 DEF UsedInLife
  <2> QED BY <2>1, <2>2, <2>5, <2>6, <2>7 DEF UsedInLife
<1>10. ASSUME NEW r \in Requests, Respawn(r) PROVE UsedInLife'
  <2>1. PICK l \in Lanes :
            /\ lane' = [lane EXCEPT ![l] = "starting"]
            /\ origin' = [origin EXCEPT ![l] = resume[r].current]
            /\ born' = [born EXCEPT ![l] = life]
            /\ resume'[r].pc = "starting" /\ resume'[r].todo = resume[r].todo
            /\ \A q \in Requests : q # r => resume'[q] = resume[q]
    BY <1>10, RespawnMoves
  <2>2. UNCHANGED <<checkpoints, life>> /\ Indices' = Indices
    BY <1>10 DEF Respawn, Indices
  <2>3. /\ \A k \in Lanes : k # l => /\ lane'[k] = lane[k] /\ origin'[k] = origin[k]
                                     /\ born'[k] = born[k]
        /\ lane'[l] = "starting" /\ origin'[l] = resume[r].current /\ born'[l] = life
    BY <2>1 DEF TypeOK
  <2>4. checkpoints[resume[r].current].consumedIn = life
    BY <1>10 DEF Respawn, UsedInLife
  <2> QED BY <2>1, <2>2, <2>3, <2>4 DEF UsedInLife
<1>11. ASSUME NEW r \in Requests, RespawnFails(r) PROVE UsedInLife'
  BY <1>11, NextMoves, UsedKept DEF RespawnFails
<1>12. ASSUME NEW r \in Requests, Respawned(r) PROVE UsedInLife'
  <2>1. \A l \in Lanes : lane'[l] = "unused" => lane[l] = "unused"
    BY <1>12 DEF Respawned, TypeOK
  <2> QED BY <1>12, <2>1, NextMoves, UsedKept DEF Respawned
<1>13. ASSUME NEW r \in Requests, ResumeRaises(r) PROVE UsedInLife'
  <2>1. \A q \in Requests : resume'[q] = IF q = r THEN NotRunning ELSE resume[q]
    BY <1>13 DEF ResumeRaises, TypeOK
  <2> QED BY <1>13, <2>1, UsedKept DEF ResumeRaises, NotRunning
<1>14. ASSUME NEW r \in Requests, ResumeReturns(r) PROVE UsedInLife'
  BY <1>14, ReturnMoves, UsedKept DEF ResumeReturns
<1>15. CASE Crash
  <2>1. \A l \in Lanes : lane'[l] = "unused" => lane[l] = "unused"
    BY <1>15 DEF Crash
  <2>2. \A q \in Requests : resume'[q].todo = {} /\ resume'[q].pc = "idle"
    BY <1>15 DEF Crash, NotRunning
  <2> QED BY <1>15, <2>1, <2>2, UsedKept DEF Crash
<1>16. CASE Reboot
  <2>1. \A q \in Requests : resume[q].todo = {} /\ resume[q].pc = "idle"
    BY <1>16 DEF Reboot, TypeOK, NotRunning
  <2>2. life' # 0
    BY <1>16 DEF Reboot, TypeOK
  <2> QED BY <1>16, <2>1, <2>2 DEF Reboot, UsedInLife, Indices
<1>17. ASSUME NEW i \in Indices, Damage(i) PROVE UsedInLife'
  <2>1. UNCHANGED <<lane, life, origin, born, resume>>
    BY <1>17 DEF Damage
  <2>2. Indices' = Indices /\ \A j \in Indices : checkpoints'[j].consumedIn = checkpoints[j].consumedIn
    BY <1>17, Rows, Damaged DEF Damage
  <2>3. /\ \A r \in Requests : resume[r].todo \subseteq Indices
        /\ \A l \in Lanes : origin[l] # 0 => origin[l] \in Indices
    BY DEF TypeOK, RequestState
  <2> QED BY <2>1, <2>2, <2>3 DEF UsedInLife
<1>18. ASSUME UNCHANGED vars PROVE UsedInLife'
  BY <1>18, UsedKept DEF vars
<1> QED BY <1>1, <1>2, <1>3, <1>4, <1>5, <1>6, <1>7, <1>8, <1>9, <1>10, <1>11, <1>12,
           <1>13, <1>14, <1>15, <1>16, <1>17, <1>18
        DEF Next, LaneStep, TakeStep, ResumeStep

(* A checkpoint that was used in one life of the daemon starts no lane in  *)
(* another.                                                                *)
THEOREM NotAppliedAgain == Spec => []AppliedInOneLife
<1>1. Init => TypeInv /\ UsedInLife
  BY TypeInit, UsedInit
<1>2. TypeInv /\ UsedInLife /\ [Next]_vars => TypeInv' /\ UsedInLife'
  BY TypeStep, UsedStep
<1>3. UsedInLife => AppliedInOneLife
  BY DEF UsedInLife, AppliedInOneLife
<1> QED BY <1>1, <1>2, <1>3, PTL DEF Spec

-----------------------------------------------------------------------------
(* What is settled stays settled.                                          *)

(* A lane that ran does not start again, and one that is gone gets no row. *)
LEMMA LanesKept ==
    ASSUME TypeInv, [Next]_vars
    PROVE  /\ Ran \subseteq Ran'
           /\ \A l \in Lanes : Gone(l) => Gone(l)'
<1> USE DEF TypeInv
<1>1. lane \in [Lanes -> {"unused", "starting", "running", "stray", "stopped", "failed", "lost"}]
  BY DEF TypeOK
<1>2. ASSUME NEW l \in Lanes, StartLane(l)
      PROVE  Ran \subseteq Ran' /\ \A k \in Lanes : Gone(k) => Gone(k)'
  BY <1>1, <1>2 DEF StartLane, Ran, Gone
<1>3. ASSUME NEW l \in Lanes, StopLane(l)
      PROVE  Ran \subseteq Ran' /\ \A k \in Lanes : Gone(k) => Gone(k)'
  BY <1>1, <1>3 DEF StopLane, Ran, Gone, Running
<1>4. ASSUME NEW l \in Lanes, RestartLane(l)
      PROVE  Ran \subseteq Ran' /\ \A k \in Lanes : Gone(k) => Gone(k)'
  BY <1>1, <1>4 DEF RestartLane, Ran, Gone, Running
<1>5. ASSUME NEW r \in Requests, Respawn(r)
      PROVE  Ran \subseteq Ran' /\ \A k \in Lanes : Gone(k) => Gone(k)'
  BY <1>1, <1>5 DEF Respawn, Ran, Gone
<1>6. ASSUME NEW r \in Requests, Respawned(r)
      PROVE  Ran \subseteq Ran' /\ \A k \in Lanes : Gone(k) => Gone(k)'
  <2>1. resume[r].lane \in Lanes /\ lane[resume[r].lane] = "starting"
    BY <1>6 DEF Respawned, OwnLane
  <2>2. rows' \subseteq rows \cup {resume[r].lane}
    BY <1>6 DEF Respawned
  <2>3. \A k \in Lanes : k # resume[r].lane => lane'[k] = lane[k]
    BY <1>1, <1>6 DEF Respawned
  <2> QED BY <2>1, <2>2, <2>3 DEF Ran, Gone
<1>7. CASE Crash
  BY <1>1, <1>7 DEF Crash, Ran, Gone
<1>8. CASE UNCHANGED <<lane, rows>>
  BY <1>8 DEF Ran, Gone
<1>9. CloseSession \/ (\E l \in Lanes : TakeBegins(l)) \/ TakeCommits \/ TakeFails
        \/ (\E r \in Requests : \/ ResumeBegins(r) \/ Skip(r) \/ Consume(r) \/ RespawnFails(r)
                                \/ ResumeRaises(r) \/ ResumeReturns(r))
        \/ Reboot \/ (\E i \in Indices : Damage(i)) \/ UNCHANGED vars
        => UNCHANGED <<lane, rows>>
  BY DEF CloseSession, TakeBegins, TakeCommits, TakeFails, ResumeBegins, Skip, Consume,
         RespawnFails, ResumeRaises, ResumeReturns, Reboot, Damage, vars
<1> QED BY <1>2, <1>3, <1>4, <1>5, <1>6, <1>7, <1>8, <1>9
        DEF Next, LaneStep, TakeStep, ResumeStep

LEMMA RanStep == ASSUME TypeInv, CheckpointsOfRan, life # 0, [Next]_vars PROVE CheckpointsOfRan'
<1>1. Ran \subseteq Ran'
  BY LanesKept
<1>2. \A i \in Indices' : checkpoints'[i].lane \in Ran
  <2>1. CASE TakeCommits
    BY <2>1, CommitRows DEF CheckpointsOfRan, TakeCommits
  <2>2. CASE ~TakeCommits
    <3>1. Indices' = Indices
      <4>1. ASSUME NEW i \in Indices, Damage(i) PROVE Indices' = Indices
        BY <4>1, Rows, Damaged DEF TypeInv, Damage
      <4>2. ASSUME NEW r \in Requests, Consume(r) PROVE Indices' = Indices
        BY <4>2, ConsumeRows DEF TypeInv
      <4>3. CASE UNCHANGED checkpoints
        BY <4>3 DEF Indices
      <4> QED BY <2>2, <4>1, <4>2, <4>3, RowSteps
    <3> QED BY <3>1, RowsKept DEF CheckpointsOfRan
  <2> QED BY <2>1, <2>2
<1>3. taking' # NotTaking => taking'.lane \in Ran
  <2>1. ASSUME NEW l \in Lanes, TakeBegins(l) PROVE taking'.lane \in Ran
    BY <2>1 DEF TakeBegins, Running, Ran
  <2>2. CASE taking' = NotTaking \/ UNCHANGED taking
    BY <2>2 DEF CheckpointsOfRan
  <2>3. (\E l \in Lanes : TakeBegins(l)) \/ taking' = NotTaking \/ UNCHANGED taking
    BY DEF Next, vars, LaneStep, TakeStep, ResumeStep, StartLane, StopLane, RestartLane,
           CloseSession, TakeCommits, TakeFails, ResumeBegins, Skip, Consume, Respawn, RespawnFails,
           Respawned, ResumeRaises, ResumeReturns, Crash, Reboot, Damage
  <2> QED BY <2>1, <2>2, <2>3
<1> QED BY <1>1, <1>2, <1>3 DEF CheckpointsOfRan, NotTaking

LEMMA SettledStays ==
    ASSUME TypeInv, life # 0, [Next]_vars
    PROVE  \A i \in Indices : Settled(i) => Settled(i)'
<1>1. \A i \in Indices : checkpoints[i].lane \in Lanes
  BY Rows DEF TypeInv
<1>2. \A l \in Lanes : Gone(l) => l \notin rows' /\ lane'[l] \in {"stopped", "lost"}
  BY LanesKept DEF Gone
<1> QED BY <1>1, <1>2, RowsKept DEF Settled, Gone

-----------------------------------------------------------------------------
(* The order in which a request works.                                     *)

(* What a step may do to a request.                                        *)
Progress(r) ==
    \/ resume[r]' = NotRunning
    \/ /\ resume'[r].listed = resume[r].listed
       /\ resume'[r].todo \subseteq resume[r].todo
       /\ \A i \in resume[r].todo : i \in resume'[r].todo \/ Settled(i)'
       /\ resume'[r].pc = "returned" => resume'[r].todo = {}

LEMMA WorkedKept ==
    ASSUME TypeInv, Worked, life # 0, [Next]_vars, NEW r \in Requests, Progress(r)
    PROVE  WorkedOn(r)'
<1>1. CASE resume[r]' = NotRunning
  BY <1>1 DEF WorkedOn, NotRunning
<1>2. CASE /\ resume'[r].listed = resume[r].listed
           /\ resume'[r].todo \subseteq resume[r].todo
           /\ \A i \in resume[r].todo : i \in resume'[r].todo \/ Settled(i)'
           /\ resume'[r].pc = "returned" => resume'[r].todo = {}
  <2>1. resume[r].listed \subseteq Indices /\ resume[r].todo \subseteq Indices
    BY DEF TypeInv, TypeOK, RequestState
  <2>2. \A i \in Indices : Settled(i) => Settled(i)'
    BY SettledStays
  <2>3. \A j \in Indices : \A i \in Indices' : i < j => i \in Indices
    BY Rows DEF TypeInv, Indices
  <2>4. \A i \in Indices : checkpoints'[i].lane = checkpoints[i].lane
    BY RowsKept
  <2>5. \A i \in resume'[r].listed : i \in resume'[r].todo \/ Settled(i)'
    BY <1>2, <2>1, <2>2 DEF Worked, WorkedOn
  <2>6. ASSUME NEW j \in resume'[r].todo, NEW i \in Indices',
               i < j, checkpoints'[i].lane = checkpoints'[j].lane
        PROVE  i \in resume'[r].todo \/ Settled(i)'
    <3>1. j \in resume[r].todo /\ j \in Indices
      BY <1>2, <2>1
    <3>2. i \in Indices /\ checkpoints[i].lane = checkpoints[j].lane
      BY <2>3, <2>4, <2>6, <3>1
    <3>3. i \in resume[r].todo \/ Settled(i)
      BY <2>6, <3>1, <3>2 DEF Worked, WorkedOn
    <3> QED BY <1>2, <2>2, <3>2, <3>3
  <2> QED BY <1>2, <2>5, <2>6 DEF WorkedOn
<1> QED BY <1>1, <1>2 DEF Progress

LEMMA WorkedStep ==
    ASSUME TypeInv, CheckpointsOfRan, Worked, life # 0, [Next]_vars
    PROVE  Worked'
<1> USE DEF TypeInv
<1>1. ASSUME UNCHANGED resume, NEW q \in Requests PROVE Progress(q)
  BY <1>1 DEF Progress, Worked, WorkedOn
<1>2. ASSUME NEW r \in Requests, NEW q \in Requests, resume'[q] = resume[q] PROVE Progress(q)
  BY <1>2 DEF Progress, Worked, WorkedOn
<1>3. ASSUME NEW r \in Requests, ResumeBegins(r), NEW q \in Requests PROVE WorkedOn(q)'
  <2>1. CASE q = r
    <3>1. /\ resume'[r].listed = Unconsumed /\ resume'[r].todo = Unconsumed
          /\ resume'[r].pc = "next"
      BY <1>3 DEF ResumeBegins, TypeOK
    <3>2. UNCHANGED checkpoints /\ Indices' = Indices
      BY <1>3 DEF ResumeBegins, Indices
    <3> QED BY <2>1, <3>1, <3>2 DEF WorkedOn, Unconsumed, Settled
  <2>2. CASE q # r
    BY <1>2, <1>3, <2>2, WorkedKept DEF ResumeBegins, TypeOK
  <2> QED BY <2>1, <2>2
<1>4. ASSUME NEW r \in Requests, Skip(r), NEW q \in Requests PROVE Progress(q)
  <2>1. PICK i \in resume[r].todo :
            /\ ~(checkpoints[i].intact /\ Resolvable(checkpoints[i].lane))
            /\ resume'[r].pc = "next" /\ resume'[r].todo = resume[r].todo \ {i}
            /\ resume'[r].listed = resume[r].listed
            /\ \A p \in Requests : p # r => resume'[p] = resume[p]
    BY <1>4, SkipMoves
  <2>2. i \in Indices
    BY DEF TypeOK, RequestState
  <2>3. Settled(i)
    BY <2>1, <2>2, Rows DEF Settled, Resolvable, Running, Gone, CheckpointsOfRan, Ran
  <2>4. Settled(i)'
    BY <2>2, <2>3, SettledStays
  <2> QED BY <1>2, <2>1, <2>4 DEF Progress
<1>5. ASSUME NEW r \in Requests, Consume(r), NEW q \in Requests PROVE Progress(q)
  <2>1. PICK i \in resume[r].todo :
            /\ i \in Indices /\ checkpoints'[i].consumedIn = life
            /\ resume'[r].pc = "consumed"
            /\ resume'[r].todo = resume[r].todo \ {i}
            /\ resume'[r].listed = resume[r].listed
            /\ \A p \in Requests : p # r => resume'[p] = resume[p]
    BY <1>5, ConsumeRows
  <2>2. Settled(i)'
    BY <2>1 DEF Settled
  <2> QED BY <1>2, <2>1, <2>2 DEF Progress
<1>6. ASSUME NEW r \in Requests, Respawn(r), NEW q \in Requests PROVE Progress(q)
  <2>1. /\ resume'[r].pc = "starting"
        /\ resume'[r].todo = resume[r].todo /\ resume'[r].listed = resume[r].listed
        /\ \A p \in Requests : p # r => resume'[p] = resume[p]
    BY <1>6, RespawnMoves
  <2> QED BY <1>2, <2>1 DEF Progress
<1>7. ASSUME NEW r \in Requests, RespawnFails(r) \/ Respawned(r), NEW q \in Requests PROVE Progress(q)
  <2>1. /\ resume'[r].pc = "next"
        /\ resume'[r].todo = resume[r].todo /\ resume'[r].listed = resume[r].listed
        /\ \A p \in Requests : p # r => resume'[p] = resume[p]
    BY <1>7, NextMoves
  <2> QED BY <1>2, <2>1 DEF Progress
<1>8. ASSUME NEW r \in Requests, ResumeRaises(r), NEW q \in Requests PROVE Progress(q)
  BY <1>2, <1>8 DEF ResumeRaises, TypeOK, Progress
<1>9. ASSUME NEW r \in Requests, ResumeReturns(r), NEW q \in Requests PROVE Progress(q)
  <2>1. /\ resume[r].todo = {}
        /\ resume'[r].todo = resume[r].todo /\ resume'[r].listed = resume[r].listed
        /\ \A p \in Requests : p # r => resume'[p] = resume[p]
    BY <1>9, ReturnMoves DEF ResumeReturns
  <2> QED BY <1>2, <2>1 DEF Progress
<1>10. ASSUME Crash, NEW q \in Requests PROVE Progress(q)
  BY <1>10 DEF Crash, Progress
<1>11. \/ UNCHANGED resume
       \/ Crash
       \/ \E r \in Requests : ResumeStep(r)
  BY DEF Next, vars, LaneStep, TakeStep, StartLane, StopLane, RestartLane, CloseSession,
         TakeBegins, TakeCommits, TakeFails, Reboot, Damage
<1>12. ASSUME NEW q \in Requests PROVE WorkedOn(q)'
  <2>1. CASE \E r \in Requests : ResumeBegins(r)
    BY <1>3, <2>1
  <2>2. CASE ~ \E r \in Requests : ResumeBegins(r)
    <3>1. Progress(q)
      BY <1>1, <1>4, <1>5, <1>6, <1>7, <1>8, <1>9, <1>10, <1>11, <2>2 DEF ResumeStep
    <3> QED BY <3>1, WorkedKept
  <2> QED BY <2>1, <2>2
<1> QED BY <1>12 DEF Worked, WorkedOn

LEMMA OlderStep ==
    ASSUME TypeInv, SequenceIsAge, Worked, OlderAreUsed, life # 0, [Next]_vars
    PROVE  OlderAreUsed'
<1>1. CASE UNCHANGED checkpoints
  BY <1>1 DEF OlderAreUsed, Indices
<1>2. ASSUME NEW r \in Requests, Consume(r) PROVE OlderAreUsed'
  <2>1. PICK k \in resume[r].todo :
            /\ k \in Indices
            /\ OldestFirst(r, k)
            /\ Resolvable(checkpoints[k].lane)
            /\ Indices' = Indices
            /\ \A j \in Indices :
                /\ checkpoints'[j].lane = checkpoints[j].lane
                /\ checkpoints'[j].intact = checkpoints[j].intact
                /\ checkpoints'[j].consumedIn = IF j = k THEN life ELSE checkpoints[j].consumedIn
    BY <1>2, ConsumeRows DEF TypeInv
  <2>2. ASSUME NEW i \in Indices, i < k, checkpoints[i].lane = checkpoints[k].lane
        PROVE  checkpoints[i].consumedIn # 0 \/ ~checkpoints[i].intact
    <3>1. checkpoints[i].sequence < checkpoints[k].sequence
      BY <2>1, <2>2 DEF SequenceIsAge
    <3>2. i \notin resume[r].todo
      BY <2>1, <3>1, Rows DEF OldestFirst, TypeInv
    <3>3. ~Gone(checkpoints[i].lane)
      BY <2>1, <2>2 DEF Gone, Resolvable, Running
    <3> QED BY <2>1, <2>2, <3>2, <3>3 DEF Worked, WorkedOn, Settled
  <2> QED BY <2>1, <2>2 DEF OlderAreUsed
<1>3. CASE TakeCommits
  <2>1. \A i \in Indices : i \in Nat /\ i <= Len(checkpoints)
    BY Rows DEF TypeInv
  <2>2. \A i, j \in Indices' : i < j /\ checkpoints'[j].consumedIn # 0 => i \in Indices /\ j \in Indices
    BY <1>3, <2>1, CommitRows
  <2> QED BY <1>3, <2>2, CommitRows DEF OlderAreUsed
<1>4. ASSUME NEW i \in Indices, Damage(i) PROVE OlderAreUsed'
  BY <1>4, Rows, Damaged DEF TypeInv, OlderAreUsed, Damage
<1> QED BY <1>1, <1>2, <1>3, <1>4, RowSteps

-----------------------------------------------------------------------------
(* A request alone.                                                        *)

LEMMA AtWorkIs ==
    /\ \A r : r \in AtWork <=> r \in Requests /\ resume[r].pc \in {"next", "consumed", "starting"}
    /\ \A r : r \in AtWork' <=> r \in Requests /\ resume'[r].pc \in {"next", "consumed", "starting"}
BY DEF AtWork

(* A request that goes on with less before it, while no lane is started.   *)
LEMMA AheadKept ==
    ASSUME TypeInv, life # 0, [Next]_vars, NEW r \in Requests, AheadOf(r), UNCHANGED origin,
           \A i \in Indices : checkpoints'[i].intact => checkpoints[i].intact,
           resume'[r].todo \subseteq resume[r].todo,
           resume'[r].pc = "consumed" => resume'[r] = resume[r],
           resume[r].pc = "consumed" => resume[r].current \in Indices
    PROVE  AheadOf(r)'
<1>1. \A i \in Indices : checkpoints'[i].lane = checkpoints[i].lane
  BY RowsKept
<1>2. /\ resume[r].todo \subseteq Indices
      /\ \A k \in Lanes : origin[k] # 0 => origin[k] \in Indices
  BY DEF TypeInv, TypeOK, RequestState
<1>3. ASSUME NEW i \in Indices, NewerThanAll(i) PROVE NewerThanAll(i)'
  BY <1>1, <1>2, <1>3 DEF NewerThanAll
<1>4. \A i \in resume'[r].todo : checkpoints'[i].intact => NewerThanAll(i)'
  BY <1>2, <1>3 DEF AheadOf
<1>5. ASSUME resume'[r].pc = "consumed"
      PROVE  /\ NewerThanAll(resume[r].current)'
             /\ \A i \in resume'[r].todo :
                  checkpoints'[i].lane = checkpoints'[resume'[r].current].lane
                      => resume'[r].current < i
  <2>1. resume'[r] = resume[r] /\ resume[r].pc = "consumed" /\ resume[r].current \in Indices
    BY <1>5
  <2>2. NewerThanAll(resume[r].current)
    BY <2>1 DEF AheadOf
  <2>3. NewerThanAll(resume[r].current)'
    BY <1>1, <1>2, <2>1, <2>2 DEF NewerThanAll
  <2> QED BY <1>1, <1>2, <2>1, <2>3 DEF AheadOf
<1> QED BY <1>4, <1>5 DEF AheadOf, NewerThanAll

LEMMA AheadStep ==
    ASSUME TypeInv, SequenceIsAge, UsedInLife, OlderAreUsed, Ahead, [Next]_vars
    PROVE  Ahead'
<1> USE DEF TypeInv
<1> SUFFICES ASSUME ~contended', NEW r \in AtWork'
             PROVE  AheadOf(r)' /\ \A q \in AtWork' : q = r
  BY DEF Ahead
<1>1. r \in Requests /\ life # 0
  BY AtWorkIs DEF UsedInLife
<1>2. \A p \in Requests : resume[p].pc = "consumed" => resume[p].current \in Indices
  BY DEF UsedInLife
<1>3. ASSUME NEW p \in Requests, ResumeBegins(p) PROVE AheadOf(r)' /\ \A q \in AtWork' : q = r
  <2>1. AtWork = {}
    <3>1. contended' = (AtWork # {})
      BY <1>3 DEF ResumeBegins
    <3> QED BY <3>1, Zenon
  <2>2. /\ resume'[p].todo = Unconsumed /\ resume'[p].pc = "next"
        /\ \A q \in Requests : q # p => resume'[q] = resume[q]
        /\ UNCHANGED <<checkpoints, origin>> /\ Indices' = Indices
    BY <1>3 DEF ResumeBegins, TypeOK, Indices
  <2>3. \A q \in AtWork' : q = p
    BY <2>1, <2>2, AtWorkIs
  <2>4. ASSUME NEW i \in Unconsumed, checkpoints[i].intact PROVE NewerThanAll(i)
    <3>1. i \in Indices /\ checkpoints[i].consumedIn = 0
      BY DEF Unconsumed
    <3>2. ASSUME NEW k \in Lanes, origin[k] # 0, checkpoints[origin[k]].lane = checkpoints[i].lane
          PROVE  origin[k] < i
      <4>1. origin[k] \in Indices /\ checkpoints[origin[k]].consumedIn # 0
        BY <3>2 DEF UsedInLife, TypeOK
      <4>2. ~(i < origin[k])
        BY <2>4, <3>1, <3>2, <4>1 DEF OlderAreUsed
      <4>3. i # origin[k]
        BY <3>1, <4>1
      <4> QED BY <3>1, <4>1, <4>2, <4>3, Rows
    <3> QED BY <3>2 DEF NewerThanAll
  <2>5. \A i \in Unconsumed : checkpoints'[i].intact => NewerThanAll(i)'
    BY <2>2, <2>4 DEF NewerThanAll
  <2> QED BY <2>2, <2>3, <2>5 DEF AheadOf
<1>4. ASSUME NEW p \in Requests, ResumeRaises(p) \/ ResumeReturns(p)
      PROVE  AheadOf(r)' /\ \A q \in AtWork' : q = r
  <2>1. /\ resume'[p].pc \in {"idle", "returned"}
        /\ \A q \in Requests : q # p => resume'[q] = resume[q]
        /\ UNCHANGED <<checkpoints, origin>>
    <3>1. CASE ResumeRaises(p)
      BY <3>1 DEF ResumeRaises, TypeOK, NotRunning
    <3>2. CASE ResumeReturns(p)
      BY <3>2, ReturnMoves DEF ResumeReturns
    <3> QED BY <1>4, <3>1, <3>2
  <2>2. \A q \in AtWork' : q # p /\ q \in AtWork
    BY <2>1, AtWorkIs
  <2>3. AtWork # {p}
    BY <2>2
  <2>4. ~contended
    <3>1. contended' = (contended /\ AtWork # {p})
      BY <1>4 DEF ResumeRaises, ResumeReturns, Leaves
    <3> QED BY <2>3, <3>1, Zenon
  <2>5. AheadOf(r) /\ resume'[r] = resume[r] /\ \A q \in AtWork' : q = r
    BY <1>1, <2>1, <2>2, <2>4 DEF Ahead
  <2> QED BY <1>1, <1>2, <2>1, <2>5, AheadKept
<1>5. CASE Crash
  BY <1>1, <1>5, AtWorkIs DEF Crash, NotRunning
<1>6. ASSUME contended' = contended, \A q \in AtWork' : q \in AtWork
      PROVE  ~contended /\ AheadOf(r) /\ \A q \in AtWork' : q = r
  <2>1. ~contended
    BY <1>6, Zenon
  <2> QED BY <1>6, <2>1 DEF Ahead
<1>7. ASSUME NEW p \in Requests, Skip(p) \/ RespawnFails(p) \/ Respawned(p)
      PROVE  AheadOf(r)' /\ \A q \in AtWork' : q = r
  <2>1. /\ resume'[p].pc = "next" /\ resume'[p].todo \subseteq resume[p].todo
        /\ \A q \in Requests : q # p => resume'[q] = resume[q]
    BY <1>7, SkipMoves, NextMoves
  <2>2. /\ resume[p].pc \in {"next", "consumed", "starting"}
        /\ UNCHANGED <<checkpoints, origin, contended>>
    BY <1>7 DEF Skip, RespawnFails, Respawned
  <2>3. \A q \in AtWork' : q \in AtWork
    BY <2>1, <2>2, AtWorkIs
  <2>4. /\ resume'[r].todo \subseteq resume[r].todo
        /\ resume'[r].pc = "consumed" => resume'[r] = resume[r]
    BY <1>1, <2>1
  <2> QED BY <1>1, <1>2, <1>6, <2>2, <2>3, <2>4, AheadKept
<1>8. ASSUME NEW p \in Requests, Consume(p) PROVE AheadOf(r)' /\ \A q \in AtWork' : q = r
  <2>1. UNCHANGED <<origin, contended>> /\ resume[p].pc = "next"
    BY <1>8 DEF Consume
  <2>2. PICK j \in resume[p].todo :
            /\ j \in Indices /\ OldestFirst(p, j) /\ checkpoints[j].intact
            /\ Indices' = Indices
            /\ \A i \in Indices :
                /\ checkpoints'[i].lane = checkpoints[i].lane
                /\ checkpoints'[i].intact = checkpoints[i].intact
            /\ resume'[p].pc = "consumed" /\ resume'[p].current = j
            /\ resume'[p].todo = resume[p].todo \ {j}
            /\ \A q \in Requests : q # p => resume'[q] = resume[q]
    BY <1>8, ConsumeRows
  <2>3. \A q \in AtWork' : q \in AtWork
    BY <2>1, <2>2, AtWorkIs
  <2>4. p \in AtWork'
    BY <2>2, AtWorkIs
  <2>5. r = p /\ AheadOf(p) /\ \A q \in AtWork' : q = r
    BY <1>6, <2>1, <2>3, <2>4
  <2>6. /\ resume[p].todo \subseteq Indices
        /\ \A k \in Lanes : origin[k] # 0 => origin[k] \in Indices
    BY DEF TypeOK, RequestState
  <2>7. ASSUME NEW i \in Indices, NewerThanAll(i) PROVE NewerThanAll(i)'
    BY <2>1, <2>2, <2>6, <2>7 DEF NewerThanAll
  <2>8. \A i \in resume'[p].todo : checkpoints'[i].intact => NewerThanAll(i)'
    BY <2>2, <2>5, <2>6, <2>7 DEF AheadOf
  <2>9. NewerThanAll(j)'
    BY <2>2, <2>5, <2>7 DEF AheadOf
  <2>10. ASSUME NEW i \in resume[p].todo, i # j, checkpoints[i].lane = checkpoints[j].lane
         PROVE  j < i
    <3>1. i \in Indices /\ checkpoints[j].sequence <= checkpoints[i].sequence
      BY <2>2, <2>6 DEF OldestFirst
    <3>2. ~(i < j)
      BY <2>2, <2>10, <3>1, Rows DEF SequenceIsAge
    <3> QED BY <2>2, <2>10, <3>1, <3>2, Rows
  <2>11. \A i \in resume'[p].todo :
            checkpoints'[i].lane = checkpoints'[resume'[p].current].lane => resume'[p].current < i
    BY <2>2, <2>6, <2>10
  <2>12. NewerThanAll(resume[p].current)'
    BY <2>2, <2>9 DEF NewerThanAll
  <2> QED BY <2>5, <2>8, <2>11, <2>12 DEF AheadOf, NewerThanAll
<1>9. ASSUME NEW p \in Requests, Respawn(p) PROVE AheadOf(r)' /\ \A q \in AtWork' : q = r
  <2>1. /\ UNCHANGED <<checkpoints, contended>> /\ Indices' = Indices
        /\ resume[p].pc = "consumed"
    BY <1>9 DEF Respawn, Indices
  <2>2. PICK l \in Lanes :
            /\ origin' = [origin EXCEPT ![l] = resume[p].current]
            /\ resume'[p].pc = "starting" /\ resume'[p].todo = resume[p].todo
            /\ \A q \in Requests : q # p => resume'[q] = resume[q]
    BY <1>9, RespawnMoves
  <2>3. \A q \in AtWork' : q \in AtWork
    BY <2>1, <2>2, AtWorkIs
  <2>4. p \in AtWork'
    BY <2>2, AtWorkIs
  <2>5. r = p /\ AheadOf(p) /\ \A q \in AtWork' : q = r
    BY <1>6, <2>1, <2>3, <2>4
  <2>6. \A k \in Lanes : origin'[k] = IF k = l THEN resume[p].current ELSE origin[k]
    BY <2>2 DEF TypeOK
  <2>7. ASSUME NEW i \in resume[p].todo, checkpoints[i].intact PROVE NewerThanAll(i)'
    <3>1. NewerThanAll(i)
      BY <2>5, <2>7 DEF AheadOf
    <3>2. checkpoints[resume[p].current].lane = checkpoints[i].lane => resume[p].current < i
      BY <2>1, <2>5 DEF AheadOf
    <3> QED BY <2>1, <2>6, <3>1, <3>2 DEF NewerThanAll
  <2> QED BY <2>1, <2>2, <2>5, <2>7 DEF AheadOf
<1>10. ASSUME UNCHANGED <<resume, origin, contended>>,
              \A i \in Indices : checkpoints'[i].intact => checkpoints[i].intact
       PROVE  AheadOf(r)' /\ \A q \in AtWork' : q = r
  <2>1. \A q \in AtWork' : q \in AtWork
    BY <1>10, AtWorkIs
  <2> QED BY <1>1, <1>2, <1>6, <1>10, <2>1, AheadKept
<1>11. CASE TakeCommits
  <2>1. UNCHANGED <<resume, origin, contended>>
    BY <1>11 DEF TakeCommits
  <2>2. \A i \in Indices : checkpoints'[i].intact => checkpoints[i].intact
    BY <1>11, CommitRows
  <2> QED BY <1>10, <2>1, <2>2
<1>12. ASSUME NEW j \in Indices, Damage(j) PROVE AheadOf(r)' /\ \A q \in AtWork' : q = r
  <2>1. UNCHANGED <<resume, origin, contended>>
    BY <1>12 DEF Damage
  <2>2. \A i \in Indices : checkpoints'[i].intact => checkpoints[i].intact
    BY <1>12, Rows, Damaged DEF Damage
  <2> QED BY <1>10, <2>1, <2>2
<1>13. CASE \/ \E l \in Lanes : StartLane(l) \/ StopLane(l) \/ RestartLane(l) \/ TakeBegins(l)
            \/ CloseSession \/ TakeFails \/ Reboot \/ UNCHANGED vars
  <2>1. UNCHANGED <<resume, origin, contended, checkpoints>>
    BY <1>13 DEF StartLane, StopLane, RestartLane, TakeBegins, CloseSession, TakeFails, Reboot, vars
  <2> QED BY <1>10, <2>1
<1> QED BY <1>3, <1>4, <1>5, <1>7, <1>8, <1>9, <1>11, <1>12, <1>13
        DEF Next, LaneStep, TakeStep, ResumeStep

-----------------------------------------------------------------------------
(* The theorems.                                                           *)

LEMMA Invariance == Spec => []IInv
<1>1. Init => IInv
  <2>1. ASSUME Init PROVE IInv
    <3>1. Indices = {}
      BY <2>1 DEF Init, Indices
    <3> QED BY <2>1, <3>1, TypeInit, UsedInit
            DEF Init, IInv, CheckpointsOfRan, SequenceIsAge, Worked, WorkedOn, OlderAreUsed, Ahead,
                AtWork, NotRunning
  <2> QED BY <2>1
<1>2. IInv /\ [Next]_vars => IInv'
  <2>1. ASSUME IInv, [Next]_vars PROVE IInv'
    <3>1. life # 0
      BY <2>1 DEF IInv, UsedInLife
    <3> QED BY <2>1, <3>1, TypeStep, RanStep, AgeStep, UsedStep, WorkedStep, OlderStep, AheadStep
            DEF IInv
  <2> QED BY <2>1
<1> QED BY <1>1, <1>2, PTL DEF Spec

(* A resume that is at work alone starts each lane from a checkpoint newer *)
(* than any of its lane that was started from (resume_session), for any    *)
(* number of requests, failures, damaged rows and lives of the daemon.     *)
THEOREM NoStepBack == Spec => NeverBackAlone
<1> DEFINE Forward ==
        \A l \in Lanes : origin[l] = 0 /\ origin'[l] # 0 /\ ~contended =>
            \A k \in Lanes :
                origin[k] # 0 /\ checkpoints[origin[k]].lane = checkpoints[origin'[l]].lane
                    => origin[k] < origin'[l]
<1>1. ASSUME IInv, [Next]_vars, NEW l \in Lanes, origin[l] = 0, origin'[l] # 0, ~contended
      PROVE  NewerThanAll(origin'[l])
  <2>1. PICK r \in Requests : Respawn(r)
    BY <1>1 DEF Next, vars, LaneStep, TakeStep, ResumeStep, StartLane, StopLane, RestartLane,
                CloseSession, TakeBegins, TakeCommits, TakeFails, ResumeBegins, Skip, Consume,
                RespawnFails, Respawned, ResumeRaises, ResumeReturns, Crash, Reboot, Damage
  <2>2. PICK k \in Lanes : origin' = [origin EXCEPT ![k] = resume[r].current]
    BY <2>1 DEF Respawn
  <2>3. origin'[l] = resume[r].current
    BY <1>1, <2>2 DEF IInv, TypeInv, TypeOK
  <2>4. resume[r].pc = "consumed" /\ r \in AtWork
    BY <2>1 DEF Respawn, AtWork
  <2>5. AheadOf(r)
    BY <1>1, <2>4 DEF IInv, Ahead
  <2> QED BY <2>3, <2>4, <2>5 DEF AheadOf
<1>2. IInv /\ [Next]_vars => [Forward]_vars
  BY <1>1 DEF NewerThanAll
<1> QED BY <1>2, Invariance, PTL DEF Spec, NeverBackAlone

(* A resume that returns has used every checkpoint it could.               *)
THEOREM ResumeComplete == Spec => []RestAttempted
<1>1. IInv => RestAttempted
  BY Rows DEF IInv, TypeInv, Worked, WorkedOn, RestAttempted, Settled, Gone, Resolvable, Running
<1> QED BY <1>1, Invariance, PTL

-----------------------------------------------------------------------------
(* A session, its objects and its lanes (SessionRegistry).                 *)

(* What an object holds, which operations may be where, and the types.     *)
Kept == [status : {"created", "active", "closed"}, lanes : SUBSET Calls]

OpsAt(at) ==
    CASE at = "waiting" -> {"none"}
      [] at \in {"creating", "created", "ending"} -> {"create"}
      [] at = "loaded" -> {"start", "close", "plan"}
      [] at \in {"starting", "binding", "serving", "briefed", "attached"} -> {"create", "start"}
      [] at \in {"closing", "stopping"} -> {"close"}
      [] at = "planning" -> {"plan"}
      [] at = "concluding" -> {"create", "close", "plan"}
      [] OTHER -> {"create", "start", "close", "plan"}

Places == {"waiting", "creating", "created", "loaded", "starting", "binding", "serving",
           "briefed", "attached", "ending", "closing", "stopping", "planning", "concluding",
           "done", "failed", "lost"}

Requested ==
    [op : {"none", "create", "start", "close", "plan"}, at : Places,
     holds : Calls \cup {NoObject}, data : Kept, left : SUBSET Calls, after : SUBSET Calls]

Resting == {"waiting", "done", "failed", "lost"}

RequestsTyped ==
    /\ request \in [Calls -> Requested]
    /\ \A r \in Calls : request[r].op \in OpsAt(request[r].at)
    /\ \A r \in Calls : request[r].at \in {"creating", "created", "loaded"} => request[r].holds = r
    /\ \A r \in Calls : request[r].at \notin Resting => request[r].holds \in Calls

ObjectsTyped ==
    /\ object \in [Calls -> Kept]
    /\ remembered \in Calls \cup {NoObject}
    /\ sessionRow \in Kept \/ sessionRow.status = "none"
    /\ overlapped \subseteq Calls

PortsTyped ==
    /\ port \in [Calls -> Nat]
    /\ running \subseteq Calls
    /\ IsFiniteSet(running)

RegistryTyped == RequestsTyped /\ ObjectsTyped /\ PortsTyped

(* Two requests in progress are both known to overlap.                     *)
OverlapSeen == \A r, s \in InProgress : r = s \/ r \in overlapped

(* Where the request of a running lane is: the server has its port.        *)
RunningIsPast ==
    \A x \in running :
        request[x].at \in {"briefed", "attached", "ending", "concluding", "done", "failed"}

(* No running lane has the port a request chose alone and has not taken.   *)
PortIsFree ==
    \A r \in In("binding") \ overlapped : \A x \in running : port[x] # port[r]

(* A request in progress alone works on the object that is remembered, and *)
(* what it did to it is what it writes.                                    *)
Alone == InProgress \ overlapped

WorksOnRemembered ==
    \A r \in Alone :
        /\ request[r].at \notin {"creating", "created", "loaded"} => remembered = request[r].holds
        /\ request[r].at = "attached" => r \in Held(r).lanes /\ r \in request[r].data.lanes
        /\ request[r].at = "concluding" /\ request[r].op = "close" =>
            Held(r).status = "closed" /\ request[r].data.status = "closed"

(* Every copy of the session that may yet be written or read: those there  *)
(* are to read, those requests work on, those on their way to the row.  All*)
(* of them know what was done alone.                                       *)
LiveCopies ==
    Copies \cup {Held(r) : r \in InProgress}
           \cup {request[r].data : r \in In("attached") \cup In("concluding")}

Known ==
    /\ \A r \in DoneAlone("start") : \A copy \in LiveCopies : r \in copy.lanes
    /\ DoneAlone("close") # {} => \A copy \in LiveCopies : copy.status = "closed"

(* By then the session is created, and nobody creates it again.            *)
CreatedBefore ==
    DoneAlone("start") \cup DoneAlone("close") # {} =>
        sessionRow.status # "none" /\ \A s \in InProgress : request[s].op # "create"

(* A close has the lanes that were started alone before it on its list.    *)
StoppedByClose ==
    /\ \A r \in Calls : request[r].after \subseteq In("done")
    /\ \A r \in Calls : request[r].op = "close" =>
        /\ request[r].at = "stopping" =>
            request[r].after \cap DoneAlone("start") \cap running \subseteq request[r].left
        /\ request[r].at \in {"concluding", "done"} =>
            request[r].after \cap DoneAlone("start") \cap running = {}

TakenByOverlap == \A r \in Calls : <<r, "lane">> \in portTaken => r \in overlapped

RegistryInv ==
    /\ RegistryTyped /\ OverlapSeen /\ RunningIsPast /\ PortIsFree /\ WorksOnRemembered
    /\ Known /\ CreatedBefore /\ StoppedByClose /\ TakenByOverlap
-----------------------------------------------------------------------------
LEMMA WhoProceeds ==
    /\ \A r : r \in InProgress <=> r \in Calls /\ request[r].at \notin Resting
    /\ (\A r : r \in InProgress <=> r \in Calls /\ request[r].at \notin Resting)'
BY DEF InProgress, In, Over, Resting

LEMMA RequestedInit == ASSUME RegistryInit PROVE RegistryTyped
<1>1. New \in Kept /\ Waiting \in Requested
  BY DEF New, Kept, Waiting, Requested, Places
<1>2. RequestsTyped
  BY <1>1 DEF RegistryInit, RequestsTyped, Resting, Waiting, OpsAt
<1>3. ObjectsTyped
  BY <1>1 DEF RegistryInit, ObjectsTyped, New
<1>4. PortsTyped
  BY FS_EmptySet DEF RegistryInit, PortsTyped
<1> QED BY <1>2, <1>3, <1>4 DEF RegistryTyped

(* A request that gets a new place and new data.                           *)
LEMMA RequestMoves ==
    ASSUME RequestsTyped, NEW r \in Calls, NEW q \in Requested,
           q.op \in OpsAt(q.at),
           q.at \in {"creating", "created", "loaded"} => q.holds = r,
           q.at \notin Resting => q.holds \in Calls,
           request' = [request EXCEPT ![r] = q]
    PROVE  RequestsTyped'
BY DEF RequestsTyped

(* A request that only gets a new place.                                   *)
LEMMA PlaceMoves ==
    ASSUME RequestsTyped, NEW r \in Calls, NEW at \in Places,
           request[r].op \in OpsAt(at), request[r].at \notin Resting,
           at \notin {"creating", "loaded"}, at = "created" => request[r].holds = r,
           Goes(r, at)
    PROVE  RequestsTyped'
<1> DEFINE q == [request[r] EXCEPT !.at = at]
<1>1. q \in Requested /\ q.op = request[r].op /\ q.at = at /\ q.holds = request[r].holds
  BY DEF RequestsTyped, Requested
<1>2. request' = [request EXCEPT ![r] = q]
  BY DEF RequestsTyped, Goes
<1>3. q.at \notin Resting => q.holds \in Calls
  BY <1>1 DEF RequestsTyped
<1> HIDE DEF q
<1> QED BY <1>1, <1>2, <1>3, RequestMoves

LEMMA BeginMoves ==
    ASSUME RequestsTyped, NEW r \in Calls, NEW op \in {"create", "start", "close", "plan"},
           NEW at \in Places, NEW holds \in Calls, op \in OpsAt(at),
           at \in {"creating", "created", "loaded"} => holds = r,
           Begins(r, op, at, holds)
    PROVE  RequestsTyped'
<1> DEFINE q == [request[r] EXCEPT !.op = op, !.at = at, !.holds = holds, !.after = In("done")]
<1>1. q \in Requested /\ q.op = op /\ q.at = at /\ q.holds = holds
  <2>1. request[r] \in Requested /\ In("done") \in SUBSET Calls
    BY DEF RequestsTyped, In
  <2> QED BY <2>1 DEF Requested
<1>2. request' = [request EXCEPT ![r] = q]
  <2>1. request[r] \in Requested
    BY DEF RequestsTyped
  <2> QED BY <2>1 DEF RequestsTyped, Begins, Requested
<1> HIDE DEF q
<1> QED BY <1>1, <1>2, RequestMoves

LEMMA ChangeMoves ==
    ASSUME RegistryTyped, NEW r \in Calls, NEW at \in {"attached", "concluding"},
           NEW new \in Kept, request[r].op \in OpsAt(at), request[r].at \notin Resting,
           Changes(r, at, new)
    PROVE  RequestsTyped' /\ object' \in [Calls -> Kept]
<1> DEFINE q == [request[r] EXCEPT !.at = at, !.data = new]
<1>1. q \in Requested /\ q.op = request[r].op /\ q.at = at /\ q.holds = request[r].holds
  <2>1. request[r] \in Requested /\ at \in Places
    BY DEF RegistryTyped, RequestsTyped, Places
  <2> QED BY <2>1 DEF Requested
<1>2. request' = [request EXCEPT ![r] = q]
  BY DEF RegistryTyped, RequestsTyped, Changes
<1>3. q.holds \in Calls
  BY <1>1 DEF RegistryTyped, RequestsTyped
<1>4. object' \in [Calls -> Kept]
  BY <1>1, <1>3 DEF RegistryTyped, ObjectsTyped, Changes
<1> HIDE DEF q
<1> QED BY <1>1, <1>2, <1>3, <1>4, RequestMoves DEF RegistryTyped

LEMMA Giving ==
    ASSUME RequestsTyped, NEW r \in Calls,
           request[r].at \in {"starting", "briefed", "attached"}, GivesUp(r)
    PROVE  RequestsTyped'
<1>1. request[r].op \in {"create", "start"}
  BY DEF RequestsTyped, OpsAt
<1>2. request[r].at \notin Resting
  BY DEF Resting
<1>3. CASE request[r].op = "create"
  <2>1. Goes(r, "ending") BY <1>3 DEF GivesUp
  <2> QED BY <1>2, <1>3, <2>1, PlaceMoves DEF OpsAt, Places
<1>4. CASE request[r].op = "start"
  <2>1. Goes(r, "failed") BY <1>4 DEF GivesUp
  <2> QED BY <1>2, <1>4, <2>1, PlaceMoves DEF OpsAt, Places
<1> QED BY <1>1, <1>3, <1>4

LEMMA Dying ==
    ASSUME RegistryTyped, Dies
    PROVE  RegistryTyped'
<1>1. New \in Kept
  BY DEF New, Kept
<1>2. \A r \in Calls : [request[r] EXCEPT !.at = "lost"] \in Requested
  BY DEF RegistryTyped, RequestsTyped, Requested, Places
<1>3. request' \in [Calls -> Requested]
  BY <1>2 DEF Dies, RegistryTyped, RequestsTyped
<1>4. ASSUME NEW r \in Calls
      PROVE  /\ request'[r].op \in OpsAt(request'[r].at)
             /\ request'[r].at \in Resting
  <2>1. CASE r \in InProgress
    <3>1. request'[r].op = request[r].op /\ request'[r].at = "lost"
      BY <2>1 DEF Dies, RegistryTyped, RequestsTyped, Requested
    <3>2. request[r].op # "none"
      BY <2>1, WhoProceeds DEF RegistryTyped, RequestsTyped, OpsAt, Resting, Requested, Places
    <3>3. request[r].op \in {"none", "create", "start", "close", "plan"}
      BY DEF RegistryTyped, RequestsTyped, Requested
    <3> QED BY <3>1, <3>2, <3>3 DEF OpsAt, Resting
  <2>2. CASE r \notin InProgress
    <3>1. request'[r] = request[r] /\ request[r].at \in Resting
      BY <2>2, WhoProceeds DEF Dies
    <3> QED BY <3>1 DEF RegistryTyped, RequestsTyped
  <2> QED BY <2>1, <2>2
<1>5. RequestsTyped'
  BY <1>3, <1>4 DEF RequestsTyped, Resting
<1>6. ObjectsTyped'
  BY <1>1 DEF RegistryTyped, ObjectsTyped, Dies
<1>7. PortsTyped'
  BY FS_EmptySet DEF PortsTyped, Dies
<1> QED BY <1>5, <1>6, <1>7 DEF RegistryTyped

-----------------------------------------------------------------------------
(* There is a first port that no running lane has.                         *)
LEMMA LeastNatural ==
    ASSUME NEW T, T \subseteq Nat, T # {}
    PROVE  \E m \in T : \A n \in T : m <= n
<1> DEFINE R == OpToRel(<, Nat)
<1>1. IsWellFoundedOn(R, Nat)
  BY NatLessThanWellFounded
<1>2. \A x, y \in Nat : x < y => <<x, y>> \in R
  BY DEF OpToRel
<1>3. \E x \in T : \A y \in T : ~ (<<y, x>> \in R)
  <2> HIDE DEF R
  <2> QED BY <1>1, WFMin
<1>4. PICK m \in T : \A y \in T : ~ (<<y, m>> \in R)
  BY <1>3
<1>5. ASSUME NEW n \in T PROVE m <= n
  <2>1. m \in Nat /\ n \in Nat /\ ~(n < m)
    BY <1>2, <1>4
  <2> QED BY <2>1
<1> QED BY <1>4, <1>5

LEMMA FreePort ==
    ASSUME PortsTyped
    PROVE  NextPort \in Nat /\ \A x \in running : port[x] # NextPort
<1> DEFINE used == {port[x] : x \in running}
           n == Cardinality(running)
           T == (0..n) \ used
           f == [x \in running |-> port[x]]
<1>1. IsFiniteSet(running) /\ n \in Nat
  BY FS_CardinalityType DEF PortsTyped
<1>2. IsFiniteSet(used) /\ Cardinality(used) <= n
  <2>1. f \in Surjection(running, used)
    BY DEF Surjection
  <2> HIDE DEF f, used
  <2> QED BY <1>1, <2>1, FS_Surjection
<1>3. T # {}
  <2> SUFFICES ASSUME T = {} PROVE FALSE
    OBVIOUS
  <2>1. (0..n) \in SUBSET used
    OBVIOUS
  <2>2. Cardinality(0..n) = n + 1
    <3>1. 0 \in Int /\ n \in Int /\ ~(0 > n)
      BY <1>1
    <3> QED BY <1>1, <3>1, FS_Interval
  <2>3. Cardinality(0..n) <= Cardinality(used) /\ Cardinality(used) \in Nat
    <3> HIDE DEF used
    <3> QED BY <1>2, <2>1, FS_Subset, FS_CardinalityType
  <2> HIDE DEF n, used
  <2> QED BY <1>1, <1>2, <2>2, <2>3
<1>4. PICK p \in T : \A q \in T : p <= q
  <2>1. T \subseteq Nat
    BY <1>1
  <2> HIDE DEF T
  <2> QED BY <1>3, <2>1, LeastNatural
<1>5. p \in 0..n /\ p \notin used /\ \A q \in 0..p - 1 : q \in used
  BY <1>1, <1>4
<1>6. NextPort \in 0..n /\ NextPort \notin used
  <2> HIDE DEF n
  <2> QED BY <1>5 DEF NextPort, n
<1> QED BY <1>1, <1>6

(* Each step keeps the types.                                              *)
LEMMA TypesKept ==
    ASSUME RegistryTyped, NEW r \in Calls,
           request' = request \/ RequestsTyped',
           object' = object \/ object' \in [Calls -> Kept],
           remembered' \in {remembered, r},
           sessionRow' = sessionRow \/ sessionRow' \in Kept,
           overlapped' = overlapped \/ overlapped' \subseteq overlapped \cup Calls,
           port' = port \/ port' \in [Calls -> Nat],
           running' = running \/ running' = running \cup {r}
               \/ \E x : running' = running \ {x}
    PROVE  RegistryTyped'
<1>1. RequestsTyped'
  BY DEF RegistryTyped, RequestsTyped
<1>2. ObjectsTyped'
  BY DEF RegistryTyped, ObjectsTyped
<1>3. IsFiniteSet(running)
  BY DEF RegistryTyped, PortsTyped
<1>4. running' \subseteq Calls /\ IsFiniteSet(running')
  BY <1>3, FS_AddElement, FS_RemoveElement DEF RegistryTyped, PortsTyped
<1>5. PortsTyped'
  BY <1>4 DEF RegistryTyped, PortsTyped
<1> QED BY <1>1, <1>2, <1>5 DEF RegistryTyped

(* A step of one request.                                                  *)
StepOf(r) ==
    \/ CreateSession(r) \/ SaveCreated(r) \/ RememberCreated(r)
    \/ \E op \in {"start", "close", "plan"} : Recall(r, op)
    \/ \E op \in {"start", "close", "plan"} : LoadSession(r, op)
    \/ RememberLoaded(r)
    \/ Spawn(r) \/ SpawnFails(r) \/ BindPort(r) \/ Register(r)
    \/ Attach(r) \/ SaveLaneFails(r) \/ EndCreation(r)
    \/ ListLanes(r) \/ StopListed(r) \/ MarkClosed(r)
    \/ MakePlan(r) \/ OnlyLook(r)
    \/ PortReleased(r) \/ WriteSession(r) \/ WriteFails(r)

LEMMA RegistrySteps ==
    ASSUME [RegistryNext]_registryVars
    PROVE  \/ \E r \in Calls : StepOf(r)
           \/ \E r \in Calls : PortIsTaken(r)
           \/ Killed
           \/ UNCHANGED registryVars
BY DEF RegistryNext, StepOf

LEMMA StepTyped ==
    ASSUME RegistryTyped, NEW r \in Calls, StepOf(r)
    PROVE  RegistryTyped'
<1> USE DEF lanePlaces
<1>0. RequestsTyped /\ ObjectsTyped /\ PortsTyped
  BY DEF RegistryTyped
<1>n. New \in Kept
  BY DEF New, Kept
<1>q. request[r] \in Requested /\ request[r].op \in OpsAt(request[r].at)
  BY <1>0 DEF RequestsTyped
<1>1. CASE CreateSession(r)
  <2>1. Begins(r, "create", "creating", r)
    BY <1>1 DEF CreateSession
  <2>2. RequestsTyped'
    BY <1>0, <2>1, BeginMoves DEF OpsAt, Places
  <2>3. overlapped' \subseteq overlapped \cup Calls
    BY <2>1, WhoProceeds DEF Begins
  <2> QED BY <1>0, <1>1, <1>n, <2>2, <2>3, TypesKept DEF CreateSession, ObjectsTyped
<1>2. CASE SaveCreated(r)
  <2>1. RequestsTyped'
    BY <1>0, <1>2, <1>q, PlaceMoves DEF SaveCreated, OpsAt, Places, RequestsTyped, Resting
  <2>2. object[r] \in Kept
    BY <1>0 DEF ObjectsTyped
  <2> QED BY <1>2, <2>1, <2>2, TypesKept DEF SaveCreated
<1>3. CASE RememberCreated(r)
  <2>1. PICK next \in {"starting", "ending"} : Goes(r, next)
    BY <1>3 DEF RememberCreated
  <2>2. request[r].at = "created" /\ request[r].op = "create"
    BY <1>3, <1>q DEF RememberCreated, OpsAt
  <2>3. RequestsTyped'
    BY <1>0, <2>1, <2>2, PlaceMoves DEF OpsAt, Places, RequestsTyped, Resting
  <2> QED BY <1>3, <2>3, TypesKept DEF RememberCreated
<1>4. ASSUME NEW op \in {"start", "close", "plan"}, Recall(r, op)
      PROVE  RegistryTyped'
  <2>1. Begins(r, op, FirstStep(op), remembered) /\ remembered \in Calls
    BY <1>0, <1>4 DEF Recall, ObjectsTyped
  <2>2. RequestsTyped'
    BY <1>0, <2>1, BeginMoves DEF OpsAt, Places, FirstStep
  <2>3. overlapped' \subseteq overlapped \cup Calls
    BY <2>1, WhoProceeds DEF Begins
  <2> QED BY <1>4, <2>2, <2>3, TypesKept DEF Recall
<1>5. ASSUME NEW op \in {"start", "close", "plan"}, LoadSession(r, op)
      PROVE  RegistryTyped'
  <2>1. Begins(r, op, "loaded", r)
    BY <1>5 DEF LoadSession
  <2>2. RequestsTyped'
    BY <1>0, <2>1, BeginMoves DEF OpsAt, Places
  <2>3. overlapped' \subseteq overlapped \cup Calls
    BY <2>1, WhoProceeds DEF Begins
  <2>4. object' \in [Calls -> Kept]
    BY <1>0, <1>5 DEF LoadSession, ObjectsTyped
  <2> QED BY <1>5, <2>2, <2>3, <2>4, TypesKept DEF LoadSession
<1>6. CASE RememberLoaded(r)
  <2>1. request[r].at = "loaded" /\ request[r].op \in {"start", "close", "plan"}
    BY <1>6, <1>q DEF RememberLoaded, OpsAt
  <2>2. FirstStep(request[r].op) \in {"starting", "closing", "planning"}
        /\ request[r].op \in OpsAt(FirstStep(request[r].op))
    BY <2>1 DEF FirstStep, OpsAt
  <2>3. RequestsTyped'
    BY <1>0, <1>6, <2>1, <2>2, PlaceMoves DEF RememberLoaded, Places, Resting
  <2> QED BY <1>6, <2>3, TypesKept DEF RememberLoaded
<1>7. CASE Spawn(r)
  <2>1. RequestsTyped'
    BY <1>0, <1>7, <1>q, PlaceMoves DEF Spawn, OpsAt, Places, Resting
  <2>2. port' \in [Calls -> Nat]
    BY <1>0, <1>7, FreePort DEF Spawn, PortsTyped
  <2> QED BY <1>7, <2>1, <2>2, TypesKept DEF Spawn
<1>8. CASE SpawnFails(r)
  <2>1. RequestsTyped'
    BY <1>0, <1>8, Giving DEF SpawnFails
  <2> QED BY <1>8, <2>1, TypesKept DEF SpawnFails
<1>9. CASE BindPort(r)
  <2>1. RequestsTyped'
    BY <1>0, <1>9, <1>q, PlaceMoves DEF BindPort, OpsAt, Places, Resting
  <2> QED BY <1>9, <2>1, TypesKept DEF BindPort
<1>10. CASE Register(r)
  <2>1. RequestsTyped'
    BY <1>0, <1>10, <1>q, PlaceMoves DEF Register, OpsAt, Places, Resting
  <2> QED BY <1>10, <2>1, TypesKept DEF Register
<1>11. CASE Attach(r)
  <2>1. request[r].at \notin Resting /\ request[r].op \in OpsAt("attached")
    BY <1>11, <1>q DEF Attach, OpsAt, Resting
  <2>2. Held(r) \in Kept
    BY <1>0, <2>1 DEF Held, RequestsTyped, ObjectsTyped
  <2>3. [Held(r) EXCEPT !.lanes = @ \cup {r}] \in Kept
    BY <2>2 DEF Kept
  <2>4. Changes(r, "attached", [Held(r) EXCEPT !.lanes = @ \cup {r}])
    BY <1>11 DEF Attach
  <2>5. RequestsTyped' /\ object' \in [Calls -> Kept]
    BY <2>1, <2>3, <2>4, ChangeMoves
  <2> QED BY <1>11, <2>5, TypesKept DEF Attach
<1>12. CASE SaveLaneFails(r)
  <2>1. RequestsTyped'
    BY <1>0, <1>12, Giving DEF SaveLaneFails
  <2> QED BY <1>12, <2>1, TypesKept DEF SaveLaneFails
<1>13. CASE EndCreation(r)
  <2> DEFINE new == [Held(r) EXCEPT !.status = IF Held(r).lanes = {} THEN "created" ELSE "active"]
  <2>1. request[r].at \notin Resting /\ request[r].op \in OpsAt("concluding")
    BY <1>13, <1>q DEF EndCreation, OpsAt, Resting
  <2>2. Held(r) \in Kept
    BY <1>0, <2>1 DEF Held, RequestsTyped, ObjectsTyped
  <2>3. new \in Kept
    BY <2>2 DEF Kept
  <2>4. Changes(r, "concluding", new)
    BY <1>13 DEF EndCreation
  <2> HIDE DEF new
  <2>5. RequestsTyped' /\ object' \in [Calls -> Kept]
    BY <2>1, <2>3, <2>4, ChangeMoves
  <2> QED BY <1>13, <2>5, TypesKept DEF EndCreation
<1>14. CASE ListLanes(r)
  <2>1. request[r].at = "closing" /\ request[r].op = "close"
    BY <1>14, <1>q DEF ListLanes, OpsAt
  <2>2. Held(r).lanes \in SUBSET Calls
    BY <1>0, <2>1 DEF Held, RequestsTyped, ObjectsTyped, Resting, Kept
  <2> DEFINE q == [request[r] EXCEPT !.at = "stopping", !.left = Held(r).lanes]
  <2>3. q \in Requested /\ q.op = "close" /\ q.at = "stopping" /\ q.holds = request[r].holds
    BY <1>q, <2>1, <2>2 DEF Requested, Places
  <2>4. request' = [request EXCEPT ![r] = q]
    BY <1>0, <1>14, <1>q DEF ListLanes, RequestsTyped, Requested
  <2>5. q.holds \in Calls
    BY <1>0, <2>1, <2>3 DEF RequestsTyped, Resting
  <2> HIDE DEF q
  <2>6. RequestsTyped'
    BY <1>0, <2>3, <2>4, <2>5, RequestMoves DEF OpsAt
  <2> QED BY <1>14, <2>6, TypesKept DEF ListLanes
<1>15. CASE StopListed(r)
  <2>1. PICK x \in request[r].left \cap running :
            /\ running' = running \ {x}
            /\ request' = [request EXCEPT ![r].left = @ \ {x}]
    BY <1>15 DEF StopListed
  <2> DEFINE q == [request[r] EXCEPT !.left = @ \ {x}]
  <2>2. request[r].at = "stopping" /\ request[r].op = "close"
    BY <1>15, <1>q DEF StopListed, OpsAt
  <2>3. q \in Requested /\ q.op = "close" /\ q.at = "stopping" /\ q.holds = request[r].holds
    BY <1>q, <2>2 DEF Requested
  <2>4. request' = [request EXCEPT ![r] = q]
    BY <1>0, <2>1, <1>q DEF RequestsTyped, Requested
  <2>5. q.holds \in Calls
    BY <1>0, <2>2, <2>3 DEF RequestsTyped, Resting
  <2> HIDE DEF q
  <2>6. RequestsTyped'
    BY <1>0, <2>3, <2>4, <2>5, RequestMoves DEF OpsAt
  <2> QED BY <1>15, <2>1, <2>6, TypesKept DEF StopListed
<1>16. CASE MarkClosed(r)
  <2>1. request[r].at \notin Resting /\ request[r].op \in OpsAt("concluding")
    BY <1>16, <1>q DEF MarkClosed, OpsAt, Resting
  <2>2. Held(r) \in Kept
    BY <1>0, <2>1 DEF Held, RequestsTyped, ObjectsTyped
  <2>3. [Held(r) EXCEPT !.status = "closed"] \in Kept
    BY <2>2 DEF Kept
  <2>4. Changes(r, "concluding", [Held(r) EXCEPT !.status = "closed"])
    BY <1>16 DEF MarkClosed
  <2>5. RequestsTyped' /\ object' \in [Calls -> Kept]
    BY <2>1, <2>3, <2>4, ChangeMoves
  <2> QED BY <1>16, <2>5, TypesKept DEF MarkClosed
<1>17. CASE PortReleased(r)
  BY <1>17, TypesKept DEF PortReleased
<1>20. CASE MakePlan(r)
  <2>1. request[r].at \notin Resting /\ request[r].op \in OpsAt("concluding")
    BY <1>20, <1>q DEF MakePlan, OpsAt, Resting
  <2>2. Held(r) \in Kept
    BY <1>0, <2>1 DEF Held, RequestsTyped, ObjectsTyped
  <2>3. Changes(r, "concluding", Held(r))
    BY <1>20 DEF MakePlan
  <2>4. RequestsTyped' /\ object' \in [Calls -> Kept]
    BY <2>1, <2>2, <2>3, ChangeMoves
  <2> QED BY <1>20, <2>4, TypesKept DEF MakePlan
<1>21. CASE OnlyLook(r)
  <2>1. RequestsTyped'
    BY <1>0, <1>21, <1>q, PlaceMoves DEF OnlyLook, OpsAt, Places, Resting
  <2> QED BY <1>21, <2>1, TypesKept DEF OnlyLook
<1>18. CASE WriteSession(r)
  <2>1. PICK at \in {"ending", "done"} : Goes(r, at) /\ (at = "ending" => request[r].op = "create")
    BY <1>18 DEF WriteSession
  <2>2. request[r].at \notin Resting /\ request[r].op \in {"create", "start", "close", "plan"}
    BY <1>18, <1>q DEF WriteSession, OpsAt, Resting
  <2>3. RequestsTyped'
    BY <1>0, <2>1, <2>2, PlaceMoves DEF OpsAt, Places
  <2>4. sessionRow' \in Kept
    BY <1>q, <1>18 DEF WriteSession, Requested
  <2> QED BY <1>18, <2>3, <2>4, TypesKept DEF WriteSession
<1>19. CASE WriteFails(r)
  <2>1. RequestsTyped'
    <3>1. CASE request[r].at = "attached"
      BY <1>0, <1>19, <3>1, Giving DEF WriteFails
    <3>2. CASE request[r].at = "concluding"
      <4>1. Goes(r, "failed") /\ request[r].op \in {"create", "close", "plan"}
        BY <1>19, <1>q, <3>2 DEF WriteFails, OpsAt
      <4> QED BY <1>0, <3>2, <4>1, PlaceMoves DEF OpsAt, Places, Resting
    <3> QED BY <1>19, <3>1, <3>2 DEF WriteFails
  <2> QED BY <1>19, <2>1, TypesKept DEF WriteFails
<1> QED BY <1>1, <1>2, <1>3, <1>4, <1>5, <1>6, <1>7, <1>8, <1>9, <1>10, <1>11, <1>12, <1>13,
           <1>14, <1>15, <1>16, <1>17, <1>18, <1>19, <1>20, <1>21 DEF StepOf

LEMMA RegistryTypeStep ==
    ASSUME RegistryTyped, [RegistryNext]_registryVars
    PROVE  RegistryTyped'
<1>1. CASE \E r \in Calls : StepOf(r)
  BY <1>1, StepTyped
<1>2. CASE \E r \in Calls : PortIsTaken(r)
  BY <1>2, Dying DEF PortIsTaken
<1>3. CASE Killed
  BY <1>3, Dying DEF Killed
<1>4. CASE UNCHANGED registryVars
  BY <1>4 DEF registryVars, RegistryTyped, RequestsTyped, ObjectsTyped, PortsTyped
<1> QED BY <1>1, <1>2, <1>3, <1>4, RegistrySteps

-----------------------------------------------------------------------------
(* What a step of one request leaves alone.                                *)
LEMMA OthersStay ==
    ASSUME RegistryTyped, NEW r \in Calls, StepOf(r)
    PROVE  /\ \A s \in Calls \ {r} : request'[s] = request[s]
           /\ \/ PortReleased(r)
              \/ r \in InProgress /\ overlapped' = overlapped
              \/ /\ request[r].at = "waiting"
                 /\ overlapped' = overlapped \cup
                        (IF InProgress = {} THEN {} ELSE InProgress \cup {r})
<1>0. request \in [Calls -> Requested]
  BY DEF RegistryTyped, RequestsTyped
<1>1. CASE PortReleased(r)
  BY <1>1 DEF PortReleased
<1>2. CASE \E op, at, holds : Begins(r, op, at, holds)
  <2>1. PICK op, at, holds : Begins(r, op, at, holds)
    BY <1>2
  <2>2. request[r].at = "waiting"
    BY <2>1 DEF Begins, Waiting
  <2>3. \A s \in Calls \ {r} : request'[s] = request[s]
    BY <1>0, <2>1 DEF Begins
  <2> QED BY <2>1, <2>2, <2>3 DEF Begins
<1>3. CASE /\ request[r].at \notin Resting
           /\ overlapped' = overlapped
           /\ \E q : request' = [request EXCEPT ![r] = q]
  BY <1>0, <1>3, WhoProceeds
<1>4. CreateSession(r) \/ (\E op : Recall(r, op)) \/ (\E op : LoadSession(r, op))
        => \E op, at, holds : Begins(r, op, at, holds)
  BY DEF CreateSession, Recall, LoadSession
<1>5. ASSUME NEW at, Goes(r, at)
      PROVE  \E q : request' = [request EXCEPT ![r] = q]
  <2>1. request' = [request EXCEPT ![r] = [request[r] EXCEPT !.at = at]]
    BY <1>0, <1>5 DEF Goes, Requested
  <2> QED BY <2>1
<1>6. GivesUp(r) => \E q : request' = [request EXCEPT ![r] = q]
  BY <1>5 DEF GivesUp
<1>7. ASSUME NEW at, NEW new, Changes(r, at, new)
      PROVE  \E q : request' = [request EXCEPT ![r] = q]
  <2>1. request' = [request EXCEPT ![r] = [request[r] EXCEPT !.at = at, !.data = new]]
    BY <1>0, <1>7 DEF Changes, Requested
  <2> QED BY <2>1
<1>8. CASE SaveCreated(r)
  BY <1>3, <1>5, <1>8 DEF SaveCreated, Resting
<1>9. CASE RememberCreated(r)
  BY <1>3, <1>5, <1>9 DEF RememberCreated, Resting
<1>10. CASE RememberLoaded(r)
  BY <1>3, <1>5, <1>10 DEF RememberLoaded, Resting
<1>11. CASE Spawn(r) \/ SpawnFails(r) \/ BindPort(r) \/ Register(r) \/ SaveLaneFails(r)
  BY <1>3, <1>5, <1>6, <1>11 DEF Spawn, SpawnFails, BindPort, Register, SaveLaneFails, Resting
<1>12. CASE Attach(r) \/ EndCreation(r) \/ MarkClosed(r) \/ MakePlan(r)
  <2>1. request[r].at \notin Resting /\ overlapped' = overlapped
    BY <1>12 DEF Attach, EndCreation, MarkClosed, MakePlan, Resting
  <2>2. \E at, new : Changes(r, at, new)
    BY <1>12 DEF Attach, EndCreation, MarkClosed, MakePlan
  <2> QED BY <1>3, <1>7, <2>1, <2>2
<1>13. CASE ListLanes(r)
  <2>1. request' = [request EXCEPT ![r] = [request[r] EXCEPT !.at = "stopping", !.left = Held(r).lanes]]
    BY <1>0, <1>13 DEF ListLanes, Requested
  <2> QED BY <1>3, <1>13, <2>1 DEF ListLanes, Resting
<1>14. CASE StopListed(r)
  <2>1. PICK x : request' = [request EXCEPT ![r].left = @ \ {x}]
    BY <1>14 DEF StopListed
  <2>2. request' = [request EXCEPT ![r] = [request[r] EXCEPT !.left = @ \ {x}]]
    BY <1>0, <2>1 DEF Requested
  <2> QED BY <1>3, <1>14, <2>2 DEF StopListed, Resting
<1>15. CASE WriteSession(r)
  BY <1>3, <1>5, <1>15 DEF WriteSession, Resting
<1>16. CASE WriteFails(r)
  BY <1>3, <1>5, <1>6, <1>16 DEF WriteFails, Resting
<1>17. CASE OnlyLook(r)
  BY <1>3, <1>5, <1>17 DEF OnlyLook, Resting
<1> QED BY <1>1, <1>2, <1>4, <1>8, <1>9, <1>10, <1>11, <1>12, <1>13, <1>14, <1>15, <1>16, <1>17
    DEF StepOf

(* Who is in progress alone is disturbed by no request but itself.         *)
LEMMA OverlapStep ==
    ASSUME RegistryTyped, OverlapSeen, NEW r \in Calls, StepOf(r)
    PROVE  /\ OverlapSeen'
           /\ overlapped \subseteq overlapped'
           /\ \A s \in Alone' : s = r \/ (s \in Alone /\ PortReleased(r))
           /\ \A s \in InProgress' : s = r \/ s \in InProgress
<1>1. /\ \A s \in Calls \ {r} : request'[s] = request[s]
      /\ \/ PortReleased(r)
         \/ r \in InProgress /\ overlapped' = overlapped
         \/ /\ request[r].at = "waiting"
            /\ overlapped' = overlapped \cup
                   (IF InProgress = {} THEN {} ELSE InProgress \cup {r})
  BY OthersStay
<1>2. \A s \in InProgress' : s = r \/ s \in InProgress
  BY <1>1, WhoProceeds
<1>3. PortReleased(r) => InProgress' = InProgress /\ overlapped' = overlapped
  BY WhoProceeds DEF PortReleased
<1>4. overlapped \subseteq overlapped'
  BY <1>1, <1>3
<1>5. OverlapSeen'
  <2> SUFFICES ASSUME NEW s \in InProgress', NEW t \in InProgress', s # t
               PROVE  s \in overlapped'
    BY DEF OverlapSeen
  <2>1. CASE PortReleased(r)
    BY <1>3, <2>1 DEF OverlapSeen
  <2>2. CASE r \in InProgress
    BY <1>2, <1>4, <2>2 DEF OverlapSeen
  <2>3. CASE r \notin InProgress /\ ~PortReleased(r)
    BY <1>1, <1>2, <2>3
  <2> QED BY <2>1, <2>2, <2>3
<1>6. ASSUME NEW s \in Alone', s # r
      PROVE  s \in Alone /\ PortReleased(r)
  <2>1. s \in InProgress /\ s \notin overlapped' /\ s \notin overlapped
    BY <1>2, <1>4, <1>6 DEF Alone
  <2>2. ~(r \in InProgress)
    BY <1>6, <2>1 DEF OverlapSeen
  <2> QED BY <1>1, <1>6, <2>1, <2>2 DEF Alone
<1> QED BY <1>2, <1>4, <1>5, <1>6

(* One that is done alone was so before, or has just ended.                *)
LEMMA DoneStep ==
    ASSUME RegistryTyped, OverlapSeen, NEW r \in Calls, StepOf(r), NEW op,
           NEW d \in DoneAlone(op)'
    PROVE  \/ d \in DoneAlone(op)
           \/ /\ d = r /\ r \in Alone /\ InProgress' = {}
              /\ request'[r].op = op /\ request'[r].at = "done"
<1>1. /\ \A s \in Calls \ {r} : request'[s] = request[s]
      /\ PortReleased(r) => request' = request
  BY OthersStay DEF PortReleased
<1>2. overlapped \subseteq overlapped'
  BY OverlapStep
<1>3. d \in Calls /\ request'[d].at = "done" /\ request'[d].op = op /\ d \notin overlapped'
  BY DEF DoneAlone, In
<1>4. CASE d # r \/ PortReleased(r)
  BY <1>1, <1>2, <1>3, <1>4 DEF DoneAlone, In
<1>5. CASE d = r /\ ~PortReleased(r)
  <2>1. r \notin InProgress'
    BY <1>3, <1>5, WhoProceeds DEF Resting
  <2>2. r \in InProgress /\ overlapped' = overlapped
    <3>1. ASSUME request[r].at = "waiting" PROVE FALSE
      <4>1. \E o, at, holds : Begins(r, o, at, holds) /\ at # "done"
        <5>1. request[r].at # "creating" /\ request[r].at # "created"
          BY <3>1
        <5>2. CASE CreateSession(r)
          BY <5>2 DEF CreateSession
        <5>3. CASE \E o \in {"start", "close", "plan"} : Recall(r, o)
          <6>1. PICK o \in {"start", "close", "plan"} : Begins(r, o, FirstStep(o), remembered)
            BY <5>3 DEF Recall
          <6>2. FirstStep(o) # "done"
            BY DEF FirstStep
          <6> QED BY <6>1, <6>2
        <5>4. CASE \E o : LoadSession(r, o)
          BY <5>4 DEF LoadSession
        <5> QED BY <1>5, <3>1, <5>2, <5>3, <5>4
            DEF StepOf, SaveCreated, RememberCreated, RememberLoaded, Spawn, SpawnFails, BindPort,
                Register, Attach, SaveLaneFails, EndCreation, ListLanes, StopListed, MarkClosed,
                MakePlan, OnlyLook, WriteSession, WriteFails
      <4>2. PICK o, at, holds : Begins(r, o, at, holds) /\ at # "done"
        BY <4>1
      <4>3. request'[r].at = at
        BY <4>2 DEF Begins, RegistryTyped, RequestsTyped, Requested
      <4> QED BY <1>3, <1>5, <4>2, <4>3
    <3> QED BY <1>5, <3>1, OthersStay
  <2>3. InProgress' = {}
    <3>1. \A s \in InProgress' : s \in InProgress /\ s # r
      BY <2>1, OverlapStep
    <3> QED BY <1>3, <1>5, <2>2, <3>1 DEF OverlapSeen
  <2> QED BY <1>3, <1>5, <2>2, <2>3 DEF Alone
<1> QED BY <1>4, <1>5

-----------------------------------------------------------------------------
(* Copies of the session hand on what they list.                           *)
Follows(copy) ==
    \E old \in LiveCopies :
        /\ old.lanes \subseteq copy.lanes
        /\ old.status = "closed" => copy.status = "closed"

LEMMA LiveFollows ==
    /\ Follows(sessionRow)
    /\ remembered # NoObject => Follows(object[remembered])
    /\ \A s \in InProgress : Follows(object[request[s].holds])
    /\ \A s \in Calls : request[s].at \in {"attached", "concluding"} => Follows(request[s].data)
<1>1. \A copy \in LiveCopies : Follows(copy)
  BY DEF Follows
<1> QED BY <1>1 DEF LiveCopies, Copies, Held, In

LEMMA Inherited ==
    ASSUME RegistryTyped, RegistryTyped', NEW r \in Calls,
           \A s \in Calls \ {r} : request'[s] = request[s],
           Follows(sessionRow'),
           \A x \in Calls : object'[x] = object[x] \/ Follows(object'[x]),
           remembered' \in {remembered, NoObject} \/ Follows(object'[remembered']),
           r \in InProgress' => Follows(object'[request'[r].holds]),
           request'[r].at \in {"attached", "concluding"} => Follows(request'[r].data),
           NEW copy \in LiveCopies'
    PROVE  Follows(copy)
<1>1. CASE copy = sessionRow'
  BY <1>1
<1>2. CASE remembered' # NoObject /\ copy = object'[remembered']
  <2>1. remembered' = remembered => remembered \in Calls
    BY <1>2 DEF RegistryTyped, ObjectsTyped
  <2> QED BY <1>2, <2>1, LiveFollows
<1>3. ASSUME NEW s \in InProgress', copy = object'[request'[s].holds]
      PROVE  Follows(copy)
  <2>1. CASE s = r
    BY <1>3, <2>1
  <2>2. CASE s # r
    <3>1. s \in InProgress /\ request'[s] = request[s]
      BY <2>2, WhoProceeds
    <3>2. request[s].holds \in Calls
      BY <3>1, WhoProceeds DEF RegistryTyped, RequestsTyped
    <3> QED BY <1>3, <3>1, <3>2, LiveFollows
  <2> QED BY <2>1, <2>2
<1>4. ASSUME NEW s \in Calls, request'[s].at \in {"attached", "concluding"}, copy = request'[s].data
      PROVE  Follows(copy)
  BY <1>4, LiveFollows
<1> QED BY <1>1, <1>2, <1>3, <1>4 DEF LiveCopies, Copies, Held, In

LEMMA HandedOn ==
    ASSUME RegistryTyped, RegistryTyped', NEW r \in Calls, StepOf(r),
           sessionRow.status # "none", \A s \in InProgress : request[s].op # "create",
           NEW copy \in LiveCopies'
    PROVE  Follows(copy)
<1> USE DEF lanePlaces
<1>0. RequestsTyped /\ ObjectsTyped /\ request[r] \in Requested
      /\ request[r].op \in OpsAt(request[r].at) /\ request \in [Calls -> Requested]
      /\ object \in [Calls -> Kept]
  BY DEF RegistryTyped, RequestsTyped, ObjectsTyped
<1>o. \A s \in Calls \ {r} : request'[s] = request[s]
  BY OthersStay
<1>h. r \in InProgress => request[r].holds \in Calls
  BY <1>0, WhoProceeds DEF RequestsTyped
<1>1. CASE CreateSession(r)
  BY <1>1 DEF CreateSession
<1>2. CASE SaveCreated(r) \/ RememberCreated(r) \/ EndCreation(r)
  <2>1. request[r].op = "create" /\ request[r].at \notin Resting
    BY <1>0, <1>2 DEF SaveCreated, RememberCreated, EndCreation, OpsAt, Resting
  <2> QED BY <2>1, WhoProceeds
<1>3. ASSUME NEW op \in {"start", "close", "plan"}, Recall(r, op)
      PROVE  Follows(copy)
  <2>1. request'[r].holds = remembered /\ request'[r].at \in {"starting", "closing", "planning"}
    BY <1>0, <1>3 DEF Recall, Begins, FirstStep, Requested
  <2> QED BY <1>3, <1>o, <2>1, LiveFollows, Inherited DEF Recall
<1>4. ASSUME NEW op \in {"start", "close", "plan"}, LoadSession(r, op)
      PROVE  Follows(copy)
  <2>1. request'[r].holds = r /\ request'[r].at = "loaded"
    BY <1>0, <1>4 DEF LoadSession, Begins, Requested
  <2>2. object'[r] = sessionRow /\ \A x \in Calls \ {r} : object'[x] = object[x]
    BY <1>0, <1>4 DEF LoadSession
  <2> QED BY <1>4, <1>o, <2>1, <2>2, LiveFollows, Inherited DEF LoadSession
<1>5. CASE RememberLoaded(r)
  <2>1. r \in InProgress /\ request[r].holds = r
    BY <1>0, <1>5, WhoProceeds DEF RememberLoaded, RequestsTyped, Resting
  <2>2. request'[r].holds = r /\ request'[r].at \in {"starting", "closing", "planning"}
    BY <1>0, <1>5, <2>1 DEF RememberLoaded, Goes, FirstStep, Requested
  <2> QED BY <1>5, <1>o, <2>1, <2>2, LiveFollows, Inherited DEF RememberLoaded
<1>6. CASE \/ Spawn(r) \/ SpawnFails(r) \/ BindPort(r) \/ Register(r) \/ SaveLaneFails(r)
           \/ WriteFails(r) \/ ListLanes(r) \/ StopListed(r) \/ PortReleased(r)
           \/ OnlyLook(r)
  <2>1. UNCHANGED <<sessionRow, object, remembered>>
    BY <1>6 DEF Spawn, SpawnFails, BindPort, Register, SaveLaneFails, WriteFails, ListLanes,
                StopListed, PortReleased, OnlyLook
  <2>2. request'[r].holds = request[r].holds /\ request'[r].data = request[r].data
    BY <1>0, <1>6 DEF Spawn, SpawnFails, BindPort, Register, SaveLaneFails, WriteFails, ListLanes,
                StopListed, PortReleased, OnlyLook, Goes, GivesUp, Requested
  <2>3. request'[r].at \in {"attached", "concluding"} => request'[r].at = request[r].at
    BY <1>0, <1>6 DEF Spawn, SpawnFails, BindPort, Register, SaveLaneFails, WriteFails, ListLanes,
                StopListed, PortReleased, OnlyLook, Goes, GivesUp, Requested
  <2>4. r \in InProgress' => r \in InProgress
    BY <1>6, WhoProceeds DEF Spawn, SpawnFails, BindPort, Register, SaveLaneFails, WriteFails,
                ListLanes, StopListed, PortReleased, OnlyLook, Resting
  <2> QED BY <1>o, <2>1, <2>2, <2>3, <2>4, LiveFollows, Inherited
<1>7. ASSUME NEW at \in {"attached", "concluding"}, NEW new,
             Changes(r, at, new), r \in InProgress, UNCHANGED <<remembered, sessionRow>>,
             Held(r).lanes \subseteq new.lanes, Held(r).status = "closed" => new.status = "closed"
      PROVE  Follows(copy)
  <2>1. Follows(new)
    <3>1. Held(r) \in LiveCopies
      BY <1>7 DEF LiveCopies
    <3> QED BY <1>7, <3>1 DEF Follows
  <2>2. request'[r].holds = request[r].holds /\ request'[r].data = new
    BY <1>0, <1>7 DEF Changes, Requested
  <2>3. object' = [object EXCEPT ![request[r].holds] = new]
    BY <1>7 DEF Changes
  <2>4. \A x \in Calls : object'[x] = object[x] \/ Follows(object'[x])
    BY <1>0, <2>1, <2>3
  <2>5. Follows(object'[request[r].holds])
    BY <1>0, <1>h, <1>7, <2>1, <2>3
  <2> QED BY <1>7, <1>o, <2>1, <2>2, <2>4, <2>5, LiveFollows, Inherited
<1>8. CASE Attach(r)
  <2>1. Held(r) \in Kept /\ r \in InProgress
    BY <1>0, <1>h, <1>8, WhoProceeds DEF Attach, Held, Resting
  <2> DEFINE new == [Held(r) EXCEPT !.lanes = @ \cup {r}]
  <2>2. Held(r).lanes \subseteq new.lanes /\ new.status = Held(r).status
    BY <2>1 DEF Kept
  <2>3. Changes(r, "attached", new) /\ UNCHANGED <<remembered, sessionRow>>
    BY <1>8 DEF Attach
  <2> HIDE DEF new
  <2> QED BY <1>7, <2>1, <2>2, <2>3
<1>9. CASE MarkClosed(r)
  <2>1. Held(r) \in Kept /\ r \in InProgress
    BY <1>0, <1>h, <1>9, WhoProceeds DEF MarkClosed, Held, Resting
  <2> DEFINE new == [Held(r) EXCEPT !.status = "closed"]
  <2>2. Held(r).lanes \subseteq new.lanes /\ new.status = "closed"
    BY <2>1 DEF Kept
  <2>3. Changes(r, "concluding", new) /\ UNCHANGED <<remembered, sessionRow>>
    BY <1>9 DEF MarkClosed
  <2> HIDE DEF new
  <2> QED BY <1>7, <2>1, <2>2, <2>3
<1>10. CASE WriteSession(r)
  <2>1. Follows(sessionRow') /\ r \in InProgress
    BY <1>10, LiveFollows, WhoProceeds DEF WriteSession, Resting
  <2>2. request'[r].holds = request[r].holds /\ request'[r].at \in {"ending", "done"}
    BY <1>0, <1>10 DEF WriteSession, Goes, Requested
  <2> QED BY <1>10, <1>o, <2>1, <2>2, LiveFollows, Inherited DEF WriteSession
<1>11. CASE MakePlan(r)
  <2>1. r \in InProgress
    BY <1>11, WhoProceeds DEF MakePlan, Resting
  <2>2. Changes(r, "concluding", Held(r)) /\ UNCHANGED <<remembered, sessionRow>>
    BY <1>11 DEF MakePlan
  <2> QED BY <1>7, <2>1, <2>2
<1> QED BY <1>1, <1>2, <1>3, <1>4, <1>5, <1>6, <1>8, <1>9, <1>10, <1>11 DEF StepOf

-----------------------------------------------------------------------------
(* A request in progress alone has the object that is remembered.          *)
LEMMA WorksStep ==
    ASSUME RegistryTyped, OverlapSeen, WorksOnRemembered, NEW r \in Calls, StepOf(r)
    PROVE  WorksOnRemembered'
<1>0. /\ RequestsTyped /\ ObjectsTyped /\ request \in [Calls -> Requested]
      /\ object \in [Calls -> Kept] /\ request[r] \in Requested
      /\ request[r].op \in OpsAt(request[r].at)
  BY DEF RegistryTyped, RequestsTyped, ObjectsTyped
<1>1. CASE PortReleased(r)
  <2>1. InProgress' = InProgress
    BY <1>1, WhoProceeds DEF PortReleased
  <2> QED BY <1>1, <2>1 DEF PortReleased, WorksOnRemembered, Alone, Held
<1>2. CASE ~PortReleased(r)
  <2> SUFFICES ASSUME r \in Alone'
               PROVE  /\ request'[r].at \notin {"creating", "created", "loaded"} =>
                            remembered' = request'[r].holds
                      /\ request'[r].at = "attached" =>
                            r \in Held(r)'.lanes /\ r \in request'[r].data.lanes
                      /\ request'[r].at = "concluding" /\ request'[r].op = "close" =>
                            Held(r)'.status = "closed" /\ request'[r].data.status = "closed"
    BY <1>2, OverlapStep DEF WorksOnRemembered
  <2>0. r \in InProgress => r \in Alone /\ request[r].holds \in Calls
    BY <1>0, OthersStay, OverlapStep, WhoProceeds DEF Alone, RequestsTyped
  <2>1. CASE CreateSession(r) \/ \E op \in {"start", "close", "plan"} : LoadSession(r, op)
    <3>1. request'[r].at \in {"creating", "loaded"}
      BY <1>0, <2>1 DEF CreateSession, LoadSession, Begins, Requested
    <3> QED BY <3>1
  <2>2. CASE SaveCreated(r)
    <3>1. request'[r].at = "created"
      BY <1>0, <2>2 DEF SaveCreated, Goes, Requested
    <3> QED BY <3>1
  <2>3. CASE RememberCreated(r) \/ RememberLoaded(r)
    <3>1. request[r].holds = r
      BY <1>0, <2>3 DEF RememberCreated, RememberLoaded, RequestsTyped
    <3>2. remembered' = r /\ request'[r].holds = r
      BY <1>0, <2>3, <3>1 DEF RememberCreated, RememberLoaded, Goes, Requested
    <3>3. request'[r].at \in {"starting", "ending", "closing", "planning"}
      BY <1>0, <2>3 DEF RememberCreated, RememberLoaded, Goes, FirstStep, Requested
    <3> QED BY <3>2, <3>3
  <2>4. CASE \E op \in {"start", "close", "plan"} : Recall(r, op)
    <3>1. /\ remembered' = request'[r].holds
          /\ request'[r].at \in {"starting", "closing", "planning"}
      BY <1>0, <2>4 DEF Recall, Begins, FirstStep, Requested
    <3> QED BY <3>1
  <2>5. CASE \/ Spawn(r) \/ SpawnFails(r) \/ BindPort(r) \/ Register(r) \/ SaveLaneFails(r)
             \/ ListLanes(r) \/ StopListed(r) \/ OnlyLook(r) \/ WriteSession(r) \/ WriteFails(r)
    <3>1. r \in Alone /\ request[r].at \notin {"creating", "created", "loaded"}
      BY <2>0, <2>5, WhoProceeds DEF Spawn, SpawnFails, BindPort, Register, SaveLaneFails, ListLanes,
            StopListed, OnlyLook, WriteSession, WriteFails, Resting
    <3>2. remembered' = remembered /\ request'[r].holds = request[r].holds
      BY <1>0, <2>5 DEF Spawn, SpawnFails, BindPort, Register, SaveLaneFails, ListLanes,
            StopListed, OnlyLook, WriteSession, WriteFails, Goes, GivesUp, Requested
    <3>3. request'[r].at \notin {"attached", "concluding"}
      BY <1>0, <2>5 DEF Spawn, SpawnFails, BindPort, Register, SaveLaneFails, ListLanes,
            StopListed, OnlyLook, WriteSession, WriteFails, Goes, GivesUp, Requested
    <3> QED BY <3>1, <3>2, <3>3 DEF WorksOnRemembered
  <2>6. ASSUME NEW at, NEW new, Changes(r, at, new), r \in InProgress, remembered' = remembered,
               request[r].at \notin {"creating", "created", "loaded"}
        PROVE  /\ remembered' = request'[r].holds /\ Held(r)' = new
               /\ request'[r].data = new /\ request'[r].at = at /\ request'[r].op = request[r].op
    <3>1. /\ request'[r].holds = request[r].holds /\ request'[r].data = new
          /\ request'[r].at = at /\ request'[r].op = request[r].op
      BY <1>0, <2>6 DEF Changes, Requested
    <3>2. Held(r)' = new
      BY <1>0, <2>0, <2>6, <3>1 DEF Changes, Held
    <3> QED BY <2>0, <2>6, <3>1, <3>2 DEF WorksOnRemembered
  <2>h. r \in InProgress => Held(r) \in Kept
    BY <1>0, <2>0 DEF Held
  <2>7. CASE Attach(r)
    <3> DEFINE new == [Held(r) EXCEPT !.lanes = @ \cup {r}]
    <3>1. r \in InProgress /\ request[r].at = "briefed"
      BY <2>7, WhoProceeds DEF Attach, Resting
    <3>2. r \in new.lanes
      BY <2>h, <3>1 DEF Kept
    <3>3. Changes(r, "attached", new) /\ remembered' = remembered
      BY <2>7 DEF Attach
    <3> HIDE DEF new
    <3> QED BY <2>6, <3>1, <3>2, <3>3
  <2>8. CASE MarkClosed(r)
    <3> DEFINE new == [Held(r) EXCEPT !.status = "closed"]
    <3>1. r \in InProgress /\ request[r].at = "stopping"
      BY <2>8, WhoProceeds DEF MarkClosed, Resting
    <3>2. new.status = "closed"
      BY <2>h, <3>1 DEF Kept
    <3>3. Changes(r, "concluding", new) /\ remembered' = remembered
      BY <2>8 DEF MarkClosed
    <3> HIDE DEF new
    <3> QED BY <2>6, <3>1, <3>2, <3>3
  <2>9. CASE EndCreation(r)
    <3>1. r \in InProgress /\ request[r].at = "ending" /\ request[r].op = "create"
      BY <1>0, <2>9, WhoProceeds DEF EndCreation, Resting, OpsAt
    <3>2. remembered' = remembered /\ \E new : Changes(r, "concluding", new)
      BY <2>9 DEF EndCreation
    <3> QED BY <2>6, <3>1, <3>2
  <2>10. CASE MakePlan(r)
    <3>1. r \in InProgress /\ request[r].at = "planning" /\ request[r].op = "plan"
      BY <1>0, <2>10, WhoProceeds DEF MakePlan, Resting, OpsAt
    <3>2. remembered' = remembered /\ Changes(r, "concluding", Held(r))
      BY <2>10 DEF MakePlan
    <3>3. /\ remembered' = request'[r].holds /\ request'[r].at = "concluding"
          /\ request'[r].op = "plan"
      BY <2>6, <3>1, <3>2
    <3> QED BY <3>3
  <2> QED BY <1>2, <2>1, <2>2, <2>3, <2>4, <2>5, <2>7, <2>8, <2>9, <2>10 DEF StepOf
<1> QED BY <1>1, <1>2

(* A request that just ended alone leaves what it did in both copies.      *)
LEMMA EndedAlone ==
    ASSUME RegistryTyped, WorksOnRemembered, NEW r \in Alone, StepOf(r), InProgress' = {},
           request'[r].at = "done", request'[r].op \in {"start", "close"},
           NEW copy \in LiveCopies'
    PROVE  /\ sessionRow' \in Kept
           /\ request'[r].op = "start" => r \in copy.lanes
           /\ request'[r].op = "close" => copy.status = "closed"
<1>0. /\ r \in InProgress /\ r \in Calls /\ request \in [Calls -> Requested]
      /\ request[r] \in Requested /\ request[r].op \in OpsAt(request[r].at)
      /\ request[r].at \notin Resting
  BY WhoProceeds DEF Alone, RegistryTyped, RequestsTyped
<1>1. WriteSession(r)
  <2>1. CASE CreateSession(r) \/ (\E op \in {"start", "close", "plan"} : Recall(r, op))
             \/ (\E op \in {"start", "close", "plan"} : LoadSession(r, op))
    BY <1>0, <2>1 DEF CreateSession, Recall, LoadSession, Begins, Waiting, Resting
  <2>2. CASE RememberLoaded(r)
    <3>1. request'[r].op = request[r].op /\ request'[r].at = FirstStep(request[r].op)
      BY <1>0, <2>2 DEF RememberLoaded, Goes, Requested
    <3> QED BY <3>1 DEF FirstStep
  <2>3. CASE PortReleased(r)
    BY <1>0, <2>3 DEF PortReleased, Resting
  <2>4. CASE \/ SaveCreated(r) \/ RememberCreated(r) \/ Spawn(r) \/ SpawnFails(r) \/ BindPort(r)
             \/ Register(r) \/ Attach(r) \/ SaveLaneFails(r) \/ EndCreation(r)
             \/ ListLanes(r) \/ StopListed(r) \/ MarkClosed(r) \/ MakePlan(r) \/ WriteFails(r)
    <3>1. request'[r].at # "done"
      BY <1>0, <2>4 DEF SaveCreated, RememberCreated, Spawn, SpawnFails, BindPort, Register, Attach,
            SaveLaneFails, EndCreation, ListLanes, StopListed, MarkClosed, MakePlan, WriteFails,
            Goes, GivesUp, Changes, Requested
    <3> QED BY <3>1
  <2>5. CASE OnlyLook(r)
    <3>1. request[r].op = "plan" /\ request'[r].op = request[r].op
      BY <1>0, <2>5 DEF OnlyLook, OpsAt, Goes, Requested
    <3> QED BY <3>1
  <2> QED BY <2>1, <2>2, <2>3, <2>4, <2>5 DEF StepOf
<1>2. /\ sessionRow' = request[r].data /\ remembered' = remembered /\ object' = object
      /\ request'[r].op = request[r].op
  BY <1>0, <1>1 DEF WriteSession, Goes, Requested
<1>3. sessionRow' \in Kept
  BY <1>0, <1>2 DEF Requested
<1>4. request[r].at \in {"attached", "concluding"} /\ remembered = request[r].holds
  BY <1>1 DEF WriteSession, WorksOnRemembered
<1>5. copy = sessionRow' \/ copy = Held(r)
  <2>1. \A s \in Calls : request'[s].at \notin {"attached", "concluding"}
    BY WhoProceeds DEF Resting
  <2> QED BY <1>2, <1>4, <2>1 DEF LiveCopies, Copies, In, Held
<1>6. request[r].op = "start" => request[r].at = "attached"
  BY <1>0, <1>4 DEF OpsAt
<1>7. request[r].op = "close" => request[r].at = "concluding"
  BY <1>0, <1>4 DEF OpsAt
<1> QED BY <1>2, <1>3, <1>5, <1>6, <1>7 DEF WorksOnRemembered

LEMMA KnownStep ==
    ASSUME RegistryTyped, RegistryTyped', OverlapSeen, WorksOnRemembered, Known, CreatedBefore,
           NEW r \in Calls, StepOf(r)
    PROVE  Known' /\ CreatedBefore'
<1>1. ASSUME NEW d \in DoneAlone("start")', NEW copy \in LiveCopies'
      PROVE  d \in copy.lanes
  <2>1. CASE d \in DoneAlone("start")
    <3>1. Follows(copy)
      BY <2>1, HandedOn DEF CreatedBefore
    <3> QED BY <2>1, <3>1 DEF Known, Follows
  <2>2. CASE d \notin DoneAlone("start")
    BY <2>2, DoneStep, EndedAlone
  <2> QED BY <2>1, <2>2
<1>2. ASSUME NEW d \in DoneAlone("close")', NEW copy \in LiveCopies'
      PROVE  copy.status = "closed"
  <2>1. CASE d \in DoneAlone("close")
    <3>1. Follows(copy)
      BY <2>1, HandedOn DEF CreatedBefore
    <3> QED BY <2>1, <3>1 DEF Known, Follows
  <2>2. CASE d \notin DoneAlone("close")
    BY <2>2, DoneStep, EndedAlone
  <2> QED BY <2>1, <2>2
<1>3. ASSUME NEW op \in {"start", "close"}, NEW d \in DoneAlone(op)'
      PROVE  sessionRow'.status # "none" /\ \A s \in InProgress' : request'[s].op # "create"
  <2>1. CASE d \in DoneAlone(op)
    <3>0. sessionRow.status # "none" /\ \A s \in InProgress : request[s].op # "create"
      BY <2>1 DEF CreatedBefore
    <3>1. sessionRow'.status # "none"
      <4>1. sessionRow' = sessionRow \/ SaveCreated(r) \/ WriteSession(r)
        BY DEF StepOf, CreateSession, RememberCreated, Recall, LoadSession, RememberLoaded,
            Spawn, SpawnFails, BindPort, Register, Attach, SaveLaneFails, EndCreation,
            ListLanes, StopListed, MarkClosed, MakePlan, OnlyLook, PortReleased, WriteFails
      <4>2. object[r] \in Kept /\ request[r].data \in Kept
        BY DEF RegistryTyped, RequestsTyped, ObjectsTyped, Requested
      <4> QED BY <3>0, <4>1, <4>2 DEF SaveCreated, WriteSession, Kept
    <3>2. ASSUME NEW s \in InProgress', request'[s].op = "create"
          PROVE  FALSE
      <4>0. request \in [Calls -> Requested]
        BY DEF RegistryTyped, RequestsTyped
      <4>1. s = r \/ s \in InProgress
        BY OverlapStep
      <4>2. s = r
        BY <3>0, <3>2, <4>1, OthersStay, WhoProceeds
      <4>3. CASE r \in InProgress \/ PortReleased(r)
        <5>1. r \in InProgress
          BY <3>2, <4>2, <4>3, WhoProceeds DEF PortReleased
        <5>2. request[r].op # "create" /\ request[r].at \notin Resting
          BY <3>0, <5>1, WhoProceeds
        <5>3. request'[r].op = request[r].op
          BY <4>0, <5>2 DEF StepOf, CreateSession, Recall, LoadSession, Begins, Waiting, Resting,
                SaveCreated, RememberCreated, RememberLoaded,
                Spawn, SpawnFails, BindPort, Register, Attach, SaveLaneFails, EndCreation,
                ListLanes, StopListed, MarkClosed, MakePlan, OnlyLook, PortReleased, WriteSession, WriteFails,
                Goes, GivesUp, Changes, Requested
        <5> QED BY <3>2, <4>2, <5>2, <5>3
      <4>4. CASE r \notin InProgress /\ ~PortReleased(r)
        <5>1. request[r].at = "waiting"
          BY <4>4, OthersStay
        <5>2. \E o \in {"start", "close", "plan"} : \E at, holds : Begins(r, o, at, holds)
          BY <3>0, <4>4, <5>1 DEF StepOf, CreateSession, Recall, LoadSession,
                SaveCreated, RememberCreated, RememberLoaded,
                Spawn, SpawnFails, BindPort, Register, Attach, SaveLaneFails, EndCreation,
                ListLanes, StopListed, MarkClosed, MakePlan, OnlyLook, WriteSession, WriteFails
        <5>3. request'[r].op # "create"
          BY <4>0, <5>2 DEF Begins, Requested
        <5> QED BY <3>2, <4>2, <5>3
      <4> QED BY <4>3, <4>4
    <3> QED BY <3>1, <3>2
  <2>2. CASE d \notin DoneAlone(op)
    <3>1. r \in Alone /\ InProgress' = {} /\ request'[r].op = op /\ request'[r].at = "done"
      BY <2>2, DoneStep
    <3>2. sessionRow' \in LiveCopies'
      BY DEF LiveCopies, Copies
    <3>3. sessionRow' \in Kept
      BY <3>1, <3>2, EndedAlone
    <3> QED BY <3>1, <3>3 DEF Kept
  <2> QED BY <2>1, <2>2
<1>4. Known'
  BY <1>1, <1>2 DEF Known
<1>5. CreatedBefore'
  BY <1>3 DEF CreatedBefore
<1> QED BY <1>4, <1>5

-----------------------------------------------------------------------------
(* A lane in _running is past being served.                                *)
Past == {"briefed", "attached", "ending", "concluding", "done", "failed"}

LEMMA RunningStep ==
    ASSUME RegistryTyped, RunningIsPast, NEW r \in Calls, StepOf(r)
    PROVE  RunningIsPast' /\ \A x \in running' : x \in running \/ (x = r /\ request[r].at = "serving")
<1> USE DEF lanePlaces
<1>0. /\ request \in [Calls -> Requested] /\ request[r] \in Requested
      /\ request[r].op \in OpsAt(request[r].at)
  BY DEF RegistryTyped, RequestsTyped
<1>1. CASE Register(r)
  <2>1. request'[r].at = "briefed" /\ request[r].at = "serving" /\ running' = running \cup {r}
    BY <1>0, <1>1 DEF Register, Goes, Requested
  <2> QED BY <2>1, OthersStay DEF RunningIsPast, RegistryTyped, PortsTyped
<1>2. CASE ~Register(r)
  <2>1. running' \subseteq running
    BY <1>2 DEF StepOf, CreateSession, Recall, LoadSession, SaveCreated, RememberCreated,
          RememberLoaded, Spawn, SpawnFails, BindPort, Attach, SaveLaneFails, EndCreation,
          ListLanes, StopListed, MarkClosed, MakePlan, OnlyLook, PortReleased, WriteSession, WriteFails
  <2>2. ASSUME request[r].at \in Past PROVE request'[r].at \in Past
    <3>1. CASE CreateSession(r) \/ (\E op \in {"start", "close", "plan"} : Recall(r, op))
               \/ (\E op \in {"start", "close", "plan"} : LoadSession(r, op))
      BY <2>2, <3>1 DEF CreateSession, Recall, LoadSession, Begins, Waiting, Past
    <3>2. CASE SaveCreated(r) \/ RememberCreated(r) \/ RememberLoaded(r) \/ Spawn(r)
               \/ SpawnFails(r) \/ BindPort(r) \/ ListLanes(r) \/ StopListed(r) \/ MarkClosed(r)
               \/ MakePlan(r) \/ OnlyLook(r)
      BY <2>2, <3>2 DEF SaveCreated, RememberCreated, RememberLoaded, Spawn, SpawnFails, BindPort,
            ListLanes, StopListed, MarkClosed, MakePlan, OnlyLook, Past
    <3>3. CASE Attach(r) \/ SaveLaneFails(r) \/ EndCreation(r) \/ WriteSession(r) \/ WriteFails(r)
      BY <1>0, <3>3 DEF Attach, SaveLaneFails, EndCreation, WriteSession, WriteFails,
            Goes, GivesUp, Changes, Past, Requested
    <3>4. CASE PortReleased(r)
      BY <2>2, <3>4 DEF PortReleased
    <3> QED BY <1>2, <3>1, <3>2, <3>3, <3>4 DEF StepOf
  <2> QED BY <2>1, <2>2, OthersStay DEF RunningIsPast, Past, RegistryTyped, PortsTyped
<1> QED BY <1>1, <1>2

(* Who chose its port alone finds no running lane there.                   *)
LEMMA PortStep ==
    ASSUME RegistryTyped, OverlapSeen, RunningIsPast, PortIsFree, NEW r \in Calls, StepOf(r)
    PROVE  PortIsFree'
<1> SUFFICES ASSUME NEW s \in In("binding")' \ overlapped', NEW x \in running'
             PROVE  port'[x] # port'[s]
  BY DEF PortIsFree
<1>0. /\ request \in [Calls -> Requested] /\ request[r] \in Requested
      /\ request[r].op \in OpsAt(request[r].at)
  BY DEF RegistryTyped, RequestsTyped
<1>1. s \in Alone'
  BY WhoProceeds DEF Alone, In, Resting
<1>2. CASE PortReleased(r)
  BY <1>2 DEF PortReleased, PortIsFree, In
<1>3. CASE ~PortReleased(r)
  <2>1. s = r /\ request'[r].at = "binding"
    BY <1>1, <1>3, OverlapStep DEF In
  <2>2. Spawn(r)
    <3>1. CASE CreateSession(r) \/ (\E op \in {"start", "close", "plan"} : Recall(r, op))
               \/ (\E op \in {"start", "close", "plan"} : LoadSession(r, op))
      BY <1>0, <2>1, <3>1 DEF CreateSession, Recall, LoadSession, Begins, FirstStep, Requested
    <3>2. CASE \/ SaveCreated(r) \/ RememberCreated(r) \/ RememberLoaded(r) \/ SpawnFails(r)
               \/ BindPort(r) \/ Register(r) \/ Attach(r) \/ SaveLaneFails(r) \/ EndCreation(r)
               \/ ListLanes(r) \/ StopListed(r) \/ MarkClosed(r)
               \/ MakePlan(r) \/ OnlyLook(r) \/ WriteSession(r) \/ WriteFails(r)
      BY <1>0, <2>1, <3>2 DEF SaveCreated, RememberCreated, RememberLoaded, SpawnFails, BindPort,
            Register, Attach, SaveLaneFails, EndCreation, ListLanes, StopListed, MarkClosed,
            MakePlan, OnlyLook, WriteSession, WriteFails, Goes, GivesUp, Changes, FirstStep, Requested
    <3> QED BY <1>3, <3>1, <3>2 DEF StepOf
  <2>3. x \in running /\ x # r
    BY <2>2 DEF Spawn, RunningIsPast
  <2>4. port \in [Calls -> Nat] /\ \A y \in running : port[y] # NextPort
    BY FreePort DEF RegistryTyped, PortsTyped
  <2> QED BY <2>1, <2>2, <2>3, <2>4 DEF Spawn, RegistryTyped, PortsTyped
<1> QED BY <1>2, <1>3

(* What is done stays so.                                                  *)
LEMMA DoneStays ==
    ASSUME RegistryTyped, NEW r \in Calls, StepOf(r)
    PROVE  /\ In("done") \subseteq In("done")'
           /\ request'[r].after \in {request[r].after, In("done")}
<1>0. request \in [Calls -> Requested] /\ request[r] \in Requested
  BY DEF RegistryTyped, RequestsTyped
<1>1. request[r].at = "done" => request' = request
  BY OthersStay, WhoProceeds DEF PortReleased, Resting
<1>2. In("done") \subseteq In("done")'
  BY <1>1, OthersStay DEF In
<1>3. CASE CreateSession(r) \/ (\E op \in {"start", "close", "plan"} : Recall(r, op))
           \/ (\E op \in {"start", "close", "plan"} : LoadSession(r, op))
  <2>1. \E op, at, holds : Begins(r, op, at, holds)
    BY <1>3 DEF CreateSession, Recall, LoadSession
  <2> QED BY <1>0, <1>2, <2>1 DEF Begins, Requested
<1>4. CASE \/ SaveCreated(r) \/ RememberCreated(r) \/ RememberLoaded(r) \/ Spawn(r) \/ SpawnFails(r)
           \/ BindPort(r) \/ Register(r) \/ Attach(r) \/ SaveLaneFails(r) \/ EndCreation(r)
           \/ ListLanes(r) \/ StopListed(r) \/ MarkClosed(r)
           \/ MakePlan(r) \/ OnlyLook(r) \/ WriteSession(r) \/ WriteFails(r) \/ PortReleased(r)
  BY <1>0, <1>2, <1>4 DEF SaveCreated, RememberCreated, RememberLoaded, Spawn, SpawnFails, BindPort,
        Register, Attach, SaveLaneFails, EndCreation, ListLanes, StopListed, MarkClosed,
        MakePlan, OnlyLook, WriteSession, WriteFails, PortReleased, Goes, GivesUp, Changes, Requested
<1> QED BY <1>3, <1>4 DEF StepOf

(* A close stops every lane that was started alone before it began.        *)
LEMMA StoppedStep ==
    ASSUME RegistryTyped, OverlapSeen, RunningIsPast, Known, StoppedByClose,
           NEW r \in Calls, StepOf(r)
    PROVE  StoppedByClose'
<1>0. /\ request \in [Calls -> Requested] /\ request[r] \in Requested
      /\ request[r].op \in OpsAt(request[r].at)
  BY DEF RegistryTyped, RequestsTyped
<1>o. \A s \in Calls \ {r} : request'[s] = request[s]
  BY OthersStay
<1>1. ASSUME NEW s \in Calls PROVE request'[s].after \subseteq In("done")'
  BY <1>o, DoneStays DEF StoppedByClose
<1>2. ASSUME NEW x, x \in In("done"), x \in DoneAlone("start")', x \in running'
      PROVE  x \in DoneAlone("start") /\ x \in running
  <2>1. x \notin InProgress
    BY <1>2, WhoProceeds DEF In, Resting
  <2>2. x \in DoneAlone("start")
    BY <1>2, <2>1, DoneStep DEF Alone
  <2>3. x \in running
    BY <1>2, RunningStep DEF In
  <2> QED BY <2>2, <2>3
<1>3. ASSUME NEW s \in Calls, request'[s].op = "close"
      PROVE  /\ request'[s].at = "stopping" =>
                  request'[s].after \cap DoneAlone("start")' \cap running' \subseteq request'[s].left
             /\ request'[s].at \in {"concluding", "done"} =>
                  request'[s].after \cap DoneAlone("start")' \cap running' = {}
  <2>1. CASE request'[s] = request[s]
    BY <1>2, <1>3, <2>1 DEF StoppedByClose
  <2>2. CASE s = r
    <3>1. CASE CreateSession(r) \/ (\E op \in {"start", "close", "plan"} : Recall(r, op))
               \/ (\E op \in {"start", "close", "plan"} : LoadSession(r, op))
      <4>1. request'[r].at \in {"creating", "loaded", "starting", "closing", "planning"}
        BY <1>0, <3>1 DEF CreateSession, Recall, LoadSession, Begins, FirstStep, Requested
      <4> QED BY <2>2, <4>1
    <3>2. CASE \/ SaveCreated(r) \/ RememberCreated(r) \/ Spawn(r) \/ SpawnFails(r)
               \/ BindPort(r) \/ Register(r) \/ Attach(r) \/ SaveLaneFails(r) \/ WriteFails(r)
      <4>1. request'[r].at \notin {"stopping", "concluding", "done"}
        BY <1>0, <3>2 DEF SaveCreated, RememberCreated, Spawn, SpawnFails, BindPort,
              Register, Attach, SaveLaneFails, WriteFails, Goes, GivesUp, Changes, Requested
      <4> QED BY <2>2, <4>1
    <3>3. CASE RememberLoaded(r)
      <4>1. request'[r].op = request[r].op /\ request'[r].at = FirstStep(request[r].op)
        BY <1>0, <3>3 DEF RememberLoaded, Goes, Requested
      <4>2. request'[r].at = "closing"
        BY <1>3, <2>2, <4>1 DEF FirstStep
      <4> QED BY <2>2, <4>2
    <3>4. CASE EndCreation(r) \/ MakePlan(r) \/ OnlyLook(r)
      <4>1. request[r].op \in {"create", "plan"} /\ request'[r].op = request[r].op
        BY <1>0, <3>4 DEF EndCreation, MakePlan, OnlyLook, Goes, Changes, OpsAt, Requested
      <4> QED BY <1>3, <2>2, <4>1
    <3>5. CASE ListLanes(r)
      <4>1. /\ request'[r].at = "stopping" /\ request'[r].left = Held(r).lanes
            /\ request'[r].after = request[r].after /\ request[r].op = "close"
        BY <1>0, <3>5 DEF ListLanes, OpsAt, Requested
      <4>2. Held(r) \in LiveCopies
        BY <3>5, WhoProceeds DEF ListLanes, LiveCopies, Resting
      <4>3. DoneAlone("start") \subseteq Held(r).lanes
        BY <4>2 DEF Known
      <4>4. request[r].after \subseteq In("done")
        BY DEF StoppedByClose
      <4> QED BY <1>2, <2>2, <4>1, <4>3, <4>4
    <3>6. CASE StopListed(r)
      <4>1. PICK x \in request[r].left \cap running :
                /\ running' = running \ {x}
                /\ request' = [request EXCEPT ![r].left = @ \ {x}]
        BY <3>6 DEF StopListed
      <4>2. /\ request[r].at = "stopping" /\ request'[r].at = "stopping"
            /\ request'[r].left = request[r].left \ {x}
            /\ request'[r].after = request[r].after /\ request[r].op = "close"
        BY <1>0, <3>6, <4>1 DEF StopListed, OpsAt, Requested
      <4>4. request[r].after \subseteq In("done")
        BY DEF StoppedByClose
      <4>5. request[r].after \cap DoneAlone("start") \cap running \subseteq request[r].left
        BY <4>2 DEF StoppedByClose
      <4> QED BY <1>2, <2>2, <4>1, <4>2, <4>4, <4>5
    <3>7. CASE MarkClosed(r)
      <4>1. /\ request[r].at = "stopping" /\ request'[r].at = "concluding"
            /\ request[r].left \cap running = {}
            /\ request'[r].after = request[r].after /\ request[r].op = "close"
        BY <1>0, <3>7 DEF MarkClosed, Changes, OpsAt, Requested
      <4>4. request[r].after \subseteq In("done")
        BY DEF StoppedByClose
      <4>5. request[r].after \cap DoneAlone("start") \cap running \subseteq request[r].left
        BY <4>1 DEF StoppedByClose
      <4> QED BY <1>2, <2>2, <4>1, <4>4, <4>5
    <3>8. CASE PortReleased(r)
      BY <2>1, <2>2, <3>8 DEF PortReleased
    <3>9. CASE WriteSession(r)
      <4>1. /\ request'[r].op = request[r].op /\ request'[r].after = request[r].after
            /\ request[r].at \in {"attached", "concluding"} /\ request'[r].at \in {"ending", "done"}
        BY <1>0, <3>9 DEF WriteSession, Goes, Requested
      <4>2. request[r].op = "close" /\ request[r].at = "concluding"
        BY <1>0, <1>3, <2>2, <4>1 DEF OpsAt
      <4>4. request[r].after \subseteq In("done")
        BY DEF StoppedByClose
      <4>5. request[r].after \cap DoneAlone("start") \cap running = {}
        BY <4>2 DEF StoppedByClose
      <4> QED BY <1>2, <2>2, <4>1, <4>4, <4>5
    <3> QED BY <3>1, <3>2, <3>3, <3>4, <3>5, <3>6, <3>7, <3>8, <3>9 DEF StepOf
  <2> QED BY <1>o, <2>1, <2>2
<1> QED BY <1>1, <1>3 DEF StoppedByClose

(* A port that is taken is so by a lane only if requests overlap.          *)
LEMMA TakenStep ==
    ASSUME RegistryTyped, OverlapSeen, PortIsFree, TakenByOverlap, NEW r \in Calls, PortIsTaken(r)
    PROVE  TakenByOverlap'
<1>1. overlapped' = overlapped
  BY DEF PortIsTaken, Dies
<1>2. PICK x \in PortHolders(port[r]) :
        portTaken' = portTaken \cup
            {<<r, IF x \in running \cup In("serving") THEN "lane" ELSE "leftover">>}
  BY DEF PortIsTaken
<1>3. ASSUME x \in running \cup In("serving") PROVE r \in overlapped
  <2>1. request[r].at = "binding" /\ r \in InProgress /\ port[x] = port[r]
    BY <1>2, WhoProceeds DEF PortIsTaken, PortHolders, Resting
  <2>2. CASE x \in running
    BY <2>1, <2>2 DEF PortIsFree, In
  <2>3. CASE x \in In("serving")
    BY <2>1, <2>3, WhoProceeds DEF OverlapSeen, In, Resting
  <2> QED BY <1>3, <2>2, <2>3
<1>4. ASSUME NEW s \in Calls, <<s, "lane">> \in portTaken', <<s, "lane">> \notin portTaken
      PROVE  s = r /\ x \in running \cup In("serving")
  BY <1>2, <1>4
<1> QED BY <1>1, <1>3, <1>4 DEF TakenByOverlap

(* The daemon's end.                                                       *)
LEMMA DiesStep ==
    ASSUME RegistryTyped, Known, CreatedBefore, StoppedByClose, Dies
    PROVE  /\ OverlapSeen' /\ RunningIsPast' /\ PortIsFree' /\ WorksOnRemembered'
           /\ Known' /\ CreatedBefore' /\ StoppedByClose'
<1>0. request \in [Calls -> Requested] /\ RegistryTyped'
  BY Dying DEF RegistryTyped, RequestsTyped
<1>1. ASSUME NEW r \in Calls
      PROVE  /\ request'[r].op = request[r].op /\ request'[r].after = request[r].after
             /\ request'[r].at \in Resting
             /\ request'[r].at = "done" <=> request[r].at = "done"
  <2>1. CASE r \in InProgress
    <3>1. request'[r] = [request[r] EXCEPT !.at = "lost"]
      BY <2>1 DEF Dies
    <3> QED BY <1>0, <2>1, <3>1, WhoProceeds DEF Requested, Resting
  <2>2. CASE r \notin InProgress
    BY <2>2, WhoProceeds DEF Dies
  <2> QED BY <2>1, <2>2
<1>2. InProgress' = {}
  BY <1>1, WhoProceeds
<1>3. In("done")' = In("done") /\ overlapped' = overlapped /\ sessionRow' = sessionRow
      /\ running' = {} /\ remembered' = NoObject
  BY <1>1 DEF In, Dies
<1>4. \A op : DoneAlone(op)' = DoneAlone(op)
  BY <1>1, <1>3 DEF DoneAlone, In
<1>5. LiveCopies' = {sessionRow} /\ sessionRow \in LiveCopies
  <2>1. \A r \in Calls : request'[r].at \notin {"attached", "concluding"}
    BY <1>1 DEF Resting
  <2> QED BY <1>2, <1>3, <2>1 DEF LiveCopies, Copies, In
<1>6. OverlapSeen' /\ RunningIsPast' /\ PortIsFree' /\ WorksOnRemembered'
  BY <1>2, <1>3 DEF OverlapSeen, RunningIsPast, PortIsFree, WorksOnRemembered, Alone
<1>7. Known'
  BY <1>4, <1>5 DEF Known
<1>8. CreatedBefore'
  BY <1>2, <1>3, <1>4 DEF CreatedBefore
<1>9. StoppedByClose'
  BY <1>1, <1>3 DEF StoppedByClose
<1> QED BY <1>6, <1>7, <1>8, <1>9

-----------------------------------------------------------------------------
LEMMA RegistryInvInit == ASSUME RegistryInit PROVE RegistryInv
<1>1. RegistryTyped
  BY RequestedInit
<1>2. \A r \in Calls : request[r] = Waiting
  BY DEF RegistryInit
<1>3. InProgress = {} /\ In("done") = {}
  BY <1>2, WhoProceeds DEF Waiting, Resting, In
<1>4. OverlapSeen /\ WorksOnRemembered /\ CreatedBefore /\ Known
  BY <1>3 DEF OverlapSeen, WorksOnRemembered, CreatedBefore, Known, Alone, DoneAlone
<1>5. RunningIsPast /\ PortIsFree /\ TakenByOverlap
  BY DEF RegistryInit, RunningIsPast, PortIsFree, TakenByOverlap
<1>6. StoppedByClose
  BY <1>2 DEF StoppedByClose, Waiting
<1> QED BY <1>1, <1>4, <1>5, <1>6 DEF RegistryInv

LEMMA RegistryInvStep ==
    ASSUME RegistryInv, [RegistryNext]_registryVars
    PROVE  RegistryInv'
<1>0. /\ RegistryTyped /\ OverlapSeen /\ RunningIsPast /\ PortIsFree /\ WorksOnRemembered
      /\ Known /\ CreatedBefore /\ StoppedByClose /\ TakenByOverlap
  BY DEF RegistryInv
<1>1. RegistryTyped'
  BY <1>0, RegistryTypeStep
<1>2. ASSUME NEW r \in Calls, StepOf(r)
      PROVE  RegistryInv'
  <2>1. OverlapSeen' /\ overlapped \subseteq overlapped'
    BY <1>0, <1>2, OverlapStep
  <2>2. RunningIsPast' /\ PortIsFree' /\ WorksOnRemembered'
    BY <1>0, <1>2, RunningStep, PortStep, WorksStep
  <2>3. Known' /\ CreatedBefore'
    BY <1>0, <1>1, <1>2, KnownStep
  <2>4. StoppedByClose'
    BY <1>0, <1>2, StoppedStep
  <2>5. portTaken' = portTaken
    BY <1>2 DEF StepOf, CreateSession, Recall, LoadSession, SaveCreated, RememberCreated,
          RememberLoaded, Spawn, SpawnFails, BindPort, Register, Attach, SaveLaneFails, EndCreation,
          ListLanes, StopListed, MarkClosed, MakePlan, OnlyLook, PortReleased, WriteSession, WriteFails, lanePlaces
  <2>6. TakenByOverlap'
    BY <1>0, <2>1, <2>5 DEF TakenByOverlap
  <2> QED BY <1>1, <2>1, <2>2, <2>3, <2>4, <2>6 DEF RegistryInv
<1>3. ASSUME NEW r \in Calls, PortIsTaken(r)
      PROVE  RegistryInv'
  <2>1. Dies
    BY <1>3 DEF PortIsTaken
  <2> QED BY <1>0, <1>1, <1>3, <2>1, DiesStep, TakenStep DEF RegistryInv
<1>4. CASE Killed
  <2>1. Dies /\ portTaken' = portTaken /\ overlapped' = overlapped
    BY <1>4 DEF Killed, Dies
  <2>2. TakenByOverlap'
    BY <1>0, <2>1 DEF TakenByOverlap
  <2> QED BY <1>0, <1>1, <2>1, <2>2, DiesStep DEF RegistryInv
<1>5. CASE UNCHANGED registryVars
  <2>1. /\ InProgress' = InProgress /\ Copies' = Copies /\ (\A op : DoneAlone(op)' = DoneAlone(op))
        /\ (\A at : In(at)' = In(at)) /\ \A r : Held(r)' = Held(r)
    BY <1>5 DEF registryVars, InProgress, In, Copies, DoneAlone, Held, Over
  <2>2. LiveCopies' = LiveCopies /\ Alone' = Alone
    BY <1>5, <2>1 DEF LiveCopies, Alone, registryVars
  <2>3. OverlapSeen' /\ RunningIsPast' /\ PortIsFree'
    BY <1>0, <1>5, <2>1 DEF OverlapSeen, RunningIsPast, PortIsFree, registryVars
  <2>4. WorksOnRemembered' /\ Known' /\ CreatedBefore'
    BY <1>0, <1>5, <2>1, <2>2 DEF WorksOnRemembered, Known, CreatedBefore, registryVars
  <2>5. StoppedByClose' /\ TakenByOverlap'
    BY <1>0, <1>5, <2>1 DEF StoppedByClose, TakenByOverlap, registryVars
  <2> QED BY <1>1, <2>3, <2>4, <2>5 DEF RegistryInv
<1> QED BY <1>2, <1>3, <1>4, <1>5, RegistrySteps

(* A request that ran alone loses nothing to others, before or after: its  *)
(* lane stays listed, its close stands, and no lane in use has its port.   *)
THEOREM OverlapAlone == RegistrySpec => []LostOnlyByOverlap
<1>1. RegistryInit => RegistryInv
  BY RegistryInvInit
<1>2. RegistryInv /\ [RegistryNext]_registryVars => RegistryInv'
  BY RegistryInvStep
<1>3. RegistryInv => LostOnlyByOverlap
  <2> SUFFICES ASSUME RegistryInv PROVE LostOnlyByOverlap
    OBVIOUS
  <2>1. Copies \subseteq LiveCopies
    BY DEF LiveCopies
  <2>2. \A r \in Calls : request[r].op = "close" /\ request[r].at = "done" =>
            request[r].after \cap DoneAlone("start") \cap running = {}
    BY DEF RegistryInv, StoppedByClose
  <2>3. /\ \A r \in DoneAlone("start") : \A copy \in Copies : r \in copy.lanes
        /\ DoneAlone("close") # {} => \A copy \in Copies : copy.status = "closed"
    BY <2>1 DEF RegistryInv, Known
  <2> QED BY <2>2, <2>3 DEF LostOnlyByOverlap, RegistryInv, TakenByOverlap, In
<1> QED BY <1>1, <1>2, <1>3, PTL DEF RegistrySpec
=============================================================================
