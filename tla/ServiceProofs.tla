---------------------------- MODULE ServiceProofs ----------------------------
(***************************************************************************)
(* What the daemon promises as a process: that a repository has one, that  *)
(* the negotiations it runs are legal and settled, that its connection to  *)
(* the relay is a lossy channel, that a message between lanes is delivered *)
(* once, that the dashboard's feed has no holes, that neither a reader of  *)
(* the control plane nor its stop is fooled by the order of things, and    *)
(* that what a harness prints is logged in order.                          *)
(***************************************************************************)
EXTENDS MCService, FiniteSetTheorems, SequenceTheorems, WellFoundedInduction, TLAPS

-----------------------------------------------------------------------------
(* Starting and stopping.                                                  *)

LEMMA DaemonStarts == DaemonInit => DaemonTypeOK
<1> SUFFICES ASSUME DaemonInit PROVE DaemonTypeOK
    OBVIOUS
<1>1. {lanes, draining, late} \subseteq [Daemons -> SUBSET Runnable]
    BY DEF DaemonInit
<1>2. {returned, gaveUp} \subseteq [Daemons -> BOOLEAN]
    BY DEF DaemonInit
<1>3. /\ stage \in [Daemons -> Checking \cup {"off", "starting", "serving", "exited", "over"}]
      /\ shutdown \in [Daemons -> Open \cup {"database", "done", "aborted"}]
    BY DEF DaemonInit, Open
<1> QED
    BY <1>1, <1>2, <1>3 DEF DaemonInit, DaemonTypeOK

LEMMA DaemonTyped == DaemonTypeOK /\ [DaemonNext]_daemonVars => DaemonTypeOK'
<1> SUFFICES ASSUME DaemonTypeOK, [DaemonNext]_daemonVars PROVE DaemonTypeOK'
    OBVIOUS
<1> USE DEF DaemonTypeOK
<1>1. ASSUME NEW d \in Daemons,
             \/ CheckPid(d) \/ UnlinkPid(d) \/ CheckSocket(d) \/ UnlinkSocket(d)
             \/ WritePid(d) \/ StartRaises(d) \/ Bind(d) \/ Exit(d) \/ Killed(d)
      PROVE  DaemonTypeOK'
    <2>1. UNCHANGED unstarted
        BY <1>1 DEF CheckPid, UnlinkPid, CheckSocket, UnlinkSocket, WritePid, StartRaises,
            Bind, Exit, Killed
    <2>2. PICK from, to : Moves(d, from, to) /\ to \in
                Checking \cup {"off", "starting", "serving", "exited", "over"}
        BY <1>1 DEF CheckPid, UnlinkPid, CheckSocket, UnlinkSocket, WritePid, StartRaises,
            Bind, Exit, Killed, Checking
    <2>3. stage' \in [Daemons -> Checking \cup {"off", "starting", "serving", "exited", "over"}]
        BY <2>2 DEF Moves
    <2>4. /\ pidfile' \in {pidfile, d, NoDaemon} /\ socket' \in {socket, d, NoDaemon}
          /\ raced' \in BOOLEAN
        <3>1. raced' = raced \/ WritePid(d)
            BY <1>1 DEF CheckPid, UnlinkPid, CheckSocket, UnlinkSocket, StartRaises, Bind,
                Exit, Killed
        <3>2. ASSUME WritePid(d) PROVE raced' \in BOOLEAN
            BY <3>2 DEF WritePid
        <3> QED
            BY <1>1, <3>1, <3>2 DEF CheckPid, UnlinkPid, CheckSocket, UnlinkSocket,
                WritePid, StartRaises, Bind, Exit, Killed
    <2> QED
        BY <2>1, <2>3, <2>4 DEF unstarted
<1>2. ASSUME NEW d \in Daemons, NEW lane \in Runnable, StartLane(d, lane) \/ DrainLane(d, lane)
      PROVE  DaemonTypeOK'
    BY <1>2 DEF StartLane, DrainLane
<1>3. ASSUME NEW d \in Daemons,
             \/ BeginShutdown(d) \/ SupervisorGone(d) \/ Drained(d) \/ DrainGivesUp(d)
             \/ RelayStopped(d) \/ LastEvent(d) \/ IpcStopped(d) \/ DatabaseClosed(d)
      PROVE  DaemonTypeOK'
    <2>1. PICK to \in Open \cup {"database", "done", "aborted"} :
            shutdown' = [shutdown EXCEPT ![d] = to]
        BY <1>3 DEF BeginShutdown, SupervisorGone, Drained, DrainGivesUp, RelayStopped,
            LastEvent, IpcStopped, DatabaseClosed, Awaits, Open
    <2>2. shutdown' \in [Daemons -> Open \cup {"database", "done", "aborted"}]
        BY <2>1
    <2>3. /\ draining' \in [Daemons -> SUBSET Runnable]
          /\ gaveUp' \in [Daemons -> BOOLEAN]
          /\ pidfile' \in {pidfile, NoDaemon} /\ socket' \in {socket, NoDaemon}
          /\ UNCHANGED <<stage, lanes, late, returned, raced>>
        BY <1>3 DEF BeginShutdown, SupervisorGone, Drained, DrainGivesUp, RelayStopped,
            LastEvent, IpcStopped, DatabaseClosed
    <2> QED
        BY <2>2, <2>3
<1>4. ASSUME NEW d \in Daemons, MainReturns(d) PROVE DaemonTypeOK'
    BY <1>4 DEF MainReturns
<1>5. CASE UNCHANGED daemonVars
    BY <1>5 DEF daemonVars
<1> QED
    BY <1>1, <1>2, <1>3, <1>4, <1>5 DEF DaemonNext, Stopping

(* A process that will serve, does, or has not yet taken its pid file away.*)
Holds(d) == stage[d] \in {"starting", "serving"} /\ shutdown[d] # "done"

(* Whoever holds the repository is in the pid file, and nobody who might   *)
(* still write it has looked before.                                       *)
OneHolder ==
    ~raced =>
        \A d \in Daemons : Holds(d) =>
            pidfile = d /\ \A e \in Daemons : stage[e] \notin Checking

LEMMA OneHolderStep ==
    DaemonTypeOK /\ OneHolder /\ [DaemonNext]_daemonVars => OneHolder'
<1> SUFFICES ASSUME DaemonTypeOK, OneHolder, [DaemonNext]_daemonVars, ~raced'
             PROVE  \A h \in Daemons : Holds(h)' =>
                        pidfile' = h /\ \A e \in Daemons : stage'[e] \notin Checking
    BY DEF OneHolder
<1> USE DEF DaemonTypeOK
<1>1. ~raced
    BY DEF DaemonNext, CheckPid, UnlinkPid, CheckSocket, UnlinkSocket, WritePid, StartRaises,
        Bind, StartLane, BeginShutdown, Stopping, SupervisorGone, Drained, DrainGivesUp,
        DrainLane, RelayStopped, LastEvent, IpcStopped, DatabaseClosed, MainReturns, Exit,
        Killed, daemonVars, unstarted
<1>2. \A h \in Daemons : Holds(h) =>
            pidfile = h /\ \A e \in Daemons : stage[e] \notin Checking
    BY <1>1 DEF OneHolder
<1>3. ASSUME NEW d \in Daemons, stage[d] \in Checking,
             UnlinkPid(d) \/ CheckSocket(d) \/ UnlinkSocket(d)
      PROVE  \A h \in Daemons : ~Holds(h)'
    <2>1. \A h \in Daemons : ~Holds(h)
        BY <1>2, <1>3
    <2>2. /\ UNCHANGED shutdown /\ stage'[d] \notin {"starting", "serving"}
          /\ \A h \in Daemons \ {d} : stage'[h] = stage[h]
        BY <1>3 DEF UnlinkPid, CheckSocket, UnlinkSocket, Moves, unstarted
    <2> QED
        BY <2>1, <2>2 DEF Holds
<1>4. ASSUME NEW d \in Daemons, CheckPid(d) PROVE OneHolder'
    <2>1. /\ UNCHANGED <<shutdown, pidfile>> /\ stage[d] = "off"
          /\ stage'[d] \in {"pid", "stale", "over"}
          /\ \A h \in Daemons \ {d} : stage'[h] = stage[h]
        BY <1>4 DEF CheckPid, Moves, unstarted
    <2>2. CASE stage'[d] = "over"
        BY <1>2, <2>1, <2>2 DEF Holds, OneHolder, Checking
    <2>3. CASE stage'[d] # "over"
        <3>1. pidfile = NoDaemon \/ ~Alive(pidfile)
            BY <1>4, <2>3 DEF CheckPid, Moves
        <3>2. \A h \in Daemons : ~Holds(h)
            BY <1>2, <3>1, NoDaemonIsNone DEF Holds, Alive
        <3> QED
            BY <2>1, <3>2 DEF Holds, OneHolder
    <2> QED
        BY <2>2, <2>3
<1>5. ASSUME NEW d \in Daemons, WritePid(d) PROVE OneHolder'
    <2>1. \A h \in Daemons : ~Holds(h)
        BY <1>2, <1>5 DEF WritePid, Moves, Checking
    <2>2. /\ UNCHANGED shutdown /\ pidfile' = d /\ stage'[d] = "starting"
          /\ \A h \in Daemons \ {d} : stage'[h] = stage[h] /\ stage[h] \notin Checking
        BY <1>5 DEF WritePid, Moves, unstarted
    <2> QED
        BY <2>1, <2>2 DEF Holds, OneHolder, Checking
<1>6. ASSUME NEW d \in Daemons, StartRaises(d) \/ Bind(d) \/ Exit(d) \/ Killed(d)
      PROVE  OneHolder'
    <2>1. /\ UNCHANGED <<shutdown, pidfile>>
          /\ stage'[d] \notin Checking
          /\ stage'[d] \in {"starting", "serving"} => stage[d] \in {"starting", "serving"}
          /\ \A h \in Daemons \ {d} : stage'[h] = stage[h]
        BY <1>6 DEF StartRaises, Bind, Exit, Killed, Moves, unstarted, Checking
    <2> QED
        BY <1>2, <2>1 DEF Holds, OneHolder
<1>7. ASSUME NEW d \in Daemons, DatabaseClosed(d) PROVE OneHolder'
    <2>1. Holds(d) /\ shutdown'[d] = "done" /\ UNCHANGED stage
          /\ \A h \in Daemons \ {d} : shutdown'[h] = shutdown[h]
        BY <1>7 DEF DatabaseClosed, Awaits, Holds
    <2> QED
        BY <1>2, <2>1 DEF Holds, OneHolder
<1>8. ASSUME UNCHANGED <<stage, pidfile>>,
             \A h \in Daemons : shutdown[h] = "done" => shutdown'[h] = "done"
      PROVE  OneHolder'
    BY <1>2, <1>8 DEF Holds, OneHolder
<1>9. ASSUME NEW d \in Daemons,
             \/ \E lane \in Runnable : StartLane(d, lane) \/ DrainLane(d, lane)
             \/ BeginShutdown(d) \/ SupervisorGone(d) \/ Drained(d) \/ DrainGivesUp(d)
             \/ RelayStopped(d) \/ LastEvent(d) \/ IpcStopped(d) \/ MainReturns(d)
      PROVE  OneHolder'
    <2>1. /\ UNCHANGED <<stage, pidfile>>
          /\ \A h \in Daemons : shutdown[h] = "done" => shutdown'[h] = "done"
        BY <1>9 DEF StartLane, DrainLane, BeginShutdown, SupervisorGone, Drained,
            DrainGivesUp, RelayStopped, LastEvent, IpcStopped, MainReturns, Awaits, Aborts
    <2> QED
        BY <1>8, <2>1
<1>10. CASE UNCHANGED daemonVars
    <2>1. UNCHANGED <<stage, pidfile>> /\ shutdown' = shutdown
        BY <1>10 DEF daemonVars
    <2> QED
        BY <1>8, <2>1 DEF OneHolder
<1>11. ASSUME NEW d \in Daemons, UnlinkPid(d) \/ CheckSocket(d) \/ UnlinkSocket(d)
       PROVE  stage[d] \in Checking
    BY <1>11 DEF UnlinkPid, CheckSocket, UnlinkSocket, Moves, Checking
<1> QED
    BY <1>3, <1>4, <1>5, <1>6, <1>7, <1>9, <1>10, <1>11 DEF DaemonNext, Stopping, OneHolder

(* However daemons are started, killed and stopped, the files name daemons *)
(* and a shutdown stays at one of its stages (start, stop).                *)
THEOREM DaemonsTyped == DaemonSpec => []DaemonTypeOK
<1> QED
    BY DaemonStarts, DaemonTyped, PTL DEF DaemonSpec

(* A repository is served by one daemon, however many are started, killed  *)
(* and stopped, unless two looked before either wrote                      *)
(* (_guard_already_running, start, stop).                                  *)
THEOREM OneDaemon == DaemonSpec => []OneDaemonUnlessRaced
<1>1. DaemonInit => OneHolder
    BY DEF DaemonInit, OneHolder, Holds
<1>2. DaemonTypeOK /\ OneHolder => OneDaemonUnlessRaced
    BY DEF DaemonTypeOK, OneHolder, Holds, OneDaemonUnlessRaced, Serves, Open
<1> QED
    BY <1>1, <1>2, DaemonStarts, DaemonTyped, OneHolderStep, PTL DEF DaemonSpec

(* What a shutdown has still to stop it knows of, or it started late.      *)
LanesKnown ==
    \A d \in Daemons :
        /\ shutdown[d] = "lanes" => lanes[d] \subseteq draining[d] \cup late[d]
        /\ shutdown[d] \in {"relay", "event", "ipc", "database", "done"} =>
                gaveUp[d] \/ lanes[d] \subseteq late[d]

LEMMA LanesKnownStep ==
    DaemonTypeOK /\ LanesKnown /\ [DaemonNext]_daemonVars => LanesKnown'
<1> SUFFICES ASSUME DaemonTypeOK, LanesKnown, [DaemonNext]_daemonVars PROVE LanesKnown'
    OBVIOUS
<1> USE DEF DaemonTypeOK, LanesKnown
<1>1. ASSUME NEW d \in Daemons,
             \/ CheckPid(d) \/ UnlinkPid(d) \/ CheckSocket(d) \/ UnlinkSocket(d)
             \/ WritePid(d) \/ StartRaises(d) \/ Bind(d) \/ Exit(d) \/ Killed(d)
      PROVE  LanesKnown'
    <2>1. UNCHANGED unstarted
        BY <1>1 DEF CheckPid, UnlinkPid, CheckSocket, UnlinkSocket, WritePid, StartRaises,
            Bind, Exit, Killed
    <2> QED
        BY <2>1 DEF unstarted
<1>2. ASSUME NEW d \in Daemons, NEW lane \in Runnable, StartLane(d, lane)
      PROVE  LanesKnown'
    BY <1>2 DEF StartLane
<1>3. ASSUME NEW d \in Daemons, NEW lane \in Runnable, DrainLane(d, lane)
      PROVE  LanesKnown'
    BY <1>3 DEF DrainLane
<1>4. ASSUME NEW d \in Daemons, BeginShutdown(d) \/ SupervisorGone(d) PROVE LanesKnown'
    BY <1>4 DEF BeginShutdown, SupervisorGone, Awaits
<1>5. ASSUME NEW d \in Daemons, Drained(d) PROVE LanesKnown'
    BY <1>5 DEF Drained, Awaits
<1>6. ASSUME NEW d \in Daemons, DrainGivesUp(d) PROVE LanesKnown'
    BY <1>6 DEF DrainGivesUp, Awaits
<1>7. ASSUME NEW d \in Daemons,
             RelayStopped(d) \/ LastEvent(d) \/ IpcStopped(d) \/ DatabaseClosed(d)
      PROVE  LanesKnown'
    BY <1>7 DEF RelayStopped, LastEvent, IpcStopped, DatabaseClosed, Awaits
<1>8. ASSUME NEW d \in Daemons, MainReturns(d) PROVE LanesKnown'
    BY <1>8 DEF MainReturns
<1>9. CASE UNCHANGED daemonVars
    <2>1. UNCHANGED <<shutdown, lanes, draining, late, gaveUp>>
        BY <1>9 DEF daemonVars
    <2> QED
        BY <2>1
<1> QED
    BY <1>1, <1>2, <1>3, <1>4, <1>5, <1>6, <1>7, <1>8, <1>9 DEF DaemonNext, Stopping

(* A shutdown that got to its end forgot no lane: what still runs was      *)
(* started after the drain had looked, or the drain was cut short (stop).  *)
THEOREM NoLaneForgotten == DaemonSpec => []LanesLeftAreExplained
<1>1. DaemonInit => LanesKnown
    BY DEF DaemonInit, LanesKnown
<1>2. LanesKnown => LanesLeftAreExplained
    BY DEF LanesKnown, LanesLeftAreExplained
<1> QED
    BY <1>1, <1>2, DaemonStarts, DaemonTyped, LanesKnownStep, PTL DEF DaemonSpec

-----------------------------------------------------------------------------
(* Negotiations.                                                           *)

LEMMA CapPositive == Cap \in Int /\ Cap >= 1
BY NegotiationLimits DEF Cap

(* Whether a move is the last one does not depend on what follows it.      *)
LEMMA FinalAppend ==
    ASSUME NEW ms \in Seq(Move), NEW said \in Move, NEW n \in 1 .. Len(ms)
    PROVE  Final(Append(ms, said), n) <=> Final(ms, n)
<1>1. \A k \in 1 .. Len(ms) : Append(ms, said)[k] = ms[k]
    OBVIOUS
<1>2. ms[n] = Append(ms, said)[n]
    BY <1>1
<1>3. CASE n >= 4
    <2>1. n - 1 \in 1 .. Len(ms) /\ n - 2 \in 1 .. Len(ms) /\ (n - 1) - 2 \in 1 .. Len(ms)
        BY <1>3
    <2>2. Stuck(Append(ms, said), n) <=> Stuck(ms, n)
        BY <1>1, <2>1 DEF Stuck, SaidAgain
    <2> QED
        BY <1>2, <2>2 DEF Final
<1>4. CASE ~(n >= 4)
    BY <1>2, <1>4 DEF Final, Stuck
<1> QED
    BY <1>3, <1>4

(* An exchange that goes on may go on, and has no outcome yet.             *)
StillTalking == phase \in {"asking", "delivering"}

GoesOn ==
    StillTalking => Len(moves) >= 1 /\ Len(moves) < Cap /\ ~Final(moves, Len(moves))

(* What is being delivered is a legal answer of the side whose turn it is. *)
LegalAnswer ==
    phase = "delivering" =>
        /\ reply[1] \in Move
        /\ reply[1].by = SideOf(Len(moves) + 1)
        /\ reply[1].performative \in Replies(moves[Len(moves)].performative)

LastSaid == moves[Len(moves)].performative

(* What is known of the outcome in each phase.                             *)
OutcomeSoFar ==
    /\ phase \in {"closed", "opening"} => moves = << >>
    /\ phase \notin {"returned", "saved", "raised"} => ~heard
    /\ phase = "escalating" =>
        outcome = "escalated" /\ LastSaid \notin {"accept", "withdraw"}
    /\ phase \in {"returned", "saved"} =>
        /\ outcome \in {"agreed", "abandoned", "escalated"}
        /\ outcome = "agreed" <=> LastSaid = "accept"
        /\ outcome = "abandoned" <=> LastSaid = "withdraw"
        /\ heard <=> outcome = "escalated"

NegotiationInv ==
    /\ moves \in Seq(Move)
    /\ GoesOn
    /\ LegalAnswer
    /\ LegalTranscript
    /\ OutcomeSoFar

LEMMA NegotiationStep ==
    NegotiationInv /\ [NegotiationNext]_negotiationVars => NegotiationInv'
<1> SUFFICES ASSUME NegotiationInv, [NegotiationNext]_negotiationVars
             PROVE  NegotiationInv'
    OBVIOUS
<1>1. ASSUME UNCHANGED moves, GoesOn', LegalAnswer', OutcomeSoFar' PROVE NegotiationInv'
    BY <1>1 DEF NegotiationInv, LegalTranscript
<1>2. CASE Opens
    <2>1. UNCHANGED moves /\ OutcomeSoFar'
        BY <1>2 DEF Opens, NegotiationInv, OutcomeSoFar
    <2>2. GoesOn' /\ LegalAnswer'
        BY <1>2 DEF Opens, GoesOn, LegalAnswer, StillTalking
    <2> QED
        BY <1>1, <2>1, <2>2
<1>3. ASSUME NEW position \in Positions, OpeningDelivered(position) PROVE NegotiationInv'
    <2> DEFINE first == [by |-> "a", performative |-> "propose", position |-> position]
    <2>1. first \in Move /\ first.by = "a" /\ first.performative = "propose"
        BY DEF Move, Sides, Performatives
    <2>2. moves' = <<first>>
        BY <1>3 DEF OpeningDelivered
    <2> HIDE DEF first
    <2>3. moves' \in Seq(Move) /\ Len(moves') = 1 /\ moves'[1] = first
        BY <2>1, <2>2
    <2>4. LegalTranscript'
        BY <2>1, <2>3, CapPositive DEF LegalTranscript, SideOf
    <2>5. ~Final(moves', 1)
        BY <2>1, <2>3 DEF Final, Stuck
    <2>6. /\ \/ 1 < Cap /\ phase' = "asking"
             \/ phase' = "escalating" /\ outcome' = "escalated"
          /\ ~heard'
        BY <1>3 DEF OpeningDelivered, Escalate, NegotiationInv, OutcomeSoFar
    <2> QED
        BY <2>1, <2>3, <2>4, <2>5, <2>6
            DEF NegotiationInv, GoesOn, LegalAnswer, OutcomeSoFar, LastSaid, StillTalking
<1>4. ASSUME Declines \/ \E p \in Performatives : AnswersIllegally(p) PROVE NegotiationInv'
    <2>1. /\ phase = "asking" /\ phase' = "escalating" /\ outcome' = "escalated"
          /\ UNCHANGED <<moves, heard>>
        BY <1>4 DEF Declines, AnswersIllegally, Escalate
    <2>2. LastSaid \notin {"accept", "withdraw"}
        BY <2>1 DEF NegotiationInv, GoesOn, StillTalking, Final, LastSaid
    <2>3. OutcomeSoFar'
        BY <2>1, <2>2 DEF NegotiationInv, OutcomeSoFar, LastSaid
    <2>4. GoesOn' /\ LegalAnswer'
        BY <2>1 DEF GoesOn, LegalAnswer, StillTalking
    <2> QED
        BY <1>1, <2>1, <2>3, <2>4
<1>5. ASSUME NEW p \in Performatives, NEW position \in Positions, Answers(p, position)
      PROVE  NegotiationInv'
    <2> DEFINE said == [by |-> SideOf(Len(moves) + 1), performative |-> p,
                        position |-> position]
    <2>1. /\ phase = "asking" /\ phase' = "delivering" /\ UNCHANGED <<moves, heard>>
          /\ reply' = <<said>> /\ p \in Replies(moves[Len(moves)].performative)
        BY <1>5 DEF Answers, LegalReply
    <2>2. /\ said \in Move /\ said.by = SideOf(Len(moves) + 1) /\ said.performative = p
        BY DEF Move, Sides, SideOf
    <2> HIDE DEF said
    <2>3. reply'[1] = said
        BY <2>1
    <2>4. LegalAnswer'
        BY <2>1, <2>2, <2>3 DEF LegalAnswer
    <2>5. GoesOn'
        BY <2>1 DEF NegotiationInv, GoesOn, StillTalking
    <2>6. OutcomeSoFar'
        BY <2>1 DEF NegotiationInv, OutcomeSoFar
    <2> QED
        BY <1>1, <2>1, <2>4, <2>5, <2>6
<1>6. CASE ReplyDelivered
    <2> DEFINE said == reply[1]
               ms == Append(moves, said)
               n == Len(moves) + 1
    <2>1. /\ phase = "delivering" /\ moves' = ms /\ UNCHANGED heard /\ ~heard
        BY <1>6 DEF ReplyDelivered, NegotiationInv, OutcomeSoFar
    <2>2. /\ said \in Move /\ said.by = SideOf(n)
          /\ said.performative \in Replies(moves[Len(moves)].performative)
          /\ moves \in Seq(Move) /\ Len(moves) \in Nat
          /\ Len(moves) >= 1 /\ Len(moves) < Cap /\ ~Final(moves, Len(moves))
        BY <2>1 DEF NegotiationInv, GoesOn, LegalAnswer, StillTalking
    <2>3. /\ ms \in Seq(Move) /\ Len(ms) = n /\ ms[n] = said
          /\ \A k \in 1 .. Len(moves) : ms[k] = moves[k]
        BY <2>2
    <2>4. \A k \in 1 .. Len(moves) : Final(ms, k) <=> Final(moves, k)
        BY <2>2, FinalAppend
    <2>5. \/ said.performative = "accept" /\ phase' = "returned" /\ outcome' = "agreed"
          \/ said.performative = "withdraw" /\ phase' = "returned" /\ outcome' = "abandoned"
          \/ /\ said.performative \notin {"accept", "withdraw"}
             /\ phase' = "escalating" /\ outcome' = "escalated"
          \/ ~Final(ms, n) /\ n < Cap /\ phase' = "asking"
        BY <1>6, <2>3 DEF ReplyDelivered, Escalate
    <2> HIDE DEF said, ms
    <2>6. LegalTranscript'
        <3>1. Len(ms) <= Cap
            BY <2>2, <2>3, CapPositive
        <3>2. \A k \in 1 .. n : ms[k].by = SideOf(k)
            BY <2>2, <2>3 DEF NegotiationInv, LegalTranscript
        <3>3. ms[1].performative = "propose"
            BY <2>2, <2>3 DEF NegotiationInv, LegalTranscript
        <3>4. ASSUME NEW k \in 2 .. n
              PROVE  ms[k].performative \in Replies(ms[k - 1].performative) /\ ~Final(ms, k - 1)
            <4>1. CASE k = n
                BY <2>2, <2>3, <2>4, <4>1
            <4>2. CASE k # n
                <5>1. k \in 2 .. Len(moves) /\ k - 1 \in 1 .. Len(moves)
                    BY <2>2, <4>2
                <5> QED
                    BY <2>3, <2>4, <5>1 DEF NegotiationInv, LegalTranscript
            <4> QED
                BY <4>1, <4>2
        <3> QED
            BY <2>1, <2>3, <3>1, <3>2, <3>3, <3>4 DEF LegalTranscript
    <2>7. LastSaid' = said.performative
        BY <2>1, <2>3 DEF LastSaid
    <2>8. OutcomeSoFar'
        BY <2>1, <2>5, <2>7 DEF OutcomeSoFar
    <2>9. GoesOn' /\ LegalAnswer'
        BY <2>1, <2>2, <2>3, <2>5 DEF GoesOn, LegalAnswer, StillTalking
    <2> QED
        BY <2>1, <2>3, <2>6, <2>8, <2>9 DEF NegotiationInv
<1>7. CASE SessionTold \/ Saved \/ Raises
    <2>1. UNCHANGED moves /\ phase' \in {"returned", "saved", "raised"}
        BY <1>7 DEF SessionTold, Saved, Raises
    <2>2. OutcomeSoFar'
        BY <1>7 DEF SessionTold, Saved, Raises, NegotiationInv, OutcomeSoFar, LastSaid
    <2>3. GoesOn' /\ LegalAnswer'
        BY <2>1 DEF GoesOn, LegalAnswer, StillTalking
    <2> QED
        BY <1>1, <2>1, <2>2, <2>3
<1>8. CASE UNCHANGED negotiationVars
    BY <1>8 DEF negotiationVars, NegotiationInv, GoesOn, LegalAnswer, LegalTranscript,
        OutcomeSoFar, LastSaid, StillTalking
<1> QED
    BY <1>2, <1>3, <1>4, <1>5, <1>6, <1>7, <1>8 DEF NegotiationNext, Proceeds

LEMMA NegotiationStarts == NegotiationInit => NegotiationInv
BY CapPositive DEF NegotiationInit, NegotiationInv, GoesOn, LegalAnswer, LegalTranscript,
    OutcomeSoFar, StillTalking

(* Every transcript the driver produces is legal, for any cap and patience *)
(* and whatever the lanes answer (run, _should_escalate).                  *)
THEOREM TranscriptsLegal == NegotiationSpec => []LegalTranscript
<1>1. NegotiationInv => LegalTranscript
    BY DEF NegotiationInv
<1> QED
    BY <1>1, NegotiationStarts, NegotiationStep, PTL DEF NegotiationSpec

(* An exchange that is saved is settled, or the session heard that it is   *)
(* not (run, escalate_and_finish, handoff_offer).                          *)
THEOREM ExchangesSettled == NegotiationSpec => []SettledOrHeard
<1>1. NegotiationInv => SettledOrHeard
    BY DEF NegotiationInv, OutcomeSoFar, LastSaid, SettledOrHeard
<1> QED
    BY <1>1, NegotiationStarts, NegotiationStep, PTL DEF NegotiationSpec

(* Whatever the lanes answer and whatever raises, for any cap and patience:*)
(* an exchange goes by the protocol, and what it came to is what was said, *)
(* or was heard of (run, escalate_and_finish, handoff_offer).              *)
THEOREM ExchangesKept == NegotiationSpec => []ExchangesSound
BY TranscriptsLegal, ExchangesSettled, PTL DEF ExchangesSound

LEMMA NegotiationMoves ==
    NegotiationInv /\ NegotiationTypeOK /\ [NegotiationNext]_negotiationVars
        => NegotiationTypeOK'
<1> SUFFICES ASSUME NegotiationInv, NegotiationTypeOK, [NegotiationNext]_negotiationVars
             PROVE  NegotiationTypeOK'
    OBVIOUS
<1> USE DEF NegotiationTypeOK, Phases, Outcomes
<1>1. moves' \in Seq(Move)
    BY NegotiationStep DEF NegotiationInv
<1>2. ASSUME NEW position \in Positions, OpeningDelivered(position) PROVE NegotiationTypeOK'
    BY <1>1, <1>2 DEF OpeningDelivered, Escalate
<1>3. CASE Opens \/ Declines \/ SessionTold \/ Saved \/ Raises
    BY <1>3 DEF Opens, Declines, SessionTold, Saved, Raises, Escalate
<1>4. CASE \E p \in Performatives : AnswersIllegally(p)
    BY <1>4 DEF AnswersIllegally, Escalate
<1>5. ASSUME NEW p \in Performatives, NEW position \in Positions, Answers(p, position)
      PROVE  NegotiationTypeOK'
    <2> DEFINE said == [by |-> SideOf(Len(moves) + 1), performative |-> p,
                        position |-> position]
    <2>1. said \in Move
        BY DEF Move, Sides, SideOf
    <2>2. reply' = <<said>>
        BY <1>5 DEF Answers
    <2> HIDE DEF said
    <2>3. reply' \in Seq(Move) /\ Len(reply') = 1
        BY <2>1, <2>2
    <2> QED
        BY <1>5, <2>3 DEF Answers
<1>6. CASE ReplyDelivered
    <2>1. reply' \in Seq(Move) /\ Len(reply') = 0
        BY <1>6 DEF ReplyDelivered
    <2>2. /\ phase' \in {"returned", "escalating", "asking"}
          /\ outcome' \in Outcomes /\ UNCHANGED heard
        BY <1>6 DEF ReplyDelivered, Escalate
    <2> QED
        BY <1>1, <2>1, <2>2
<1>7. CASE UNCHANGED negotiationVars
    BY <1>7 DEF negotiationVars
<1> QED
    BY <1>2, <1>3, <1>4, <1>5, <1>6, <1>7 DEF NegotiationNext, Proceeds

LEMMA NegotiationIsTyped == NegotiationInit => NegotiationTypeOK
<1> SUFFICES ASSUME NegotiationInit PROVE NegotiationTypeOK
    OBVIOUS
<1>1. heard \in BOOLEAN
    BY DEF NegotiationInit
<1>2. /\ moves = << >> /\ reply = << >> /\ phase = "closed" /\ outcome = "pending"
    BY DEF NegotiationInit
<1> QED
    BY <1>1, <1>2 DEF NegotiationTypeOK, Phases, Outcomes

(* Whatever lanes answer and whatever raises: what is kept of an exchange  *)
(* is of its type, and a reply is there when it is to be delivered (run).  *)
THEOREM NegotiationsTyped == NegotiationSpec => []NegotiationTypeOK
BY NegotiationStarts, NegotiationStep, NegotiationIsTyped, NegotiationMoves, PTL
    DEF NegotiationSpec

-----------------------------------------------------------------------------
(* The connection to the relay.                                            *)

(* Everything waiting or being sent was offered, in this order.            *)
InOrder ==
    /\ Ascending(outbound) /\ Ascending(batch)
    /\ \A i \in 1 .. Len(batch), j \in 1 .. Len(outbound) : batch[i] < outbound[j]

ClientInv == ClientTypeOK /\ InOrder

LEMMA StillOffered ==
    ASSUME NEW m \in Nat, NEW s \in Seq(1 .. m)
    PROVE  s \in Seq(1 .. m + 1)
OBVIOUS

(* A queue takes a later event behind what it has.                         *)
LEMMA Later ==
    ASSUME NEW m \in Nat, NEW s \in Seq(1 .. m), Ascending(s)
    PROVE  /\ Append(s, m + 1) \in Seq(1 .. m + 1)
           /\ Len(Append(s, m + 1)) = Len(s) + 1
           /\ Ascending(Append(s, m + 1))
           /\ \A i \in 1 .. Len(s) : Append(s, m + 1)[i] = s[i]
           /\ Append(s, m + 1)[Len(s) + 1] = m + 1
<1>1. /\ Append(s, m + 1) \in Seq(1 .. m + 1)
      /\ Len(Append(s, m + 1)) = Len(s) + 1
      /\ \A i \in 1 .. Len(s) : Append(s, m + 1)[i] = s[i] /\ s[i] \in 1 .. m
      /\ Append(s, m + 1)[Len(s) + 1] = m + 1
    BY StillOffered
<1>2. Ascending(Append(s, m + 1))
    <2> DEFINE t == Append(s, m + 1)
    <2>1. Len(s) \in Nat
        OBVIOUS
    <2> HIDE DEF t
    <2>2. ASSUME NEW i \in 1 .. Len(t), NEW j \in 1 .. Len(t), i < j PROVE t[i] < t[j]
        <3>1. i \in 1 .. Len(s) /\ t[i] = s[i] /\ s[i] \in 1 .. m
            BY <1>1, <2>1, <2>2 DEF t
        <3>2. CASE j = Len(s) + 1
            BY <1>1, <3>1, <3>2 DEF t
        <3>3. CASE j # Len(s) + 1
            <4>1. j \in 1 .. Len(s) /\ t[j] = s[j]
                BY <1>1, <2>1, <3>3 DEF t
            <4> QED
                BY <2>2, <3>1, <4>1 DEF Ascending
        <3> QED
            BY <3>2, <3>3
    <2> QED
        BY <2>2 DEF Ascending, t
<1> QED
    BY <1>1, <1>2

(* A full queue lets go of its oldest event.                               *)
LEMMA Oldest ==
    ASSUME NEW m \in Nat, NEW s \in Seq(1 .. m), Ascending(s), Len(s) >= 1
    PROVE  /\ Tail(s) \in Seq(1 .. m) /\ Len(Tail(s)) = Len(s) - 1
           /\ Ascending(Tail(s))
           /\ \A i \in 1 .. Len(s) - 1 : Tail(s)[i] = s[i + 1]
<1>1. /\ Tail(s) \in Seq(1 .. m) /\ Len(Tail(s)) = Len(s) - 1
      /\ \A i \in 1 .. Len(s) - 1 : Tail(s)[i] = s[i + 1]
    OBVIOUS
<1>2. Ascending(Tail(s))
    BY <1>1 DEF Ascending
<1> QED
    BY <1>1, <1>2

(* The connection may take from the front of the queue.                    *)
LEMMA Front ==
    ASSUME NEW m \in Nat, NEW s \in Seq(1 .. m), Ascending(s), NEW n \in 1 .. Len(s)
    PROVE  LET front == SubSeq(s, 1, n)
               tail == SubSeq(s, n + 1, Len(s))
           IN  /\ front \in Seq(1 .. m) /\ tail \in Seq(1 .. m)
               /\ Len(front) = n /\ Len(tail) = Len(s) - n
               /\ Ascending(front) /\ Ascending(tail)
               /\ \A i \in 1 .. n : front[i] = s[i]
               /\ \A j \in 1 .. Len(s) - n : tail[j] = s[n + j]
<1> DEFINE front == SubSeq(s, 1, n)
           tail == SubSeq(s, n + 1, Len(s))
<1>1. /\ front \in Seq(1 .. m) /\ Len(front) = n
      /\ \A i \in 1 .. n : front[i] = s[i]
    OBVIOUS
<1>2. /\ tail \in Seq(1 .. m) /\ Len(tail) = Len(s) - n
      /\ \A j \in 1 .. Len(s) - n : tail[j] = s[n + j]
    OBVIOUS
<1> HIDE DEF front, tail
<1>3. Ascending(front)
    <2> SUFFICES ASSUME NEW i \in 1 .. Len(front), NEW j \in 1 .. Len(front), i < j
                 PROVE  front[i] < front[j]
        BY DEF Ascending
    <2>1. /\ i \in 1 .. Len(s) /\ j \in 1 .. Len(s)
          /\ front[i] = s[i] /\ front[j] = s[j]
        BY <1>1
    <2> QED
        BY <2>1 DEF Ascending
<1>4. Ascending(tail)
    <2> SUFFICES ASSUME NEW i \in 1 .. Len(tail), NEW j \in 1 .. Len(tail), i < j
                 PROVE  tail[i] < tail[j]
        BY DEF Ascending
    <2>1. /\ n + i \in 1 .. Len(s) /\ n + j \in 1 .. Len(s) /\ n + i < n + j
          /\ tail[i] = s[n + i] /\ tail[j] = s[n + j]
        BY <1>2
    <2> QED
        BY <2>1 DEF Ascending
<1> QED
    BY <1>1, <1>2, <1>3, <1>4 DEF front, tail

(* Every step keeps the order, and is a step of the channel.               *)
LEMMA ClientStep ==
    ASSUME ClientInv, [ClientNext]_relayClientVars
    PROVE  /\ ClientInv'
           /\ [Channel!Accept \/ Channel!Lose \/ Channel!Deliver]_<<offers, InTransit, arrived>>
<1> DEFINE Same == UNCHANGED <<offers, InTransit, arrived>>
<1>1. /\ offers \in Nat /\ outbound \in Seq(1 .. offers) /\ batch \in Seq(1 .. offers)
      /\ arrived \in Seq(1 .. offers) /\ Len(outbound) \in Nat /\ Len(batch) \in Nat
      /\ Len(arrived) \in Nat /\ published \in Nat
    BY ClientBounds DEF ClientInv, ClientTypeOK
<1>2. \A i \in 1 .. Len(outbound) : outbound[i] \in 1 .. offers
    BY <1>1
<1>3. CASE Offer
    <2>1. /\ offers' = offers + 1 /\ offers' \in 0 .. MaxOffers
          /\ UNCHANGED <<link, batch, arrived, published, stored, breaks>>
        BY <1>1, <1>3, ClientBounds DEF Offer
    <2>2. /\ outbound' \in Seq(1 .. offers') /\ Len(outbound') <= QueueMax
          /\ Ascending(outbound')
          /\ \A j \in 1 .. Len(outbound') :
                outbound'[j] = offers + 1 \/ \E i \in 1 .. Len(outbound) : outbound'[j] = outbound[i]
        <3>1. CASE Len(outbound) < QueueMax /\ outbound' = Append(outbound, offers')
            <4>1. Ascending(outbound)
                BY DEF ClientInv, InOrder
            <4>2. /\ outbound' \in Seq(1 .. offers + 1) /\ Len(outbound') = Len(outbound) + 1
                  /\ Ascending(outbound')
                  /\ \A i \in 1 .. Len(outbound) : outbound'[i] = outbound[i]
                  /\ outbound'[Len(outbound) + 1] = offers + 1
                BY <1>1, <2>1, <3>1, <4>1, Later
            <4> QED
                BY <1>1, <2>1, <3>1, <4>2, ClientBounds
        <3>2. CASE Len(outbound) = QueueMax /\ outbound' = Append(Tail(outbound), offers')
            <4>1. Len(outbound) >= 1
                BY <3>2, ClientBounds
            <4>2. /\ Tail(outbound) \in Seq(1 .. offers) /\ Ascending(Tail(outbound))
                  /\ Len(Tail(outbound)) = Len(outbound) - 1
                  /\ \A i \in 1 .. Len(outbound) - 1 : Tail(outbound)[i] = outbound[i + 1]
                BY <1>1, <4>1, Oldest DEF ClientInv, InOrder
            <4> DEFINE kept == Tail(outbound)
            <4>3. kept \in Seq(1 .. offers) /\ Ascending(kept) /\ Len(kept) \in Nat
                BY <4>2
            <4> HIDE DEF kept
            <4>4. /\ outbound' \in Seq(1 .. offers + 1) /\ Len(outbound') = Len(kept) + 1
                  /\ Ascending(outbound')
                  /\ \A i \in 1 .. Len(kept) : outbound'[i] = kept[i]
                  /\ outbound'[Len(kept) + 1] = offers + 1
                BY <1>1, <2>1, <3>2, <4>3, Later DEF kept
            <4>5. \A i \in 1 .. Len(kept) :
                    i + 1 \in 1 .. Len(outbound) /\ kept[i] = outbound[i + 1]
                BY <1>1, <4>2 DEF kept
            <4>6. Len(outbound') = QueueMax
                BY <1>1, <3>2, <4>2, <4>4 DEF kept
            <4>7. ASSUME NEW j \in 1 .. Len(outbound')
                  PROVE  outbound'[j] = offers + 1
                            \/ \E i \in 1 .. Len(outbound) : outbound'[j] = outbound[i]
                <5>1. CASE j = Len(kept) + 1
                    BY <4>4, <5>1
                <5>2. CASE j # Len(kept) + 1
                    <6>1. j \in 1 .. Len(kept)
                        BY <4>3, <4>4, <5>2
                    <6> QED
                        BY <4>4, <4>5, <6>1
                <5> QED
                    BY <5>1, <5>2
            <4> QED
                BY <2>1, <4>4, <4>6, <4>7, ClientBounds
        <3>3. CASE UNCHANGED outbound
            BY <1>1, <2>1, <3>3, StillOffered DEF ClientInv, ClientTypeOK, InOrder
        <3> QED
            BY <1>3, <3>1, <3>2, <3>3 DEF Offer
    <2>3. ClientTypeOK'
        <3>1. /\ batch' \in Seq(1 .. offers') /\ arrived' \in Seq(1 .. offers')
            BY <1>1, <2>1, StillOffered
        <3>2. stored' \subseteq 1 .. offers'
            BY <1>1, <2>1 DEF ClientInv, ClientTypeOK
        <3> QED
            BY <2>1, <2>2, <3>1, <3>2 DEF ClientInv, ClientTypeOK
    <2>4. InOrder'
        <3>1. \A i \in 1 .. Len(batch) : batch[i] \in 1 .. offers
            BY <1>1
        <3>2. ASSUME NEW i \in 1 .. Len(batch), NEW j \in 1 .. Len(outbound')
              PROVE  batch[i] < outbound'[j]
            <4>1. CASE outbound'[j] = offers + 1
                BY <1>1, <3>1, <4>1
            <4>2. CASE \E k \in 1 .. Len(outbound) : outbound'[j] = outbound[k]
                BY <4>2 DEF ClientInv, InOrder
            <4> QED
                BY <2>2, <4>1, <4>2
        <3>3. Ascending(batch')
            BY <2>1 DEF ClientInv, InOrder
        <3> QED
            BY <2>1, <2>2, <3>2, <3>3 DEF InOrder
    <2>5. Channel!Accept
        BY <1>1, <2>1, <2>2 DEF Channel!Accept, InTransit, InBatch
    <2> QED
        BY <2>3, <2>4, <2>5 DEF ClientInv
<1>4. CASE Connect \/ Redial
    <2>1. /\ link' \in Links
          /\ UNCHANGED <<offers, outbound, batch, arrived, published, stored, breaks>>
        BY <1>4 DEF Connect, Redial, Links
    <2>2. ClientInv'
        BY <2>1 DEF ClientInv, ClientTypeOK, InOrder, Ascending
    <2> QED
        BY <2>1, <2>2 DEF InTransit, InBatch
<1>5. CASE Batch
    <2> DEFINE n == IF Len(outbound) < BatchMax THEN Len(outbound) ELSE BatchMax
    <2>1. /\ batch = << >> /\ batch' = SubSeq(outbound, 1, n)
          /\ outbound' = SubSeq(outbound, n + 1, Len(outbound))
          /\ UNCHANGED <<offers, link, arrived, published, stored, breaks>>
        BY <1>5 DEF Batch
    <2>2. n \in 1 .. Len(outbound) /\ n <= BatchMax
        <3>1. Len(outbound) >= 1
            BY <1>1, <1>5 DEF Batch
        <3> QED
            BY <1>1, <3>1, ClientBounds
    <2> HIDE DEF n
    <2>3. /\ batch' \in Seq(1 .. offers) /\ outbound' \in Seq(1 .. offers)
          /\ Len(batch') = n /\ Len(outbound') = Len(outbound) - n
          /\ Ascending(batch') /\ Ascending(outbound')
          /\ \A i \in 1 .. n : batch'[i] = outbound[i]
          /\ \A j \in 1 .. Len(outbound) - n : outbound'[j] = outbound[n + j]
        BY <1>1, <2>1, <2>2, Front DEF ClientInv, InOrder
    <2>4. ClientInv'
        <3>1. ClientTypeOK'
            BY <1>1, <2>1, <2>2, <2>3, ClientBounds DEF ClientInv, ClientTypeOK
        <3>2. \A i \in 1 .. Len(batch'), j \in 1 .. Len(outbound') : batch'[i] < outbound'[j]
            <4> SUFFICES ASSUME NEW i \in 1 .. Len(batch'), NEW j \in 1 .. Len(outbound')
                         PROVE  batch'[i] < outbound'[j]
                OBVIOUS
            <4>1. /\ i \in 1 .. Len(outbound) /\ n + j \in 1 .. Len(outbound) /\ i < n + j
                  /\ batch'[i] = outbound[i] /\ outbound'[j] = outbound[n + j]
                <5>1. i \in 1 .. n /\ j \in 1 .. Len(outbound) - n
                    BY <2>3
                <5>2. i \in 1 .. Len(outbound) /\ n + j \in 1 .. Len(outbound) /\ i < n + j
                    BY <1>1, <2>2, <5>1
                <5> QED
                    BY <2>3, <5>1, <5>2
            <4> QED
                BY <4>1 DEF ClientInv, InOrder, Ascending
        <3> QED
            BY <2>3, <3>1, <3>2 DEF ClientInv, InOrder
    <2>5. InTransit' \subseteq InTransit
        <3>1. \A i \in 1 .. Len(batch') : i \in 1 .. Len(outbound) /\ batch'[i] = outbound[i]
            BY <1>1, <2>2, <2>3
        <3>2. \A j \in 1 .. Len(outbound') :
                n + j \in 1 .. Len(outbound) /\ outbound'[j] = outbound[n + j]
            <4> SUFFICES ASSUME NEW j \in 1 .. Len(outbound')
                         PROVE  /\ n + j \in 1 .. Len(outbound)
                                /\ outbound'[j] = outbound[n + j]
                OBVIOUS
            <4>1. j \in 1 .. Len(outbound) - n
                BY <2>3
            <4>2. n + j \in 1 .. Len(outbound)
                BY <1>1, <2>2, <4>1
            <4> QED
                BY <2>3, <4>1, <4>2
        <3> QED
            BY <3>1, <3>2 DEF InTransit, InBatch
    <2>6. Channel!Lose
        BY <2>1, <2>5 DEF Channel!Lose
    <2> QED
        BY <2>4, <2>6
<1>6. ASSUME UNCHANGED <<offers, outbound>>, batch' = << >>, link' \in Links,
             breaks' \in 0 .. MaxBreaks,
             \/ /\ batch # << >> /\ Reaches
                /\ published' \in {published, published + Len(batch)}
             \/ UNCHANGED <<arrived, stored, published>>
      PROVE  /\ ClientInv'
             /\ Channel!Lose \/ Channel!Deliver
    <2>1. InOrder'
        BY <1>6 DEF ClientInv, InOrder, Ascending
    <2>2. InTransit' = {outbound[i] : i \in 1 .. Len(outbound)}
        BY <1>6 DEF InTransit, InBatch
    <2>3. CASE UNCHANGED <<arrived, stored, published>>
        <3>1. ClientTypeOK'
            BY <1>6, <2>3, ClientBounds DEF ClientInv, ClientTypeOK
        <3>2. Channel!Lose
            BY <1>6, <2>2, <2>3 DEF Channel!Lose, InTransit
        <3> QED
            BY <2>1, <3>1, <3>2 DEF ClientInv
    <2>4. CASE batch # << >> /\ Reaches /\ published' \in {published, published + Len(batch)}
        <3>1. /\ arrived' = arrived \o batch /\ stored' \subseteq stored \cup InBatch
            BY <2>4 DEF Reaches
        <3>2. /\ arrived' \in Seq(1 .. offers) /\ Len(arrived') = Len(arrived) + Len(batch)
              /\ \A i \in 1 .. Len(arrived) : arrived'[i] = arrived[i]
              /\ \A i \in 1 .. Len(batch) : arrived'[Len(arrived) + i] = batch[i]
              /\ Len(batch) >= 1
            BY <1>1, <2>4, <3>1
        <3>3. InBatch \subseteq 1 .. offers
            BY <1>1 DEF InBatch
        <3>4. published' \in 0 .. Len(arrived')
            <4>1. published \in 0 .. Len(arrived) /\ Len(arrived) \in Nat /\ Len(batch) \in Nat
                BY <1>1 DEF ClientInv, ClientTypeOK
            <4> QED
                BY <2>4, <3>2, <4>1
        <3>5. ClientTypeOK'
            BY <1>6, <3>1, <3>2, <3>3, <3>4, ClientBounds DEF ClientInv, ClientTypeOK
        <3>6. ASSUME NEW i \in Len(arrived) + 1 .. Len(arrived')
              PROVE  i - Len(arrived) \in 1 .. Len(batch) /\ arrived'[i] = batch[i - Len(arrived)]
            <4>1. i - Len(arrived) \in 1 .. Len(batch)
                BY <1>1, <3>2
            <4>2. Len(arrived) + (i - Len(arrived)) = i
                BY <1>1
            <4> QED
                BY <3>2, <4>1, <4>2
        <3>7. \A i \in Len(arrived) + 1 .. Len(arrived') : arrived'[i] \in InTransit
            BY <3>6 DEF InTransit, InBatch
        <3>8. \A i, j \in Len(arrived) + 1 .. Len(arrived') : i < j => arrived'[i] < arrived'[j]
            <4> SUFFICES ASSUME NEW i \in Len(arrived) + 1 .. Len(arrived'),
                                NEW j \in Len(arrived) + 1 .. Len(arrived'), i < j
                         PROVE  arrived'[i] < arrived'[j]
                OBVIOUS
            <4>1. i - Len(arrived) < j - Len(arrived)
                BY <1>1
            <4> QED
                BY <3>6, <4>1 DEF ClientInv, InOrder, Ascending
        <3>9. \A e \in InTransit' :
                e \in InTransit /\ \A i \in Len(arrived) + 1 .. Len(arrived') : arrived'[i] < e
            BY <2>2, <3>6 DEF ClientInv, InOrder, InTransit
        <3>10. Channel!Deliver
            BY <1>1, <1>6, <3>2, <3>7, <3>8, <3>9 DEF Channel!Deliver, Channel!NewlyOut
        <3> QED
            BY <2>1, <3>5, <3>10 DEF ClientInv
    <2> QED
        BY <1>6, <2>3, <2>4
<1>7. CASE Sent
    BY <1>6, <1>7 DEF Sent, ClientInv, ClientTypeOK
<1>8. CASE Break
    <2>1. breaks' \in 0 .. MaxBreaks
        BY <1>8, ClientBounds DEF Break, ClientInv, ClientTypeOK
    <2> QED
        BY <1>6, <1>8, <2>1 DEF Break, Gone, Links
<1>9. CASE Stop
    BY <1>6, <1>9 DEF Stop, Gone, Links, ClientInv, ClientTypeOK
<1>10. CASE UNCHANGED relayClientVars
    BY <1>10 DEF relayClientVars, ClientInv, ClientTypeOK, InOrder, Ascending, InTransit, InBatch
<1> QED
    BY <1>3, <1>4, <1>5, <1>7, <1>8, <1>9, <1>10 DEF ClientNext, ClientProceeds

LEMMA ClientStarts == ClientInit => ClientInv /\ Channel!ChannelInit
BY ClientBounds DEF ClientInit, ClientInv, ClientTypeOK, InOrder, Ascending, Links,
    Channel!ChannelInit, InTransit, InBatch

(* The queue keeps its bound and holds only what was offered, for every    *)
(* bound and batch size, and the client never counts as published more than*)
(* reached the relay (offer, _send_loop).                                  *)
THEOREM QueueBounded == ClientSpec => []ClientTypeOK
<1>1. ClientInv /\ [ClientNext]_relayClientVars => ClientInv'
    BY ClientStep
<1>2. ClientInv => ClientTypeOK
    BY DEF ClientInv
<1> QED
    BY <1>1, <1>2, ClientStarts, PTL DEF ClientSpec

(* Through losses, failures, reconnections and a stop the client implements*)
(* a lossy channel: nothing twice and nothing out of order (_connect_loop, *)
(* _send_loop).                                                            *)
THEOREM ClientIsChannel == ClientSpec => ChannelToRelay
<1>1. ClientInv /\ [ClientNext]_relayClientVars =>
        /\ ClientInv'
        /\ [Channel!Accept \/ Channel!Lose \/ Channel!Deliver]_<<offers, InTransit, arrived>>
    BY ClientStep
<1> QED
    BY <1>1, ClientStarts, PTL DEF ClientSpec, ChannelToRelay, Channel!ChannelSpec

-----------------------------------------------------------------------------
(* Messages between lanes.                                                 *)

Handling == Answered \cup {"none", "received", "unknown", "logged"}
Sending == [at : Unfinished \cup {"new", "told", "failed"}, attempt : Attempts]

InboundTyped ==
    /\ sending \in [Messages -> Sending]
    /\ handler \in [Messages \X Attempts -> Handling]
    /\ rows \in [Messages -> Nat] /\ injections \in [Messages -> Nat]
    /\ serving \in BOOLEAN
    /\ rivals \subseteq Messages

(* Of a message no two of whose posts were looked up at a time, one post   *)
(* at most is between the look and the insert, or between the insert and   *)
(* the harness, and as long as it is, nothing is logged, or injected.      *)
OnePostAtWork ==
    \A m \in Messages \ rivals :
        /\ injections[m] <= rows[m] /\ rows[m] <= 1
        /\ \A a \in Attempts :
            /\ handler[<<m, a>>] = "unknown" =>
                /\ rows[m] = 0
                /\ \A b \in Attempts : handler[<<m, b>>] = "unknown" => a = b
            /\ handler[<<m, a>>] = "logged" =>
                /\ rows[m] = 1 /\ injections[m] = 0
                /\ \A b \in Attempts : handler[<<m, b>>] = "logged" => a = b

ToldIsLogged ==
    \A m \in Messages :
        /\ sending[m].at = "told" => rows[m] > 0
        /\ \A a \in Attempts : handler[<<m, a>>] \in {"logged", "answered"} => rows[m] > 0

InboundInv == InboundTyped /\ OnePostAtWork /\ ToldIsLogged

LEMMA InboundStarts == InboundInit => InboundInv
BY RetriesAreCounted DEF InboundInit, InboundInv, InboundTyped, OnePostAtWork, ToldIsLogged, Sending,
    Handling, Attempts, Answered, Unfinished

LEMMA InboundStep == InboundInv /\ [InboundNext]_inboundVars => InboundInv'
<1> SUFFICES ASSUME InboundInv, [InboundNext]_inboundVars PROVE InboundInv'
    OBVIOUS
<1> USE DEF InboundInv
<1>1. ASSUME NEW m \in Messages, Post(m) PROVE InboundInv'
    <2>1. sending' \in [Messages -> Sending] /\ handler' \in [Messages \X Attempts -> Handling]
        BY <1>1 DEF InboundTyped, Post, SendIs, Handles, Sending, Handling, Unfinished
    <2>2. \A n \in Messages, a \in Attempts :
            handler'[<<n, a>>] \in {handler[<<n, a>>], "received"}
        BY <1>1 DEF InboundTyped, Post, Handles
    <2>3. \A n \in Messages : sending'[n].at = "told" => sending[n].at = "told"
        BY <1>1 DEF InboundTyped, Post, SendIs, Sending
    <2>4. UNCHANGED <<rows, injections, serving, rivals>>
        BY <1>1 DEF Post
    <2>5. InboundTyped'
        BY <2>1, <2>4 DEF InboundTyped
    <2>6. OnePostAtWork'
        BY <2>2, <2>4 DEF OnePostAtWork
    <2>7. ToldIsLogged'
        BY <2>2, <2>3, <2>4 DEF ToldIsLogged
    <2> QED
        BY <2>5, <2>6, <2>7
<1>2. ASSUME NEW m \in Messages, Broken(m) \/ Deadline(m) PROVE InboundInv'
    <2>1. sending' \in [Messages -> Sending]
        BY <1>2, RetriesAreCounted DEF InboundTyped, Broken, Deadline, SendIs, Attempts, Sending, Unfinished
    <2>2. \A n \in Messages : sending'[n].at = "told" => sending[n].at = "told"
        <3>1. CASE Broken(m)
            BY <3>1 DEF InboundTyped, Broken, SendIs, Sending
        <3>2. CASE Deadline(m)
            BY <3>2 DEF InboundTyped, Deadline, SendIs, Sending
        <3> QED
            BY <1>2, <3>1, <3>2
    <2>3. UNCHANGED <<handler, rows, injections, serving, rivals>>
        BY <1>2 DEF InboundTyped, Broken, Deadline
    <2>4. InboundTyped'
        BY <2>1, <2>3 DEF InboundTyped
    <2>5. OnePostAtWork'
        BY <2>3 DEF InboundTyped, OnePostAtWork
    <2>6. ToldIsLogged'
        BY <2>2, <2>3 DEF InboundTyped, ToldIsLogged
    <2> QED
        BY <2>4, <2>5, <2>6
<1>3. ASSUME NEW m \in Messages, Answer(m) PROVE InboundInv'
    <2>1. sending' \in [Messages -> Sending]
        BY <1>3 DEF InboundTyped, Answer, SendIs, Sending
    <2>2. \A n \in Messages : sending'[n].at = "told" =>
            sending[n].at = "told" \/ handler[<<n, sending[n].attempt>>] = "answered"
        BY <1>3 DEF InboundTyped, Answer, SendIs, Sending
    <2>3. \A n \in Messages : sending[n].attempt \in Attempts
        BY DEF InboundTyped, Sending
    <2>4. UNCHANGED <<handler, rows, injections, serving, rivals>>
        BY <1>3 DEF InboundTyped, Answer
    <2>5. InboundTyped'
        BY <2>1, <2>4 DEF InboundTyped
    <2>6. OnePostAtWork'
        BY <2>4 DEF InboundTyped, OnePostAtWork
    <2>7. ToldIsLogged'
        BY <2>2, <2>3, <2>4 DEF InboundTyped, ToldIsLogged
    <2> QED
        BY <2>5, <2>6, <2>7
<1>4. ASSUME NEW m \in Messages, NEW a \in Attempts, LookUp(m, a) PROVE InboundInv'
    <2>1. handler' \in [Messages \X Attempts -> Handling]
        BY <1>4 DEF InboundTyped, LookUp, Handles, Handling, Answered
    <2>2. \A n \in Messages, b \in Attempts : <<n, b>> # <<m, a>> =>
            handler'[<<n, b>>] = handler[<<n, b>>]
        BY <1>4 DEF InboundTyped, LookUp, Handles
    <2>3. handler'[<<m, a>>] = IF rows[m] = 0 THEN "unknown" ELSE "refused"
        BY <1>4 DEF InboundTyped, LookUp, Handles
    <2>4. ToldIsLogged'
        BY <1>4, <2>2, <2>3 DEF InboundTyped, LookUp, ToldIsLogged
    <2>5. m \notin rivals' /\ rows[m] = 0 =>
            \A b \in Attempts : handler[<<m, b>>] # "unknown"
        <3>1. \A b \in Attempts : <<m, b>> \in {m} \X Attempts
            OBVIOUS
        <3>2. (\E b \in Attempts : handler[<<m, b>>] = "unknown") => LookedUp(m) # {}
            BY <3>1 DEF InboundTyped, LookedUp
        <3> QED
            BY <1>4, <3>2 DEF InboundTyped, LookUp
    <2>7. rivals \subseteq rivals' /\ rivals' \subseteq Messages
        BY <1>4 DEF InboundTyped, LookUp
    <2>6. OnePostAtWork'
        BY <1>4, <2>2, <2>3, <2>5, <2>7 DEF InboundTyped, LookUp, OnePostAtWork
    <2> QED
        BY <1>4, <2>1, <2>4, <2>6, <2>7 DEF InboundTyped, LookUp
<1>5. ASSUME NEW m \in Messages, NEW a \in Attempts, Insert(m, a) PROVE InboundInv'
    <2>1. handler' \in [Messages \X Attempts -> Handling] /\ rows' \in [Messages -> Nat]
        BY <1>5 DEF InboundTyped, Insert, Handles, Handling, Answered
    <2>2. \A n \in Messages, b \in Attempts : <<n, b>> # <<m, a>> =>
            handler'[<<n, b>>] = handler[<<n, b>>]
        BY <1>5 DEF InboundTyped, Insert, Handles
    <2>3. \A n \in Messages \ {m} : rows'[n] = rows[n]
        BY <1>5 DEF InboundTyped, Insert
    <2>4. \/ handler'[<<m, a>>] = "logged" /\ rows'[m] = rows[m] + 1
          \/ handler'[<<m, a>>] = "refused" /\ rows'[m] = rows[m]
        BY <1>5 DEF InboundTyped, Insert, Handles
    <2>5. ToldIsLogged'
        BY <1>5, <2>2, <2>3, <2>4 DEF InboundTyped, Insert, ToldIsLogged
    <2>6. OnePostAtWork'
        BY <1>5, <2>2, <2>3, <2>4 DEF InboundTyped, Insert, OnePostAtWork
    <2> QED
        BY <1>5, <2>1, <2>5, <2>6 DEF InboundTyped, Insert
<1>6. ASSUME NEW m \in Messages, NEW a \in Attempts, InjectMessage(m, a) PROVE InboundInv'
    <2>1. /\ handler' \in [Messages \X Attempts -> Handling]
          /\ injections' \in [Messages -> Nat]
        BY <1>6 DEF InboundTyped, InjectMessage, Handles, Handling, Answered
    <2>2. \A n \in Messages, b \in Attempts : <<n, b>> # <<m, a>> =>
            handler'[<<n, b>>] = handler[<<n, b>>]
        BY <1>6 DEF InboundTyped, InjectMessage, Handles
    <2>3. handler'[<<m, a>>] = "answered"
        BY <1>6 DEF InboundTyped, InjectMessage, Handles
    <2>4. /\ injections'[m] \in {injections[m], injections[m] + 1}
          /\ \A n \in Messages \ {m} : injections'[n] = injections[n]
        BY <1>6 DEF InboundTyped, InjectMessage
    <2>5. ToldIsLogged'
        BY <1>6, <2>2, <2>3 DEF InboundTyped, InjectMessage, ToldIsLogged
    <2>6. OnePostAtWork'
        BY <1>6, <2>2, <2>3, <2>4 DEF InboundTyped, InjectMessage, OnePostAtWork
    <2>7. UNCHANGED <<sending, rows, serving, rivals>>
        BY <1>6 DEF InboundTyped, InjectMessage
    <2>8. InboundTyped'
        BY <2>1, <2>7 DEF InboundTyped
    <2> QED
        BY <2>5, <2>6, <2>8
<1>7. CASE StopServing
    <2>1. serving' \in BOOLEAN /\ UNCHANGED <<sending, handler, rows, injections, rivals>>
        BY <1>7 DEF StopServing
    <2>2. InboundTyped'
        BY <2>1 DEF InboundTyped
    <2>3. OnePostAtWork' /\ ToldIsLogged'
        BY <2>1 DEF OnePostAtWork, ToldIsLogged
    <2> QED
        BY <2>2, <2>3
<1>8. CASE UNCHANGED inboundVars
    BY <1>8 DEF InboundTyped, inboundVars, OnePostAtWork, ToldIsLogged
<1> QED
    BY <1>1, <1>2, <1>3, <1>4, <1>5, <1>6, <1>7, <1>8 DEF InboundTyped, InboundNext

(* However many messages there are and however often each is posted again, *)
(* a message is logged and put to the harness at most once, unless two of  *)
(* its posts were looked up before either was inserted; and whoever is told*)
(* of a delivery, the receiver's log has it (send_message, append).        *)
THEOREM DeliveredOnce == InboundSpec => []DeliveredOnceUnlessRaced
<1>1. InboundInv => DeliveredOnceUnlessRaced
    BY DEF InboundInv, OnePostAtWork, ToldIsLogged, DeliveredOnceUnlessRaced
<1> QED
    BY <1>1, InboundStarts, InboundStep, PTL DEF InboundSpec

(* The posts of a message that were logged, and those that were put to the *)
(* harness or might have been.                                             *)
LoggedPosts(m) == {a \in Attempts : handler[<<m, a>>] \in {"logged", "answered"}}
AnsweredPosts(m) == {a \in Attempts : handler[<<m, a>>] = "answered"}

(* No more than one row comes of each post and no more than one injection, *)
(* since a post that is still to be made was never handled.                *)
EachPostCounts ==
    \A m \in Messages :
        /\ rows[m] <= Cardinality(LoggedPosts(m))
        /\ injections[m] <= Cardinality(AnsweredPosts(m))
        /\ \A a \in Attempts :
            \/ a > sending[m].attempt
            \/ a = sending[m].attempt /\ sending[m].at \in {"new", "pausing"}
            => handler[<<m, a>>] = "none"

LEMMA PostsAreFew ==
    /\ IsFiniteSet(Attempts) /\ Cardinality(Attempts) = MaxRetries + 1
    /\ \A S \in SUBSET Attempts :
        IsFiniteSet(S) /\ Cardinality(S) \in Nat /\ Cardinality(S) <= MaxRetries + 1
<1>1. IsFiniteSet(Attempts) /\ Cardinality(Attempts) = MaxRetries + 1
    BY RetriesAreCounted, FS_Interval DEF Attempts
<1> QED
    BY <1>1, FS_Subset, FS_CardinalityType

LEMMA EachPostCountsStarts == InboundInit => EachPostCounts
<1> SUFFICES ASSUME InboundInit, NEW m \in Messages
             PROVE  /\ rows[m] <= Cardinality(LoggedPosts(m))
                    /\ injections[m] <= Cardinality(AnsweredPosts(m))
                    /\ \A a \in Attempts : handler[<<m, a>>] = "none"
    BY DEF EachPostCounts
<1>1. \A a \in Attempts : handler[<<m, a>>] = "none"
    BY DEF InboundInit
<1>2. LoggedPosts(m) \in SUBSET Attempts /\ AnsweredPosts(m) \in SUBSET Attempts
    BY DEF LoggedPosts, AnsweredPosts
<1>3. rows[m] = 0 /\ injections[m] = 0
    BY DEF InboundInit
<1> QED
    BY <1>1, <1>2, <1>3, PostsAreFew

(* A step of one post, or of none.                                         *)
LEMMA EachPostCountsStep ==
    InboundInv /\ EachPostCounts /\ [InboundNext]_inboundVars => EachPostCounts'
<1> SUFFICES ASSUME InboundInv, EachPostCounts, [InboundNext]_inboundVars
             PROVE  EachPostCounts'
    OBVIOUS
<1> USE DEF InboundInv
<1>1. /\ \A m \in Messages : sending[m].attempt \in Nat /\ rows[m] \in Nat /\ injections[m] \in Nat
      /\ Attempts \subseteq Nat
    BY RetriesAreCounted DEF InboundTyped, Sending, Attempts
<1>2. ASSUME UNCHANGED <<rows, injections>>,
             \A m \in Messages, a \in Attempts :
                handler[<<m, a>>] \in {"logged", "answered"} =>
                    handler'[<<m, a>>] = handler[<<m, a>>],
             \A m \in Messages, a \in Attempts :
                handler'[<<m, a>>] \in {"logged", "answered"} =>
                    handler[<<m, a>>] = handler'[<<m, a>>]
      PROVE  \A m \in Messages :
                /\ rows'[m] <= Cardinality(LoggedPosts(m)')
                /\ injections'[m] <= Cardinality(AnsweredPosts(m)')
    <2>1. \A m \in Messages : LoggedPosts(m)' = LoggedPosts(m)
                              /\ AnsweredPosts(m)' = AnsweredPosts(m)
        BY <1>2 DEF LoggedPosts, AnsweredPosts
    <2> QED
        BY <1>2, <2>1 DEF EachPostCounts
<1>3. ASSUME NEW m \in Messages, Post(m) PROVE EachPostCounts'
    <2>1. handler[<<m, sending[m].attempt>>] = "none" /\ sending[m].attempt \in Attempts
        BY <1>3 DEF Post, EachPostCounts, InboundTyped, Sending
    <2>2. \A n \in Messages, a \in Attempts :
            \/ handler'[<<n, a>>] = handler[<<n, a>>]
            \/ n = m /\ a = sending[m].attempt /\ handler'[<<n, a>>] = "received"
        BY <1>3 DEF Post, Handles, InboundTyped
    <2>3. /\ sending'[m].at = "waiting" /\ sending'[m].attempt = sending[m].attempt
          /\ \A n \in Messages \ {m} : sending'[n] = sending[n]
        BY <1>3 DEF Post, SendIs, InboundTyped, Sending
    <2>4. \A n \in Messages : /\ rows'[n] <= Cardinality(LoggedPosts(n)')
                              /\ injections'[n] <= Cardinality(AnsweredPosts(n)')
        BY <1>2, <1>3, <2>1, <2>2 DEF Post
    <2> QED
        BY <1>1, <2>1, <2>2, <2>3, <2>4 DEF EachPostCounts
<1>4. ASSUME NEW m \in Messages, Broken(m) \/ Deadline(m) \/ Answer(m) PROVE EachPostCounts'
    <2>1. UNCHANGED <<rows, injections, handler>>
        BY <1>4 DEF Broken, Deadline, Answer
    <2>2. /\ \A n \in Messages \ {m} : sending'[n] = sending[n]
          /\ \/ /\ sending'[m].at = "pausing" /\ sending'[m].attempt = sending[m].attempt + 1
             \/ /\ sending'[m].at \in {"failed", "told"}
                /\ sending'[m].attempt = sending[m].attempt
        <3>1. CASE Broken(m)
            BY <3>1 DEF Broken, SendIs, InboundTyped, Sending
        <3>2. CASE Deadline(m) \/ Answer(m)
            BY <3>2 DEF Deadline, Answer, SendIs, InboundTyped, Sending
        <3> QED
            BY <1>4, <3>1, <3>2
    <2>3. \A n \in Messages : /\ rows'[n] <= Cardinality(LoggedPosts(n)')
                              /\ injections'[n] <= Cardinality(AnsweredPosts(n)')
        BY <1>2, <2>1
    <2> QED
        BY <1>1, <2>1, <2>2, <2>3 DEF EachPostCounts
<1>5. ASSUME NEW m \in Messages, NEW a \in Attempts, LookUp(m, a) PROVE EachPostCounts'
    <2>1. /\ handler[<<m, a>>] = "received" /\ handler'[<<m, a>>] \in {"unknown", "refused"}
          /\ \A n \in Messages, b \in Attempts :
                <<n, b>> # <<m, a>> => handler'[<<n, b>>] = handler[<<n, b>>]
          /\ UNCHANGED <<sending, rows, injections>>
        BY <1>5 DEF LookUp, Handles, InboundTyped
    <2>2. \A n \in Messages : /\ rows'[n] <= Cardinality(LoggedPosts(n)')
                              /\ injections'[n] <= Cardinality(AnsweredPosts(n)')
        BY <1>2, <2>1
    <2> QED
        BY <2>1, <2>2 DEF EachPostCounts
<1>6. ASSUME NEW m \in Messages, NEW a \in Attempts, Insert(m, a) \/ InjectMessage(m, a)
      PROVE  EachPostCounts'
    <2>1. /\ handler[<<m, a>>] # "none"
          /\ \A n \in Messages, b \in Attempts :
                <<n, b>> # <<m, a>> => handler'[<<n, b>>] = handler[<<n, b>>]
          /\ UNCHANGED sending
        BY <1>6 DEF Insert, InjectMessage, Handles, InboundTyped
    <2>2. \A n \in Messages, b \in Attempts :
            handler[<<n, b>>] = "none" => handler'[<<n, b>>] = "none"
        BY <2>1
    <2>3. \A n \in Messages \ {m} :
            /\ LoggedPosts(n)' = LoggedPosts(n) /\ AnsweredPosts(n)' = AnsweredPosts(n)
            /\ rows'[n] = rows[n] /\ injections'[n] = injections[n]
        <3>1. \A n \in Messages \ {m} : rows'[n] = rows[n] /\ injections'[n] = injections[n]
            BY <1>6 DEF Insert, InjectMessage, InboundTyped
        <3> QED
            BY <2>1, <3>1 DEF LoggedPosts, AnsweredPosts
    <2>4. /\ LoggedPosts(m) \in SUBSET Attempts /\ AnsweredPosts(m) \in SUBSET Attempts
          /\ rows[m] <= Cardinality(LoggedPosts(m))
          /\ injections[m] <= Cardinality(AnsweredPosts(m))
        BY DEF EachPostCounts, LoggedPosts, AnsweredPosts
    <2>5. CASE Insert(m, a)
        <3>1. /\ handler[<<m, a>>] = "unknown" /\ injections' = injections
              /\ \/ rows'[m] = rows[m] + 1 /\ handler'[<<m, a>>] = "logged"
                 \/ rows'[m] = rows[m] /\ handler'[<<m, a>>] = "refused"
            BY <2>5 DEF Insert, Handles, InboundTyped
        <3>2. AnsweredPosts(m)' = AnsweredPosts(m)
            BY <2>1, <3>1 DEF AnsweredPosts
        <3>3. ASSUME handler'[<<m, a>>] = "logged"
              PROVE  /\ rows'[m] <= Cardinality(LoggedPosts(m)')
                     /\ injections'[m] <= Cardinality(AnsweredPosts(m)')
            <4>1. LoggedPosts(m)' = LoggedPosts(m) \cup {a} /\ a \notin LoggedPosts(m)
                BY <2>1, <3>1, <3>3 DEF LoggedPosts
            <4>2. Cardinality(LoggedPosts(m)') = Cardinality(LoggedPosts(m)) + 1
                BY <2>4, <4>1, PostsAreFew, FS_AddElement
            <4> QED
                BY <1>1, <2>4, <3>1, <3>2, <3>3, <4>2, PostsAreFew
        <3>4. ASSUME handler'[<<m, a>>] = "refused"
              PROVE  /\ rows'[m] <= Cardinality(LoggedPosts(m)')
                     /\ injections'[m] <= Cardinality(AnsweredPosts(m)')
            <4>1. LoggedPosts(m)' = LoggedPosts(m)
                BY <2>1, <3>1, <3>4 DEF LoggedPosts
            <4> QED
                BY <2>4, <3>1, <3>2, <3>4, <4>1
        <3>5. /\ rows'[m] <= Cardinality(LoggedPosts(m)')
              /\ injections'[m] <= Cardinality(AnsweredPosts(m)')
            BY <3>1, <3>3, <3>4
        <3> QED
            BY <2>1, <2>2, <2>3, <3>5 DEF EachPostCounts
    <2>6. CASE InjectMessage(m, a)
        <3>1. /\ handler[<<m, a>>] = "logged" /\ rows' = rows /\ handler'[<<m, a>>] = "answered"
              /\ injections'[m] \in {injections[m], injections[m] + 1}
            BY <2>6 DEF InjectMessage, Handles, InboundTyped
        <3>2. LoggedPosts(m)' = LoggedPosts(m)
            BY <2>1, <3>1 DEF LoggedPosts
        <3>3. AnsweredPosts(m)' = AnsweredPosts(m) \cup {a} /\ a \notin AnsweredPosts(m)
            BY <2>1, <3>1 DEF AnsweredPosts
        <3>4. Cardinality(AnsweredPosts(m)') = Cardinality(AnsweredPosts(m)) + 1
            BY <2>4, <3>3, PostsAreFew, FS_AddElement
        <3>5. /\ rows'[m] <= Cardinality(LoggedPosts(m)')
              /\ injections'[m] <= Cardinality(AnsweredPosts(m)')
            BY <1>1, <2>4, <3>1, <3>2, <3>4, PostsAreFew
        <3> QED
            BY <2>1, <2>2, <2>3, <3>5 DEF EachPostCounts
    <2> QED
        BY <1>6, <2>5, <2>6
<1>7. CASE StopServing \/ UNCHANGED inboundVars
    BY <1>7 DEF StopServing, inboundVars, EachPostCounts, LoggedPosts, AnsweredPosts
<1> QED
    BY <1>3, <1>4, <1>5, <1>6, <1>7 DEF InboundNext

LEMMA InboundIsTyped == InboundInv /\ EachPostCounts => InboundTypeOK
<1> SUFFICES ASSUME InboundInv, EachPostCounts PROVE InboundTypeOK
    OBVIOUS
<1>1. ASSUME NEW m \in Messages
      PROVE  rows[m] \in 0..MaxRetries + 1 /\ injections[m] \in 0..MaxRetries + 1
    <2>1. LoggedPosts(m) \in SUBSET Attempts /\ AnsweredPosts(m) \in SUBSET Attempts
        BY DEF LoggedPosts, AnsweredPosts
    <2>2. rows[m] \in Nat /\ injections[m] \in Nat
        BY DEF InboundInv, InboundTyped
    <2> QED
        BY <2>1, <2>2, PostsAreFew, RetriesAreCounted DEF EachPostCounts
<1>2. rows \in [Messages -> 0..MaxRetries + 1] /\ injections \in [Messages -> 0..MaxRetries + 1]
    BY <1>1 DEF InboundInv, InboundTyped
<1> QED
    BY <1>2 DEF InboundInv, InboundTyped, InboundTypeOK, Sending, Handling

(* However often a message is posted, what comes of it is at most one row  *)
(* and one injection for each post, raced or not (send_message).           *)
THEOREM MessagesTyped == InboundSpec => []InboundTypeOK
BY InboundStarts, InboundStep, EachPostCountsStarts, EachPostCountsStep, InboundIsTyped, PTL
    DEF InboundSpec

-----------------------------------------------------------------------------
(* The dashboard's feed.                                                   *)

(* What a call asks follows the cursor, since nothing moves the cursor but *)
(* the answer; its page is what there was then, without a hole.            *)
PageFollowsCursor ==
    call # Nothing =>
        /\ call = [since |-> call.since, age |-> call.age, page |-> call.page]
        /\ call.since = cursor
        /\ call.page # Nothing =>
            \E upto \in cursor..events : call.page = cursor + 1..upto

PollInv ==
    /\ events \in Nat /\ cursor \in Nat
    /\ PageFollowsCursor
    /\ FeedHasNoHoles

LEMMA HighestOfPage ==
    ASSUME cursor \in Nat, NEW upto \in Nat, cursor <= upto
    PROVE  Highest(cursor + 1..upto) = upto
<1> DEFINE ends == (cursor + 1..upto) \cup {cursor}
<1>1. upto \in ends /\ \A m \in ends : m <= upto
    OBVIOUS
<1>2. \A n \in ends : (\A m \in ends : m <= n) => n = upto
    BY <1>1
<1> QED
    BY <1>1, <1>2 DEF Highest

LEMMA HighestOfFeed ==
    ASSUME cursor \in Nat, NEW upto \in Nat, cursor < upto,
           NEW kept \in SUBSET (1..cursor)
    PROVE  Highest(kept \cup (cursor + 1..upto)) = upto
<1> DEFINE ends == (kept \cup (cursor + 1..upto)) \cup {cursor}
<1>1. upto \in ends /\ \A m \in ends : m <= upto
    OBVIOUS
<1>2. \A n \in ends : (\A m \in ends : m <= n) => n = upto
    BY <1>1
<1> QED
    BY <1>1, <1>2 DEF Highest

LEMMA PollStep == PollInv /\ [PollNext]_pollVars => PollInv'
<1> SUFFICES ASSUME PollInv, [PollNext]_pollVars PROVE PollInv'
    OBVIOUS
<1>1. CASE PollTick
    BY <1>1 DEF PollTick, PollInv, PageFollowsCursor, FeedHasNoHoles
<1>2. CASE ServeTail
    <2>1. PICK upto \in cursor..events :
            upto = IF cursor + PageMax <= events THEN cursor + PageMax ELSE events
        BY BackoffOutlastsCalls DEF PollInv, FeedHasNoHoles
    <2>2. {n \in 1..events : n > cursor /\ n <= cursor + PageMax} = cursor + 1..upto
        BY <2>1, BackoffOutlastsCalls DEF PollInv, FeedHasNoHoles
    <2>3. call' = [since |-> call.since, age |-> call.age, page |-> cursor + 1..upto]
        BY <1>2, <2>2 DEF ServeTail, PollInv, PageFollowsCursor
    <2>4. UNCHANGED <<events, cursor, feed>> /\ call.since = cursor
        BY <1>2 DEF ServeTail, PollInv, PageFollowsCursor
    <2>5. call'.since = call.since /\ call'.age = call.age /\ call'.page = cursor + 1..upto
        BY <2>3
    <2>6. PageFollowsCursor'
        BY <2>1, <2>3, <2>4, <2>5 DEF PageFollowsCursor
    <2> QED
        BY <2>4, <2>6 DEF PollInv, FeedHasNoHoles
<1>3. CASE PageArrives
    <2>1. PICK upto \in cursor..events : call.page = cursor + 1..upto
        BY <1>3 DEF PageArrives, PollInv, PageFollowsCursor
    <2>2. cursor' = upto
        BY <1>3, <2>1, HighestOfPage DEF PageArrives, PollInv
    <2>3. CASE call.page \subseteq feed
        <3>1. upto = cursor
            BY <2>1, <2>3 DEF PollInv, FeedHasNoHoles
        <3> QED
            BY <1>3, <2>2, <2>3, <3>1 DEF PageArrives, PollInv, PageFollowsCursor, FeedHasNoHoles
    <2>4. CASE ~(call.page \subseteq feed)
        <3>1. cursor < upto
            BY <2>1, <2>4 DEF PollInv
        <3>2. feed \subseteq 1..cursor
            BY DEF PollInv, FeedHasNoHoles
        <3>3. feed' = {n \in feed \cup (cursor + 1..upto) : n + FeedMax > upto}
            <4>1. Highest(feed \cup (cursor + 1..upto)) = upto
                BY <3>1, <3>2, HighestOfFeed DEF PollInv
            <4> QED
                BY <1>3, <2>1, <2>4, <4>1 DEF PageArrives, Bounded
        <3>4. feed' = {n \in 1..upto : n + FeedMax > upto}
            BY <3>1, <3>2, <3>3, BackoffOutlastsCalls DEF PollInv, FeedHasNoHoles
        <3> QED
            BY <1>3, <2>2, <3>4 DEF PageArrives, PollInv, PageFollowsCursor, FeedHasNoHoles
    <2> QED
        BY <2>3, <2>4
<1>4. CASE CallFails \/ Refresh
    BY <1>4 DEF CallFails, Refresh, PollInv, PageFollowsCursor, FeedHasNoHoles
<1>5. CASE HideTab \/ ShowTab \/ DaemonTurns \/ UNCHANGED pollVars
    BY <1>5 DEF HideTab, ShowTab, DaemonTurns, pollVars, PollInv, PageFollowsCursor,
        FeedHasNoHoles
<1>6. CASE PollSecond
    BY <1>6 DEF PollSecond, PollInv, PageFollowsCursor, FeedHasNoHoles
<1>7. CASE EventLogged
    BY <1>7 DEF EventLogged, PollInv, PageFollowsCursor, FeedHasNoHoles
<1> QED
    BY <1>1, <1>2, <1>3, <1>4, <1>5, <1>6, <1>7 DEF PollNext, PollProceeds

(* For every interval, backoff, time-out and limit, whatever is aborted,   *)
(* lost or late, and however long the log grows: the feed is the end of    *)
(* the log as far as the cursor has come (useBusFeed).                     *)
THEOREM FeedIsWhole == PollSpec => []FeedHasNoHoles
<1>1. PollInit => PollInv
    BY BackoffOutlastsCalls DEF PollInit, PollInv, PageFollowsCursor, FeedHasNoHoles
<1>2. PollInv => FeedHasNoHoles
    BY DEF PollInv
<1> QED
    BY <1>1, <1>2, PollStep, PTL DEF PollSpec

(* What bounds the feed is that the log is, and the cursor within it.      *)
PollTyped ==
    /\ visible \in BOOLEAN
    /\ daemonIs \in {"up", "stalled", "down"}
    /\ events \in 0..MaxEvents /\ troubles \in 0..MaxTroubles
    /\ timer = Nothing \/ timer \in Nat
    /\ backoff \in Nat \ {0}
    /\ call # Nothing => call.age \in Nat
    /\ failing \in BOOLEAN

LEMMA PollStarts == PollInit => PollInv /\ PollTyped
<1>1. PollInit => PollInv
    BY BackoffOutlastsCalls DEF PollInit, PollInv, PageFollowsCursor, FeedHasNoHoles
<1>2. PollInit => visible \in BOOLEAN /\ failing \in BOOLEAN
    BY DEF PollInit
<1>3. PollInit => PollTyped
    BY <1>2, BackoffOutlastsCalls DEF PollInit, PollTyped
<1> QED
    BY <1>1, <1>3

LEMMA PollMoves == PollInv /\ PollTyped /\ [PollNext]_pollVars => PollTyped'
<1> SUFFICES ASSUME PollInv, PollTyped, [PollNext]_pollVars PROVE PollTyped'
    OBVIOUS
<1> USE DEF PollTyped
<1>1. /\ PollInterval \in Nat /\ MinBackoff \in Nat \ {0} /\ MaxBackoff \in Nat \ {0}
      /\ MaxEvents \in Nat /\ MaxTroubles \in Nat
    BY BackoffOutlastsCalls
<1>2. Least(2 * backoff, MaxBackoff) \in Nat \ {0}
    BY <1>1 DEF Least
<1>3. ASSUME Failed
      PROVE  timer' \in Nat /\ backoff' \in Nat \ {0} /\ failing' \in BOOLEAN
    BY <1>2, <1>3 DEF Failed, Schedule
<1>4. CASE PollTick
    <2>1. CASE ~visible
        BY <1>1, <1>4, <2>1 DEF PollTick, Schedule
    <2>2. CASE visible
        <3>1. call' = [since |-> cursor, age |-> 0, page |-> Nothing]
            BY <1>4, <2>2 DEF PollTick
        <3>2. call'.age \in Nat
            BY <3>1
        <3>3. /\ timer' = Nothing \/ timer' \in Nat
              /\ backoff' \in Nat \ {0} /\ failing' \in BOOLEAN
            BY <1>3, <1>4, <2>2 DEF PollTick
        <3> QED
            BY <1>4, <3>2, <3>3 DEF PollTick
    <2> QED
        BY <2>1, <2>2
<1>5. CASE ServeTail
    <2>1. call'.age = call.age
        BY <1>5 DEF ServeTail, PollInv, PageFollowsCursor
    <2> QED
        BY <1>5, <2>1 DEF ServeTail
<1>6. CASE PageArrives
    BY <1>1, <1>6 DEF PageArrives, Schedule
<1>7. CASE CallFails
    BY <1>3, <1>7 DEF CallFails
<1>8. CASE Refresh \/ ShowTab
    <2>1. visible' \in BOOLEAN
        BY <1>8 DEF Refresh, ShowTab
    <2> QED
        BY <1>1, <1>8, <2>1 DEF Refresh, ShowTab, Schedule
<1>10. CASE HideTab \/ EventLogged
    <2>1. visible' \in BOOLEAN
        BY <1>10 DEF HideTab, EventLogged
    <2> QED
        BY <1>1, <1>10, <2>1 DEF HideTab, EventLogged
<1>11. CASE DaemonTurns
    BY <1>1, <1>11 DEF DaemonTurns
<1>12. CASE UNCHANGED pollVars
    BY <1>12 DEF pollVars
<1>9. CASE PollSecond
    <2>1. timer' = Nothing \/ timer' \in Nat
        BY <1>9 DEF PollSecond
    <2>2. call' # Nothing => call'.age \in Nat
        <3>1. CASE call = Nothing
            BY <1>9, <3>1 DEF PollSecond
        <3>2. CASE call # Nothing
            <4>1. call' = [call EXCEPT !.age = call.age + 1]
                BY <1>9, <3>2 DEF PollSecond
            <4>2. call'.age = call.age + 1
                BY <3>2, <4>1 DEF PollInv, PageFollowsCursor
            <4> QED
                BY <3>2, <4>2
        <3> QED
            BY <3>1, <3>2
    <2> QED
        BY <1>9, <2>1, <2>2 DEF PollSecond
<1> QED
    BY <1>4, <1>5, <1>6, <1>7, <1>8, <1>9, <1>10, <1>11, <1>12 DEF PollNext, PollProceeds

LEMMA PollIsTyped == PollInv /\ PollTyped => PollTypeOK
<1> SUFFICES ASSUME PollInv, PollTyped PROVE PollTypeOK
    OBVIOUS
<1>1. cursor \in 0..MaxEvents /\ feed \subseteq 1..MaxEvents
    BY BackoffOutlastsCalls DEF PollInv, PollTyped, FeedHasNoHoles
<1>2. call # Nothing => call.since \in 0..MaxEvents
    BY <1>1 DEF PollInv, PageFollowsCursor
<1> QED
    BY <1>1, <1>2 DEF PollTyped, PollTypeOK

(* The poll waits for times that are times, and its cursor and feed stay   *)
(* within the log (useBusFeed, usePoll).                                   *)
THEOREM PollsTyped == PollSpec => []PollTypeOK
BY PollStarts, PollStep, PollMoves, PollIsTyped, PTL DEF PollSpec

-----------------------------------------------------------------------------
(* The control plane.                                                      *)

Frames == {"request", "chunk", "last"}

ControlTyped ==
    /\ asker \in [Askers -> {"idle", "dialing", "waiting", "answered", "hungup",
                              "timedout", "refused"}]
    /\ server \in {"up", "stopping", "stopped", "exited"}
    /\ task \in [Askers -> {"none", "accepted", "spawned", "reading", "handling", "over"}]
    /\ reaped \subseteq Askers /\ entered \subseteq Askers /\ belated \subseteq Askers
    /\ chunks \in [Askers -> 0..MaxChunks]
    /\ pipe \in [Ends -> Seq(Frames)] /\ buffer \in [Ends -> Seq(Frames)]
    /\ eof \subseteq Ends /\ closed \subseteq Ends
    /\ waiter \in [Ends -> {"none", "parked", "woken"}]

(* Once stop has begun, the task of a client that had begun by then is     *)
(* cancelled; and none is over before its connection is closed.            *)
TasksAreReaped ==
    \A c \in Askers \ belated :
        /\ server # "up" /\ task[c] \notin {"none", "over"} =>
            c \in reaped /\ task[c] \in {"reading", "handling"}
        /\ task[c] = "over" => <<c, "server">> \in closed
        /\ asker[c] \in {"dialing", "waiting"} => task[c] # "none"

(* Nothing is cancelled before, and stop waits for all that is.            *)
StopWaits ==
    /\ server = "up" => reaped = {} /\ belated = {}
    /\ server \in {"stopped", "exited"} => \A c \in reaped : task[c] = "over"

ControlInv == ControlTyped /\ ReadersAreWoken /\ TasksAreReaped /\ StopWaits

LEMMA TwoEnds ==
    /\ \A c \in Askers : <<c, "client">> \in Ends /\ <<c, "server">> \in Ends
    /\ \A end \in Ends : end[1] \in Askers /\ end[2] \in {"client", "server"}
BY DEF Ends

LEMMA ControlStarts == ControlInit => ControlInv
BY TwoEnds, ChunksAreCounted DEF ControlInit, ControlInv, ControlTyped, ReadersAreWoken,
    TasksAreReaped, StopWaits, Frames

(* Waking readers: nobody sleeps who is woken.                             *)
LEMMA Woken ==
    ASSUME ControlTyped, NEW S, Wake(S)
    PROVE  /\ waiter' \in [Ends -> {"none", "parked", "woken"}]
           /\ \A end \in Ends : waiter'[end] = "parked" => waiter[end] = "parked" /\ end \notin S
BY DEF ControlTyped, Wake

(* A step of a client or of its two ends' callbacks that leaves the tasks  *)
(* alone.                                                                  *)
LEMMA EndsStep ==
    ASSUME ControlInv, NEW c \in Askers,
           \/ \E end \in {<<c, "client">>, <<c, "server">>} :
                DataReceived(end) \/ EofReceived(end) \/ Park(end)
           \/ Ask(c) \/ TakeChunk(c) \/ TakeLast(c) \/ TakeNothing(c) \/ GiveUp(c)
    PROVE  ControlInv'
<1> USE DEF ControlInv
<1>1. CASE \E end \in {<<c, "client">>, <<c, "server">>} : DataReceived(end)
    <2>1. PICK end \in Ends : DataReceived(end)
        BY <1>1, TwoEnds
    <2>2. /\ pipe[end] \in Seq(Frames) /\ buffer[end] \in Seq(Frames) /\ pipe[end] # <<>>
          /\ Head(pipe[end]) \in Frames /\ Tail(pipe[end]) \in Seq(Frames)
          /\ Append(buffer[end], Head(pipe[end])) \in Seq(Frames)
        BY <2>1 DEF DataReceived, ControlTyped
    <2>3. /\ UNCHANGED <<asker, server, task, reaped, entered, chunks, eof, closed, belated>>
          /\ buffer' = [buffer EXCEPT ![end] = Append(buffer[end], Head(pipe[end]))]
          /\ pipe' = [pipe EXCEPT ![end] = Tail(pipe[end])]
          /\ Wake({end})
        BY <2>1 DEF DataReceived
    <2>4. ControlTyped'
        BY <2>2, <2>3, Woken DEF ControlTyped
    <2>5. ReadersAreWoken'
        BY <2>3, Woken DEF ControlTyped, ReadersAreWoken
    <2> QED
        BY <2>3, <2>4, <2>5 DEF TasksAreReaped, StopWaits
<1>2. CASE \E end \in {<<c, "client">>, <<c, "server">>} : EofReceived(end)
    <2>1. PICK end \in Ends : EofReceived(end)
        BY <1>2, TwoEnds
    <2>2. /\ UNCHANGED <<asker, server, task, reaped, entered, chunks, pipe, buffer, closed, belated>>
          /\ eof' = eof \cup {end}
          /\ Wake({end})
        BY <2>1 DEF EofReceived
    <2>3. ControlTyped'
        BY <2>2, Woken DEF ControlTyped
    <2>4. ReadersAreWoken'
        BY <2>2, Woken DEF ControlTyped, ReadersAreWoken
    <2> QED
        BY <2>2, <2>3, <2>4 DEF TasksAreReaped, StopWaits
<1>3. CASE \E end \in {<<c, "client">>, <<c, "server">>} : Park(end)
    <2>1. PICK end \in Ends : Park(end)
        BY <1>3, TwoEnds
    <2>2. /\ UNCHANGED <<asker, server, task, reaped, entered, chunks, pipe, buffer, eof, closed,
                         belated>>
          /\ waiter' = [waiter EXCEPT ![end] = "parked"]
          /\ buffer[end] = <<>> /\ end \notin eof \cup closed
        BY <2>1 DEF Park
    <2> QED
        BY <2>2 DEF ControlTyped, ReadersAreWoken, TasksAreReaped, StopWaits
<1>4. CASE Ask(c)
    <2>1. /\ UNCHANGED <<server, task, reaped, entered, chunks, buffer, eof, closed, waiter, belated>>
          /\ asker[c] = "dialing" /\ asker' = [asker EXCEPT ![c] = "waiting"]
        BY <1>4 DEF Ask
    <2>2. pipe' \in [Ends -> Seq(Frames)]
        <3>1. pipe[<<c, "server">>] \in Seq(Frames) /\ "request" \in Frames
            BY TwoEnds DEF ControlTyped, Frames
        <3>2. Append(pipe[<<c, "server">>], "request") \in Seq(Frames)
            BY <3>1
        <3>3. \E line \in Seq(Frames) : pipe' = [pipe EXCEPT ![<<c, "server">>] = line]
            BY <1>4, <3>1, <3>2 DEF Ask
        <3> QED
            BY <3>3, TwoEnds DEF ControlTyped
    <2> QED
        BY <2>1, <2>2 DEF ControlTyped, ReadersAreWoken, TasksAreReaped, StopWaits
<1>5. CASE TakeChunk(c)
    <2>1. /\ UNCHANGED <<asker, server, task, reaped, entered, chunks, pipe, eof, closed, belated>>
          /\ buffer[<<c, "client">>] # <<>>
          /\ buffer' = [buffer EXCEPT ![<<c, "client">>] = Tail(buffer[<<c, "client">>])]
          /\ waiter' = [waiter EXCEPT ![<<c, "client">>] = "none"]
        BY <1>5 DEF TakeChunk, HasFrame
    <2>2. Tail(buffer[<<c, "client">>]) \in Seq(Frames)
        BY <2>1, TwoEnds DEF ControlTyped
    <2>3. ControlTyped'
        BY <2>1, <2>2 DEF ControlTyped
    <2>4. ReadersAreWoken'
        BY <2>1 DEF ControlTyped, ReadersAreWoken
    <2> QED
        BY <2>1, <2>3, <2>4 DEF TasksAreReaped, StopWaits
<1>6. ASSUME NEW how \in {"answered", "hungup", "timedout"}, Settle(c, how) PROVE ControlInv'
    <2>1. /\ UNCHANGED <<server, task, reaped, entered, chunks, pipe, buffer, eof, belated>>
          /\ asker' = [asker EXCEPT ![c] = how]
          /\ closed' = closed \cup {<<c, "client">>}
          /\ waiter' = [waiter EXCEPT ![<<c, "client">>] = "none"]
        BY <1>6 DEF Settle
    <2>2. ControlTyped'
        BY <2>1, TwoEnds DEF ControlTyped
    <2>3. ReadersAreWoken'
        BY <2>1 DEF ControlTyped, ReadersAreWoken
    <2>4. TasksAreReaped'
        BY <2>1 DEF ControlTyped, TasksAreReaped
    <2> QED
        BY <2>1, <2>2, <2>3, <2>4 DEF StopWaits
<1> QED
    BY <1>1, <1>2, <1>3, <1>4, <1>5, <1>6 DEF TakeLast, TakeNothing, GiveUp

(* A step of a task that is under way.                                     *)
LEMMA TaskMoves ==
    ASSUME ControlInv, NEW c \in Askers,
           \/ ServerMade(c) \/ TaskBegins(c) \/ TakeRequest(c) \/ HangUp(c) \/ TaskCancelled(c)
           \/ AnswerChunk(c) \/ AnswerLast(c)
    PROVE  ControlInv'
<1> USE DEF ControlInv
<1>1. CASE ServerMade(c) \/ TaskBegins(c)
    <2>1. /\ UNCHANGED <<asker, server, reaped, chunks, endVars, belated>>
          /\ task[c] \in {"accepted", "spawned"} /\ entered' \subseteq Askers
          /\ \E next \in {"spawned", "reading"} : task' = [task EXCEPT ![c] = next]
        BY <1>1 DEF ServerMade, TaskBegins, ControlTyped
    <2>2. ControlTyped'
        BY <2>1 DEF ControlTyped, endVars
    <2>3. server # "up" => c \in belated
        BY <2>1 DEF TasksAreReaped
    <2>4. server \in {"stopped", "exited"} => c \notin reaped
        BY <2>1 DEF StopWaits
    <2> QED
        BY <2>1, <2>2, <2>3, <2>4 DEF ControlTyped, ReadersAreWoken, TasksAreReaped, StopWaits,
            endVars
<1>2. CASE TakeRequest(c)
    <2>1. /\ UNCHANGED <<asker, server, reaped, entered, chunks, pipe, eof, closed, belated>>
          /\ task[c] = "reading" /\ task' = [task EXCEPT ![c] = "handling"]
          /\ buffer[<<c, "server">>] # <<>>
          /\ buffer' = [buffer EXCEPT ![<<c, "server">>] = Tail(buffer[<<c, "server">>])]
          /\ waiter' = [waiter EXCEPT ![<<c, "server">>] = "none"]
        BY <1>2 DEF TakeRequest, HasFrame
    <2>2. Tail(buffer[<<c, "server">>]) \in Seq(Frames)
        <3>1. buffer[<<c, "server">>] \in Seq(Frames)
            BY TwoEnds DEF ControlTyped
        <3> QED
            BY <2>1, <3>1
    <2>3. ControlTyped'
        BY <2>1, <2>2 DEF ControlTyped
    <2>4. ReadersAreWoken'
        BY <2>1 DEF ControlTyped, ReadersAreWoken
    <2>5. TasksAreReaped'
        BY <2>1 DEF ControlTyped, TasksAreReaped
    <2>6. StopWaits'
        BY <2>1 DEF ControlTyped, StopWaits
    <2> QED
        BY <2>3, <2>4, <2>5, <2>6
<1>3. ASSUME TaskOver(c), UNCHANGED <<asker, server, reaped, chunks, pipe, buffer, eof, belated>>
      PROVE  ControlInv'
    <2>1. /\ task' = [task EXCEPT ![c] = "over"]
          /\ entered' \subseteq Askers
          /\ closed' = closed \cup {<<c, "server">>}
          /\ Wake({<<c, "server">>})
        BY <1>3 DEF TaskOver, CloseEnds, ControlTyped
    <2>2. ControlTyped'
        <3>1. closed' \subseteq Ends
            BY <2>1, TwoEnds DEF ControlTyped
        <3>2. waiter' \in [Ends -> {"none", "parked", "woken"}]
            BY <2>1, Woken
        <3>3. task' \in [Askers -> {"none", "accepted", "spawned", "reading", "handling", "over"}]
            BY <2>1 DEF ControlTyped
        <3> QED
            BY <1>3, <2>1, <3>1, <3>2, <3>3 DEF ControlTyped
    <2>3. ReadersAreWoken'
        BY <1>3, <2>1, Woken DEF ControlTyped, ReadersAreWoken
    <2>4. TasksAreReaped'
        BY <1>3, <2>1 DEF ControlTyped, TasksAreReaped
    <2>5. StopWaits'
        BY <1>3, <2>1 DEF ControlTyped, StopWaits
    <2> QED
        BY <2>2, <2>3, <2>4, <2>5
<1>4. CASE HangUp(c)
    BY <1>3, <1>4 DEF HangUp
<1>5. CASE TaskCancelled(c) /\ task[c] # "spawned"
    BY <1>3, <1>5 DEF TaskCancelled
<1>6. CASE TaskCancelled(c) /\ task[c] = "spawned"
    <2>1. /\ UNCHANGED <<asker, server, reaped, entered, chunks, endVars, belated>>
          /\ task' = [task EXCEPT ![c] = "over"] /\ c \in reaped
        BY <1>6 DEF TaskCancelled, endVars
    <2>2. c \in belated
        BY <1>6, <2>1 DEF TasksAreReaped, StopWaits
    <2> QED
        BY <2>1, <2>2 DEF ControlTyped, ReadersAreWoken, TasksAreReaped, StopWaits, endVars
<1>7. ASSUME NEW frame \in Frames, WriteFrame(c, frame)
      PROVE  pipe' \in [Ends -> Seq(Frames)]
    <2>1. pipe[<<c, "client">>] \in Seq(Frames)
        BY TwoEnds DEF ControlTyped
    <2>2. Append(pipe[<<c, "client">>], frame) \in Seq(Frames)
        BY <1>7, <2>1
    <2>3. \E line \in Seq(Frames) : pipe' = [pipe EXCEPT ![<<c, "client">>] = line]
        BY <1>7, <2>1, <2>2 DEF WriteFrame
    <2> QED
        BY <2>3, TwoEnds DEF ControlTyped
<1>8. CASE AnswerChunk(c)
    <2>1. /\ UNCHANGED <<asker, server, task, reaped, entered, buffer, eof, closed, waiter, belated>>
          /\ chunks[c] < MaxChunks /\ chunks' = [chunks EXCEPT ![c] = chunks[c] + 1]
          /\ pipe' \in [Ends -> Seq(Frames)]
        BY <1>7, <1>8 DEF AnswerChunk, Frames
    <2>2. chunks' \in [Askers -> 0..MaxChunks]
        BY <2>1, ChunksAreCounted DEF ControlTyped
    <2> QED
        BY <2>1, <2>2 DEF ControlTyped, ReadersAreWoken, TasksAreReaped, StopWaits
<1>9. CASE AnswerLast(c)
    <2>1. /\ UNCHANGED <<asker, server, reaped, entered, chunks, buffer, eof, closed, waiter, belated>>
          /\ task[c] = "handling" /\ task' = [task EXCEPT ![c] = "reading"]
          /\ pipe' \in [Ends -> Seq(Frames)]
        BY <1>7, <1>9 DEF AnswerLast, Frames
    <2> QED
        BY <2>1 DEF ControlTyped, ReadersAreWoken, TasksAreReaped, StopWaits
<1> QED
    BY <1>1, <1>2, <1>4, <1>5, <1>6, <1>8, <1>9

LEMMA ControlStep == ControlInv /\ [ControlNext]_controlVars => ControlInv'
<1> SUFFICES ASSUME ControlInv, [ControlNext]_controlVars PROVE ControlInv'
    OBVIOUS
<1> USE DEF ControlInv
<1>1. ASSUME NEW c \in Askers, Dial(c) PROVE ControlInv'
    <2>1. CASE Listening
        <3>1. /\ UNCHANGED <<server, reaped, entered, chunks, endVars>>
              /\ asker' = [asker EXCEPT ![c] = "dialing"]
              /\ task' = [task EXCEPT ![c] = "accepted"]
              /\ belated' = IF server = "up" THEN belated ELSE belated \cup {c}
              /\ server \in {"up", "stopping"}
            BY <1>1, <2>1 DEF Dial, Listening
        <3>2. ControlTyped'
            BY <3>1 DEF ControlTyped, endVars
        <3> QED
            BY <3>1, <3>2 DEF ControlTyped, ReadersAreWoken, TasksAreReaped, StopWaits, endVars
    <2>2. CASE ~Listening
        <3>1. /\ UNCHANGED <<server, task, reaped, entered, chunks, endVars, belated>>
              /\ asker' = [asker EXCEPT ![c] = "refused"]
            BY <1>1, <2>2 DEF Dial
        <3> QED
            BY <3>1 DEF ControlTyped, ReadersAreWoken, TasksAreReaped, StopWaits, endVars
    <2> QED
        BY <2>1, <2>2
<1>2. CASE StopServer
    <2> DEFINE open == {<<c, "server">> : c \in entered}
    <2>1. /\ UNCHANGED <<asker, task, chunks, pipe, buffer, eof>>
          /\ server' = "stopping" /\ entered' = {}
          /\ closed' = closed \cup open /\ Wake(open)
          /\ reaped' = {c \in Askers : task[c] \in {"spawned", "reading", "handling"}}
          /\ belated' = {c \in Askers : task[c] \in {"accepted", "spawned"}}
        BY <1>2 DEF StopServer, CloseEnds
    <2>2. open \subseteq Ends
        <3> SUFFICES ASSUME NEW c \in entered PROVE <<c, "server">> \in Ends
            OBVIOUS
        <3>1. c \in Askers
            BY DEF ControlTyped
        <3> QED
            BY <3>1, TwoEnds
    <2> HIDE DEF open
    <2>3. ControlTyped'
        <3>1. waiter' \in [Ends -> {"none", "parked", "woken"}]
            BY <2>1, Woken
        <3>2. closed' \subseteq Ends
            BY <2>1, <2>2 DEF ControlTyped
        <3>3. reaped' \subseteq Askers /\ belated' \subseteq Askers
            BY <2>1
        <3>4. /\ UNCHANGED <<asker, task, chunks, pipe, buffer, eof>>
              /\ server' = "stopping" /\ entered' = {}
            BY <2>1
        <3> QED
            BY <3>1, <3>2, <3>3, <3>4 DEF ControlTyped
    <2>4. ReadersAreWoken'
        <3>1. /\ UNCHANGED <<buffer, eof>> /\ server' # "exited" /\ server # "exited"
              /\ closed' = closed \cup open
            BY <1>2, <2>1 DEF StopServer
        <3>2. \A end \in Ends : waiter'[end] = "parked" => waiter[end] = "parked" /\ end \notin open
            BY <2>1, Woken
        <3> QED
            BY <3>1, <3>2 DEF ReadersAreWoken
    <2>5. \A c \in entered : <<c, "server">> \in closed'
        BY <2>1 DEF open
    <2>6. server = "up" /\ belated = {} /\ reaped = {}
        BY <1>2 DEF StopServer, StopWaits
    <2>7. TasksAreReaped'
        BY <2>1, <2>5, <2>6 DEF ControlTyped, TasksAreReaped
    <2> QED
        BY <2>1, <2>3, <2>4, <2>7 DEF StopWaits
<1>3. CASE StopListening
    <2>1. /\ UNCHANGED <<asker, task, reaped, entered, chunks, endVars, belated>>
          /\ server = "stopping" /\ server' = "stopped" /\ \A c \in reaped : task[c] = "over"
        BY <1>3 DEF StopListening
    <2> QED
        BY <2>1 DEF ControlTyped, ReadersAreWoken, TasksAreReaped, StopWaits, endVars
<1>4. CASE ServerExits
    <2> DEFINE open == {<<c, "server">> : c \in Askers}
    <2>1. /\ UNCHANGED <<asker, reaped, entered, chunks, pipe, buffer, eof, waiter, belated>>
          /\ server = "stopped" /\ server' = "exited"
          /\ closed' = closed \cup open
          /\ task' = [c \in Askers |-> IF task[c] = "none" THEN "none" ELSE "over"]
        BY <1>4 DEF ServerExits
    <2>2. open \subseteq Ends
        BY TwoEnds
    <2>3. /\ \A end \in open : end[2] = "server"
          /\ \A c \in Askers : <<c, "server">> \in open
        OBVIOUS
    <2> HIDE DEF open
    <2>4. ControlTyped'
        <3>1. closed' \subseteq Ends
            BY <2>1, <2>2 DEF ControlTyped
        <3>2. task' \in [Askers -> {"none", "accepted", "spawned", "reading", "handling", "over"}]
            BY <2>1 DEF ControlTyped
        <3> QED
            BY <2>1, <3>1, <3>2 DEF ControlTyped
    <2>5. ReadersAreWoken' /\ TasksAreReaped'
        <3>1. ReadersAreWoken'
            BY <2>1, <2>3 DEF ReadersAreWoken
        <3>2. TasksAreReaped'
            BY <2>1, <2>3 DEF ControlTyped, TasksAreReaped
        <3> QED
            BY <3>1, <3>2
    <2>6. StopWaits'
        BY <2>1 DEF ControlTyped, StopWaits
    <2> QED
        BY <2>4, <2>5, <2>6
<1>5. CASE UNCHANGED controlVars
    BY <1>5 DEF controlVars, endVars, ControlTyped, ReadersAreWoken, TasksAreReaped, StopWaits
<1> QED
    BY <1>1, <1>2, <1>3, <1>4, <1>5, EndsStep, TaskMoves DEF ControlNext, Turns

(* For any number of clients and length of answers: no reader sleeps       *)
(* through a frame or an ending (feed_data, feed_eof, close, readline).    *)
THEOREM NoLostWakeup == ControlSpec => []ReadersAreWoken
<1>1. ControlInv => ReadersAreWoken
    BY DEF ControlInv
<1> QED
    BY <1>1, ControlStarts, ControlStep, PTL DEF ControlSpec

(* For any number of clients, however far each has come: what stop leaves  *)
(* behind had not begun when it began (IpcServer.stop).                    *)
THEOREM StopIsOver == ControlSpec => []StoppedIsOver
<1>1. ControlInv => StoppedIsOver
    <2> SUFFICES ASSUME ControlInv, server \in {"stopped", "exited"}, NEW c \in Askers \ belated
                 PROVE  /\ task[c] \in {"none", "over"}
                        /\ asker[c] \in {"dialing", "waiting"} => <<c, "server">> \in closed
        BY DEF StoppedIsOver
    <2>1. task[c] \in {"none", "over"}
        BY DEF ControlInv, TasksAreReaped, StopWaits
    <2> QED
        BY <2>1 DEF ControlInv, TasksAreReaped
<1> QED
    BY <1>1, ControlStarts, ControlStep, PTL DEF ControlSpec

(* For any number of clients, however data, ends, closes and a stop meet:  *)
(* nobody is left asleep, and nobody left behind (IpcServer).              *)
THEOREM NobodyLeftBehind == ControlSpec => []WokenAndReleased
BY NoLostWakeup, StopIsOver, PTL DEF WokenAndReleased

(* Whatever ends when, frames stay where frames are (IpcServer).           *)
THEOREM ControlIsTyped == ControlSpec => []ControlTypeOK
<1>1. ControlInv => ControlTypeOK
    BY DEF ControlInv, ControlTyped, ControlTypeOK, Frames
<1> QED
    BY <1>1, ControlStarts, ControlStep, PTL DEF ControlSpec

-----------------------------------------------------------------------------
(* What a harness prints.                                                  *)

(* The first and the last end of a line among some pieces.                 *)
LEMMA LeastNatural ==
    ASSUME NEW S, S \subseteq Nat, S # {}
    PROVE  \E m \in S : \A n \in S : m <= n
<1> DEFINE R == OpToRel(<, Nat)
<1>1. IsWellFoundedOn(R, Nat)
    BY NatLessThanWellFounded
<1>2. \A x, y \in Nat : x < y => <<x, y>> \in R
    BY DEF OpToRel
<1>3. \E x \in S : \A y \in S : ~ (<<y, x>> \in R)
    <2> HIDE DEF R
    <2> QED
        BY <1>1, WFMin
<1>4. PICK m \in S : \A y \in S : ~ (<<y, m>> \in R)
    BY <1>3
<1>5. ASSUME NEW n \in S PROVE m <= n
    <2>1. m \in Nat /\ n \in Nat /\ ~(n < m)
        BY <1>2, <1>4
    <2> QED
        BY <2>1
<1> QED
    BY <1>4, <1>5

LEMMA FirstIsOne ==
    ASSUME NEW s \in Seq(Piece), s # <<>>
    PROVE  /\ FirstUnit(s) \in 1..Len(s)
           /\ s[FirstUnit(s)] \in lineEnds \/ FirstUnit(s) = Len(s)
           /\ \A m \in 1..FirstUnit(s) - 1 : s[m] \notin lineEnds
<1> DEFINE S == {n \in 1..Len(s) : s[n] \in lineEnds \/ n = Len(s)}
<1>1. Len(s) \in Nat /\ Len(s) >= 1 /\ DOMAIN s = 1..Len(s)
    OBVIOUS
<1>2. S \subseteq Nat /\ Len(s) \in S
    BY <1>1
<1>3. PICK n \in S : \A m \in S : n <= m
    <2> HIDE DEF S
    <2> QED
        BY <1>2, LeastNatural
<1>4. n \in DOMAIN s /\ (s[n] \in lineEnds \/ n = Len(s))
    BY <1>1, <1>3
<1>5. ASSUME NEW m \in 1..n - 1 PROVE s[m] \notin lineEnds
    <2>1. m \in 1..Len(s) /\ ~(n <= m)
        BY <1>1, <1>4, <1>5
    <2>2. m \notin S
        <3> HIDE DEF S
        <3> QED
            BY <1>3, <2>1
    <2> QED
        BY <2>1, <2>2
<1> HIDE DEF S
<1> QED
    BY <1>1, <1>4, <1>5 DEF FirstUnit

LEMMA LastIsOne ==
    ASSUME NEW s \in Seq(Piece)
    PROVE  /\ LastEnd(s) \in 0..Len(s)
           /\ LastEnd(s) = 0 \/ s[LastEnd(s)] \in lineEnds
           /\ \A m \in LastEnd(s) + 1..Len(s) : s[m] \notin lineEnds
<1> DEFINE S == {n \in 0..Len(s) : \A m \in n + 1..Len(s) : s[m] \notin lineEnds}
<1>1. Len(s) \in Nat
    OBVIOUS
<1>2. S \subseteq Nat /\ Len(s) \in S
    BY <1>1
<1>3. PICK n \in S : \A m \in S : n <= m
    <2> HIDE DEF S
    <2> QED
        BY <1>2, LeastNatural
<1>4. n = 0 \/ s[n] \in lineEnds
    <2> SUFFICES ASSUME n # 0, s[n] \notin lineEnds PROVE FALSE
        OBVIOUS
    <2>0. n \in 1..Len(s) /\ \A m \in n + 1..Len(s) : s[m] \notin lineEnds
        BY <1>1, <1>3
    <2>1. n - 1 \in S
        <3>1. n - 1 \in 0..Len(s)
            BY <1>1, <2>0
        <3>2. ASSUME NEW m \in n - 1 + 1..Len(s) PROVE s[m] \notin lineEnds
            <4>1. m = n \/ m \in n + 1..Len(s)
                BY <1>1, <2>0
            <4> QED
                BY <2>0, <4>1
        <3>3. S \subseteq 0..Len(s) /\ \A x \in 0..Len(s) :
                (\A m \in x + 1..Len(s) : s[m] \notin lineEnds) => x \in S
            OBVIOUS
        <3> HIDE DEF S
        <3> QED
            BY <3>1, <3>2, <3>3
    <2>2. n \in Nat /\ n <= n - 1
        <3> HIDE DEF S
        <3> QED
            BY <1>1, <1>2, <1>3, <2>1
    <2> QED
        BY <2>2
<1>5. n \in 0..Len(s) /\ \A m \in n + 1..Len(s) : s[m] \notin lineEnds
    BY <1>3
<1> HIDE DEF S
<1> QED
    BY <1>4, <1>5 DEF LastEnd

-----------------------------------------------------------------------------
(* What the harness printed, from the log to its terminal.                 *)

(* The pieces n + 1, n + 2 and so on.                                      *)
Follows(pieces, n) == \A i \in 1..Len(pieces) : pieces[i] = n + i

(* How far the log, the units, the rest and the first k reads go.          *)
Heard == LastOf(Len(logged))
Held == Heard + Len(units) + Len(rest)
HandedUpTo(k) == IF k = 0 THEN Held ELSE handed[k][Len(handed[k])]

(* What the pump holds, what was handed to it and what is in the terminal  *)
(* follow upon each other.                                                 *)
Flows ==
    /\ Follows(units, Heard) /\ Follows(rest, Heard + Len(units))
    /\ \A k \in 1..Len(handed) : handed[k] # <<>> /\ Follows(handed[k], HandedUpTo(k - 1))
    /\ Follows(terminal, HandedUpTo(Len(handed)))
    /\ HandedUpTo(Len(handed)) + Len(terminal) = printed

(* What is to be emitted ends where a line ends, or in more than the buffer*)
(* holds, or it is all that the dead harness left.                         *)
UnitsWhole ==
    /\ \A i \in 1..Len(rest) : rest[i] \notin lineEnds
    /\ pump = "reading" /\ units # <<>> =>
        \E m \in 0..Len(units) :
            /\ m = Len(units) \/ Len(units) - m > MaxBuffer
            /\ m = 0 \/ units[m] \in lineEnds
            /\ \A i \in m + 1..Len(units) : units[i] \notin lineEnds
    /\ pump = "flushing" =>
        /\ units # <<>> /\ rest = <<>> /\ handed = <<>>
        /\ \A i \in 1..Len(units) : units[i] \notin lineEnds

(* A pump that runs was neither stopped nor failed, and has a thread that  *)
(* reads on until the harness is dead and all is read.                     *)
PumpRuns ==
    /\ ~halted /\ muted = "no"
    /\ thread = "ended" \/ pump = "flushing" =>
        thread = "ended" /\ harness = "dead" /\ terminal = <<>>

OutputInv ==
    /\ OutputTypeOK /\ LoggedInOrder
    /\ pump # "ended" => Flows /\ UnitsWhole /\ PumpRuns
    /\ pump = "ended" => units = <<>> /\ rest = <<>>

LEMMA OutputStarts == OutputInit => OutputInv
<1> SUFFICES ASSUME OutputInit PROVE OutputInv
    OBVIOUS
<1>1. OutputTypeOK
    <2>1. \A T : <<>> \in Seq(T)
        OBVIOUS
    <2>2. 0 \in 0..MaxPieces /\ Len(<<>>) = 0 /\ 0 <= TerminalSize /\ 0 <= MaxBuffer
        BY OutputAssumption
    <2> QED
        BY <2>1, <2>2 DEF OutputInit, OutputTypeOK
<1>2. LoggedInOrder
    BY DEF OutputInit, LoggedInOrder
<1>3. Flows
    BY DEF OutputInit, Flows, Follows, Heard, Held, HandedUpTo, LastOf
<1>4. UnitsWhole /\ PumpRuns
    BY DEF OutputInit, UnitsWhole, PumpRuns
<1> QED
    BY <1>1, <1>2, <1>3, <1>4 DEF OutputInit, OutputInv

(* What is in the log stays true when the harness prints on, or dies.      *)
LEMMA LoggedStays ==
    ASSUME OutputInv, logged' = logged,
           harness' = harness \/ harness' = "dead",
           \/ printed' = printed /\ lineEnds' = lineEnds
           \/ /\ harness = "up" /\ printed' = printed + 1
              /\ lineEnds' \in {lineEnds, lineEnds \cup {printed + 1}}
    PROVE  LoggedInOrder'
<1> SUFFICES ASSUME NEW k \in DOMAIN logged
             PROVE  LET unit == logged[k]
                        last == Len(unit)
                    IN  /\ last > 0
                        /\ \A n \in 1..last : unit[n] = LastOf(k - 1)' + n
                        /\ \A n \in 1..last - 1 : unit[n] \notin lineEnds'
                        /\ \/ unit[last] \in lineEnds'
                           \/ last > MaxBuffer
                           \/ harness' = "dead" /\ unit[last] = printed'
    BY DEF LoggedInOrder
<1> DEFINE unit == logged[k]
           last == Len(unit)
<1>1. LastOf(k - 1)' = LastOf(k - 1)
    BY DEF LastOf
<1>2. unit \in Seq(1..printed) /\ last \in Nat /\ printed \in Nat
    BY DEF OutputInv, OutputTypeOK, Piece
<1>3. \A n \in 1..last : unit[n] \in 1..printed
    BY <1>2
<1>4. /\ last > 0
      /\ \A n \in 1..last : unit[n] = LastOf(k - 1) + n
      /\ \A n \in 1..last - 1 : unit[n] \notin lineEnds
      /\ unit[last] \in lineEnds \/ last > MaxBuffer
         \/ (harness = "dead" /\ unit[last] = printed)
    <2>1. LoggedInOrder
        BY DEF OutputInv
    <2> QED
        BY <2>1 DEF LoggedInOrder
<1>5. lineEnds \subseteq lineEnds' /\ printed + 1 \notin 1..printed
    BY <1>2
<1>6. \A p \in 1..printed : p \in lineEnds' => p \in lineEnds
    BY <1>2, <1>5
<1> HIDE DEF unit, last
<1>7. ASSUME NEW n \in 1..last - 1 PROVE unit[n] \notin lineEnds'
    <2>1. n \in 1..last
        BY <1>2
    <2> QED
        BY <1>3, <1>4, <1>6, <2>1
<1>8. unit[last] \in lineEnds' \/ last > MaxBuffer
      \/ (harness' = "dead" /\ unit[last] = printed')
    BY <1>4, <1>5
<1> QED
    BY <1>1, <1>4, <1>7, <1>8 DEF unit, last

(* The sequences there are, and their lengths.                             *)
LEMMA OutputShape ==
    ASSUME OutputTypeOK
    PROVE  /\ printed \in Nat /\ Len(terminal) \in Nat /\ Len(handed) \in Nat
           /\ Len(rest) \in Nat /\ Len(units) \in Nat /\ Len(logged) \in Nat
           /\ \A i \in 1..Len(terminal) : terminal[i] \in 1..printed
           /\ \A i \in 1..Len(rest) : rest[i] \in 1..printed
           /\ \A i \in 1..Len(units) : units[i] \in 1..printed
           /\ \A k \in 1..Len(handed) : handed[k] \in Seq(1..printed) /\ Len(handed[k]) \in Nat
           /\ DOMAIN logged = 1..Len(logged)
           /\ \A k \in 1..Len(logged) : logged[k] \in Seq(1..printed) /\ Len(logged[k]) \in Nat
           /\ MaxBuffer \in Nat /\ TerminalSize \in Nat
<1>1. \A T, s : s \in Seq(T) => /\ Len(s) \in Nat /\ DOMAIN s = 1..Len(s)
                               /\ \A i \in 1..Len(s) : s[i] \in T
    OBVIOUS
<1>2. /\ printed \in Nat /\ terminal \in Seq(1..printed) /\ handed \in Seq(Seq(1..printed))
      /\ rest \in Seq(1..printed) /\ units \in Seq(1..printed) /\ logged \in Seq(Seq(1..printed))
    BY DEF OutputTypeOK, Piece
<1>3. MaxBuffer \in Nat /\ TerminalSize \in Nat
    BY OutputAssumption
<1> QED
    BY <1>1, <1>2, <1>3

LEMMA LastIn ==
    ASSUME NEW D, NEW s \in Seq(D), s # <<>>
    PROVE  Len(s) \in Nat /\ Len(s) >= 1 /\ s[Len(s)] \in D
OBVIOUS

LEMMA Cut ==
    ASSUME NEW D, NEW s \in Seq(D), NEW n \in 0..Len(s)
    PROVE  /\ SubSeq(s, 1, n) \in Seq(D) /\ Len(SubSeq(s, 1, n)) = n
           /\ \A i \in 1..n : SubSeq(s, 1, n)[i] = s[i]
           /\ SubSeq(s, n + 1, Len(s)) \in Seq(D)
           /\ Len(SubSeq(s, n + 1, Len(s))) = Len(s) - n
           /\ \A i \in 1..Len(s) - n : SubSeq(s, n + 1, Len(s))[i] = s[n + i]
<1>1. Len(s) \in Nat /\ n \in Nat /\ n <= Len(s) /\ \A i \in 1..Len(s) : s[i] \in D
    OBVIOUS
<1>2. /\ SubSeq(s, 1, n) \in Seq(D) /\ Len(SubSeq(s, 1, n)) = n
      /\ \A i \in 1..n : SubSeq(s, 1, n)[i] = s[i]
    <2>1. \A i \in 1..n : s[i] \in D
        BY <1>1
    <2>2. /\ SubSeq(s, 1, n) \in Seq(D) /\ Len(SubSeq(s, 1, n)) = IF 1 <= n THEN n - 1 + 1 ELSE 0
          /\ \A i \in 1..n - 1 + 1 : SubSeq(s, 1, n)[i] = s[1 + i - 1]
        BY <1>1, <2>1, SubSeqProperties
    <2>3. n - 1 + 1 = n /\ (~(1 <= n) => n = 0) /\ \A i \in 1..n : 1 + i - 1 = i
        BY <1>1
    <2> QED
        BY <2>2, <2>3
<1>3. /\ SubSeq(s, n + 1, Len(s)) \in Seq(D)
      /\ Len(SubSeq(s, n + 1, Len(s))) = Len(s) - n
      /\ \A i \in 1..Len(s) - n : SubSeq(s, n + 1, Len(s))[i] = s[n + i]
    <2>1. \A i \in n + 1..Len(s) : s[i] \in D
        BY <1>1
    <2>2. /\ SubSeq(s, n + 1, Len(s)) \in Seq(D)
          /\ Len(SubSeq(s, n + 1, Len(s)))
                = IF n + 1 <= Len(s) THEN Len(s) - (n + 1) + 1 ELSE 0
          /\ \A i \in 1..Len(s) - (n + 1) + 1 :
                SubSeq(s, n + 1, Len(s))[i] = s[n + 1 + i - 1]
        BY <1>1, <2>1, SubSeqProperties
    <2>3. /\ Len(s) - (n + 1) + 1 = Len(s) - n /\ (~(n + 1 <= Len(s)) => Len(s) - n = 0)
          /\ \A i \in 1..Len(s) - n : n + 1 + i - 1 = n + i
        BY <1>1
    <2> QED
        BY <2>2, <2>3
<1> QED
    BY <1>2, <1>3

(* Where the log, the units and the reads end.                             *)
LEMMA EndsAreNumbers ==
    ASSUME OutputTypeOK, LoggedInOrder
    PROVE  /\ Heard \in Nat /\ Held \in Nat
           /\ Flows => \A k \in 0..Len(handed) : HandedUpTo(k) \in Nat
<1>1. Heard \in Nat
    <2>1. CASE Len(logged) = 0
        BY <2>1 DEF Heard, LastOf
    <2>2. CASE Len(logged) # 0
        <3> DEFINE k == Len(logged)
        <3>1. k \in 1..Len(logged)
            BY <2>2, OutputShape
        <3>2. Len(logged[k]) > 0
            BY <3>1, OutputShape DEF LoggedInOrder
        <3>3. logged[k][Len(logged[k])] \in 1..printed
            <4> HIDE DEF k
            <4> QED
                BY <3>1, <3>2, OutputShape
        <3> QED
            BY <2>2, <3>3 DEF Heard, LastOf
    <2> QED
        BY <2>1, <2>2
<1>2. Held \in Nat
    BY <1>1, OutputShape DEF Held
<1>3. ASSUME Flows, NEW k \in 0..Len(handed) PROVE HandedUpTo(k) \in Nat
    <2>1. CASE k = 0
        BY <1>2, <2>1 DEF HandedUpTo
    <2>2. CASE k # 0
        <3>1. k \in 1..Len(handed) /\ handed[k] # <<>>
            BY <1>3, <2>2, OutputShape DEF Flows
        <3>2. handed[k] \in Seq(1..printed)
            BY <3>1, OutputShape
        <3>3. handed[k][Len(handed[k])] \in 1..printed
            BY <3>1, <3>2, LastIn
        <3> QED
            BY <2>2, <3>3 DEF HandedUpTo
    <2> QED
        BY <2>1, <2>2
<1> QED
    BY <1>1, <1>2, <1>3

(* Steps that leave alone what the pump holds and what it has logged.      *)
LEMMA PumpAlone ==
    ASSUME OutputInv, UNCHANGED <<handed, rest, units, pump, logged, muted, halted>>,
           \/ \E ends \in BOOLEAN : PrintPiece(ends)
           \/ HarnessDies \/ ReadOn \/ ThreadEnds \/ StopHarness
    PROVE  OutputInv'
<1> USE DEF OutputInv
<1>1. CASE \E ends \in BOOLEAN : PrintPiece(ends)
    <2>1. PICK ends \in BOOLEAN : PrintPiece(ends)
        BY <1>1
    <2>2. /\ harness = "up" /\ printed < MaxPieces /\ Len(terminal) < TerminalSize
          /\ printed' = printed + 1
          /\ lineEnds' \in {lineEnds, lineEnds \cup {printed + 1}}
          /\ terminal' = Append(terminal, printed + 1)
          /\ UNCHANGED <<harness, thread, halted, handed, rest, units, pump, logged, muted>>
        BY <2>1 DEF PrintPiece
    <2>3. OutputTypeOK'
        <3>1. printed \in Nat /\ printed' \in 0..MaxPieces
            BY <2>2, OutputAssumption DEF OutputTypeOK
        <3>2. \A T, U : T \subseteq U => Seq(T) \subseteq Seq(U) /\ Seq(Seq(T)) \subseteq Seq(Seq(U))
            OBVIOUS
        <3>3. Piece \subseteq Piece' /\ printed + 1 \in Piece'
            BY <2>2, <3>1 DEF Piece
        <3>4. /\ rest' \in Seq(Piece') /\ units' \in Seq(Piece') /\ terminal \in Seq(Piece')
              /\ handed' \in Seq(Seq(Piece')) /\ logged' \in Seq(Seq(Piece'))
            BY <2>2, <3>2, <3>3 DEF OutputTypeOK
        <3>5. terminal' \in Seq(Piece') /\ Len(terminal') = Len(terminal) + 1
            BY <2>2, <3>3, <3>4
        <3>6. lineEnds' \subseteq Piece' /\ Len(terminal') <= TerminalSize
            BY <2>2, <3>3, <3>5, OutputAssumption, OutputShape DEF OutputTypeOK
        <3> QED
            BY <2>2, <3>1, <3>4, <3>5, <3>6 DEF OutputTypeOK
    <2>4. LoggedInOrder'
        BY <2>2, LoggedStays
    <2>5. ASSUME pump # "ended" PROVE Flows' /\ UnitsWhole' /\ PumpRuns'
        <3>1. Flows /\ UnitsWhole /\ PumpRuns
            BY <2>5
        <3>2. Heard' = Heard /\ Held' = Held /\ \A k : HandedUpTo(k)' = HandedUpTo(k)
            BY <2>2 DEF Heard, Held, HandedUpTo, LastOf
        <3>3. Follows(terminal, HandedUpTo(Len(handed)))'
            <4>1. /\ Len(terminal') = Len(terminal) + 1 /\ Len(terminal) \in Nat
                  /\ \A i \in 1..Len(terminal) : terminal'[i] = terminal[i]
                  /\ terminal'[Len(terminal) + 1] = printed + 1
                BY <2>2 DEF OutputTypeOK
            <4>2. /\ HandedUpTo(Len(handed)) + Len(terminal) = printed
                  /\ \A i \in 1..Len(terminal) : terminal[i] = HandedUpTo(Len(handed)) + i
                BY <3>1 DEF Flows, Follows
            <4>3. HandedUpTo(Len(handed)) \in Int
                BY <3>1, EndsAreNumbers, OutputShape
            <4>4. (HandedUpTo(Len(handed)))' = HandedUpTo(Len(handed))
                BY <2>2, <3>2
            <4>5. ASSUME NEW i \in 1..Len(terminal')
                  PROVE  terminal'[i] = HandedUpTo(Len(handed)) + i
                <5>1. i \in 1..Len(terminal) \/ i = Len(terminal) + 1
                    BY <4>1
                <5>2. CASE i \in 1..Len(terminal)
                    BY <4>1, <4>2, <5>2
                <5>3. CASE i = Len(terminal) + 1
                    BY <4>1, <4>2, <4>3, <5>3
                <5> QED
                    BY <5>1, <5>2, <5>3
            <4> QED
                BY <4>4, <4>5 DEF Follows
        <3>4. (HandedUpTo(Len(handed)) + Len(terminal) = printed)'
            <4>1. (HandedUpTo(Len(handed)))' = HandedUpTo(Len(handed))
                BY <2>2, <3>2
            <4>2. Len(terminal') = Len(terminal) + 1
                BY <2>2 DEF OutputTypeOK
            <4>3. HandedUpTo(Len(handed)) \in Int /\ HandedUpTo(Len(handed)) + Len(terminal) = printed
                BY <3>1, EndsAreNumbers, OutputShape DEF Flows
            <4>4. Len(terminal) \in Int /\ printed \in Int
                BY OutputShape
            <4>5. \A a, b, c \in Int : a + b = c => a + (b + 1) = c + 1
                OBVIOUS
            <4>6. HandedUpTo(Len(handed)) + (Len(terminal) + 1) = printed + 1
                BY <4>3, <4>4, <4>5
            <4>7. printed' = printed + 1
                BY <2>2
            <4> QED
                BY <4>1, <4>2, <4>3, <4>4, <4>6, <4>7
        <3>5. Flows'
            <4>1. Follows(units, Heard)' /\ Follows(rest, Heard + Len(units))'
                BY <2>2, <3>1, <3>2 DEF Flows, Follows
            <4>2. ASSUME NEW k \in 1..Len(handed)
                  PROVE  handed[k] # <<>> /\ Follows(handed[k], HandedUpTo(k - 1)')
                <5>1. HandedUpTo(k - 1)' = HandedUpTo(k - 1)
                    BY <3>2
                <5> QED
                    BY <3>1, <5>1 DEF Flows
            <4>3. handed' = handed
                BY <2>2
            <4> QED
                BY <3>3, <3>4, <4>1, <4>2, <4>3 DEF Flows, Follows
        <3>6. \A p \in 1..printed : p \in lineEnds' <=> p \in lineEnds
            BY <2>2, OutputShape
        <3>7. UnitsWhole'
            <4>1. \A i \in 1..Len(units) : units[i] \in lineEnds' <=> units[i] \in lineEnds
                BY <3>6, OutputShape
            <4>2. \A i \in 1..Len(rest) : rest[i] \in lineEnds' <=> rest[i] \in lineEnds
                BY <3>6, OutputShape
            <4>3. ASSUME pump = "reading", units # <<>>
                  PROVE  \E m \in 0..Len(units) :
                            /\ m = Len(units) \/ Len(units) - m > MaxBuffer
                            /\ m = 0 \/ units[m] \in lineEnds'
                            /\ \A i \in m + 1..Len(units) : units[i] \notin lineEnds'
                <5>1. PICK m \in 0..Len(units) :
                            /\ m = Len(units) \/ Len(units) - m > MaxBuffer
                            /\ m = 0 \/ units[m] \in lineEnds
                            /\ \A i \in m + 1..Len(units) : units[i] \notin lineEnds
                    BY <3>1, <4>3 DEF UnitsWhole
                <5>2. m = 0 \/ units[m] \in lineEnds'
                    BY <4>1, <5>1, OutputShape
                <5>3. \A i \in m + 1..Len(units) : units[i] \notin lineEnds'
                    BY <4>1, <5>1, OutputShape
                <5> QED
                    BY <5>1, <5>2, <5>3
            <4> QED
                BY <2>2, <3>1, <4>1, <4>2, <4>3 DEF UnitsWhole
        <3> QED
            BY <2>2, <3>1, <3>5, <3>7 DEF PumpRuns
    <2> QED
        BY <2>2, <2>3, <2>4, <2>5
<1>2. CASE HarnessDies \/ ReadOn \/ ThreadEnds
    <2>1. /\ UNCHANGED <<printed, lineEnds, terminal, halted, handed, rest, units, pump, logged, muted>>
          /\ harness' \in {harness, "dead"} /\ thread' \in {"reading", "asking", "ended"}
        BY <1>2 DEF HarnessDies, ReadOn, ThreadEnds, OutputTypeOK
    <2>2. OutputTypeOK'
        BY <2>1 DEF OutputTypeOK, Piece
    <2>3. LoggedInOrder'
        BY <2>1, LoggedStays
    <2>4. Flows' <=> Flows
        BY <2>1 DEF Flows, Follows, Heard, Held, HandedUpTo, LastOf
    <2>5. UnitsWhole' <=> UnitsWhole
        BY <2>1 DEF UnitsWhole
    <2>6. ASSUME pump # "ended" PROVE PumpRuns'
        BY <1>2, <2>1, <2>6 DEF PumpRuns, HarnessDies, ReadOn, ThreadEnds
    <2> QED
        BY <2>1, <2>2, <2>3, <2>4, <2>5, <2>6
<1>3. CASE StopHarness
    <2>1. /\ UNCHANGED <<printed, lineEnds, thread, halted, handed, rest, units, pump, logged, muted>>
          /\ harness' = "dead" /\ terminal' = <<>> /\ muted = "stopped"
        BY <1>3 DEF StopHarness
    <2>2. OutputTypeOK'
        <3>1. terminal' \in Seq(Piece) /\ Len(terminal') <= TerminalSize
            BY <2>1, OutputAssumption
        <3> QED
            BY <2>1, <3>1 DEF OutputTypeOK, Piece
    <2>3. LoggedInOrder'
        BY <2>1, LoggedStays
    <2>4. pump = "ended"
        BY <2>1 DEF PumpRuns
    <2> QED
        BY <2>1, <2>2, <2>3, <2>4
<1> QED
    BY <1>1, <1>2, <1>3

(* The thread reads.                                                       *)
LEMMA ThreadReads ==
    ASSUME OutputInv, NEW n, ReadTerminal(n)
    PROVE  OutputInv'
<1> USE DEF OutputInv
<1>1. /\ n \in 1..Len(terminal) /\ thread = "reading" /\ thread' = "asking"
      /\ handed' = Append(handed, SubSeq(terminal, 1, n))
      /\ terminal' = SubSeq(terminal, n + 1, Len(terminal))
      /\ UNCHANGED <<harness, printed, lineEnds, halted, rest, units, pump, logged, muted>>
    BY DEF ReadTerminal
<1> DEFINE H == HandedUpTo(Len(handed))
           read == SubSeq(terminal, 1, n)
<1>2. /\ terminal \in Seq(1..printed) /\ handed \in Seq(Seq(1..printed))
      /\ Len(terminal) \in Nat /\ Len(handed) \in Nat
    BY OutputShape DEF OutputTypeOK, Piece
<1>3. /\ read \in Seq(1..printed) /\ Len(read) = n /\ \A i \in 1..n : read[i] = terminal[i]
      /\ terminal' \in Seq(1..printed) /\ Len(terminal') = Len(terminal) - n
      /\ \A i \in 1..Len(terminal') : terminal'[i] = terminal[n + i]
    <2>1. n \in 0..Len(terminal)
        BY <1>1, <1>2
    <2> HIDE DEF H
    <2>2. \A i \in 1..Len(terminal) - n : terminal'[i] = terminal[n + i]
        BY <1>1, <1>2, <2>1, Cut
    <2>3. terminal' \in Seq(1..printed) /\ Len(terminal') = Len(terminal) - n
        BY <1>1, <1>2, <2>1, Cut
    <2>4. /\ read \in Seq(1..printed) /\ Len(read) = n
          /\ \A i \in 1..n : read[i] = terminal[i]
        BY <1>2, <2>1, Cut
    <2> QED
        BY <2>2, <2>3, <2>4
<1>0. n \in Nat /\ n >= 1 /\ n <= Len(terminal) /\ Len(terminal') \in Nat
    BY <1>1, <1>2, <1>3
<1> HIDE DEF read
<1>4. /\ handed' \in Seq(Seq(1..printed)) /\ Len(handed') = Len(handed) + 1
      /\ \A k \in 1..Len(handed) : handed'[k] = handed[k]
      /\ handed'[Len(handed) + 1] = read
    BY <1>1, <1>2, <1>3 DEF read
<1>5. OutputTypeOK'
    <2>1. Len(terminal') <= TerminalSize
        BY <1>0, <1>2, <1>3, OutputAssumption DEF OutputTypeOK
    <2> QED
        BY <1>1, <1>3, <1>4, <2>1 DEF OutputTypeOK, Piece
<1>6. LoggedInOrder'
    BY <1>1, LoggedStays
<1>7. ASSUME pump # "ended" PROVE Flows' /\ UnitsWhole' /\ PumpRuns'
    <2>1. Flows /\ UnitsWhole /\ PumpRuns
        BY <1>7
    <2>2. H \in Nat /\ H + Len(terminal) = printed /\ \A i \in 1..Len(terminal) : terminal[i] = H + i
        BY <1>2, <2>1, EndsAreNumbers DEF Flows, Follows
    <2>3. Heard' = Heard /\ Held' = Held
        BY <1>1 DEF Heard, Held, LastOf
    <2>4. \A k \in 0..Len(handed) : HandedUpTo(k)' = HandedUpTo(k)
        BY <1>2, <1>4, <2>3 DEF HandedUpTo
    <2> HIDE DEF H
    <2>5. ASSUME NEW k, k = Len(handed) + 1 PROVE HandedUpTo(k)' = H + n
        <3>1. k # 0 /\ read[n] = H + n
            BY <1>0, <1>2, <1>3, <2>2, <2>5
        <3>2. handed'[k] = read /\ Len(read) = n
            BY <1>3, <1>4, <2>5
        <3> QED
            BY <3>1, <3>2 DEF HandedUpTo
    <2>6. Follows(terminal', H + n) /\ H + n + Len(terminal') = printed
        BY <1>0, <1>3, <2>2 DEF Follows
    <2>7. Follows(read, H) /\ read # <<>>
        <3>1. ASSUME NEW i \in 1..Len(read) PROVE read[i] = H + i
            <4>1. i \in 1..n /\ i \in 1..Len(terminal)
                BY <1>0, <1>2, <1>3
            <4> QED
                BY <1>3, <2>2, <4>1
        <3>2. read # <<>>
            BY <1>0, <1>3
        <3> QED
            BY <3>1, <3>2 DEF Follows
    <2>8. ASSUME NEW k \in 1..Len(handed')
          PROVE  handed'[k] # <<>> /\ Follows(handed'[k], HandedUpTo(k - 1)')
        <3>1. CASE k \in 1..Len(handed)
            <4>1. handed[k] # <<>> /\ Follows(handed[k], HandedUpTo(k - 1))
                BY <2>1, <3>1 DEF Flows
            <4>2. k - 1 \in 0..Len(handed)
                BY <1>2, <3>1
            <4> QED
                BY <1>4, <2>4, <3>1, <4>1, <4>2
        <3>2. CASE k = Len(handed) + 1
            <4>1. k - 1 = Len(handed) /\ Len(handed) \in 0..Len(handed)
                BY <1>2, <3>2
            <4> QED
                BY <1>4, <2>4, <2>7, <3>2, <4>1 DEF H
        <3> QED
            BY <1>2, <1>4, <3>1, <3>2
    <2>9. Follows(units, Heard)' /\ Follows(rest, Heard + Len(units))'
        BY <1>1, <2>1, <2>3 DEF Flows, Follows
    <2>10. Flows'
        <3>1. (HandedUpTo(Len(handed)))' = H + n
            <4>1. \A k : k = Len(handed) + 1 => HandedUpTo(k)' = H + n
                BY <2>5
            <4>2. \A k : k = Len(handed') => HandedUpTo(k)' = H + n
                BY <1>4, <4>1
            <4> QED
                BY <4>2 DEF HandedUpTo
        <3> QED
            BY <1>1, <2>6, <2>8, <2>9, <3>1 DEF Flows, Follows
    <2>11. UnitsWhole'
        BY <1>1, <2>1 DEF UnitsWhole, PumpRuns
    <2> QED
        BY <1>1, <2>1, <2>10, <2>11 DEF PumpRuns
<1> QED
    BY <1>1, <1>5, <1>6, <1>7

(* The pump takes what was read.                                           *)
LEMMA PumpTakes ==
    ASSUME OutputInv, TakeRead
    PROVE  OutputInv'
<1> USE DEF OutputInv
<1> DEFINE pieces == rest \o Head(handed)
           done == Complete(pieces)
<1>1. /\ pump = "reading" /\ units = <<>> /\ handed # <<>>
      /\ units' = SubSeq(pieces, 1, done)
      /\ rest' = SubSeq(pieces, done + 1, Len(pieces))
      /\ handed' = Tail(handed)
      /\ UNCHANGED <<harness, printed, lineEnds, terminal, thread, halted, pump, logged, muted>>
    BY DEF TakeRead, PumpReads
<1>2. Flows /\ UnitsWhole /\ PumpRuns /\ OutputTypeOK /\ LoggedInOrder
    BY <1>1
<1>3. /\ rest \in Seq(1..printed) /\ handed \in Seq(Seq(1..printed))
      /\ Len(rest) \in Nat /\ Len(handed) \in Nat /\ Len(handed) >= 1
      /\ handed[1] \in Seq(1..printed) /\ Head(handed) = handed[1] /\ Len(handed[1]) \in Nat
    BY <1>1, OutputShape DEF OutputTypeOK, Piece
<1>4. Heard \in Nat /\ Held \in Nat /\ Held = Heard + Len(rest)
    BY <1>1, <1>3, EndsAreNumbers DEF Held
<1>5. handed[1] # <<>> /\ \A i \in 1..Len(handed[1]) : handed[1][i] = Held + i
    <2>1. handed[1] # <<>> /\ Follows(handed[1], HandedUpTo(1 - 1))
        BY <1>2, <1>3 DEF Flows
    <2>2. HandedUpTo(1 - 1) = Held
        BY DEF HandedUpTo
    <2> QED
        BY <2>1, <2>2 DEF Follows
<1>6. /\ pieces \in Seq(1..printed) /\ Len(pieces) = Len(rest) + Len(handed[1])
      /\ Len(pieces) \in Nat
      /\ \A i \in 1..Len(rest) : pieces[i] = rest[i]
      /\ \A i \in 1..Len(handed[1]) : pieces[Len(rest) + i] = handed[1][i]
    BY <1>3
<1>7. \A i \in 1..Len(pieces) : pieces[i] = Heard + i
    <2>1. \A i \in 1..Len(rest) : rest[i] = Heard + i
        BY <1>1, <1>2, <1>4 DEF Flows, Follows
    <2>2. SUFFICES ASSUME NEW i \in 1..Len(pieces) PROVE pieces[i] = Heard + i
        OBVIOUS
    <2> HIDE DEF pieces
    <2>3. CASE i \in 1..Len(rest)
        BY <1>6, <2>1, <2>3
    <2>4. CASE i \notin 1..Len(rest)
        <3>1. i - Len(rest) \in 1..Len(handed[1]) /\ i = Len(rest) + (i - Len(rest))
            BY <1>3, <1>6, <2>4
        <3>2. pieces[i] = Held + (i - Len(rest))
            BY <1>5, <1>6, <3>1
        <3> QED
            BY <1>3, <1>4, <1>6, <3>2
    <2> QED
        BY <2>3, <2>4
<1> HIDE DEF pieces
<1>8. /\ LastEnd(pieces) \in 0..Len(pieces)
      /\ LastEnd(pieces) = 0 \/ pieces[LastEnd(pieces)] \in lineEnds
      /\ \A m \in LastEnd(pieces) + 1..Len(pieces) : pieces[m] \notin lineEnds
    BY <1>6, LastIsOne DEF Piece
<1>9. MaxBuffer \in Nat
    BY OutputAssumption
<1>10. /\ done \in 0..Len(pieces) /\ done >= LastEnd(pieces)
       /\ Len(pieces) - done <= MaxBuffer
       /\ done = LastEnd(pieces) \/ (done = Len(pieces) /\ done - LastEnd(pieces) > MaxBuffer)
    BY <1>6, <1>8, <1>9 DEF Complete
<1> HIDE DEF done
<1>11. /\ units' \in Seq(1..printed) /\ Len(units') = done
       /\ \A i \in 1..done : units'[i] = pieces[i]
       /\ rest' \in Seq(1..printed) /\ Len(rest') = Len(pieces) - done
       /\ \A i \in 1..Len(rest') : rest'[i] = pieces[done + i]
    <2>1. /\ units' = SubSeq(pieces, 1, done) /\ rest' = SubSeq(pieces, done + 1, Len(pieces))
          /\ pieces \in Seq(1..printed) /\ done \in 0..Len(pieces)
        BY <1>1, <1>6, <1>10
    <2>2. units' \in Seq(1..printed) /\ Len(units') = done /\ \A i \in 1..done : units'[i] = pieces[i]
        BY <2>1, Cut
    <2>3. /\ rest' \in Seq(1..printed) /\ Len(rest') = Len(pieces) - done
          /\ \A i \in 1..Len(pieces) - done : rest'[i] = pieces[done + i]
        BY <2>1, Cut
    <2> QED
        BY <2>2, <2>3
<1>12. /\ handed' \in Seq(Seq(1..printed)) /\ Len(handed') = Len(handed) - 1
       /\ \A k \in 1..Len(handed') : handed'[k] = handed[k + 1]
    BY <1>1, <1>3
<1>13. OutputTypeOK'
    BY <1>1, <1>2, <1>10, <1>11, <1>12 DEF OutputTypeOK, Piece
<1>14. LoggedInOrder'
    BY <1>1, LoggedStays
<1>15. Heard' = Heard /\ Held' = Heard + Len(pieces)
    <2>1. Heard' = Heard
        BY <1>1 DEF Heard, LastOf
    <2>2. Len(units') = done /\ Len(rest') = Len(pieces) - done
        BY <1>11
    <2>3. Heard \in Int /\ done \in Int /\ Len(pieces) \in Int
        BY <1>4, <1>6, <1>10
    <2> QED
        BY <2>1, <2>2, <2>3 DEF Held
<1>16. \A k \in 0..Len(handed') : HandedUpTo(k)' = HandedUpTo(k + 1)
    <2> SUFFICES ASSUME NEW k \in 0..Len(handed') PROVE HandedUpTo(k)' = HandedUpTo(k + 1)
        OBVIOUS
    <2>1. CASE k = 0
        <3>1. Len(handed[1]) >= 1 /\ handed[1][Len(handed[1])] = Held + Len(handed[1])
            BY <1>3, <1>5
        <3>2. HandedUpTo(k)' = Heard + Len(pieces)
            BY <1>15, <2>1 DEF HandedUpTo
        <3>3. HandedUpTo(k + 1) = handed[1][Len(handed[1])]
            <4>1. k + 1 = 1 /\ k + 1 # 0
                BY <2>1
            <4> QED
                BY <4>1 DEF HandedUpTo
        <3>4. Heard + Len(pieces) = Held + Len(handed[1])
            <4>1. /\ Held = Heard + Len(rest) /\ Len(pieces) = Len(rest) + Len(handed[1])
                  /\ Heard \in Int /\ Len(rest) \in Int /\ Len(handed[1]) \in Int
                BY <1>3, <1>4, <1>6
            <4>2. Held + Len(handed[1]) = (Heard + Len(rest)) + Len(handed[1])
                BY <4>1
            <4>3. Heard + Len(pieces) = Heard + (Len(rest) + Len(handed[1]))
                BY <4>1
            <4>4. \A a, b, c \in Int : a + (b + c) = (a + b) + c
                OBVIOUS
            <4>5. Heard + (Len(rest) + Len(handed[1])) = (Heard + Len(rest)) + Len(handed[1])
                BY <4>1, <4>4, Zenon
            <4> QED
                BY <4>2, <4>3, <4>5
        <3> QED
            BY <3>1, <3>2, <3>3, <3>4
    <2>2. CASE k # 0
        <3>1. k \in 1..Len(handed') /\ k + 1 # 0
            BY <1>3, <1>12, <2>2
        <3> QED
            BY <1>12, <2>2, <3>1 DEF HandedUpTo
    <2> QED
        BY <2>1, <2>2
<1>17. Flows'
    <2>1. Follows(units, Heard)' /\ Follows(rest, Heard + Len(units))'
        <3>1. ASSUME NEW i \in 1..Len(units') PROVE units'[i] = Heard + i
            <4>1. i \in 1..done /\ i \in 1..Len(pieces)
                BY <1>6, <1>10, <1>11
            <4> QED
                BY <1>7, <1>11, <4>1
        <3>2. ASSUME NEW i \in 1..Len(rest') PROVE rest'[i] = Heard + Len(units') + i
            <4>1. done + i \in 1..Len(pieces)
                BY <1>6, <1>10, <1>11
            <4>2. rest'[i] = Heard + (done + i)
                BY <1>7, <1>11, <4>1
            <4> QED
                BY <1>4, <1>6, <1>10, <1>11, <4>2
        <3> QED
            BY <1>15, <3>1, <3>2 DEF Follows
    <2>2. ASSUME NEW k \in 1..Len(handed')
          PROVE  handed'[k] # <<>> /\ Follows(handed'[k], HandedUpTo(k - 1)')
        <3>1. /\ k + 1 \in 1..Len(handed) /\ k - 1 \in 0..Len(handed')
              /\ (k - 1) + 1 = (k + 1) - 1
            BY <1>3, <1>12
        <3>2. handed[k + 1] # <<>> /\ Follows(handed[k + 1], HandedUpTo((k + 1) - 1))
            BY <1>2, <3>1 DEF Flows
        <3>3. HandedUpTo(k - 1)' = HandedUpTo((k + 1) - 1)
            BY <1>16, <3>1
        <3> QED
            BY <1>12, <3>2, <3>3
    <2>3. (HandedUpTo(Len(handed)))' = HandedUpTo(Len(handed))
        BY <1>3, <1>12, <1>16
    <2>4. Follows(terminal, HandedUpTo(Len(handed)))' /\ (HandedUpTo(Len(handed)) + Len(terminal) = printed)'
        BY <1>1, <1>2, <2>3 DEF Flows, Follows
    <2> QED
        BY <2>1, <2>2, <2>4 DEF Flows, Follows
<1>18. UnitsWhole'
    <2>1. ASSUME NEW i \in 1..Len(rest') PROVE rest'[i] \notin lineEnds
        <3>1. done + i \in LastEnd(pieces) + 1..Len(pieces)
            BY <1>6, <1>8, <1>10, <1>11
        <3> QED
            BY <1>8, <1>11, <3>1
    <2>2. units' # <<>> =>
            \E m \in 0..Len(units') :
                /\ m = Len(units') \/ Len(units') - m > MaxBuffer
                /\ m = 0 \/ units'[m] \in lineEnds
                /\ \A i \in m + 1..Len(units') : units'[i] \notin lineEnds
        <3> DEFINE m == LastEnd(pieces)
        <3>1. m \in 0..Len(units') /\ (m = Len(units') \/ Len(units') - m > MaxBuffer)
            BY <1>8, <1>10, <1>11
        <3>2. m = 0 \/ units'[m] \in lineEnds
            BY <1>8, <1>10, <1>11
        <3>3. \A i \in m + 1..Len(units') : units'[i] \notin lineEnds
            <4> SUFFICES ASSUME NEW i \in m + 1..Len(units') PROVE units'[i] \notin lineEnds
                OBVIOUS
            <4>1. i \in 1..done /\ i \in LastEnd(pieces) + 1..Len(pieces)
                BY <1>6, <1>8, <1>10, <1>11
            <4> QED
                BY <1>8, <1>11, <4>1
        <3> HIDE DEF m
        <3> QED
            BY <3>1, <3>2, <3>3
    <2> QED
        BY <1>1, <2>1, <2>2 DEF UnitsWhole
<1>19. PumpRuns'
    BY <1>1, <1>2 DEF PumpRuns
<1> QED
    BY <1>1, <1>13, <1>14, <1>17, <1>18, <1>19

(* The pump emits a unit.                                                  *)
LEMMA PumpEmits ==
    ASSUME OutputInv, EmitUnit
    PROVE  OutputInv'
<1> USE DEF OutputInv
<1> DEFINE e == FirstUnit(units)
           unit == SubSeq(units, 1, e)
<1>1. /\ units # <<>> /\ logged' = Append(logged, unit)
      /\ units' = SubSeq(units, e + 1, Len(units))
      /\ pump' = IF pump = "flushing" THEN "ended" ELSE pump
      /\ halted' = (pump' = "ended")
      /\ UNCHANGED <<harness, printed, lineEnds, terminal, thread, handed, rest, muted>>
    BY DEF EmitUnit
<1>2. pump # "ended" /\ Flows /\ UnitsWhole /\ PumpRuns /\ OutputTypeOK /\ LoggedInOrder
    BY <1>1
<1>3. /\ units \in Seq(1..printed) /\ logged \in Seq(Seq(1..printed))
      /\ Len(units) \in Nat /\ Len(logged) \in Nat /\ Len(rest) \in Nat /\ Len(units) >= 1
      /\ Heard \in Nat /\ MaxBuffer \in Nat
    BY <1>1, <1>2, OutputShape, EndsAreNumbers, LastIn DEF OutputTypeOK, Piece
<1>4. /\ e \in 1..Len(units) /\ (units[e] \in lineEnds \/ e = Len(units))
      /\ \A m \in 1..e - 1 : units[m] \notin lineEnds
    BY <1>1, <1>3, FirstIsOne DEF Piece
<1> HIDE DEF e
<1>5. e \in 0..Len(units) /\ e \in Nat /\ e >= 1 /\ e <= Len(units)
    BY <1>3, <1>4
<1>6. unit \in Seq(1..printed) /\ Len(unit) = e /\ \A i \in 1..e : unit[i] = units[i]
    <2>1. units \in Seq(1..printed) /\ e \in 0..Len(units)
        BY <1>3, <1>5
    <2>2. unit \in Seq(1..printed)
        BY <2>1, Cut
    <2>3. Len(unit) = e
        BY <2>1, Cut
    <2>4. \A i \in 1..e : unit[i] = units[i]
        BY <2>1, Cut
    <2> QED
        BY <2>2, <2>3, <2>4
<1>7. /\ units' \in Seq(1..printed) /\ Len(units') = Len(units) - e
      /\ \A i \in 1..Len(units) - e : units'[i] = units[e + i]
    BY <1>1, <1>3, <1>5, Cut
<1> HIDE DEF unit
<1>8. /\ logged' \in Seq(Seq(1..printed)) /\ Len(logged') = Len(logged) + 1
      /\ \A k \in 1..Len(logged) : logged'[k] = logged[k]
      /\ \A k : k = Len(logged) + 1 => logged'[k] = unit
      /\ DOMAIN logged' = 1..Len(logged) + 1
    BY <1>1, <1>3, <1>6, AppendProperties
<1>9. \A i \in 1..Len(units) : units[i] = Heard + i
    BY <1>2 DEF Flows, Follows
<1>10. \A k \in 0..Len(logged) : LastOf(k)' = LastOf(k)
    <2> SUFFICES ASSUME NEW k \in 0..Len(logged) PROVE LastOf(k)' = LastOf(k)
        OBVIOUS
    <2>1. k = 0 \/ k \in 1..Len(logged)
        BY <1>3
    <2>2. k # 0 => logged'[k] = logged[k]
        BY <1>8, <2>1
    <2> QED
        BY <2>2 DEF LastOf
<1>11. Heard' = Heard + e /\ Held' = Held
    <2>1. Len(logged') # 0 /\ unit[e] = Heard + e
        BY <1>3, <1>4, <1>5, <1>6, <1>8, <1>9
    <2>2. Heard' = Heard + e
        <3>1. logged'[Len(logged')] = unit
            BY <1>8
        <3> QED
            BY <1>6, <2>1, <3>1 DEF Heard, LastOf
    <2>3. /\ Len(units') = Len(units) - e /\ rest' = rest /\ e \in Int
          /\ Len(units) \in Int /\ Len(rest) \in Int /\ Heard \in Int
        BY <1>1, <1>3, <1>5, <1>7
    <2> QED
        BY <2>2, <2>3 DEF Held
<1>12. OutputTypeOK'
    BY <1>1, <1>2, <1>7, <1>8 DEF OutputTypeOK, Piece
<1>13. ASSUME units[e] \notin lineEnds
       PROVE  e = Len(units) /\ (e > MaxBuffer \/ (harness = "dead" /\ units[e] = printed))
    <2>1. e = Len(units) /\ \A m \in 1..Len(units) : units[m] \notin lineEnds
        BY <1>3, <1>4, <1>5, <1>13
    <2>2. CASE pump = "reading"
        <3>1. PICK m \in 0..Len(units) :
                    /\ m = Len(units) \/ Len(units) - m > MaxBuffer
                    /\ m = 0 \/ units[m] \in lineEnds
            BY <1>1, <1>2, <2>2 DEF UnitsWhole
        <3>2. m = 0
            BY <1>3, <2>1, <3>1
        <3> QED
            BY <1>3, <2>1, <3>1, <3>2
    <2>3. CASE pump = "flushing"
        <3>1. handed = <<>> /\ rest = <<>> /\ terminal = <<>> /\ harness = "dead"
            BY <1>2, <2>3 DEF UnitsWhole, PumpRuns
        <3>2. Heard + Len(units) = printed
            BY <1>2, <1>3, <3>1 DEF Flows, Held, HandedUpTo
        <3> QED
            BY <1>4, <1>9, <2>1, <3>1, <3>2
    <2> QED
        BY <1>2, <2>2, <2>3 DEF OutputTypeOK
<1>14. LoggedInOrder'
    <2> SUFFICES ASSUME NEW k \in 1..Len(logged) + 1
                 PROVE  LET that == logged'[k]
                            last == Len(that)
                        IN  /\ last > 0
                            /\ \A n \in 1..last : that[n] = LastOf(k - 1)' + n
                            /\ \A n \in 1..last - 1 : that[n] \notin lineEnds
                            /\ \/ that[last] \in lineEnds
                               \/ last > MaxBuffer
                               \/ harness = "dead" /\ that[last] = printed
        BY <1>1, <1>8 DEF LoggedInOrder
    <2>1. CASE k \in 1..Len(logged)
        <3>1. k - 1 \in 0..Len(logged) /\ logged'[k] = logged[k] /\ k \in DOMAIN logged
            BY <1>3, <1>8, <2>1
        <3>2. LastOf(k - 1)' = LastOf(k - 1)
            BY <1>10, <3>1
        <3> DEFINE that == logged[k]
                   last == Len(that)
        <3>3. /\ last > 0
              /\ \A n \in 1..last : that[n] = LastOf(k - 1) + n
              /\ \A n \in 1..last - 1 : that[n] \notin lineEnds
              /\ \/ that[last] \in lineEnds
                 \/ last > MaxBuffer
                 \/ harness = "dead" /\ that[last] = printed
            BY <1>2, <3>1 DEF LoggedInOrder
        <3> QED
            BY <3>1, <3>2, <3>3
    <2>2. CASE k = Len(logged) + 1
        <3>1. k - 1 = Len(logged) /\ logged'[k] = unit
            BY <1>3, <1>8, <2>2
        <3>2. LastOf(k - 1)' = Heard
            <4>1. k - 1 \in 0..Len(logged)
                BY <1>3, <3>1
            <4>2. LastOf(k - 1)' = LastOf(k - 1)
                BY <1>10, <4>1
            <4>3. LastOf(k - 1) = Heard
                BY <3>1 DEF Heard, LastOf
            <4> QED
                BY <4>2, <4>3
        <3>3. \A n \in 1..e : unit[n] = Heard + n
            <4> SUFFICES ASSUME NEW n \in 1..e PROVE unit[n] = Heard + n
                OBVIOUS
            <4>1. n \in 1..Len(units)
                BY <1>3, <1>5
            <4> QED
                BY <1>6, <1>9, <4>1
        <3>4. \A n \in 1..e - 1 : unit[n] \notin lineEnds
            BY <1>4, <1>5, <1>6
        <3>5. unit[e] = units[e]
            BY <1>5, <1>6
        <3> QED
            BY <1>5, <1>6, <1>13, <3>1, <3>2, <3>3, <3>4, <3>5
    <2> QED
        BY <1>3, <2>1, <2>2
<1>15. CASE pump = "flushing"
    <2>1. pump' = "ended" /\ rest' = <<>>
        BY <1>1, <1>2, <1>15 DEF UnitsWhole
    <2>2. e = Len(units)
        BY <1>2, <1>4, <1>15 DEF UnitsWhole
    <2>3. units' = <<>>
        BY <1>3, <1>7, <2>2
    <2> QED
        BY <1>12, <1>14, <2>1, <2>3
<1>16. CASE pump = "reading"
    <2>1. pump' = "reading"
        BY <1>1, <1>16
    <2>2. Flows'
        <3>1. \A k \in 0..Len(handed) : HandedUpTo(k)' = HandedUpTo(k)
            BY <1>1, <1>11 DEF HandedUpTo
        <3>2. Follows(units, Heard)'
            <4> SUFFICES ASSUME NEW i \in 1..Len(units') PROVE units'[i] = Heard + e + i
                BY <1>11 DEF Follows
            <4>1. e + i \in 1..Len(units) /\ i \in 1..Len(units) - e
                BY <1>3, <1>5, <1>7
            <4> QED
                BY <1>3, <1>5, <1>7, <1>9, <4>1
        <3>3. Follows(rest, Heard + Len(units))'
            <4>1. Heard' + Len(units') = Heard + Len(units)
                BY <1>3, <1>5, <1>7, <1>11
            <4> QED
                BY <1>1, <1>2, <4>1 DEF Flows, Follows
        <3>4. ASSUME NEW k \in 1..Len(handed)
              PROVE  handed[k] # <<>> /\ Follows(handed[k], HandedUpTo(k - 1)')
            <4>1. k - 1 \in 0..Len(handed)
                BY <1>2, OutputShape
            <4> QED
                BY <1>2, <3>1, <4>1 DEF Flows
        <3>5. (HandedUpTo(Len(handed)))' = HandedUpTo(Len(handed))
            BY <1>1, <1>11 DEF HandedUpTo
        <3> QED
            BY <1>1, <1>2, <3>2, <3>3, <3>4, <3>5 DEF Flows, Follows
    <2>3. UnitsWhole'
        <3>1. PICK m \in 0..Len(units) :
                    /\ m = Len(units) \/ Len(units) - m > MaxBuffer
                    /\ m = 0 \/ units[m] \in lineEnds
                    /\ \A i \in m + 1..Len(units) : units[i] \notin lineEnds
            BY <1>1, <1>2, <1>16 DEF UnitsWhole
        <3>2. CASE e = Len(units)
            <4>1. units' = <<>>
                BY <1>3, <1>7, <3>2
            <4> QED
                BY <1>1, <1>2, <2>1, <4>1 DEF UnitsWhole
        <3>3. CASE e # Len(units)
            <4>1. units[e] \in lineEnds
                BY <1>4, <3>3
            <4>2. e <= m
                BY <1>3, <1>5, <3>1, <4>1
            <4> DEFINE d == m - e
            <4>3. /\ d \in 0..Len(units')
                  /\ d = Len(units') \/ Len(units') - d > MaxBuffer
                BY <1>3, <1>5, <1>7, <3>1, <4>2
            <4>4. d = 0 \/ units'[d] \in lineEnds
                <5>1. d # 0 => d \in 1..Len(units) - e /\ e + d = m /\ m # 0
                    BY <1>3, <1>5, <3>1, <4>2
                <5> QED
                    BY <1>7, <3>1, <5>1
            <4>5. ASSUME NEW i \in d + 1..Len(units') PROVE units'[i] \notin lineEnds
                <5>1. i \in 1..Len(units) - e /\ e + i \in m + 1..Len(units)
                    BY <1>3, <1>5, <1>7, <3>1, <4>2
                <5> QED
                    BY <1>7, <3>1, <5>1
            <4> HIDE DEF d
            <4> QED
                BY <1>1, <1>2, <2>1, <4>3, <4>4, <4>5 DEF UnitsWhole
        <3> QED
            BY <3>2, <3>3
    <2>4. PumpRuns'
        BY <1>1, <1>2, <1>16 DEF PumpRuns
    <2> QED
        BY <1>12, <1>14, <2>1, <2>2, <2>3, <2>4
<1> QED
    BY <1>2, <1>15, <1>16 DEF OutputTypeOK

(* The pump ends: by itself, or not.                                       *)
LEMMA PumpStops ==
    ASSUME OutputInv, TakeEnd \/ EmitUnitFails \/ CancelPump
    PROVE  OutputInv'
<1> USE DEF OutputInv
<1>1. CASE EmitUnitFails \/ CancelPump
    <2>1. /\ UNCHANGED <<harness, printed, lineEnds, terminal, thread, handed, logged>>
          /\ pump' = "ended" /\ halted' = TRUE /\ units' = <<>> /\ rest' = <<>>
          /\ muted' \in {"failed", "stopped"}
        BY <1>1 DEF EmitUnitFails, CancelPump, PumpEnds
    <2>2. <<>> \in Seq(Piece) /\ Len(<<>>) <= MaxBuffer
        BY OutputAssumption
    <2>3. OutputTypeOK'
        BY <2>1, <2>2 DEF OutputTypeOK, Piece
    <2>4. LoggedInOrder'
        BY <2>1, LoggedStays
    <2> QED
        BY <2>1, <2>3, <2>4
<1>2. CASE TakeEnd
    <2>1. /\ pump = "reading" /\ units = <<>> /\ handed = <<>> /\ thread = "ended"
          /\ units' = rest /\ rest' = <<>>
          /\ pump' = IF rest = <<>> THEN "ended" ELSE "flushing"
          /\ halted' = (rest = <<>>)
          /\ UNCHANGED <<harness, printed, lineEnds, terminal, thread, handed, logged, muted>>
        BY <1>2 DEF TakeEnd, PumpReads
    <2>2. Flows /\ UnitsWhole /\ PumpRuns /\ OutputTypeOK
        BY <2>1
    <2>3. <<>> \in Seq(Piece) /\ Len(<<>>) <= MaxBuffer /\ Len(<<>>) = 0
        BY OutputAssumption
    <2>4. OutputTypeOK'
        BY <2>1, <2>2, <2>3 DEF OutputTypeOK, Piece
    <2>5. LoggedInOrder'
        BY <2>1, LoggedStays
    <2>6. ASSUME rest # <<>> PROVE Flows' /\ UnitsWhole' /\ PumpRuns'
        <3>1. pump' = "flushing"
            BY <2>1, <2>6
        <3>2. Heard' = Heard /\ Held' = Held /\ Heard \in Nat /\ Len(units) = 0
            BY <2>1, <2>2, <2>3, EndsAreNumbers, OutputShape DEF Heard, Held, LastOf
        <3>3. Flows'
            <4>1. Follows(units, Heard)' /\ Follows(rest, Heard + Len(units))'
                BY <2>1, <2>2, <2>3, <3>2 DEF Flows, Follows
            <4>2. HandedUpTo(Len(handed)) = Held /\ (HandedUpTo(Len(handed)))' = Held
                BY <2>1, <2>3, <3>2 DEF HandedUpTo
            <4> QED
                BY <2>1, <2>2, <2>3, <4>1, <4>2 DEF Flows, Follows
        <3>4. UnitsWhole'
            BY <2>1, <2>2, <2>3, <2>6, <3>1 DEF UnitsWhole
        <3>5. PumpRuns'
            BY <2>1, <2>2, <2>6 DEF PumpRuns
        <3> QED
            BY <3>3, <3>4, <3>5
    <2> QED
        BY <2>1, <2>4, <2>5, <2>6
<1> QED
    BY <1>1, <1>2

LEMMA OutputStep == OutputInv /\ [OutputNext]_outputVars => OutputInv'
<1> SUFFICES ASSUME OutputInv, [OutputNext]_outputVars PROVE OutputInv'
    OBVIOUS
<1>1. ASSUME \/ \E ends \in BOOLEAN : PrintPiece(ends)
             \/ HarnessDies \/ ReadOn \/ ThreadEnds \/ StopHarness
      PROVE  OutputInv'
    <2>1. UNCHANGED <<handed, rest, units, pump, logged, muted, halted>>
        BY <1>1 DEF PrintPiece, HarnessDies, ReadOn, ThreadEnds, StopHarness
    <2> QED
        BY <1>1, <2>1, PumpAlone
<1>2. CASE \E n \in 1..TerminalSize : ReadTerminal(n)
    BY <1>2, ThreadReads
<1>3. CASE UNCHANGED outputVars
    <2>1. OutputTypeOK' /\ LoggedInOrder'
        BY <1>3 DEF outputVars, OutputInv, OutputTypeOK, Piece, LoggedInOrder, LastOf
    <2>2. (Flows' <=> Flows) /\ (UnitsWhole' <=> UnitsWhole) /\ (PumpRuns' <=> PumpRuns)
        BY <1>3 DEF outputVars, Flows, Follows, Heard, Held, HandedUpTo, LastOf, UnitsWhole,
            PumpRuns
    <2> QED
        BY <1>3, <2>1, <2>2 DEF outputVars, OutputInv
<1> QED
    BY <1>1, <1>2, <1>3, PumpTakes, PumpEmits, PumpStops DEF OutputNext

(* For terminals, buffers and outputs of any size, whatever fails or is    *)
(* stopped: the log is the beginning of what the harness printed, line by  *)
(* line (_iter_pty_text, _ChunkAssembler, _pump_output).                   *)
THEOREM OutputInOrder == OutputSpec => []LoggedInOrder
<1>1. OutputInv => LoggedInOrder
    BY DEF OutputInv
<1> QED
    BY <1>1, OutputStarts, OutputStep, PTL DEF OutputSpec

(* The pump never keeps more of a line than its buffer holds, and nothing  *)
(* anywhere was not printed (_ChunkAssembler.feed).                        *)
THEOREM OutputTyped == OutputSpec => []OutputTypeOK
<1>1. OutputInv => OutputTypeOK
    BY DEF OutputInv
<1> QED
    BY <1>1, OutputStarts, OutputStep, PTL DEF OutputSpec

-----------------------------------------------------------------------------
(* The process as a whole.                                                 *)

(* What is kept of each part, while at most one of them moves.             *)
ServiceInv ==
    /\ ClientInv /\ NegotiationInv /\ NegotiationTypeOK /\ DaemonTypeOK
    /\ InboundInv /\ EachPostCounts /\ OutputInv /\ ControlInv /\ PollInv /\ PollTyped

LEMMA ServiceMoves ==
    [ServiceNext]_serviceVars =>
        /\ [ClientNext]_relayClientVars /\ [NegotiationNext]_negotiationVars
        /\ [DaemonNext]_daemonVars /\ [InboundNext]_inboundVars /\ [OutputNext]_outputVars
        /\ [ControlNext]_controlVars /\ [PollNext]_pollVars
BY DEF ServiceNext, OnlyPart, serviceVars

(* The daemon as a process, and the dashboard that watches it, keep to     *)
(* their types, for any lanes, clients, messages and limits.               *)
THEOREM ServiceTyped == ServiceSpec => []ServiceTypeOK
<1>1. ServiceInit => ServiceInv
    BY ClientStarts, NegotiationStarts, NegotiationIsTyped, DaemonStarts, InboundStarts,
        EachPostCountsStarts, OutputStarts, ControlStarts, PollStarts
        DEF ServiceInit, ServiceInv
<1>2. ServiceInv /\ [ServiceNext]_serviceVars => ServiceInv'
    <2>1. ClientInv /\ [ClientNext]_relayClientVars => ClientInv'
        BY ClientStep
    <2> QED
        BY <2>1, ServiceMoves, NegotiationStep, NegotiationMoves, DaemonTyped, InboundStep,
            EachPostCountsStep, OutputStep, ControlStep, PollStep, PollMoves
            DEF ServiceInv
<1>3. ServiceInv => ServiceTypeOK
    <2>1. ControlInv => ControlTypeOK
        BY DEF ControlInv, ControlTyped, ControlTypeOK, Frames
    <2>2. (ClientInv => ClientTypeOK) /\ (OutputInv => OutputTypeOK)
        BY DEF ClientInv, OutputInv
    <2> QED
        BY <2>1, <2>2, InboundIsTyped, PollIsTyped DEF ServiceInv, ServiceTypeOK
<1> QED
    BY <1>1, <1>2, <1>3, PTL DEF ServiceSpec
=============================================================================
