------------------------------ MODULE PlanBoard ------------------------------
(***************************************************************************)
(* The plan of a session, edited by the daemon's plan and handoff commands.*)
(*                                                                         *)
(* Every command reads the session's plan and then its steps into objects  *)
(* of its own, changes those, and writes the plan and all of its steps     *)
(* back.  SQLite's write lock makes the writing atomic, but a SELECT takes *)
(* no lock: between reading and writing, which a planner's answer can make *)
(* long, other commands write.  Rows of steps are never deleted.           *)
(***************************************************************************)
EXTENDS Integers, FiniteSets

CONSTANTS
    Commands,       \* commands being handled
    Lanes,          \* lanes that take and are handed steps
    Teammates,      \* people a step can be assigned to
    Nobody,         \* the empty owner
    Plans,          \* ids a new plan may be given
    Steps,          \* ids a new step may be given
    MaxVersion      \* bound: edits of a plan

ASSUME PlanMarkers == Nobody \notin Lanes \cup Teammates
ASSUME PlanBounds == IsFiniteSet(Steps) /\ MaxVersion \in Nat

VARIABLES
    version,        \* version of each plan's row, 0 without a row
    step,           \* rows of plan steps
    command         \* what each command has read

planVars == <<version, step, command>>

Owners == Lanes \cup Teammates \cup {Nobody}

Stored == DOMAIN step
StepsOf(p) == {s \in Stored : step[s].plan = p}

NoSteps == [s \in {} |-> {}]
Idle == [stage |-> "idle", plan |-> {}, version |-> 0, steps |-> NoSteps]

(* Plans that plan_for_session may return: those of the highest version.   *)
Current == {p \in Plans : version[p] > 0 /\ \A q \in Plans : version[q] <= version[p]}

-----------------------------------------------------------------------------
PlanInit ==
    /\ version = [p \in Plans |-> 0]
    /\ step = NoSteps
    /\ command = [c \in Commands |-> Idle]

(* plan_for_session: the row of the plan is read, or the session has none. *)
ReadPlan(c) ==
    /\ command[c].stage = "idle"
    /\ \/ /\ Current = {}
          /\ command' = [command EXCEPT ![c] = [Idle EXCEPT !.stage = "read"]]
       \/ \E p \in Current :
            command' = [command EXCEPT ![c] =
                [Idle EXCEPT !.stage = "plan", !.plan = {p}, !.version = version[p]]]
    /\ UNCHANGED <<version, step>>

(* Its steps are read, in a statement of their own.                        *)
ReadSteps(c) ==
    /\ command[c].stage = "plan"
    /\ command' = [command EXCEPT
        ![c].stage = "read",
        ![c].steps = [s \in {t \in Stored : step[t].plan \in command[c].plan} |-> step[s]]]
    /\ UNCHANGED <<version, step>>

(* The command ends without writing: there is no plan or no such step, a   *)
(* check refuses, the database stays locked, or it only reads.             *)
Gives(c) ==
    /\ command[c].stage = "read"
    /\ command' = [command EXCEPT ![c] = Idle]
    /\ UNCHANGED <<version, step>>

(* save_plan: the row of the plan, then every step of the object.          *)
SavePlan(c, p, number, steps) ==
    /\ number <= MaxVersion
    /\ version' = [version EXCEPT ![p] = number]
    /\ step' = [s \in Stored \cup DOMAIN steps |->
                    IF s \in DOMAIN steps THEN steps[s] ELSE step[s]]
    /\ command' = [command EXCEPT ![c] = Idle]

(* The plan a command edits, or a new one.                                 *)
Target(c) ==
    IF command[c].plan # {} THEN command[c].plan ELSE {p \in Plans : version[p] = 0}

Edited(c) == IF command[c].plan # {} THEN command[c].version + 1 ELSE 2

(* Mutant of the test below: references are not looked up.                 *)
RunnableAlways(c, deps) == TRUE

(* validate_references for the new step: what it depends on is in the plan,*)
(* and a step with a fresh id closes no cycle.                             *)
Runnable(c, deps) == deps \subseteq DOMAIN command[c].steps

AddStep(c, new, deps) ==
    /\ command[c].stage = "read"
    /\ new \notin Stored
    /\ Runnable(c, deps)
    /\ \E p \in Target(c) :
        SavePlan(c, p, Edited(c),
            [s \in DOMAIN command[c].steps \cup {new} |->
                IF s = new
                THEN [plan |-> p, deps |-> deps,
                      order |-> Cardinality(DOMAIN command[c].steps),
                      owner |-> Nobody, started |-> FALSE]
                ELSE command[c].steps[s]])

(* The object loses the step and the references to it; its row stays.      *)
RemoveStep(c, s) ==
    LET steps == command[c].steps IN
    /\ command[c].stage = "read"
    /\ s \in DOMAIN steps
    /\ \E p \in command[c].plan :
        SavePlan(c, p, command[c].version + 1,
            [t \in DOMAIN steps \ {s} |-> [steps[t] EXCEPT !.deps = @ \ {s}]])

(* Mutant: nobody looks at the owner.                                      *)
FreeForAll(row, lane) == TRUE

Free(row, lane) == row.owner \in {Nobody, lane}

(* plan_take: claim and start.                                             *)
Take(c, s, lane) ==
    /\ command[c].stage = "read"
    /\ s \in DOMAIN command[c].steps
    /\ Free(command[c].steps[s], lane)
    /\ \E p \in command[c].plan :
        SavePlan(c, p, command[c].version,
            [command[c].steps EXCEPT ![s].owner = lane, ![s].started = TRUE])

(* handoff_execute to a lane, handoff_assign to a teammate: nothing starts.*)
HandOff(c, s, to) ==
    /\ command[c].stage = "read"
    /\ s \in DOMAIN command[c].steps
    /\ \E p \in command[c].plan :
        SavePlan(c, p, command[c].version,
            [command[c].steps EXCEPT ![s].owner = to])

(* plan_generate: the object gets the planner's steps, but only the row of *)
(* the plan is saved.  It refuses a plan with steps unless forced, which   *)
(* makes no difference to what is written.                                 *)
Generate(c) ==
    /\ command[c].stage = "read"
    /\ \E p \in Target(c) : SavePlan(c, p, Edited(c), << >>)

PlanNext ==
    \E c \in Commands :
        \/ ReadPlan(c)
        \/ ReadSteps(c)
        \/ Gives(c)
        \/ \E s \in Steps, deps \in SUBSET Steps : AddStep(c, s, deps)
        \/ \E s \in Steps : RemoveStep(c, s)
        \/ \E s \in Steps, lane \in Lanes : Take(c, s, lane)
        \/ \E s \in Steps, to \in Lanes \cup Teammates : HandOff(c, s, to)
        \/ Generate(c)

PlanSpec == PlanInit /\ [][PlanNext]_planVars

-----------------------------------------------------------------------------
StepRow ==
    [plan : Plans, deps : SUBSET Steps, order : Nat, owner : Owners, started : BOOLEAN]

IsRows(f) == DOMAIN f \subseteq Steps /\ \A s \in DOMAIN f : f[s] \in StepRow

(* Type correctness; a step is stored only under a plan that has a row.    *)
PlanTypeOK ==
    /\ version \in [Plans -> 0 .. MaxVersion]
    /\ IsRows(step)
    /\ \A s \in Stored : version[step[s].plan] > 0
    /\ DOMAIN command = Commands
    /\ \A c \in Commands :
        /\ DOMAIN command[c] = DOMAIN Idle
        /\ command[c].stage \in {"idle", "plan", "read"}
        /\ command[c].plan \in SUBSET Plans
        /\ command[c].version \in 0 .. MaxVersion
        /\ IsRows(command[c].steps)

(* However commands overlap, the stored steps can be run in their stored   *)
(* order: what a step depends on is a step of the same plan that comes     *)
(* before it.  No command leaves a reference to nothing, or a cycle.       *)
DependenciesFirst ==
    \A s \in Stored : \A d \in step[s].deps :
        /\ d \in StepsOf(step[s].plan)
        /\ step[d].order < step[s].order

Writes(c) == command[c].stage = "read" /\ command'[c].stage = "idle"

Owned(s) == s \in Stored /\ step[s].owner # Nobody

HandedOff(c, s) == Writes(c) /\ \E to \in Lanes \cup Teammates : HandOff(c, s, to)

(* A step changes hands by a handoff, or through a command that read the   *)
(* step before its owner got it, and by nothing else: neither a take nor an*)
(* edit of the plan takes an owned step from its owner knowingly.          *)
LostOnlyToStaleCopy ==
    [][\A s \in Steps :
        Owned(s) /\ step'[s].owner # step[s].owner =>
            \E c \in Commands :
                \/ HandedOff(c, s)
                \/ /\ Writes(c)
                   /\ s \in DOMAIN command[c].steps
                   /\ command[c].steps[s].owner # step[s].owner]_planVars
=============================================================================
