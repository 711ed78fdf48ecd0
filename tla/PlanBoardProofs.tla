--------------------------- MODULE PlanBoardProofs ---------------------------
(***************************************************************************)
(* What the plan promises for any number of commands, lanes and plans.     *)
(*                                                                         *)
(* Commands write back copies that may be old.  That the steps of a plan   *)
(* can still be run in order rests on what no command ever changes in a    *)
(* row, its plan and its place, and on rows never being deleted: an old    *)
(* copy has the same places, and a step added to it comes after all of it. *)
(***************************************************************************)
EXTENDS PlanBoard, FiniteSetTheorems, TLAPS

(* What s depends on is stored in the plan of s, and before it, if deps is *)
(* what s depends on.                                                      *)
Before(s, deps) ==
    \A d \in deps :
        d \in Stored /\ step[d].plan = step[s].plan /\ step[d].order < step[s].order

(* The places of a plan's steps are below their number.                    *)
PlacesFilled ==
    \A s \in Stored : step[s].order < Cardinality(StepsOf(step[s].plan))

(* A copy, however old, has the plan and the places of the rows, is of one *)
(* plan, and was complete when it was made.                                *)
CopyFits(c) ==
    \A s \in DOMAIN command[c].steps :
        /\ s \in Stored
        /\ step[s].plan \in command[c].plan
        /\ command[c].steps[s].plan = step[s].plan
        /\ command[c].steps[s].order = step[s].order
        /\ step[s].order < Cardinality(DOMAIN command[c].steps)
        /\ Before(s, command[c].steps[s].deps)

(* A command works on one plan that has a row, or on none.                 *)
OnePlan(c) ==
    \A p \in command[c].plan :
        /\ command[c].plan = {p}
        /\ version[p] > 0 /\ command[c].version > 0

PlanInv ==
    /\ PlanTypeOK
    /\ DependenciesFirst
    /\ PlacesFilled
    /\ \A c \in Commands : CopyFits(c) /\ OnePlan(c)

-----------------------------------------------------------------------------
(* Writing.                                                                *)

(* What a command may write: rows of its copy, with deps that lost nothing *)
(* but members, and perhaps one more step, which comes last.               *)
Writable(c, p, steps) ==
    /\ IsRows(steps)
    /\ \A s \in DOMAIN steps \cap Stored :
        /\ steps[s].plan = step[s].plan
        /\ steps[s].order = step[s].order
        /\ Before(s, steps[s].deps)
    /\ \A s, t \in DOMAIN steps \ Stored : s = t
    /\ \A s \in DOMAIN steps \ Stored :
        /\ steps[s].plan = p
        /\ steps[s].order <= Cardinality(StepsOf(p))
        /\ \A d \in steps[s].deps :
            d \in Stored /\ step[d].plan = p /\ step[d].order < steps[s].order

(* A plan has as many steps as rows of its own, and a step more is one more*)
LEMMA StepsFinite ==
    ASSUME NEW p, PlanTypeOK
    PROVE  IsFiniteSet(StepsOf(p)) /\ Cardinality(StepsOf(p)) \in Nat
<1>1. StepsOf(p) \subseteq Steps
    BY DEF StepsOf, Stored, PlanTypeOK, IsRows, StepRow
<1> QED
    BY <1>1, PlanBounds, FS_Subset, FS_CardinalityType

(* Saving what is writable keeps the invariant.                            *)
LEMMA Saving ==
    ASSUME PlanInv, NEW c \in Commands, NEW p \in Plans, NEW number \in 1 .. MaxVersion,
           NEW steps, Writable(c, p, steps), SavePlan(c, p, number, steps)
    PROVE  PlanInv'
<1>1. /\ Stored' = Stored \cup DOMAIN steps
      /\ \A s \in DOMAIN steps : step'[s] = steps[s]
      /\ \A s \in Stored \ DOMAIN steps : step'[s] = step[s]
    BY DEF SavePlan, Stored
<1>2. /\ version' = [version EXCEPT ![p] = number]
      /\ command' = [command EXCEPT ![c] = Idle]
    BY DEF SavePlan
<1>3. \A s \in Stored : step'[s].plan = step[s].plan /\ step'[s].order = step[s].order
    BY <1>1 DEF Writable
<1>4. \A q \in Plans : version[q] > 0 => version'[q] > 0
    BY <1>2 DEF PlanInv, PlanTypeOK
<1>5. version'[p] > 0
    BY <1>2 DEF PlanInv, PlanTypeOK
<1>6. PlanTypeOK'
    <2>1. version' \in [Plans -> 0 .. MaxVersion]
        BY <1>2, PlanBounds DEF PlanInv, PlanTypeOK
    <2>2. IsRows(step)'
        BY <1>1 DEF PlanInv, PlanTypeOK, Writable, IsRows, StepRow, Stored
    <2>3. \A s \in Stored' : version'[step'[s].plan] > 0
        <3> TAKE s \in Stored'
        <3>1. CASE s \in Stored
            BY <3>1, <1>3, <1>4 DEF PlanInv, PlanTypeOK, IsRows, StepRow, Stored
        <3>2. CASE s \in DOMAIN steps \ Stored
            BY <3>2, <1>1, <1>5 DEF Writable
        <3> QED
            BY <3>1, <3>2, <1>1
    <2>4. \A b \in Commands : command'[b] = IF b = c THEN Idle ELSE command[b]
        BY <1>2 DEF PlanInv, PlanTypeOK
    <2>5. IsRows(NoSteps)
        BY DEF IsRows, StepRow, NoSteps
    <2>6. DOMAIN command' = Commands
        BY <1>2 DEF PlanInv, PlanTypeOK
    <2>7. \A b \in Commands :
            /\ DOMAIN command'[b] = DOMAIN Idle
            /\ command'[b].stage \in {"idle", "plan", "read"}
            /\ command'[b].plan \in SUBSET Plans
            /\ command'[b].version \in 0 .. MaxVersion
            /\ IsRows(command'[b].steps)
        BY <2>4, <2>5, PlanBounds DEF Idle, PlanInv, PlanTypeOK
    <2> QED
        BY <2>1, <2>2, <2>3, <2>6, <2>7 DEF PlanTypeOK, IsRows, StepRow
<1>7. ASSUME NEW s \in Stored, NEW deps, Before(s, deps)
      PROVE  Before(s, deps)'
    BY <1>7, <1>1, <1>3 DEF Before
<1>8. \A q : StepsOf(q) \subseteq StepsOf(q)'
    BY <1>1, <1>3 DEF StepsOf
<1>9. \A q : /\ Cardinality(StepsOf(q)) \in Nat /\ Cardinality(StepsOf(q)') \in Nat
             /\ Cardinality(StepsOf(q)) <= Cardinality(StepsOf(q)')
    <2> TAKE q
    <2>1. IsFiniteSet(StepsOf(q)') /\ Cardinality(StepsOf(q)') \in Nat
        <3>1. StepsOf(q)' \subseteq Steps
            BY <1>6 DEF StepsOf, Stored, PlanTypeOK, IsRows, StepRow
        <3> QED
            BY <3>1, PlanBounds, FS_Subset, FS_CardinalityType
    <2> QED
        BY <2>1, <1>8, StepsFinite, FS_Subset DEF PlanInv
<1>10. DependenciesFirst'
    <2> SUFFICES ASSUME NEW s \in Stored' PROVE Before(s, step[s].deps)'
        BY DEF DependenciesFirst, Before, StepsOf
    <2>1. CASE s \in Stored \ DOMAIN steps
        <3>1. Before(s, step[s].deps)
            BY <2>1 DEF PlanInv, DependenciesFirst, Before, StepsOf
        <3> QED
            BY <2>1, <3>1, <1>1, <1>7
    <2>2. CASE s \in Stored \cap DOMAIN steps
        <3>1. Before(s, steps[s].deps)
            BY <2>2 DEF Writable
        <3> QED
            BY <2>2, <3>1, <1>1, <1>7
    <2>3. CASE s \in DOMAIN steps \ Stored
        <3>1. step'[s] = steps[s] /\ steps[s].plan = p
            BY <2>3, <1>1 DEF Writable
        <3>2. \A d \in steps[s].deps :
                d \in Stored /\ step[d].plan = p /\ step[d].order < steps[s].order
            BY <2>3 DEF Writable
        <3> QED
            BY <3>1, <3>2, <1>1, <1>3 DEF Before
    <2> QED
        BY <2>1, <2>2, <2>3, <1>1
<1>11. PlacesFilled'
    <2> SUFFICES ASSUME NEW s \in Stored'
                 PROVE  (step[s].order < Cardinality(StepsOf(step[s].plan)))'
        BY DEF PlacesFilled
    <2> DEFINE q == step'[s].plan
    <2>0. (step[s].order < Cardinality(StepsOf(step[s].plan)))'
            <=> step'[s].order < Cardinality({t \in Stored' : step'[t].plan = q})
        BY DEF StepsOf
    <2>1. CASE s \in Stored
        <3>1. step[s].order \in Nat
            BY <2>1 DEF PlanInv, PlanTypeOK, IsRows, StepRow, Stored
        <3>2. step[s].order < Cardinality(StepsOf(step[s].plan))
            BY <2>1 DEF PlanInv, PlacesFilled
        <3>3. Cardinality(StepsOf(step[s].plan)) \in Nat
            BY StepsFinite DEF PlanInv
        <3>4. StepsOf(step[s].plan) \subseteq {t \in Stored' : step'[t].plan = q}
            BY <2>1, <1>1, <1>3 DEF StepsOf
        <3>5. IsFiniteSet({t \in Stored' : step'[t].plan = q})
            <4>1. {t \in Stored' : step'[t].plan = q} \subseteq Steps
                BY <1>6 DEF Stored, PlanTypeOK, IsRows, StepRow
            <4> QED
                BY <4>1, PlanBounds, FS_Subset
        <3>6. /\ Cardinality({t \in Stored' : step'[t].plan = q}) \in Nat
              /\ Cardinality(StepsOf(step[s].plan))
                    <= Cardinality({t \in Stored' : step'[t].plan = q})
            BY <3>4, <3>5, FS_Subset, FS_CardinalityType
        <3> HIDE DEF q
        <3> QED
            BY <2>0, <2>1, <3>1, <3>2, <3>3, <3>6, <1>3
    <2>2. CASE s \in DOMAIN steps \ Stored
        <3>1. step'[s].plan = p /\ step'[s].order <= Cardinality(StepsOf(p))
            BY <2>2, <1>1 DEF Writable
        <3>2. step'[s].order \in Nat
            BY <1>6 DEF PlanTypeOK, IsRows, StepRow, Stored
        <3>3. s \in StepsOf(p)' /\ s \notin StepsOf(p)
            BY <2>2, <3>1 DEF StepsOf
        <3>4. IsFiniteSet(StepsOf(p)')
            <4>1. StepsOf(p)' \subseteq Steps
                BY <1>6 DEF StepsOf, Stored, PlanTypeOK, IsRows, StepRow
            <4> QED
                BY <4>1, PlanBounds, FS_Subset
        <3>5. Cardinality(StepsOf(p)) # Cardinality(StepsOf(p)')
            BY <3>3, <3>4, <1>8, FS_Subset
        <3>6. StepsOf(p)' = {t \in Stored' : step'[t].plan = q}
            BY <3>1 DEF StepsOf
        <3> HIDE DEF q
        <3> QED
            BY <2>0, <3>1, <3>2, <3>5, <3>6, <1>9
    <2> QED
        BY <2>1, <2>2, <1>1
<1>12. ASSUME NEW b \in Commands PROVE CopyFits(b)' /\ OnePlan(b)'
    <2>1. CASE b = c
        <3>1. command'[b] = Idle
            BY <2>1, <1>2 DEF PlanInv, PlanTypeOK
        <3> QED
            BY <3>1 DEF CopyFits, OnePlan, Idle, NoSteps
    <2>2. CASE b # c
        <3>1. command'[b] = command[b]
            BY <2>2, <1>2 DEF PlanInv, PlanTypeOK
        <3>2. CopyFits(b) /\ OnePlan(b) /\ command[b].plan \subseteq Plans
            BY DEF PlanInv, PlanTypeOK
        <3>3. CopyFits(b)'
            BY <3>1, <3>2, <1>1, <1>3, <1>7 DEF CopyFits
        <3>4. OnePlan(b)'
            BY <3>1, <3>2, <1>4 DEF OnePlan
        <3> QED
            BY <3>3, <3>4
    <2> QED
        BY <2>1, <2>2
<1> QED
    BY <1>6, <1>10, <1>11, <1>12 DEF PlanInv

(* The rows of a copy are writable, whatever members their deps lose and   *)
(* whoever owns them.                                                      *)
LEMMA CopyWritable ==
    ASSUME PlanInv, NEW c \in Commands, NEW p, NEW steps, IsRows(steps),
           DOMAIN steps \subseteq DOMAIN command[c].steps,
           \A s \in DOMAIN steps :
                /\ steps[s].plan = command[c].steps[s].plan
                /\ steps[s].order = command[c].steps[s].order
                /\ steps[s].deps \subseteq command[c].steps[s].deps
    PROVE  Writable(c, p, steps)
<1>1. CopyFits(c)
    BY DEF PlanInv
<1>2. \A s \in DOMAIN steps :
        /\ s \in Stored
        /\ steps[s].plan = step[s].plan
        /\ steps[s].order = step[s].order
        /\ Before(s, steps[s].deps)
    BY <1>1 DEF CopyFits, Before
<1> QED
    BY <1>2 DEF Writable

(* What the plan's commands read and write keeps the invariant.            *)
LEMMA PlanStep == PlanInv /\ [PlanNext]_planVars => PlanInv'
<1> SUFFICES ASSUME PlanInv, [PlanNext]_planVars PROVE PlanInv'
    OBVIOUS
<1> USE DEF PlanInv
<1>1. ASSUME NEW c \in Commands, NEW value,
             UNCHANGED <<version, step>>,
             command' = [command EXCEPT ![c] = value],
             DOMAIN value = DOMAIN Idle,
             value.stage \in {"idle", "plan", "read"}, value.plan \in SUBSET Plans,
             value.version \in 0 .. MaxVersion, IsRows(value.steps),
             CopyFits(c)', OnePlan(c)'
      PROVE  PlanInv'
    <2>1. Stored' = Stored /\ \A q : StepsOf(q)' = StepsOf(q)
        BY <1>1 DEF Stored, StepsOf
    <2>2. \A b \in Commands : command'[b] = IF b = c THEN value ELSE command[b]
        BY <1>1 DEF PlanTypeOK
    <2>3. PlanTypeOK'
        <3>1. DOMAIN command' = Commands
            BY <1>1 DEF PlanTypeOK
        <3>2. \A b \in Commands :
                /\ DOMAIN command'[b] = DOMAIN Idle
                /\ command'[b].stage \in {"idle", "plan", "read"}
                /\ command'[b].plan \in SUBSET Plans
                /\ command'[b].version \in 0 .. MaxVersion
                /\ IsRows(command'[b].steps)
            BY <1>1, <2>2 DEF PlanTypeOK
        <3> QED
            BY <1>1, <2>1, <3>1, <3>2 DEF PlanTypeOK, IsRows, StepRow
    <2>4. DependenciesFirst' /\ PlacesFilled'
        BY <1>1, <2>1 DEF DependenciesFirst, PlacesFilled
    <2>5. ASSUME NEW b \in Commands PROVE CopyFits(b)' /\ OnePlan(b)'
        <3>1. CASE b = c
            BY <1>1, <3>1
        <3>2. CASE b # c
            <4>1. command'[b] = command[b]
                BY <2>2, <3>2
            <4> QED
                BY <1>1, <2>1, <4>1 DEF CopyFits, OnePlan, Before
        <3> QED
            BY <3>1, <3>2
    <2> QED
        BY <2>3, <2>4, <2>5
<1>2. ASSUME NEW c \in Commands, ReadPlan(c) PROVE PlanInv'
    <2>1. IsRows(NoSteps)
        BY DEF IsRows, StepRow, NoSteps
    <2>2. CASE command' = [command EXCEPT ![c] = [Idle EXCEPT !.stage = "read"]]
        <3> DEFINE value == [Idle EXCEPT !.stage = "read"]
        <3>1. /\ DOMAIN value = DOMAIN Idle /\ value.stage = "read" /\ value.plan = {}
              /\ value.version = 0 /\ value.steps = NoSteps
            BY DEF Idle
        <3>2. command'[c] = value
            BY <2>2 DEF PlanTypeOK
        <3> HIDE DEF value
        <3>3. CopyFits(c)' /\ OnePlan(c)'
            BY <3>1, <3>2 DEF CopyFits, OnePlan, NoSteps
        <3>4. command' = [command EXCEPT ![c] = value]
            BY <2>2 DEF value
        <3>5. value.plan \in SUBSET Plans /\ value.version \in 0 .. MaxVersion
            BY <3>1, PlanBounds
        <3> QED
            BY <1>1, <1>2, <2>1, <3>1, <3>3, <3>4, <3>5 DEF ReadPlan
    <2>3. ASSUME NEW p \in Current,
                 command' = [command EXCEPT ![c] =
                    [Idle EXCEPT !.stage = "plan", !.plan = {p}, !.version = version[p]]]
          PROVE  PlanInv'
        <3> DEFINE value == [Idle EXCEPT !.stage = "plan", !.plan = {p},
                                         !.version = version[p]]
        <3>1. /\ DOMAIN value = DOMAIN Idle /\ value.stage = "plan" /\ value.plan = {p}
              /\ value.version = version[p] /\ value.steps = NoSteps
            BY DEF Idle
        <3>2. command'[c] = value
            BY <2>3 DEF PlanTypeOK
        <3>3. p \in Plans /\ version[p] > 0 /\ version[p] \in 0 .. MaxVersion
            BY DEF Current, PlanTypeOK
        <3> HIDE DEF value
        <3>4. CopyFits(c)' /\ OnePlan(c)'
            BY <1>2, <3>1, <3>2, <3>3 DEF CopyFits, OnePlan, NoSteps, ReadPlan
        <3>5. command' = [command EXCEPT ![c] = value]
            BY <2>3 DEF value
        <3> QED
            BY <1>1, <1>2, <2>1, <3>1, <3>3, <3>4, <3>5 DEF ReadPlan
    <2> QED
        BY <1>2, <2>2, <2>3 DEF ReadPlan
<1>3. ASSUME NEW c \in Commands, ReadSteps(c) PROVE PlanInv'
    <2> DEFINE copy == [s \in {t \in Stored : step[t].plan \in command[c].plan} |-> step[s]]
               value == [command[c] EXCEPT !.stage = "read", !.steps = copy]
    <2>1. /\ command' = [command EXCEPT ![c] = value]
          /\ UNCHANGED <<version, step>>
        BY <1>3 DEF ReadSteps, PlanTypeOK
    <2>2. /\ DOMAIN value = DOMAIN Idle /\ value.stage = "read"
          /\ value.plan = command[c].plan /\ value.version = command[c].version
          /\ value.steps = copy
        BY DEF PlanTypeOK, Idle
    <2>3. IsRows(copy)
        BY DEF PlanTypeOK, IsRows, StepRow, Stored
    <2>4. command'[c] = value
        BY <2>1 DEF PlanTypeOK
    <2>5. OnePlan(c)'
        BY <2>1, <2>2, <2>4 DEF OnePlan
    <2>6. CopyFits(c)'
        <3> SUFFICES ASSUME NEW s \in Stored, step[s].plan \in command[c].plan
                     PROVE  /\ step[s].order < Cardinality(DOMAIN copy)
                            /\ Before(s, step[s].deps)
            BY <2>1, <2>2, <2>4 DEF CopyFits, Before, Stored
        <3>1. command[c].plan = {step[s].plan}
            BY DEF OnePlan
        <3>2. DOMAIN copy = StepsOf(step[s].plan)
            BY <3>1 DEF StepsOf
        <3>3. step[s].order < Cardinality(DOMAIN copy)
            BY <3>2 DEF PlacesFilled
        <3> HIDE DEF copy
        <3> QED
            BY <3>3 DEF DependenciesFirst, Before, StepsOf
    <2> HIDE DEF value, copy
    <2>7. value.plan \in SUBSET Plans /\ value.version \in 0 .. MaxVersion
        BY <2>2 DEF PlanTypeOK
    <2> QED
        BY <1>1, <2>1, <2>2, <2>3, <2>5, <2>6, <2>7
<1>4. ASSUME NEW c \in Commands, Gives(c) PROVE PlanInv'
    <2>1. IsRows(NoSteps)
        BY DEF IsRows, StepRow, NoSteps
    <2>2. command'[c] = Idle
        BY <1>4 DEF Gives, PlanTypeOK
    <2>3. CopyFits(c)' /\ OnePlan(c)'
        BY <2>2 DEF CopyFits, OnePlan, Idle, NoSteps
    <2>4. /\ Idle.stage = "idle" /\ Idle.plan = {} /\ Idle.version = 0
          /\ Idle.steps = NoSteps
        BY DEF Idle
    <2>5. /\ Idle.stage \in {"idle", "plan", "read"}
          /\ Idle.plan \in SUBSET Plans /\ Idle.version \in 0 .. MaxVersion
        BY <2>4, PlanBounds
    <2>6. command' = [command EXCEPT ![c] = Idle] /\ UNCHANGED <<version, step>>
        BY <1>4 DEF Gives
    <2> QED
        BY <1>1, <2>1, <2>3, <2>4, <2>5, <2>6
<1>5. ASSUME NEW c \in Commands, NEW new \in Steps, NEW deps \in SUBSET Steps,
             AddStep(c, new, deps)
      PROVE  PlanInv'
    <2> DEFINE copy == command[c].steps
               added(p) == [s \in DOMAIN copy \cup {new} |->
                    IF s = new
                    THEN [plan |-> p, deps |-> deps, order |-> Cardinality(DOMAIN copy),
                          owner |-> Nobody, started |-> FALSE]
                    ELSE copy[s]]
    <2>1. PICK p \in Target(c) : SavePlan(c, p, Edited(c), added(p))
        BY <1>5 DEF AddStep
    <2>2. new \notin Stored /\ deps \subseteq DOMAIN copy
        BY <1>5 DEF AddStep, Runnable
    <2>3. CopyFits(c) /\ OnePlan(c) /\ IsRows(copy)
        BY DEF PlanTypeOK
    <2>4. p \in Plans
        BY DEF Target, PlanTypeOK
    <2>5. Edited(c) \in 1 .. MaxVersion
        BY <2>1 DEF Edited, SavePlan, PlanTypeOK
    <2>6. Cardinality(DOMAIN copy) \in Nat
        BY <2>3, PlanBounds, FS_Subset, FS_CardinalityType DEF IsRows, StepRow
    <2>7. \A s \in DOMAIN copy : step[s].plan = p
        BY <2>1, <2>3 DEF CopyFits, OnePlan, Target
    <2>8. Cardinality(DOMAIN copy) <= Cardinality(StepsOf(p))
        <3>1. DOMAIN copy \subseteq StepsOf(p)
            BY <2>3, <2>7 DEF CopyFits, StepsOf
        <3> QED
            BY <3>1, StepsFinite, FS_Subset
    <2>9. IsRows(added(p))
        BY <2>3, <2>4, <2>6 DEF IsRows, StepRow, Owners
    <2>10. Writable(c, p, added(p))
        <3>1. \A s \in DOMAIN copy :
                /\ s # new /\ s \in Stored /\ added(p)[s] = copy[s]
                /\ copy[s].plan = step[s].plan /\ copy[s].order = step[s].order
                /\ Before(s, copy[s].deps)
            BY <2>2, <2>3 DEF CopyFits
        <3>2. /\ added(p)[new].plan = p /\ added(p)[new].deps = deps
              /\ added(p)[new].order = Cardinality(DOMAIN copy)
            OBVIOUS
        <3>3. \A d \in deps :
                d \in Stored /\ step[d].plan = p /\ step[d].order < Cardinality(DOMAIN copy)
            BY <2>2, <2>3, <2>7 DEF CopyFits
        <3>4. DOMAIN added(p) = DOMAIN copy \cup {new}
            OBVIOUS
        <3> HIDE DEF added, copy
        <3> QED
            BY <2>2, <2>8, <2>9, <3>1, <3>2, <3>3, <3>4 DEF Writable
    <2> HIDE DEF added, copy
    <2> QED
        BY Saving, <2>1, <2>4, <2>5, <2>10
<1>6. ASSUME NEW c \in Commands, NEW x \in Steps, RemoveStep(c, x) PROVE PlanInv'
    <2> DEFINE copy == command[c].steps
               rest == [t \in DOMAIN copy \ {x} |-> [copy[t] EXCEPT !.deps = @ \ {x}]]
    <2>1. PICK p \in command[c].plan : SavePlan(c, p, command[c].version + 1, rest)
        BY <1>6 DEF RemoveStep
    <2>2. p \in Plans /\ command[c].version + 1 \in 1 .. MaxVersion /\ IsRows(copy)
        BY <2>1 DEF SavePlan, PlanTypeOK
    <2>3. \A t \in DOMAIN rest :
            /\ t \in DOMAIN copy /\ rest[t] \in StepRow
            /\ rest[t].plan = copy[t].plan /\ rest[t].order = copy[t].order
            /\ rest[t].deps \subseteq copy[t].deps
        BY <2>2 DEF IsRows, StepRow
    <2>4. IsRows(rest)
        BY <2>2, <2>3 DEF IsRows, StepRow
    <2>5. Writable(c, p, rest)
        BY <2>3, <2>4, CopyWritable
    <2> HIDE DEF rest
    <2> QED
        BY Saving, <2>1, <2>2, <2>5
<1>7. ASSUME NEW c \in Commands, NEW x \in Steps, NEW owner \in Owners, NEW began \in BOOLEAN,
             NEW p \in command[c].plan, x \in DOMAIN command[c].steps, NEW steps,
             \/ steps = [command[c].steps EXCEPT ![x].owner = owner, ![x].started = began]
             \/ steps = [command[c].steps EXCEPT ![x].owner = owner],
             SavePlan(c, p, command[c].version, steps)
      PROVE  PlanInv'
    <2> DEFINE copy == command[c].steps
    <2>1. p \in Plans /\ command[c].version \in 1 .. MaxVersion /\ IsRows(copy)
        BY DEF PlanTypeOK, OnePlan
    <2>2. DOMAIN steps = DOMAIN copy
        BY <1>7
    <2>3. \A t \in DOMAIN copy :
            /\ steps[t].plan = copy[t].plan /\ steps[t].deps = copy[t].deps
            /\ steps[t].order = copy[t].order /\ steps[t] \in StepRow
        BY <1>7, <2>1 DEF IsRows, StepRow
    <2>4. IsRows(steps)
        BY <2>1, <2>2, <2>3 DEF IsRows, StepRow
    <2>5. Writable(c, p, steps)
        BY <2>2, <2>3, <2>4, CopyWritable
    <2> QED
        BY Saving, <1>7, <2>1, <2>5
<1>8. ASSUME NEW c \in Commands, NEW x \in Steps, NEW lane \in Lanes, Take(c, x, lane)
      PROVE  PlanInv'
    BY <1>7, <1>8 DEF Take, Owners
<1>9. ASSUME NEW c \in Commands, NEW x \in Steps, NEW to \in Lanes \cup Teammates,
             HandOff(c, x, to)
      PROVE  PlanInv'
    BY <1>7, <1>9 DEF HandOff, Owners
<1>10. ASSUME NEW c \in Commands, Generate(c) PROVE PlanInv'
    <2>1. PICK p \in Target(c) : SavePlan(c, p, Edited(c), << >>)
        BY <1>10 DEF Generate
    <2>2. p \in Plans
        BY DEF Target, PlanTypeOK
    <2>3. Edited(c) \in 1 .. MaxVersion
        BY <2>1 DEF Edited, SavePlan, PlanTypeOK
    <2>4. Writable(c, p, << >>)
        BY DEF Writable, IsRows, StepRow
    <2> QED
        BY Saving, <2>1, <2>2, <2>3, <2>4
<1>11. CASE UNCHANGED planVars
    BY <1>11 DEF planVars, PlanTypeOK, DependenciesFirst, PlacesFilled, CopyFits, OnePlan,
        Before, Stored, StepsOf
<1> QED
    BY <1>2, <1>3, <1>4, <1>5, <1>6, <1>8, <1>9, <1>10, <1>11 DEF PlanNext

-----------------------------------------------------------------------------
LEMMA PlanInvHolds == PlanSpec => []PlanInv
<1>1. PlanInit => PlanInv
    <2> SUFFICES ASSUME PlanInit PROVE PlanInv
        OBVIOUS
    <2>1. Stored = {} /\ IsRows(NoSteps)
        BY DEF PlanInit, Stored, NoSteps, IsRows, StepRow
    <2>2. \A c \in Commands : command[c] = Idle
        BY DEF PlanInit
    <2>3. PlanTypeOK
        BY <2>1, <2>2, PlanBounds DEF PlanInit, PlanTypeOK, Idle
    <2> QED
        BY <2>1, <2>2, <2>3
            DEF PlanInv, DependenciesFirst, PlacesFilled, CopyFits, OnePlan, Idle, NoSteps
<1> QED
    BY <1>1, PlanStep, PTL DEF PlanSpec

(* Whatever commands overlap, the rows and every copy stay steps of plans  *)
(* that are stored, and versions stay in their range (save_plan).          *)
THEOREM PlansTyped == PlanSpec => []PlanTypeOK
<1>1. PlanInv => PlanTypeOK
    BY DEF PlanInv
<1> QED
    BY <1>1, PlanInvHolds, PTL

(* However commands overlap, the steps of a plan can be run in their order:*)
(* every dependency is there and comes first (plan_edit, save_plan).       *)
THEOREM PlanRunnable == PlanSpec => []DependenciesFirst
<1>1. PlanInv => DependenciesFirst
    BY DEF PlanInv
<1> QED
    BY <1>1, PlanInvHolds, PTL

(* A step leaves its owner by a handoff or through a copy that was read    *)
(* before, never by a take or an edit that knew of the owner (plan_take).  *)
THEOREM OwnerKept == PlanSpec => LostOnlyToStaleCopy
<1> DEFINE Explained(s, c) ==
        \/ HandedOff(c, s)
        \/ /\ Writes(c)
           /\ s \in DOMAIN command[c].steps
           /\ command[c].steps[s].owner # step[s].owner
<1>1. ASSUME PlanInv, [PlanNext]_planVars, NEW s \in Steps, Owned(s),
             step'[s].owner # step[s].owner
      PROVE  \E c \in Commands : Explained(s, c)
    <2>1. ASSUME NEW c \in Commands, NEW p, NEW number, NEW steps,
                 command[c].stage = "read", SavePlan(c, p, number, steps)
          PROVE  /\ Writes(c)
                 /\ s \in DOMAIN steps /\ steps[s].owner # step[s].owner
        <3>1. command'[c] = Idle
            <4>1. command' = [command EXCEPT ![c] = Idle] /\ DOMAIN command = Commands
                BY <1>1, <2>1 DEF SavePlan, PlanInv, PlanTypeOK
            <4> QED
                BY <4>1
        <3>2. Writes(c)
            BY <2>1, <3>1 DEF Writes, Idle
        <3>3. step'[s] = IF s \in DOMAIN steps THEN steps[s] ELSE step[s]
            BY <1>1, <2>1 DEF SavePlan, Owned
        <3> QED
            BY <1>1, <3>2, <3>3
    <2>2. ASSUME NEW c \in Commands, NEW new \in Steps, NEW deps \in SUBSET Steps,
                 AddStep(c, new, deps)
          PROVE  Explained(s, c)
        BY <1>1, <2>1, <2>2 DEF AddStep, Owned
    <2>3. ASSUME NEW c \in Commands, NEW x \in Steps, RemoveStep(c, x)
          PROVE  Explained(s, c)
        <3> DEFINE copy == command[c].steps
                   rest == [t \in DOMAIN copy \ {x} |-> [copy[t] EXCEPT !.deps = @ \ {x}]]
        <3>1. Writes(c) /\ s \in DOMAIN rest /\ rest[s].owner # step[s].owner
            BY <2>1, <2>3 DEF RemoveStep
        <3>2. rest[s].owner = copy[s].owner
            BY <1>1, <3>1 DEF PlanInv, PlanTypeOK, IsRows, StepRow
        <3> QED
            BY <3>1, <3>2
    <2>4. ASSUME NEW c \in Commands, NEW x \in Steps, NEW lane \in Lanes, Take(c, x, lane)
          PROVE  Explained(s, c)
        <3> DEFINE copy == command[c].steps
                   taken == [copy EXCEPT ![x].owner = lane, ![x].started = TRUE]
        <3>1. Writes(c) /\ s \in DOMAIN taken /\ taken[s].owner # step[s].owner
            BY <2>1, <2>4 DEF Take
        <3>2. Free(copy[x], lane) /\ IsRows(copy)
            BY <1>1, <2>4 DEF Take, PlanInv, PlanTypeOK
        <3>3. taken[s].owner = IF s = x THEN lane ELSE copy[s].owner
            BY <3>1, <3>2 DEF IsRows, StepRow
        <3>4. copy[s].owner # step[s].owner
            BY <1>1, <3>1, <3>2, <3>3 DEF Free, Owned
        <3> QED
            BY <3>1, <3>4
    <2>5. ASSUME NEW c \in Commands, NEW x \in Steps, NEW to \in Lanes \cup Teammates,
                 HandOff(c, x, to)
          PROVE  Explained(s, c)
        <3> DEFINE copy == command[c].steps
                   handed == [copy EXCEPT ![x].owner = to]
        <3>1. Writes(c) /\ s \in DOMAIN handed /\ handed[s].owner # step[s].owner
            BY <2>1, <2>5 DEF HandOff
        <3>2. CASE s = x
            BY <2>5, <3>1, <3>2 DEF HandedOff
        <3>3. CASE s # x
            BY <3>1, <3>3
        <3> QED
            BY <3>2, <3>3
    <2>6. ASSUME NEW c \in Commands, Generate(c) PROVE Explained(s, c)
        BY <2>1, <2>6 DEF Generate
    <2>7. CASE UNCHANGED step
        BY <1>1, <2>7
    <2> QED
        BY <1>1, <2>2, <2>3, <2>4, <2>5, <2>6, <2>7
            DEF PlanNext, planVars, ReadPlan, ReadSteps, Gives
<1>2. PlanInv /\ [PlanNext]_planVars =>
        [\A s \in Steps : Owned(s) /\ step'[s].owner # step[s].owner =>
            \E c \in Commands : Explained(s, c)]_planVars
    BY <1>1
<1> QED
    BY <1>2, PlanInvHolds, PTL DEF PlanSpec, LostOnlyToStaleCopy
=============================================================================
