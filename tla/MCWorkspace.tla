----------------------------- MODULE MCWorkspace -----------------------------
(***************************************************************************)
(* Small instances, for TLC, of what the daemon keeps in its database:     *)
(* plans, claims, knowledge, lessons and delegations; of what its radar    *)
(* remembers; and of the document the lanes share.                         *)
(*                                                                         *)
(* The components share no state, so their interleavings would add nothing *)
(* but time: each is explored by itself, while the others rest in their    *)
(* initial states.                                                         *)
(***************************************************************************)
EXTENDS PlanBoard, ResourceClaims, KnowledgeBase, LessonBook, DelegationLedger,
        MergeRadar, SharedDoc, TLC

(* The model values of the instances. *)
CONSTANTS w1, w2, w3, l1, l2, d1, d2, i1, i2, i3, f1, f2, glob, all, src

VARIABLE part   \* the component explored

workspaceVars ==
    <<part, planVars, claimVars, knowledgeVars, lessonVars, ledgerVars,
      radarVars, docVars>>

WorkspaceInit ==
    /\ part \in {"plan", "claims", "knowledge", "lessons", "ledger",
                "radar", "doc"}
    /\ PlanInit /\ ClaimsInit /\ KnowledgeInit /\ LessonInit /\ LedgerInit
    /\ RadarInit /\ DocInit

OnlyPart(name) ==
    /\ part = name
    /\ UNCHANGED part
    /\ name # "plan" => UNCHANGED planVars
    /\ name # "claims" => UNCHANGED claimVars
    /\ name # "knowledge" => UNCHANGED knowledgeVars
    /\ name # "lessons" => UNCHANGED lessonVars
    /\ name # "ledger" => UNCHANGED ledgerVars
    /\ name # "radar" => UNCHANGED radarVars
    /\ name # "doc" => UNCHANGED docVars

WorkspaceNext ==
    \/ OnlyPart("plan") /\ PlanNext
    \/ OnlyPart("claims") /\ ClaimsNext
    \/ OnlyPart("knowledge") /\ KnowledgeNext
    \/ OnlyPart("lessons") /\ LessonNext
    \/ OnlyPart("ledger") /\ LedgerNext
    \/ OnlyPart("radar") /\ RadarNext
    \/ OnlyPart("doc") /\ DocNext

WorkspaceSpec == WorkspaceInit /\ [][WorkspaceNext]_workspaceVars

(* A glob touches both files. *)
Touching == {ab \in Resources \X Resources : ab[1] = ab[2] \/ glob \in {ab[1], ab[2]}}

(* Everything, and the sources among it. *)
Nested == {ab \in Capabilities \X Capabilities : ab[1] \in {ab[2], all}}

(* One lane's own authority is bounded, the other's is not. *)
Bounded == [lane \in Delegators |-> IF lane = d1 THEN {src} ELSE {}]

(* The two lanes of one session, and one session without lanes. *)
OneSession == [lane \in RadarLanes |-> d1]

WorkspaceTypeOK ==
    /\ PlanTypeOK /\ ClaimsTypeOK /\ KnowledgeTypeOK
    /\ LessonTypeOK /\ LedgerTypeOK
    /\ RadarTypeOK /\ DocTypeOK

(* Operations, lanes and what they create are interchangeable. *)
Symmetry == Permutations({w1, w2}) \cup Permutations({i1, i2})
        \cup Permutations({l1, l2})
=============================================================================
