--------------------------- MODULE ResourceClaims ---------------------------
(***************************************************************************)
(* Advisory claims on resources: claim_create, claim_release, claim_list.  *)
(*                                                                         *)
(* A command reads the active claims, decides, and writes, in one database *)
(* session; reading takes no lock, so another command's writing can come in*)
(* between.  Claims on files run out after a time, but stay active until   *)
(* somebody lists the claims.                                              *)
(***************************************************************************)

CONSTANTS
    Creators,       \* claim_create commands: the claim each would record
    Holders,        \* lanes
    Resources,      \* files, globs and steps, as a claim may name them
    Overlapping     \* Claim.overlaps: which resources touch each other

ASSUME OverlapIsMutual ==
    /\ Overlapping \subseteq Resources \X Resources
    /\ \A r \in Resources : <<r, r>> \in Overlapping
    /\ \A pair \in Overlapping : <<pair[2], pair[1]>> \in Overlapping

VARIABLES
    claim,          \* what each command claims, once it is called
    status,         \* the row of each claim
    saw,            \* the active claims the command found in its way
    overdue         \* claims past their time

claimVars == <<claim, status, saw, overdue>>

Active == {c \in Creators : status[c] = "active"}

Claim == [holder : Holders, resource : Resources, force : BOOLEAN]

Conflict(mine, yours) ==
    /\ mine.holder # yours.holder
    /\ <<mine.resource, yours.resource>> \in Overlapping

-----------------------------------------------------------------------------
ClaimsInit ==
    /\ claim = [c \in {} |-> {}]
    /\ status = [c \in Creators |-> "none"]
    /\ saw = [c \in Creators |-> {}]
    /\ overdue = {}

(* conflicting_claims: active claims of other lanes that overlap this one. *)
FindConflicts(c, asked) ==
    /\ status[c] = "none"
    /\ claim' = [x \in DOMAIN claim \cup {c} |-> IF x = c THEN asked ELSE claim[x]]
    /\ saw' = [saw EXCEPT ![c] = {d \in Active : Conflict(asked, claim[d])}]
    /\ status' = [status EXCEPT ![c] = "checked"]
    /\ UNCHANGED overdue

(* Nothing is in the way: the claim is recorded.                           *)
Record(c) ==
    /\ status[c] = "checked"
    /\ saw[c] = {}
    /\ status' = [status EXCEPT ![c] = "active"]
    /\ UNCHANGED <<claim, saw, overdue>>

(* A loser is told who holds the resource; nothing is written.             *)
Report(c) ==
    /\ status[c] = "checked"
    /\ saw[c] # {} /\ ~claim[c].force
    /\ status' = [status EXCEPT ![c] = "reported"]
    /\ UNCHANGED <<claim, saw, overdue>>

(* Mutant of the step below: what was found is not released.               *)
OverrideOnly(c) ==
    /\ status[c] = "checked"
    /\ claim[c].force
    /\ saw[c] # {}
    /\ status' = [status EXCEPT ![c] = "active"]
    /\ UNCHANGED <<claim, saw, overdue>>

(* The owner's override: the first of the claims found is released, by     *)
(* writing back the row as it was found, and the new one recorded.         *)
Override(c) ==
    /\ status[c] = "checked"
    /\ claim[c].force
    /\ \E first \in saw[c] :
        status' = [status EXCEPT ![first] = "released", ![c] = "active"]
    /\ UNCHANGED <<claim, saw, overdue>>

(* claim_release: an active claim on the resource, whoever holds it.       *)
Release(r) ==
    /\ \E d \in Active :
        /\ claim[d].resource = r
        /\ status' = [status EXCEPT ![d] = "released"]
    /\ UNCHANGED <<claim, saw, overdue>>

RunsOut(c) ==
    /\ c \in Active \ overdue
    /\ overdue' = overdue \cup {c}
    /\ UNCHANGED <<claim, status, saw>>

(* claim_list expires what is overdue before it lists.                     *)
List ==
    /\ status' = [c \in Creators |->
                    IF c \in Active \cap overdue THEN "expired" ELSE status[c]]
    /\ UNCHANGED <<claim, saw, overdue>>

ClaimsNext ==
    \/ \E c \in Creators :
        \/ \E asked \in Claim : FindConflicts(c, asked)
        \/ Record(c) \/ Report(c) \/ Override(c) \/ RunsOut(c)
    \/ \E r \in Resources : Release(r)
    \/ List

ClaimsSpec == ClaimsInit /\ [][ClaimsNext]_claimVars

-----------------------------------------------------------------------------
(* Type correctness; a claim is known of every command that was called.    *)
ClaimsTypeOK ==
    /\ DOMAIN claim = {c \in Creators : status[c] # "none"}
    /\ \A c \in DOMAIN claim : claim[c] \in Claim
    /\ status \in [Creators -> {"none", "checked", "reported", "active", "released", "expired"}]
    /\ saw \in [Creators -> SUBSET Creators]
    /\ overdue \subseteq Creators

(* Two lanes hold overlapping claims only where neither command could see  *)
(* the other's claim, or where the owner's override found several holders, *)
(* of which it releases one.                                               *)
OverlapExplained ==
    \A c, d \in Active :
        Conflict(claim[c], claim[d]) =>
            \/ d \notin saw[c] /\ c \notin saw[d]
            \/ \E forced \in {c, d} :
                claim[forced].force /\ \E x, y \in saw[forced] : x # y
=============================================================================
