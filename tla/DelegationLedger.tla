--------------------------- MODULE DelegationLedger ---------------------------
(***************************************************************************)
(* The ledger of delegated authority: authorize and revoke.                *)
(*                                                                         *)
(* authorize reads its parent once and uses what no operation ever changes *)
(* in a row, its depth, chain, scope and transferability; what happens     *)
(* between that read and its own write makes no difference to it, so the   *)
(* model takes both in one step.  A refusal changes nothing here but the   *)
(* list of flags, which is left out.                                       *)
(***************************************************************************)
EXTENDS Integers, Sequences

CONSTANTS
    Delegations,    \* ids
    NoParent,       \* the parent of a delegation made at the root
    Delegators,     \* lanes that delegate
    Capabilities,   \* capabilities and patterns of capabilities
    Everything,     \* the pattern "*"
    Covers,         \* AuthorityScope._matches: <<pattern, capability>>
    ScopeOf,        \* authority_scope of each lane, may be empty
    MaxDepth,       \* max_delegation_depth
    Redelegation    \* allow_redelegation

ASSUME LedgerConstants ==
    /\ NoParent \notin Delegations
    /\ MaxDepth \in Nat
    /\ Redelegation \in BOOLEAN
    /\ Everything \in Capabilities
    /\ ScopeOf \in [Delegators -> SUBSET Capabilities]

(* A pattern covers what the patterns it covers cover.                     *)
ASSUME PatternsNest ==
    \A a, b, c \in Capabilities :
        <<a, b>> \in Covers /\ <<b, c>> \in Covers => <<a, c>> \in Covers

ASSUME PatternsCoverThemselves ==
    \A a \in Capabilities : <<a, a>> \in Covers /\ <<Everything, a>> \in Covers

VARIABLE delegation \* rows

ledgerVars == <<delegation>>

Recorded == DOMAIN delegation

Allows(scope, capability) == \E granted \in scope : <<granted, capability>> \in Covers

(* Mutant: what is asked for is granted.                                   *)
NarrowToAsked(scope, requested) == requested

Narrow(scope, requested) == {capability \in requested : Allows(scope, capability)}

(* The delegating lane's own scope is the ceiling; none means everything.  *)
Base(lane) == IF ScopeOf[lane] = {} THEN {Everything} ELSE ScopeOf[lane]

-----------------------------------------------------------------------------
LedgerInit == delegation = [d \in {} |-> {}]

Save(d, row) ==
    delegation' = [x \in Recorded \cup {d} |-> IF x = d THEN row ELSE delegation[x]]

(* Asking for anything that is not granted is refused as a whole.          *)
Grants(scope, requested) ==
    \A capability \in requested : Allows(Narrow(scope, requested), capability)

AuthorizeRoot(d, lane, requested, transferable) ==
    /\ d \in Delegations \ Recorded
    /\ Grants(Base(lane), requested)
    /\ Save(d, [parent |-> NoParent, origin |-> lane, depth |-> 0, chain |-> << >>,
                scope |-> Narrow(Base(lane), requested),
                transferable |-> transferable, status |-> "active"])

MayRedelegate(row) ==
    /\ row.depth + 1 <= MaxDepth
    /\ row.transferable \/ Redelegation

(* The parent's status is not looked at.                                   *)
AuthorizeUnder(d, parent, requested, transferable) ==
    /\ d \in Delegations \ Recorded
    /\ parent \in Recorded
    /\ MayRedelegate(delegation[parent])
    /\ Grants(delegation[parent].scope, requested)
    /\ Save(d, [parent |-> parent, origin |-> delegation[parent].origin,
                depth |-> delegation[parent].depth + 1,
                chain |-> Append(delegation[parent].chain, parent),
                scope |-> Narrow(delegation[parent].scope, requested),
                transferable |-> transferable, status |-> "active"])

Revoke(d) ==
    /\ d \in Recorded
    /\ Save(d, [delegation[d] EXCEPT !.status = "revoked"])

LedgerNext ==
    \/ \E d \in Delegations, requested \in SUBSET Capabilities, transferable \in BOOLEAN :
        \/ \E lane \in Delegators : AuthorizeRoot(d, lane, requested, transferable)
        \/ \E parent \in Delegations : AuthorizeUnder(d, parent, requested, transferable)
    \/ \E d \in Delegations : Revoke(d)

LedgerSpec == LedgerInit /\ [][LedgerNext]_ledgerVars

-----------------------------------------------------------------------------
DelegationRow ==
    [parent : Delegations \cup {NoParent}, origin : Delegators, depth : Nat,
     chain : Seq(Delegations), scope : SUBSET Capabilities, transferable : BOOLEAN,
     status : {"active", "revoked"}]

(* Type correctness.                                                       *)
LedgerTypeOK ==
    /\ Recorded \subseteq Delegations
    /\ \A d \in Recorded : delegation[d] \in DelegationRow

Up(d) == delegation[d].parent

(* The denormalised chain of a delegation is the chain that following the  *)
(* parents finds, root first; it is as long as the depth, which is bounded;*)
(* and every link of it was passed on by somebody who was allowed to.      *)
ChainIsAncestry ==
    \A d \in Recorded :
        LET row == delegation[d] IN
        /\ row.depth = Len(row.chain) /\ row.depth <= MaxDepth
        /\ Up(d) = NoParent <=> row.chain = << >>
        /\ Up(d) # NoParent =>
            /\ Up(d) \in Recorded
            /\ row.chain = Append(delegation[Up(d)].chain, Up(d))
            /\ row.origin = delegation[Up(d)].origin
            /\ delegation[Up(d)].transferable \/ Redelegation

(* Authority only narrows: whatever a delegation allows, every delegation  *)
(* it descends from allows, and so does the lane the chain began with.     *)
AuthorityNarrows ==
    \A d \in Recorded : \A capability \in Capabilities :
        Allows(delegation[d].scope, capability) =>
            /\ Allows(Base(delegation[d].origin), capability)
            /\ \A i \in 1 .. Len(delegation[d].chain) :
                Allows(delegation[delegation[d].chain[i]].scope, capability)
=============================================================================
