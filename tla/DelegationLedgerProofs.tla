----------------------- MODULE DelegationLedgerProofs -----------------------
(***************************************************************************)
(* What the ledger promises for any lanes, any patterns that nest, any     *)
(* depth and either setting of redelegation.                               *)
(*                                                                         *)
(* A delegation's scope is narrowed from its parent's, and its chain is the*)
(* parent's with the parent at its end.  So whatever holds of the parent   *)
(* and everything above it carries over to the child; no operation changes *)
(* what a row was narrowed from.                                           *)
(***************************************************************************)
EXTENDS DelegationLedger, TLAPS

(* Every link of a chain is a row.                                         *)
LinksRecorded ==
    \A d \in Recorded : \A i \in 1 .. Len(delegation[d].chain) :
        delegation[d].chain[i] \in Recorded

(* What ChainIsAncestry says of one row.                                   *)
LinkedAt(d) ==
    /\ delegation[d].depth = Len(delegation[d].chain)
    /\ delegation[d].depth <= MaxDepth
    /\ delegation[d].parent = NoParent <=> delegation[d].chain = << >>
    /\ delegation[d].parent # NoParent =>
        /\ delegation[d].parent \in Recorded
        /\ delegation[d].chain = Append(delegation[delegation[d].parent].chain,
                                        delegation[d].parent)
        /\ delegation[d].origin = delegation[delegation[d].parent].origin
        /\ delegation[delegation[d].parent].transferable \/ Redelegation

-----------------------------------------------------------------------------
(* The operators.                                                          *)

(* What is narrowed from a scope allows nothing the scope does not allow:  *)
(* patterns nest.                                                          *)
LEMMA NarrowNarrows ==
    ASSUME NEW scope \in SUBSET Capabilities, NEW requested \in SUBSET Capabilities,
           NEW capability \in Capabilities,
           Allows(Narrow(scope, requested), capability)
    PROVE  Allows(scope, capability)
<1>1. PICK granted \in Narrow(scope, requested) : <<granted, capability>> \in Covers
    BY DEF Allows
<1>2. granted \in Capabilities /\ Allows(scope, granted)
    BY <1>1 DEF Narrow
<1>3. PICK above \in scope : <<above, granted>> \in Covers
    BY <1>2 DEF Allows
<1> QED
    BY <1>1, <1>2, <1>3, PatternsNest DEF Allows

(* What a lane may delegate at all is a set of capabilities.               *)
LEMMA BaseTyped ==
    ASSUME NEW lane \in Delegators
    PROVE  Base(lane) \in SUBSET Capabilities
BY LedgerConstants DEF Base

(* Saving a row touches no other.                                          *)
LEMMA SaveFacts ==
    ASSUME NEW d, NEW row, Save(d, row)
    PROVE  /\ Recorded' = Recorded \cup {d}
           /\ delegation'[d] = row
           /\ \A x \in Recorded : x # d => delegation'[x] = delegation[x]
BY DEF Save, Recorded

-----------------------------------------------------------------------------
(* Type correctness.                                                       *)

(* The three operations keep rows in their type.                           *)
LEMMA TypeStep == LedgerTypeOK /\ [LedgerNext]_ledgerVars => LedgerTypeOK'
<1> SUFFICES ASSUME LedgerTypeOK, [LedgerNext]_ledgerVars PROVE LedgerTypeOK'
    OBVIOUS
<1>1. ASSUME NEW d \in Delegations, NEW row \in DelegationRow, Save(d, row)
      PROVE  LedgerTypeOK'
    BY <1>1, SaveFacts DEF LedgerTypeOK
<1>2. ASSUME NEW d \in Delegations, NEW requested \in SUBSET Capabilities,
             NEW transferable \in BOOLEAN, NEW lane \in Delegators,
             AuthorizeRoot(d, lane, requested, transferable)
      PROVE  LedgerTypeOK'
    <2> DEFINE row == [parent |-> NoParent, origin |-> lane, depth |-> 0, chain |-> << >>,
                       scope |-> Narrow(Base(lane), requested),
                       transferable |-> transferable, status |-> "active"]
    <2>1. row \in DelegationRow
        BY DEF Narrow, DelegationRow
    <2>2. Save(d, row)
        BY <1>2 DEF AuthorizeRoot
    <2> HIDE DEF row
    <2> QED
        BY <1>1, <2>1, <2>2
<1>3. ASSUME NEW d \in Delegations, NEW requested \in SUBSET Capabilities,
             NEW transferable \in BOOLEAN, NEW parent \in Delegations,
             AuthorizeUnder(d, parent, requested, transferable)
      PROVE  LedgerTypeOK'
    <2>1. delegation[parent] \in DelegationRow
        BY <1>3 DEF AuthorizeUnder, LedgerTypeOK
    <2> DEFINE row == [parent |-> parent, origin |-> delegation[parent].origin,
                       depth |-> delegation[parent].depth + 1,
                       chain |-> Append(delegation[parent].chain, parent),
                       scope |-> Narrow(delegation[parent].scope, requested),
                       transferable |-> transferable, status |-> "active"]
    <2>2. row \in DelegationRow
        BY <2>1 DEF Narrow, DelegationRow
    <2>3. Save(d, row)
        BY <1>3 DEF AuthorizeUnder
    <2> HIDE DEF row
    <2> QED
        BY <1>1, <2>2, <2>3
<1>4. ASSUME NEW d \in Delegations, Revoke(d) PROVE LedgerTypeOK'
    <2>1. [delegation[d] EXCEPT !.status = "revoked"] \in DelegationRow
        BY <1>4 DEF Revoke, LedgerTypeOK, DelegationRow
    <2> QED
        BY <1>1, <1>4, <2>1 DEF Revoke
<1>5. CASE UNCHANGED ledgerVars
    BY <1>5 DEF LedgerTypeOK, ledgerVars, Recorded
<1> QED
    BY <1>2, <1>3, <1>4, <1>5 DEF LedgerNext

(* Type correctness of the ledger, for any parameters.                     *)
THEOREM LedgerTyped == LedgerSpec => []LedgerTypeOK
<1>1. LedgerInit => LedgerTypeOK
    BY DEF LedgerInit, LedgerTypeOK, Recorded
<1> QED
    BY <1>1, TypeStep, PTL DEF LedgerSpec

-----------------------------------------------------------------------------
(* Chains.                                                                 *)

(* The invariant, and the next state's, row by row.                        *)
LEMMA LinkedEverywhere ==
    /\ ChainIsAncestry <=> \A d \in Recorded : LinkedAt(d)
    /\ ChainIsAncestry' <=> \A d \in Recorded' : LinkedAt(d)'
BY DEF ChainIsAncestry, LinkedAt, Up

(* Every step keeps the chains what following the parents finds.           *)
LEMMA ChainStep ==
    LedgerTypeOK /\ ChainIsAncestry /\ LinksRecorded /\ [LedgerNext]_ledgerVars
        => ChainIsAncestry' /\ LinksRecorded'
<1> SUFFICES ASSUME LedgerTypeOK, ChainIsAncestry, LinksRecorded, [LedgerNext]_ledgerVars
             PROVE  ChainIsAncestry' /\ LinksRecorded'
    OBVIOUS
<1>1. ASSUME NEW d \in Delegations, NEW requested \in SUBSET Capabilities,
             NEW transferable \in BOOLEAN, NEW lane \in Delegators,
             AuthorizeRoot(d, lane, requested, transferable)
      PROVE  ChainIsAncestry' /\ LinksRecorded'
    <2> DEFINE row == [parent |-> NoParent, origin |-> lane, depth |-> 0, chain |-> << >>,
                       scope |-> Narrow(Base(lane), requested),
                       transferable |-> transferable, status |-> "active"]
    <2>1. d \notin Recorded /\ Save(d, row)
        BY <1>1 DEF AuthorizeRoot
    <2>2. /\ Recorded' = Recorded \cup {d} /\ delegation'[d] = row
          /\ \A x \in Recorded : delegation'[x] = delegation[x]
        BY <2>1, SaveFacts
    <2>3. ASSUME NEW x \in Recorded PROVE LinkedAt(x)'
        <3>1. LinkedAt(x)
            BY LinkedEverywhere
        <3> HIDE DEF row
        <3> QED
            BY <2>2, <3>1 DEF LinkedAt
    <2>4. LinkedAt(d)'
        BY <2>2, LedgerConstants DEF LinkedAt
    <2>5. LinksRecorded'
        BY <2>2 DEF LinksRecorded
    <2> QED
        BY <2>2, <2>3, <2>4, <2>5, LinkedEverywhere
<1>2. ASSUME NEW d \in Delegations, NEW requested \in SUBSET Capabilities,
             NEW transferable \in BOOLEAN, NEW parent \in Delegations,
             AuthorizeUnder(d, parent, requested, transferable)
      PROVE  ChainIsAncestry' /\ LinksRecorded'
    <2> DEFINE above == delegation[parent]
               row == [parent |-> parent, origin |-> above.origin,
                       depth |-> above.depth + 1,
                       chain |-> Append(above.chain, parent),
                       scope |-> Narrow(above.scope, requested),
                       transferable |-> transferable, status |-> "active"]
    <2>1. d \notin Recorded /\ parent \in Recorded /\ Save(d, row) /\ MayRedelegate(above)
        BY <1>2 DEF AuthorizeUnder
    <2>2. /\ Recorded' = Recorded \cup {d} /\ delegation'[d] = row
          /\ \A x \in Recorded : delegation'[x] = delegation[x]
        BY <2>1, SaveFacts
    <2>3. above \in DelegationRow /\ parent # NoParent
        BY <2>1, LedgerConstants DEF LedgerTypeOK
    <2>4. above.chain \in Seq(Delegations) /\ above.depth \in Nat
        BY <2>3 DEF DelegationRow
    <2>5. above.depth = Len(above.chain)
        BY <2>1 DEF ChainIsAncestry
    <2>6. /\ row.depth = Len(row.chain) /\ row.depth <= MaxDepth /\ row.chain # << >>
          /\ above.transferable \/ Redelegation
        BY <2>1, <2>4, <2>5 DEF MayRedelegate
    <2>7. delegation'[parent] = above /\ parent \in Recorded'
        BY <2>1, <2>2
    <2>8. ChainIsAncestry'
        <3> SUFFICES ASSUME NEW x \in Recorded'
                     PROVE  LinkedAt(x)'
            BY LinkedEverywhere
        <3>1. CASE x = d
            <4>1. /\ delegation'[x].parent = parent /\ delegation'[x].depth = row.depth
                  /\ delegation'[x].chain = row.chain /\ delegation'[x].origin = above.origin
                BY <3>1, <2>2
            <4>2. delegation'[parent].chain = above.chain
                BY <2>7
            <4> QED
                BY <4>1, <4>2, <2>3, <2>6, <2>7 DEF LinkedAt
        <3>2. CASE x \in Recorded
            <4>1. LinkedAt(x)
                BY <3>2, LinkedEverywhere
            <4> HIDE DEF row, above
            <4> QED
                BY <3>2, <4>1, <2>2 DEF LinkedAt
        <3> QED
            BY <3>1, <3>2, <2>2
    <2>9. LinksRecorded'
        <3> SUFFICES ASSUME NEW x \in Recorded', NEW i \in 1 .. Len(delegation'[x].chain)
                     PROVE  delegation'[x].chain[i] \in Recorded'
            BY DEF LinksRecorded
        <3>1. CASE x = d
            <4>1. CASE i \in 1 .. Len(above.chain)
                BY <4>1, <3>1, <2>1, <2>2, <2>4 DEF LinksRecorded
            <4>2. CASE i = Len(above.chain) + 1
                BY <4>2, <3>1, <2>1, <2>2, <2>4
            <4> QED
                BY <4>1, <4>2, <3>1, <2>2, <2>4
        <3>2. CASE x \in Recorded
            BY <3>2, <2>2 DEF LinksRecorded
        <3> QED
            BY <3>1, <3>2, <2>2
    <2> QED
        BY <2>8, <2>9
<1>3. ASSUME NEW d \in Delegations, Revoke(d)
      PROVE  ChainIsAncestry' /\ LinksRecorded'
    <2>1. Recorded' = Recorded /\ d \in Recorded
        BY <1>3, SaveFacts DEF Revoke
    <2>2. delegation[d] \in DelegationRow
        BY <2>1 DEF LedgerTypeOK
    <2>3. delegation'[d] = [delegation[d] EXCEPT !.status = "revoked"]
        BY <1>3, SaveFacts DEF Revoke
    <2>4. \A x \in Recorded :
            /\ delegation'[x].depth = delegation[x].depth
            /\ delegation'[x].chain = delegation[x].chain
            /\ delegation'[x].parent = delegation[x].parent
            /\ delegation'[x].origin = delegation[x].origin
            /\ delegation'[x].transferable = delegation[x].transferable
        BY <1>3, <2>2, <2>3, SaveFacts DEF Revoke, DelegationRow
    <2>5. ASSUME NEW x \in Recorded PROVE LinkedAt(x)'
        <3>1. LinkedAt(x)
            BY LinkedEverywhere
        <3> QED
            BY <2>1, <2>4, <3>1 DEF LinkedAt
    <2>6. LinksRecorded'
        BY <2>1, <2>4 DEF LinksRecorded
    <2> QED
        BY <2>1, <2>5, <2>6, LinkedEverywhere
<1>4. CASE UNCHANGED ledgerVars
    BY <1>4 DEF ChainIsAncestry, LinksRecorded, Up, ledgerVars, Recorded
<1> QED
    BY <1>1, <1>2, <1>3, <1>4 DEF LedgerNext

(* The chain a row carries is its ancestry, as deep as it says and no      *)
(* deeper than allowed, and every link of it consented (authorize).        *)
THEOREM ChainsAreAncestries == LedgerSpec => []ChainIsAncestry
<1>1. LedgerInit => ChainIsAncestry /\ LinksRecorded
    BY DEF LedgerInit, ChainIsAncestry, LinksRecorded, Recorded
<1> QED
    BY <1>1, LedgerTyped, ChainStep, PTL DEF LedgerSpec

-----------------------------------------------------------------------------
(* Authority.                                                              *)

(* A delegation made at the root is within what its lane may delegate, one *)
(* made under a parent within the parent and all the parent descends from. *)
LEMMA NarrowStep ==
    LedgerTypeOK /\ LinksRecorded /\ AuthorityNarrows /\ [LedgerNext]_ledgerVars
        => AuthorityNarrows'
<1> SUFFICES ASSUME LedgerTypeOK, LinksRecorded, AuthorityNarrows, [LedgerNext]_ledgerVars
             PROVE  AuthorityNarrows'
    OBVIOUS
<1>1. ASSUME NEW d \in Delegations, NEW requested \in SUBSET Capabilities,
             NEW transferable \in BOOLEAN, NEW lane \in Delegators,
             AuthorizeRoot(d, lane, requested, transferable)
      PROVE  AuthorityNarrows'
    <2>1. /\ Recorded' = Recorded \cup {d}
          /\ delegation'[d].origin = lane /\ delegation'[d].chain = << >>
          /\ delegation'[d].scope = Narrow(Base(lane), requested)
          /\ \A x \in Recorded : delegation'[x] = delegation[x]
        BY <1>1, SaveFacts DEF AuthorizeRoot
    <2>2. \A capability \in Capabilities :
            Allows(delegation'[d].scope, capability) => Allows(Base(lane), capability)
        BY <2>1, BaseTyped, NarrowNarrows
    <2> QED
        BY <2>1, <2>2 DEF AuthorityNarrows, LinksRecorded
<1>2. ASSUME NEW d \in Delegations, NEW requested \in SUBSET Capabilities,
             NEW transferable \in BOOLEAN, NEW parent \in Delegations,
             AuthorizeUnder(d, parent, requested, transferable)
      PROVE  AuthorityNarrows'
    <2> DEFINE above == delegation[parent]
    <2>1. /\ Recorded' = Recorded \cup {d} /\ d \notin Recorded /\ parent \in Recorded
          /\ delegation'[d].origin = above.origin
          /\ delegation'[d].chain = Append(above.chain, parent)
          /\ delegation'[d].scope = Narrow(above.scope, requested)
          /\ \A x \in Recorded : delegation'[x] = delegation[x]
        BY <1>2, SaveFacts DEF AuthorizeUnder
    <2>2. above.scope \in SUBSET Capabilities /\ above.chain \in Seq(Delegations)
        BY <2>1 DEF LedgerTypeOK, DelegationRow
    <2>3. \A capability \in Capabilities :
            Allows(delegation'[d].scope, capability) => Allows(above.scope, capability)
        BY <2>1, <2>2, NarrowNarrows
    <2>4. ASSUME NEW capability \in Capabilities, Allows(delegation'[d].scope, capability)
          PROVE  /\ Allows(Base(delegation'[d].origin), capability)
                 /\ \A i \in 1 .. Len(delegation'[d].chain) :
                        Allows(delegation'[delegation'[d].chain[i]].scope, capability)
        <3>1. Allows(above.scope, capability)
            BY <2>3, <2>4
        <3>2. Allows(Base(above.origin), capability)
            BY <3>1, <2>1 DEF AuthorityNarrows
        <3>3. ASSUME NEW i \in 1 .. Len(above.chain)
              PROVE  Allows(delegation'[above.chain[i]].scope, capability)
            BY <3>1, <2>1 DEF AuthorityNarrows, LinksRecorded
        <3>4. Allows(delegation'[parent].scope, capability)
            BY <3>1, <2>1
        <3>5. \A i \in 1 .. Len(delegation'[d].chain) :
                delegation'[d].chain[i] =
                    IF i \in 1 .. Len(above.chain) THEN above.chain[i] ELSE parent
            BY <2>1, <2>2
        <3> QED
            BY <2>1, <3>2, <3>3, <3>4, <3>5
    <2>5. ASSUME NEW x \in Recorded, NEW capability \in Capabilities,
                 Allows(delegation'[x].scope, capability)
          PROVE  /\ Allows(Base(delegation'[x].origin), capability)
                 /\ \A i \in 1 .. Len(delegation'[x].chain) :
                        Allows(delegation'[delegation'[x].chain[i]].scope, capability)
        BY <2>1, <2>5 DEF AuthorityNarrows, LinksRecorded
    <2> QED
        BY <2>1, <2>4, <2>5 DEF AuthorityNarrows
<1>3. ASSUME NEW d \in Delegations, Revoke(d) PROVE AuthorityNarrows'
    <2>1. Recorded' = Recorded /\ d \in Recorded /\ delegation[d] \in DelegationRow
        BY <1>3, SaveFacts DEF Revoke, LedgerTypeOK
    <2>2. \A x \in Recorded :
            /\ delegation'[x].scope = delegation[x].scope
            /\ delegation'[x].chain = delegation[x].chain
            /\ delegation'[x].origin = delegation[x].origin
        BY <1>3, <2>1, SaveFacts DEF Revoke, DelegationRow
    <2> QED
        BY <2>1, <2>2 DEF AuthorityNarrows, LinksRecorded
<1>4. CASE UNCHANGED ledgerVars
    BY <1>4 DEF AuthorityNarrows, ledgerVars, Recorded
<1> QED
    BY <1>1, <1>2, <1>3, <1>4 DEF LedgerNext

(* Authority only narrows, down every chain and from the lane it began     *)
(* with (authorize, AuthorityScope.narrow).                                *)
THEOREM AuthorityOnlyNarrows == LedgerSpec => []AuthorityNarrows
<1>1. LedgerInit => AuthorityNarrows /\ ChainIsAncestry /\ LinksRecorded
    BY DEF LedgerInit, AuthorityNarrows, ChainIsAncestry, LinksRecorded, Recorded
<1> QED
    BY <1>1, LedgerTyped, ChainStep, NarrowStep, PTL DEF LedgerSpec
=============================================================================
