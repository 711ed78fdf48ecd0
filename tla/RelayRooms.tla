----------------------------- MODULE RelayRooms -----------------------------
(***************************************************************************)
(* Invites of a relay room, and the members that redeeming them makes.     *)
(*                                                                         *)
(* A redemption counts its use under a lock of the invite's row.  The      *)
(* member is looked up and written in a transaction of its own, without a  *)
(* lock, and only the columns that change are written; the role is then    *)
(* read once more for the token.  Roles are ranks: viewer 1, maintainer 2, *)
(* owner 3, and 0 for whoever is no member.                                *)
(***************************************************************************)
EXTENDS Naturals, FiniteSets

CONSTANTS
    Redemptions,    \* calls of /auth/token with an invite that exists
    Subjects,       \* who calls
    Invites,
    RoleGiven,      \* the role each invite gives
    UsesGiven,      \* max_uses of each invite
    NoMember           \* the subject of a redemption that was not called yet

ASSUME InvitesGive ==
    /\ RoleGiven \in [Invites -> 1..3]
    /\ UsesGiven \in [Invites -> Nat \ {0}]

VARIABLES
    redeem,         \* each redemption: who, which invite, where it is
    used,           \* uses of each invite
    void,           \* invites revoked or past their time
    role,           \* role of each subject in the room
    token,          \* role in the token each redemption was given
    crossed         \* subjects two of whose lookups and writes crossed

roomVars == <<redeem, used, void, role, token, crossed>>

-----------------------------------------------------------------------------
RoomInit ==
    /\ redeem = [r \in Redemptions |->
            [subject |-> NoMember, invite |-> NoMember, at |-> "none", saw |-> 0]]
    /\ used = [i \in Invites |-> 0]
    /\ void = {}
    /\ role = [s \in Subjects |-> 0]
    /\ token = [r \in Redemptions |-> 0]
    /\ crossed = {}

Locked(i) == \E r \in Redemptions : redeem[r].invite = i /\ redeem[r].at = "locked"
Usable(i) == i \notin void /\ used[i] < UsesGiven[i]

Calls(r, s, i, at) ==
    redeem' = [redeem EXCEPT ![r] = [subject |-> s, invite |-> i, at |-> at, saw |-> 0]]

(* Mutant of the step below: the row is read, but not locked.              *)
ReadInvite(r, s, i) ==
    /\ redeem[r].at = "none"
    /\ Calls(r, s, i, IF Usable(i) THEN "locked" ELSE "refused")
    /\ UNCHANGED <<used, void, role, token, crossed>>

(* SELECT ... FOR UPDATE, and is it usable?                                *)
LockInvite(r, s, i) ==
    /\ redeem[r].at = "none"
    /\ ~Locked(i)
    /\ Calls(r, s, i, IF Usable(i) THEN "locked" ELSE "refused")
    /\ UNCHANGED <<used, void, role, token, crossed>>

(* The use is counted, whatever becomes of the member.                     *)
CountUse(r) ==
    /\ redeem[r].at = "locked"
    /\ \/ /\ used' = [used EXCEPT ![redeem[r].invite] = @ + 1]
          /\ redeem' = [redeem EXCEPT ![r].at = "used"]
       \/ redeem' = [redeem EXCEPT ![r].at = "failed"] /\ UNCHANGED used
    /\ UNCHANGED <<void, role, token, crossed>>

(* upsert_member: is the subject a member, and as what?                    *)
FindMember(r) ==
    /\ redeem[r].at = "used"
    /\ redeem' = [redeem EXCEPT ![r].at = "found", ![r].saw = role[redeem[r].subject]]
    /\ UNCHANGED <<used, void, role, token, crossed>>

Rivals(r) == {q \in Redemptions \ {r} :
                redeem[q].at = "found" /\ redeem[q].subject = redeem[r].subject}

Crosses(r) ==
    crossed' = IF Rivals(r) = {} THEN crossed ELSE crossed \cup {redeem[r].subject}

(* A new member, unless another redemption of the subject was faster.      *)
InsertMember(r) ==
    /\ redeem[r].at = "found"
    /\ redeem[r].saw = 0
    /\ LET s == redeem[r].subject IN
        \/ /\ role[s] = 0
           /\ role' = [role EXCEPT ![s] = RoleGiven[redeem[r].invite]]
           /\ redeem' = [redeem EXCEPT ![r].at = "joined"]
           /\ Crosses(r)
        \/ redeem' = [redeem EXCEPT ![r].at = "failed"] /\ UNCHANGED <<role, crossed>>
    /\ UNCHANGED <<used, void, token>>

(* Mutant of the step below: the role is the invite's, higher or not.      *)
SetMember(r) ==
    /\ redeem[r].at = "found"
    /\ redeem[r].saw > 0
    /\ role' = [role EXCEPT ![redeem[r].subject] = RoleGiven[redeem[r].invite]]
    /\ redeem' = [redeem EXCEPT ![r].at = "joined"]
    /\ Crosses(r)
    /\ UNCHANGED <<used, void, token>>

(* A member that was found is given a role higher than the one it had.     *)
RaiseMember(r) ==
    /\ redeem[r].at = "found"
    /\ redeem[r].saw > 0
    /\ \/ /\ role' = IF RoleGiven[redeem[r].invite] > redeem[r].saw
                     THEN [role EXCEPT ![redeem[r].subject] = RoleGiven[redeem[r].invite]]
                     ELSE role
          /\ redeem' = [redeem EXCEPT ![r].at = "joined"]
          /\ Crosses(r)
       \/ redeem' = [redeem EXCEPT ![r].at = "failed"] /\ UNCHANGED <<role, crossed>>
    /\ UNCHANGED <<used, void, token>>

(* The member is read again, and its role goes into the token.             *)
IssueToken(r) ==
    /\ redeem[r].at = "joined"
    /\ token' = [token EXCEPT ![r] = role[redeem[r].subject]]
    /\ redeem' = [redeem EXCEPT ![r].at = "admitted"]
    /\ UNCHANGED <<used, void, role, crossed>>

(* An invite's time is up, or revoke_invite has got hold of its row.       *)
Expire(i) ==
    /\ i \notin void
    /\ void' = void \cup {i}
    /\ UNCHANGED <<redeem, used, role, token, crossed>>

RevokeInvite(i) ==
    /\ ~Locked(i)
    /\ void' = void \cup {i}
    /\ UNCHANGED <<redeem, used, role, token, crossed>>

RoomNext ==
    \/ \E r \in Redemptions :
        \/ \E s \in Subjects, i \in Invites : LockInvite(r, s, i)
        \/ CountUse(r) \/ FindMember(r) \/ InsertMember(r)
        \/ RaiseMember(r) \/ IssueToken(r)
    \/ \E i \in Invites : Expire(i) \/ RevokeInvite(i)

RoomSpec == RoomInit /\ [][RoomNext]_roomVars

-----------------------------------------------------------------------------
RoomTypeOK ==
    /\ redeem \in [Redemptions ->
            [subject : Subjects \cup {NoMember}, invite : Invites \cup {NoMember}, saw : 0..3,
             at : {"none", "locked", "used", "found", "joined",
                   "admitted", "refused", "failed"}]]
    /\ used \in [Invites -> Nat]
    /\ void \subseteq Invites
    /\ role \in [Subjects -> 0..3]
    /\ token \in [Redemptions -> 0..3]
    /\ crossed \subseteq Subjects

Counted(i) == {r \in Redemptions :
    redeem[r].invite = i /\ redeem[r].at \in {"used", "found", "joined", "admitted"}}

Joined(s) == {r \in Redemptions :
    redeem[r].subject = s /\ redeem[r].at \in {"joined", "admitted"}}

(* An invite lets in no more than its uses; a member's role, and a token's,*)
(* is one that an invite of its own gave; and it is the highest of these,  *)
(* unless two redemptions of the same subject crossed, when the lower may  *)
(* overwrite the higher.                                                   *)
AdmittedAsInvited ==
    /\ \A i \in Invites : Cardinality(Counted(i)) <= used[i] /\ used[i] <= UsesGiven[i]
    /\ \A s \in Subjects :
        LET given == {RoleGiven[redeem[r].invite] : r \in Joined(s)} IN
        /\ role[s] \in given \cup {0}
        /\ \A r \in Joined(s) : token[r] \in given \cup {0}
        /\ s \notin crossed => \A rank \in given : role[s] >= rank
=============================================================================
