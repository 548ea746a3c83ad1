------------------------------ MODULE Accounts -------------------------------
(***************************************************************************)
(* Accounts, roles by invite code and the register of vulnerable           *)
(* households: routers/user.py, users.py, households.py, auth.py and the   *)
(* household part of routers/admin.py.  A request runs several statements, *)
(* each a transaction of its own, and requests overlap (an app on two      *)
(* phones, staff at their screen): a request is a process here.            *)
(*                                                                         *)
(* An account (users.id) is a number never used twice; the Firebase uid it *)
(* belongs to may register again after a withdrawal.  Profile, places,     *)
(* contacts, devices and the rest hang on the account by ON DELETE CASCADE *)
(* and are left out.                                                       *)
(***************************************************************************)
EXTENDS Integers, FiniteSets

CONSTANTS
  Uids,         \* Firebase users
  Codes,        \* invite codes issued (POST /internal/invites)
  Grants,       \* Grants[c]: the role code c gives
  Requests,     \* requests that may overlap
  MaxAccounts,  \* bound: accounts ever created
  MaxHouses,    \* bound: households ever registered
  MaxRequests,  \* bound: requests ever made
  None

Staff == {"responder", "caregiver", "admin"}
Ids == 1..MaxAccounts
Houses == 1..MaxHouses

GrantsAssumption == Grants \in [Codes -> Staff]
AccountBounds == MaxAccounts \in Nat /\ MaxHouses \in Nat /\ MaxRequests \in Nat
AccountNone == None \notin Uids \cup Codes \cup Nat

VARIABLES
  account,   \* account[u]: the users row of uid u, or None
  role,      \* role[u], while the account lasts
  lastId,    \* accounts created so far
  claimedBy, \* claimedBy[c]: the uid a code is bound to
  revoked,   \* codes recalled or past expires_at
  house,     \* house[h]: a row of care.households, or None
  request,   \* request[r]: what a request under way has read, and its next step
  made,      \* requests made so far
  raced      \* history: homes registered while their account was giving it up

vars == <<account, role, lastId, claimedBy, revoked, house, request, made, raced>>
codes == <<claimedBy, revoked>>
users == <<account, role, lastId>>

Idle == [at |-> "idle"]
Registered == {h \in Houses : house[h] # None}

(* An account that does not exist (None, NULL) has no household.           *)
LinkedTo(i) == {h \in Registered : i # None /\ house[h].link = i}

Init ==
  /\ account = [u \in Uids |-> None]
  /\ role = [u \in Uids |-> "resident"]
  /\ lastId = 0
  /\ claimedBy = [c \in Codes |-> None]
  /\ revoked = {}
  /\ house = [h \in Houses |-> None]
  /\ request = [r \in Requests |-> Idle]
  /\ made = 0
  /\ raced = {}

(* ENSURE_SQL: the row of uid u, made when there is none, with role r.     *)
EnsureUser(u, r) ==
  IF account[u] # None
    THEN account' = account /\ lastId' = lastId /\ role' = [role EXCEPT ![u] = r]
    ELSE /\ lastId < MaxAccounts
         /\ lastId' = lastId + 1
         /\ account' = [account EXCEPT ![u] = lastId + 1]
         /\ role' = [role EXCEPT ![u] = r]

(* The first free row number stands for gen_random_uuid().                 *)
AddHouse(row) ==
  \E h \in Houses : /\ house[h] = None
                    /\ \A k \in Houses : house[k] = None => h <= k
                    /\ house' = [house EXCEPT ![h] = row]

RemoveHouses(S) == house' = [h \in Houses |-> IF h \in S THEN None ELSE house[h]]

Begin == made < MaxRequests /\ made' = made + 1
Goes(r, next) == request' = [request EXCEPT ![r] = next]
Ends(r) == Goes(r, Idle)

-----------------------------------------------------------------------------
(* Requests of one statement.                                              *)

(* POST /user, POST /device-token.                                         *)
Register(u) ==
  /\ Begin
  /\ EnsureUser(u, IF account[u] = None THEN "resident" ELSE role[u])
  /\ UNCHANGED <<codes, house, request, raced>>

(* CLAIM_SQL binds the code to its first uid for ever; a code of somebody  *)
(* else, recalled or expired changes nothing.                              *)
MutantFree(u, c) == c \notin revoked
Usable(u, c) == c \notin revoked /\ claimedBy[c] \in {None, u}

ClaimRole(u, c) ==
  /\ Begin
  /\ Usable(u, c)
  /\ claimedBy' = [claimedBy EXCEPT ![c] = u]
  /\ EnsureUser(u, Grants[c])
  /\ UNCHANGED <<revoked, house, request, raced>>

DropRole(u) ==
  /\ Begin
  /\ account[u] # None
  /\ role' = [role EXCEPT ![u] = "resident"]
  /\ UNCHANGED <<account, lastId, codes, house, request, raced>>

(* A recalled code leaves the role it gave.                                *)
RevokeInvite(c) ==
  /\ Begin
  /\ revoked' = revoked \cup {c}
  /\ UNCHANGED <<users, claimedBy, house, request, raced>>

-----------------------------------------------------------------------------
(* The resident's own household, by account id (require_user_id).          *)
FindAccount(r, u, step) ==
  /\ Begin
  /\ request[r] = Idle /\ account[u] # None
  /\ Goes(r, [at |-> step, me |-> account[u]])
  /\ UNCHANGED <<users, codes, house, raced>>

Alive(i) == \E u \in Uids : account[u] = i

(* Somebody is giving up the home of account i at this moment.             *)
GivingUp(i) ==
  \E r \in Requests :
    \/ request[r].at = "unlink" /\ request[r].me = i
    \/ request[r].at = "erase" /\ account[request[r].who] = i

(* UPSERT_SELF_SQL: a household that is linked already keeps its source;   *)
(* an account that is gone violates the foreign key.                       *)
PutHousehold(r) ==
  LET i == request[r].me
  IN  /\ request[r].at = "put"
      /\ IF Alive(i) /\ LinkedTo(i) = {}
           THEN AddHouse([source |-> "self", link |-> i, carer |-> None])
           ELSE UNCHANGED house
      /\ raced' = {h \in Houses : IF house'[h] = house[h] THEN h \in raced ELSE GivingUp(i)}
      /\ Ends(r)
      /\ UNCHANGED <<users, codes, made>>

(* DELETE /user/household: the home the account registered itself goes ... *)
MutantOwnNone(i) == {}
OwnHouses(i) == {h \in LinkedTo(i) : house[h].source = "self"}

DeleteHousehold(r) ==
  /\ request[r].at = "delete"
  /\ RemoveHouses(OwnHouses(request[r].me))
  /\ Goes(r, [request[r] EXCEPT !.at = "unlink"])
  /\ UNCHANGED <<users, codes, made, raced>>

(* ... and any other is only cut off from it.                              *)
CutOff(i) ==
  house' = [h \in Houses |-> IF h \in LinkedTo(i) THEN [house[h] EXCEPT !.link = None] ELSE house[h]]

UnlinkHousehold(r) ==
  /\ request[r].at = "unlink"
  /\ CutOff(request[r].me)
  /\ Ends(r)
  /\ UNCHANGED <<users, codes, made, raced>>

(* DELETE /user: the homes by uid, then the account by uid.  The account   *)
(* takes its links and its place as a carer with it (SET NULL).            *)
WithdrawHomes(r, u) ==
  /\ Begin
  /\ request[r] = Idle
  /\ RemoveHouses(OwnHouses(account[u]))
  /\ Goes(r, [at |-> "erase", who |-> u])
  /\ UNCHANGED <<users, codes, raced>>

WithdrawAccount(r) ==
  LET u == request[r].who
      i == account[u]
  IN  /\ request[r].at = "erase"
      /\ account' = [account EXCEPT ![u] = None]
      /\ role' = [role EXCEPT ![u] = "resident"]
      /\ house' = [h \in Houses |->
                     IF house[h] = None \/ i = None THEN house[h]
                     ELSE [house[h] EXCEPT !.link = IF @ = i THEN None ELSE @,
                                           !.carer = IF @ = i THEN None ELSE @]]
      /\ Ends(r)
      /\ UNCHANGED <<lastId, codes, made, raced>>

-----------------------------------------------------------------------------
(* Staff: the role is read first (require_staff), then the row of the      *)
(* staff member is ensured (_me), as a resident when it was deleted.       *)
RequireStaff(r, u) ==
  /\ Begin
  /\ request[r] = Idle /\ account[u] # None /\ role[u] \in Staff
  /\ Goes(r, [at |-> "me", who |-> u, as |-> role[u]])
  /\ UNCHANGED <<users, codes, house, raced>>

Me(r) ==
  LET u == request[r].who
  IN  /\ request[r].at = "me"
      /\ EnsureUser(u, IF account[u] = None THEN "resident" ELSE role[u])
      /\ Goes(r, [at |-> "find", as |-> request[r].as, me |-> account'[u]])
      /\ UNCHANGED <<codes, house, made, raced>>

Visible(r) == {h \in Registered : request[r].as # "caregiver" \/ house[h].carer = request[r].me}

(* check_caregiver: the account is a caregiver's when it is read; None is  *)
(* nobody.                                                                 *)
Carers == {None} \cup {account[u] : u \in {v \in Uids : account[v] # None /\ role[v] = "caregiver"}}

(* Which household, and for whom: a caregiver's new household is their own *)
(* and a caregiver hands none over.                                        *)
Choose(r) ==
  LET as == request[r].as
      me == request[r].me
  IN  /\ request[r].at = "find"
      /\ \/ \E c \in IF as = "caregiver" THEN {me} ELSE Carers :
              Goes(r, [at |-> "create", carer |-> c, as |-> as])
         \/ \E h \in Visible(r) :
              \/ as # "caregiver"
                 /\ \E c \in Carers : Goes(r, [at |-> "update", carer |-> c, house |-> h])
              \/ Goes(r, [at |-> "remove", house |-> h])
      /\ UNCHANGED <<users, codes, house, made, raced>>

(* The write: an account that is gone by now violates the foreign key, a   *)
(* household that is gone is none of the rows.                             *)
CreateHousehold(r) ==
  /\ request[r].at = "create"
  /\ IF request[r].carer = None \/ Alive(request[r].carer)
       THEN AddHouse([source |-> IF request[r].as = "caregiver" THEN "caregiver" ELSE "responder",
                      link |-> None, carer |-> request[r].carer])
       ELSE UNCHANGED house
  /\ Ends(r)
  /\ UNCHANGED <<users, codes, made, raced>>

UpdateHousehold(r) ==
  LET h == request[r].house
      c == request[r].carer
  IN  /\ request[r].at = "update"
      /\ house' = IF house[h] # None /\ (c = None \/ Alive(c))
                    THEN [house EXCEPT ![h].carer = c] ELSE house
      /\ Ends(r)
      /\ UNCHANGED <<users, codes, made, raced>>

RemoveHousehold(r) ==
  /\ request[r].at = "remove"
  /\ RemoveHouses({request[r].house})
  /\ Ends(r)
  /\ UNCHANGED <<users, codes, made, raced>>

-----------------------------------------------------------------------------
Next ==
  \/ \E u \in Uids : Register(u) \/ DropRole(u) \/ \E c \in Codes : ClaimRole(u, c)
  \/ \E c \in Codes : RevokeInvite(c)
  \/ \E r \in Requests, u \in Uids :
       \/ FindAccount(r, u, "put") \/ FindAccount(r, u, "delete")
       \/ WithdrawHomes(r, u) \/ RequireStaff(r, u)
  \/ \E r \in Requests :
       \/ PutHousehold(r) \/ DeleteHousehold(r) \/ UnlinkHousehold(r) \/ WithdrawAccount(r)
       \/ Me(r) \/ Choose(r) \/ CreateHousehold(r) \/ UpdateHousehold(r) \/ RemoveHousehold(r)

Spec == Init /\ [][Next]_vars

-----------------------------------------------------------------------------
HouseRows == [source : {"self", "responder", "caregiver"}, link : Ids \cup {None}, carer : Ids \cup {None}]

RequestStates ==
  {Idle}
    \cup [at : {"put", "delete", "unlink"}, me : Ids]
    \cup [at : {"erase"}, who : Uids]
    \cup [at : {"me"}, who : Uids, as : Staff]
    \cup [at : {"find"}, as : Staff, me : Ids]
    \cup [at : {"create"}, carer : Ids \cup {None}, as : Staff]
    \cup [at : {"update"}, carer : Ids \cup {None}, house : Houses]
    \cup [at : {"remove"}, house : Houses]

(* The type of the state.                                                  *)
TypeOK ==
  /\ account \in [Uids -> Ids \cup {None}]
  /\ role \in [Uids -> Staff \cup {"resident"}]
  /\ lastId \in 0..MaxAccounts
  /\ claimedBy \in [Codes -> Uids \cup {None}]
  /\ revoked \in SUBSET Codes
  /\ house \in [Houses -> HouseRows \cup {None}]
  /\ request \in [Requests -> RequestStates]
  /\ made \in 0..MaxRequests
  /\ raced \in SUBSET Houses

(* One code, one account (CLAIM_SQL's comment): whoever is staff now holds *)
(* a code of that role which is bound to them and to nobody else, whatever *)
(* withdrawals, recalls, second phones and requests under way did.         *)
StaffByCode ==
  \A u \in Uids : role[u] \in Staff => \E c \in Codes : claimedBy[c] = u /\ Grants[c] = role[u]

(* Withdrawn consent leaves no household behind: one a resident registered *)
(* in the app is always theirs, and goes with them, unless they registered *)
(* it (again) between the two statements of giving it up.                  *)
NoHomeLeftBehind ==
  \A h \in Registered : house[h].source = "self" /\ house[h].link = None => h \in raced
=============================================================================
