------------------------------ MODULE MCUsers -------------------------------
(***************************************************************************)
(* Small instances of what is kept about users, for TLC: the cache, the    *)
(* one-time codes, the accounts, the access period and the roles.  They    *)
(* share no state in the models: a behaviour runs one of them, its part,   *)
(* and leaves the others as they begin.                                    *)
(***************************************************************************)
EXTENDS RedisCache, AccessPeriod

CONSTANTS
  Parts,  \* what is checked
  u1, c1, c2, mail1, phone1, google1,
  permission1, permission2, name1, name2, admin1

VARIABLES
  part,
  codes, user, token, codeReq, rollbacks,                           \* OneTimeCodes
  codeNow, codeUp, codeRedis, codeMemory, codeFills, codeRecent, codeOutages,
  accounts, clock, accountReq,                                      \* Accounts
  roles, hasRoles, own, roleReq                                     \* Roles

\* The dates given to a creation: none, a start, both.
Dates == {Nothing, [start |-> 2, end |-> None], [start |-> 1, end |-> 3],
          [start |-> 3, end |-> 1]}

-----------------------------------------------------------------------------
(* The instances.  The cache and the access period are those of the        *)
(* modules extended.                                                       *)

\* One client, one request at a time; nothing fails.
Codes == INSTANCE OneTimeCodes WITH
  Key <- 1..3, Value <- 1..3, Ttl <- 2, Second <- 1, MaxTime <- 4, MaxOutages <- 0,
  User <- {u1}, Client <- {c1}, Owner <- [c \in {c1} |-> u1], CodeLife <- 2, Pool <- 3,
  MaxResets <- 2, MaxRollbacks <- 0, req <- codeReq,
  now <- codeNow, up <- codeUp, redis <- codeRedis, memory <- codeMemory,
  fills <- codeFills, recent <- codeRecent, outages <- codeOutages

\* Two clients of one user and two connections: two verifications hold both
\* and each wait for another.
TwoClients == INSTANCE OneTimeCodes WITH
  Key <- 1..2, Value <- 1..2, Ttl <- 1, Second <- 1, MaxTime <- 1, MaxOutages <- 0,
  User <- {u1}, Client <- {c1, c2}, Owner <- [c \in {c1, c2} |-> u1], CodeLife <- 1,
  Pool <- 2, MaxResets <- 1, MaxRollbacks <- 0, req <- codeReq,
  now <- codeNow, up <- codeUp, redis <- codeRedis, memory <- codeMemory,
  fills <- codeFills, recent <- codeRecent, outages <- codeOutages

\* One client, an outage of Redis or a restart, and a failed transaction.
Outage == INSTANCE OneTimeCodes WITH
  Key <- 1..2, Value <- 1..2, Ttl <- 2, Second <- 1, MaxTime <- 2, MaxOutages <- 1,
  User <- {u1}, Client <- {c1}, Owner <- [c \in {c1} |-> u1], CodeLife <- 2, Pool <- 3,
  MaxResets <- 1, MaxRollbacks <- 1, req <- codeReq,
  now <- codeNow, up <- codeUp, redis <- codeRedis, memory <- codeMemory,
  fills <- codeFills, recent <- codeRecent, outages <- codeOutages

\* Two requests at a time, addresses in lower case.
Accounts == INSTANCE Accounts WITH
  Address <- {mail1}, Phone <- {phone1}, Google <- {google1},
  MailOf <- [g \in {google1} |-> mail1], Forms <- {"lower"}, Client <- {c1, c2},
  MaxAccounts <- 3, MaxSeconds <- 2, req <- accountReq

\* The seed's administrator and the roles it has, creates and deletes.
Roles == INSTANCE Roles WITH
  User <- {u1}, Permission <- {permission1, permission2}, Client <- {c1, c2},
  Name <- {name1, name2},
  InitRoles <- <<[name |-> name1, isDeleted |-> FALSE, granted |-> {permission1}]>>,
  InitHolders <- [u \in {u1} |-> {1}], RoleLists <- {{}, {1}, {1, 2}},
  Operations <- {"create", "delete", "assignRoles", "assignPermission"},
  MaxRoles <- 2, req <- roleReq

ASSUME CodesAssumptions ==
  /\ Codes!CodesAssumption /\ Codes!PoolAssumption
  /\ TwoClients!CodesAssumption /\ TwoClients!PoolAssumption
  /\ Outage!CodesAssumption /\ Outage!PoolAssumption
ASSUME AccountsAssumptions ==
  Accounts!FormsAssumption /\ Accounts!NoneAssumption /\ Accounts!MailAssumption
ASSUME RolesAssumptions ==
  /\ Roles!OperationAssumption /\ Roles!RoleAssumption
  /\ Roles!HolderAssumption /\ Roles!ListAssumption

-----------------------------------------------------------------------------
codesVars == <<codes, user, token, codeReq, rollbacks, codeNow, codeUp, codeRedis,
               codeMemory, codeFills, codeRecent, codeOutages>>
accountsVars == <<accounts, clock, accountReq>>
rolesVars == <<roles, hasRoles, own, roleReq>>
allVars == <<part, cacheVars, codesVars, accountsVars, vars, rolesVars>>

CodesInit ==
  CASE part = "codes, two clients" -> TwoClients!Init
    [] part = "codes, outage" -> Outage!Init
    [] OTHER -> Codes!Init

\* The clocks that are not watched stand still.
UsersInit ==
  /\ part \in Parts
  /\ CacheInit
  /\ CodesInit
  /\ Accounts!Init
  /\ Init /\ (part # "period" => today = 0)
  /\ Roles!Init

CacheStep == part = "cache" /\ CacheNext
CodesStep ==
  \/ part = "codes" /\ Codes!Next
  \/ part = "codes, two clients" /\ TwoClients!Next
  \/ part = "codes, outage" /\ Outage!Next
AccountsStep == part = "accounts" /\ Accounts!Next
PeriodStep == part = "period" /\ Next
RolesStep == part = "roles" /\ Roles!Next

UsersNext ==
  /\ UNCHANGED part
  /\ \/ CacheStep /\ UNCHANGED <<codesVars, accountsVars, vars, rolesVars>>
     \/ CodesStep /\ UNCHANGED <<cacheVars, accountsVars, vars, rolesVars>>
     \/ AccountsStep /\ UNCHANGED <<cacheVars, codesVars, vars, rolesVars>>
     \/ PeriodStep /\ UNCHANGED <<cacheVars, codesVars, accountsVars, rolesVars>>
     \/ RolesStep /\ UNCHANGED <<cacheVars, codesVars, accountsVars, vars>>

\* As in OneTimeCodes.
UsersSpec ==
  /\ UsersInit /\ [][UsersNext]_allVars
  /\ \A c \in {c1, c2} :
       /\ SF_codesVars(part = "codes, two clients" /\ TwoClients!RequestStep(c))
       /\ WF_codesVars(part = "codes, two clients" /\ TwoClients!TimeOut(c))
  /\ SF_codesVars(part = "codes, outage" /\ Outage!RequestStep(c1))

-----------------------------------------------------------------------------
(* The properties of the instances.  What they state is told where they    *)
(* are defined.                                                            *)

(* Every part's state is of its type.                                      *)
UsersTypeOK ==
  /\ CacheTypeOK
  /\ CASE part = "codes, two clients" -> TwoClients!TypeOK
       [] part = "codes, outage" -> Outage!TypeOK
       [] OTHER -> Codes!TypeOK
  /\ Accounts!TypeOK
  /\ TypeOK
  /\ Roles!TypeOK

(* While nothing fails, a stored code that has not expired can be used     *)
(* (register and forgotPassword hand it out again), a user has one such    *)
(* code, a code whose row a reset has deleted is dead and one code resets  *)
(* the password once.  Two clients of one user have one code on its way.   *)
(* Tokens answered by verifyOtp belong to a user stored as verified, also  *)
(* after an outage, a restart or a failed transaction.                     *)
CodesAreSound ==
  /\ part = "codes" =>
       /\ Codes!StoredCodesWork /\ Codes!CodesPerUser
       /\ Codes!DeletedCodesAreDead /\ Codes!OneResetPerCode
  /\ part = "codes, two clients" =>
       TwoClients!OnePendingPerUser /\ TwoClients!TokensAfterVerification
  /\ part = "codes, outage" => Outage!TokensAfterVerification

RequestRuns(c) ==
  /\ part \in {"codes, two clients", "codes, outage"}
  /\ c \in DOMAIN codeReq /\ codeReq[c].pc # "idle"

(* Every request for or with a code ends: also verifications that hold all *)
(* the connections of the pool and each ask for one more, and whether      *)
(* Redis answers or not.                                                   *)
EveryRequestEnds == \A c \in {c1, c2} : RequestRuns(c) ~> ~RequestRuns(c)

(* One address has one account, whoever creates it, and the creation of an *)
(* account fails only because of a deleted row or of a row created since   *)
(* the request looked.                                                     *)
AccountsAreSound == []Accounts!OneAccountPerAddress /\ Accounts!FailuresAreExplained

(* Nothing but the empty list of roles takes permissions from a user, an   *)
(* answered assignment has left the user all it lists, and an assignment   *)
(* or a new role fails only because of a row created since the request     *)
(* looked or of a deleted role's name.                                     *)
AssignmentsAreKept ==
  Roles!OnlyEmptyListTakes /\ Roles!AssignedIsHeld /\ Roles!FailuresAreExplained
=============================================================================
