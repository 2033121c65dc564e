---------------------------- MODULE OneTimeCodes ----------------------------
(***************************************************************************)
(* The one-time codes sent by e-mail: registration, verification, resend,  *)
(* forgotten password and reset, over the tables users and one_time_codes  *)
(* and the copy of every code in RedisService, which is the one that codes *)
(* are checked against.                                                    *)
(*                                                                         *)
(* A request has one action per statement it awaits.  Redis is written in  *)
(* the middle of a transaction and does not roll back with it.  A code     *)
(* given with the wrong number, which changes nothing, is not an action.   *)
(* No code that runs sets blockedAt: setAttempt with a count is only       *)
(* called by resendOtp, after the lookup that fails, so the checks of      *)
(* blockedAt and verificationAttempt never refuse and are left out.        *)
(***************************************************************************)
EXTENDS RedisCache, FiniteSets

CONSTANTS
  User, Client,
  Owner,        \* Owner[c] is the user a client acts for
  CodeLife,     \* USER_BLOCK_TIME_FOR_AUTH, in the unit of Ttl
  Pool,         \* connections of the Prisma pool
  MaxResets,    \* bound: resets
  MaxRollbacks  \* bound: transactions that fail

\* Codes are told from 0, which is no code.
CodesAssumption ==
  /\ Key \subseteq Nat \ {0} /\ Value = Key
  /\ User # {} /\ Owner \in [Client -> User]
PoolAssumption == Pool \in Nat /\ CodeLife \in Nat

VARIABLES
  codes,      \* one_time_codes, and which of them a client has been told
  user,       \* users
  token,      \* what the last access token of a client says of isVerified
  req,        \* the request each client has in flight
  rollbacks   \* counts failed transactions

codeVars == <<codes, user, token, req, rollbacks>>
vars == <<codeVars, cacheVars>>

NoCode == [state |-> "free", until |-> 0, owner |-> CHOOSE u \in User : TRUE,
           given |-> FALSE, resets |-> 0]
Stranger == [exists |-> FALSE, isVerified |-> FALSE, resets |-> 0]
Idle == [pc |-> "idle", kind |-> "none", code |-> 0, seen |-> Stranger, rows |-> {}]

Init ==
  /\ CacheInit
  /\ codes = [k \in Key |-> NoCode]
  /\ user = [u \in User |-> Stranger]
  /\ token = [c \in Client |-> "none"]
  /\ req = [c \in Client |-> Idle]
  /\ rollbacks = 0

AtPc(c, pc) == req[c].pc = pc
Kind(c, kind) == req[c].kind = kind
Goto(c, pc) == req' = [req EXCEPT ![c].pc = pc]
Answer(c) == req' = [req EXCEPT ![c] = Idle]
Start(c, kind, pc, k) ==
  /\ AtPc(c, "idle")
  /\ req' = [req EXCEPT ![c] = [Idle EXCEPT !.kind = kind, !.pc = pc, !.code = k]]

\* A transaction keeps a connection and, once it has updated it, the user row.
InTransaction(c) == req[c].pc \in {"insert", "cache", "commit", "update", "tokens",
                                   "password", "forget", "rows", "commitReset"}
HoldsUserRow(c) == req[c].pc \in {"cache", "commit", "forget", "rows", "commitReset"}
Free == Pool - Cardinality({c \in Client : InTransaction(c)})
UserRowIsFree(c) ==
  \A d \in Client \ {c} : Owner[d] = Owner[c] => ~HoldsUserRow(d)

Stored(k, u) == codes[k].state = "stored" /\ codes[k].owner = u
Unexpired(k) == now < codes[k].until

-----------------------------------------------------------------------------
(* register and forgotPassword *)

\* Bound: there is a code for everyone who may need one.
CodeIsLeft == Cardinality({k \in Key : codes[k].state = "free"})
              > Cardinality({c \in Client : req[c].pc \in {"find", "insert"}})

AskForCode(c, kind) ==
  /\ Free > 0
  /\ CodeIsLeft
  /\ kind = "forgot" => user[Owner[c]].isVerified
  /\ AtPc(c, "idle")
  /\ req' = [req EXCEPT ![c] = [Idle EXCEPT !.kind = kind, !.pc = "find",
                                            !.seen = user[Owner[c]]]]
  /\ UNCHANGED <<codes, user, token, rollbacks, cacheVars>>

\* getNotExpiredOtpCode: a code of the user that has not expired is handed
\* out again, whatever the cache holds.
FindCodeNever(c) == \* faulty: every request generates a code
  /\ AtPc(c, "find")
  /\ Goto(c, "insert")
  /\ UNCHANGED <<codes, user, token, rollbacks, cacheVars>>
FindCode(c) ==
  /\ AtPc(c, "find")
  /\ Free > 0
  /\ LET found == {k \in Key : Stored(k, Owner[c]) /\ Unexpired(k)}
     IN IF req[c].seen.exists /\ found # {}
        THEN /\ \E k \in found : codes' = [codes EXCEPT ![k].given = TRUE]
             /\ Answer(c)
        ELSE Goto(c, "insert") /\ UNCHANGED codes
  /\ UNCHANGED <<user, token, rollbacks, cacheVars>>

\* The transaction creates or updates the user, waiting for whoever has
\* done so before, and generates a code.
GenerateCodeLong(c, k) == \* faulty: the row outlives its copy
  /\ AtPc(c, "insert")
  /\ UserRowIsFree(c)
  /\ req[c].seen.exists = user[Owner[c]].exists
  /\ codes[k].state = "free"
  /\ codes' = [codes EXCEPT ![k] = [NoCode EXCEPT !.state = "pending",
                                    !.until = now + 2 * CodeLife, !.owner = Owner[c]]]
  /\ req' = [req EXCEPT ![c].pc = "cache", ![c].code = k]
  /\ UNCHANGED <<user, token, rollbacks, cacheVars>>
GenerateCodeUnlocked(c, k) == \* faulty: the user row is not updated first
  /\ AtPc(c, "insert")
  /\ codes[k].state = "free"
  /\ codes' = [codes EXCEPT ![k] = [NoCode EXCEPT !.state = "pending",
                                    !.until = now + CodeLife, !.owner = Owner[c]]]
  /\ req' = [req EXCEPT ![c].pc = "cache", ![c].code = k]
  /\ UNCHANGED <<user, token, rollbacks, cacheVars>>
GenerateCode(c, k) ==
  /\ AtPc(c, "insert")
  /\ UserRowIsFree(c)
  /\ req[c].seen.exists = user[Owner[c]].exists
  /\ codes[k].state = "free"
  /\ codes' = [codes EXCEPT ![k] = [NoCode EXCEPT !.state = "pending",
                                    !.until = now + CodeLife, !.owner = Owner[c]]]
  /\ req' = [req EXCEPT ![c].pc = "cache", ![c].code = k]
  /\ UNCHANGED <<user, token, rollbacks, cacheVars>>

\* Somebody else has created the user: its e-mail is unique.
CreateUserFails(c) ==
  /\ AtPc(c, "insert")
  /\ UserRowIsFree(c)
  /\ user[Owner[c]].exists /\ ~req[c].seen.exists
  /\ Answer(c)
  /\ UNCHANGED <<codes, user, token, rollbacks, cacheVars>>

CacheCode(c) ==
  /\ AtPc(c, "cache")
  /\ Set(req[c].code, req[c].code)
  /\ Goto(c, "commit")
  /\ UNCHANGED <<codes, user, token, rollbacks, now, up, fills, outages>>

CommitCode(c) ==
  /\ AtPc(c, "commit")
  /\ codes' = [codes EXCEPT ![req[c].code].state = "stored", ![req[c].code].given = TRUE]
  /\ user' = [user EXCEPT ![Owner[c]].exists = TRUE]
  /\ Answer(c)
  /\ UNCHANGED <<token, rollbacks, cacheVars>>

-----------------------------------------------------------------------------
(* verifyOtp, resendOtp and resetPassword begin with the copy in the cache *)

Accepted(k) == codes[k].given /\ Get(k) # NoEntry /\ Unexpired(k)

VerifyOtp(c, k) ==
  /\ Accepted(k) /\ codes[k].owner = Owner[c]
  /\ Start(c, "verify", "user", k)
  /\ UNCHANGED <<codes, user, token, rollbacks, cacheVars>>

ReadUser(c) ==
  /\ AtPc(c, "user")
  /\ Free > 0
  /\ req' = [req EXCEPT ![c].pc = "update", ![c].seen = user[Owner[c]]]
  /\ UNCHANGED <<codes, user, token, rollbacks, cacheVars>>

\* In the transaction, but on a connection of its own (this.prisma).
UpdateUserNoCommit(c) == \* faulty: the verification is lost
  /\ AtPc(c, "update")
  /\ UserRowIsFree(c) /\ Free > 0
  /\ Goto(c, "tokens")
  /\ UNCHANGED <<codes, user, token, rollbacks, cacheVars>>
UpdateUser(c) ==
  /\ AtPc(c, "update")
  /\ UserRowIsFree(c) /\ Free > 0
  /\ user' = [user EXCEPT ![Owner[c]].isVerified = TRUE]
  /\ Goto(c, "tokens")
  /\ UNCHANGED <<codes, token, rollbacks, cacheVars>>

\* The transaction is over by the time the update returns: the tokens cannot
\* be stored in it, and the catch answers with an error.
LateUpdateRetries(c) == \* faulty: a verification that failed is tried again
  /\ AtPc(c, "late")
  /\ UserRowIsFree(c) /\ Free > 0
  /\ user' = [user EXCEPT ![Owner[c]].isVerified = TRUE]
  /\ Goto(c, "user")
  /\ UNCHANGED <<codes, token, rollbacks, cacheVars>>
LateUpdate(c) ==
  /\ AtPc(c, "late")
  /\ UserRowIsFree(c) /\ Free > 0
  /\ user' = [user EXCEPT ![Owner[c]].isVerified = TRUE]
  /\ Answer(c)
  /\ UNCHANGED <<codes, token, rollbacks, cacheVars>>

\* The tokens are made from the user as it was read.
IssueTokensKind(c) == \* faulty: the kind of the request
  /\ AtPc(c, "tokens")
  /\ token' = [token EXCEPT ![c] = req[c].kind]
  /\ Answer(c)
  /\ UNCHANGED <<codes, user, rollbacks, cacheVars>>
IssueTokens(c) ==
  /\ AtPc(c, "tokens")
  /\ token' = [token EXCEPT ![c] =
                 IF req[c].seen.isVerified THEN "verified" ELSE "unverified"]
  /\ Answer(c)
  /\ UNCHANGED <<codes, user, rollbacks, cacheVars>>

\* The cached row is asked for its user_id, which is called userId.
ResendOtp(c, k) ==
  /\ codes[k].given /\ Get(k) # NoEntry
  /\ Start(c, "resend", "lookup", k)
  /\ UNCHANGED <<codes, user, token, rollbacks, cacheVars>>

LookupFails(c) ==
  /\ AtPc(c, "lookup")
  /\ Answer(c)
  /\ UNCHANGED <<codes, user, token, rollbacks, cacheVars>>

ResetPassword(c, k) ==
  /\ Accepted(k) /\ codes[k].owner = Owner[c] /\ Free > 0
  /\ user[Owner[c]].resets < MaxResets
  /\ Start(c, "reset", "password", k)
  /\ UNCHANGED <<codes, user, token, rollbacks, cacheVars>>

\* The user row is updated; its sessions end (see Sessions).
UpdatePassword(c) ==
  /\ AtPc(c, "password")
  /\ UserRowIsFree(c)
  /\ Goto(c, "forget")
  /\ UNCHANGED <<codes, user, token, rollbacks, cacheVars>>

ForgetCodeNever(c) == \* faulty: the code stays in the cache
  /\ AtPc(c, "forget")
  /\ Goto(c, "rows")
  /\ UNCHANGED <<codes, user, token, rollbacks, cacheVars>>
ForgetCode(c) ==
  /\ AtPc(c, "forget")
  /\ Del(req[c].code)
  /\ Goto(c, "rows")
  /\ UNCHANGED <<codes, user, token, rollbacks, now, up, fills, outages>>

\* Every row of the user is deleted, but only one code leaves the cache.
DeleteRows(c) ==
  /\ AtPc(c, "rows")
  /\ req' = [req EXCEPT ![c].pc = "commitReset",
                        ![c].rows = {k \in Key : Stored(k, Owner[c])}]
  /\ UNCHANGED <<codes, user, token, rollbacks, cacheVars>>

CommitReset(c) ==
  /\ AtPc(c, "commitReset")
  /\ codes' = [k \in Key |->
       [codes[k] EXCEPT !.state = IF k \in req[c].rows THEN "gone" ELSE @,
                        !.resets = IF k = req[c].code THEN @ + 1 ELSE @]]
  /\ user' = [user EXCEPT ![Owner[c]].resets = @ + 1]
  /\ Answer(c)
  /\ UNCHANGED <<token, rollbacks, cacheVars>>

\* A transaction that waits is rolled back when its time is over (Prisma's
\* timeout of five seconds).  The update verifyOtp awaits is not part of it.
Waits(c) ==
  \/ AtPc(c, "update") /\ ~(UserRowIsFree(c) /\ Free > 0)
  \/ req[c].pc \in {"insert", "password"} /\ ~UserRowIsFree(c)
TimeOut(c) ==
  /\ Waits(c)
  /\ IF AtPc(c, "update") THEN Goto(c, "late") ELSE Answer(c)
  /\ UNCHANGED <<codes, user, token, rollbacks, cacheVars>>

\* So does one who waits for a connection (pool_timeout, maxWait).
ConnectionTimeOut(c) ==
  /\ req[c].pc \in {"find", "user", "late"} /\ Free = 0
  /\ Answer(c)
  /\ UNCHANGED <<codes, user, token, rollbacks, cacheVars>>

\* A transaction fails: a statement does, the connection is lost.  What it
\* wrote to Redis, and the update verifyOtp makes outside it, stay.
Rollback(c) ==
  /\ InTransaction(c)
  /\ rollbacks < MaxRollbacks
  /\ rollbacks' = rollbacks + 1
  /\ codes' = [k \in Key |->
       IF k = req[c].code /\ codes[k].state = "pending"
       THEN [codes[k] EXCEPT !.state = "gone"] ELSE codes[k]]
  /\ Answer(c)
  /\ UNCHANGED <<user, token, cacheVars>>

-----------------------------------------------------------------------------
RequestStep(c) ==
  \/ FindCode(c) \/ CreateUserFails(c) \/ CacheCode(c) \/ CommitCode(c)
  \/ \E k \in Key : GenerateCode(c, k)
  \/ ReadUser(c) \/ UpdateUser(c) \/ LateUpdate(c) \/ IssueTokens(c) \/ LookupFails(c)
  \/ UpdatePassword(c) \/ ForgetCode(c) \/ DeleteRows(c) \/ CommitReset(c)

ClientStep(c) ==
  \/ \E kind \in {"register", "forgot"} : AskForCode(c, kind)
  \/ \E k \in Key : VerifyOtp(c, k) \/ ResendOtp(c, k) \/ ResetPassword(c, k)

Environment == (CacheTick \/ GoDown \/ ComeBack) /\ UNCHANGED codeVars

\* The process restarts: the database rolls back what was open.
Crash ==
  /\ Restart
  /\ req' = [c \in Client |-> Idle]
  /\ codes' = [k \in Key |-> IF codes[k].state = "pending"
                             THEN [codes[k] EXCEPT !.state = "gone"] ELSE codes[k]]
  /\ UNCHANGED <<user, token, rollbacks>>

Next ==
  \/ \E c \in Client : \/ RequestStep(c) \/ ClientStep(c)
                        \/ TimeOut(c) \/ ConnectionTimeOut(c) \/ Rollback(c)
  \/ Environment
  \/ Crash

Spec == Init /\ [][Next]_vars

\* Statements return, connections and row locks are granted in the order of
\* request, and Prisma ends transactions whose time is over.
FairSpec == Spec /\ \A c \in Client : SF_vars(RequestStep(c)) /\ WF_vars(TimeOut(c))

-----------------------------------------------------------------------------
Pc == {"idle", "find", "insert", "cache", "commit", "user", "update", "late",
       "tokens", "lookup", "password", "forget", "rows", "commitReset"}
UserRow == [exists : BOOLEAN, isVerified : BOOLEAN, resets : Nat]

TypeOK ==
  /\ CacheTypeOK
  /\ codes \in [Key -> [state : {"free", "pending", "stored", "gone"}, until : Nat,
                        owner : User, given : BOOLEAN, resets : Nat]]
  /\ user \in [User -> UserRow]
  /\ token \in [Client -> {"none", "unverified", "verified"}]
  /\ req \in [Client -> [pc : Pc, kind : {"none", "register", "forgot", "verify",
                                          "resend", "reset"},
                         code : Key \union {0}, seen : UserRow, rows : SUBSET Key]]

(* register and forgotPassword hand out a stored code as long as its row   *)
(* has not expired, relying on its copy in the cache being there as long   *)
(* (but for the end of a reset that uses it).                              *)
Resetting(k) ==
  \E c \in Client : req[c].code = k /\ req[c].pc \in {"rows", "commitReset"}
StoredCodesWork ==
  \A k \in Key :
    codes[k].state = "stored" /\ Unexpired(k) /\ ~Resetting(k) => Get(k) # NoEntry

(* A user is sent no second code while the first can be used: at most one  *)
(* for each client that asks at the same time.                             *)
CodesPerUser ==
  \A u \in User :
    Cardinality({k \in Key : Stored(k, u) /\ Unexpired(k)}) <= Cardinality(Client)

(* Requests for codes of one user are serialised by its row: one code is   *)
(* on its way at a time, and none while a reset deletes codes.             *)
OnePendingPerUser ==
  \A u \in User :
    Cardinality({k \in Key : codes[k].state = "pending" /\ codes[k].owner = u}
                \union {c \in Client : Kind(c, "reset") /\ HoldsUserRow(c)
                                       /\ Owner[c] = u}) <= 1

(* A reset ends the codes of its user: a code whose row was deleted is no  *)
(* longer accepted.                                                        *)
DeletedCodesAreDead ==
  \A k \in Key : codes[k].state = "gone" => ~Accepted(k)

(* One code resets the password once.                                      *)
OneResetPerCode == \A k \in Key : codes[k].resets <= 1

(* Tokens answered by verifyOtp belong to a user stored as verified, even  *)
(* if the transaction that issued others failed.                           *)
TokensAfterVerification ==
  \A c \in Client : token[c] # "none" => user[Owner[c]].isVerified

(* Every request ends: those that hold all the connections of the pool and *)
(* each ask for one more wait for one another, but not longer than         *)
(* Prisma's timeout, and then they are not in each other's way again.      *)
EveryRequestEnds == \A c \in Client : ~AtPc(c, "idle") ~> AtPc(c, "idle")
=============================================================================
