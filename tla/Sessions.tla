------------------------------ MODULE Sessions ------------------------------
(***************************************************************************)
(* Login, token refresh, logout and password reset of AuthService, over    *)
(* the tables user_sessions and refresh_tokens in PostgreSQL.              *)
(*                                                                         *)
(* A request is a process with one action per SQL statement.  Transactions *)
(* run at READ COMMITTED: a statement sees the rows committed before it    *)
(* was issued, the rows it updates stay locked until its transaction ends, *)
(* and what it wrote is seen by others only after the commit.  Sessions    *)
(* are numbered in the order they are committed.  A session and the        *)
(* refresh token issued with it are one record; refused requests, which    *)
(* change nothing, are not actions.                                        *)
(***************************************************************************)
EXTENDS Naturals, Sequences, FiniteSets

CONSTANTS
  User, Client,
  Owner,         \* Owner[c] is the user a client acts for
  SessionsKept,  \* "take" in generateTokens (2)
  MaxSessions,   \* bound: sessions ever created
  MaxResets      \* bound: password resets per user

ASSUME OwnerAssumption == Owner \in [Client -> User]
ASSUME ClientAssumption == IsFiniteSet(Client)
ASSUME KeptAssumption == SessionsKept \in Nat
ASSUME BoundAssumption == MaxSessions \in Nat /\ MaxResets \in Nat

VARIABLES
  sessions,   \* user_sessions with their refresh_tokens, in commit order
  password,   \* password[u] counts the passwords u has had so far
  req         \* the request each client has in flight

vars == <<sessions, password, req>>

Ids == DOMAIN sessions
SessionsOf(u) == {s \in Ids : sessions[s].user = u}
ActiveOf(u) == {s \in SessionsOf(u) : sessions[s].isActive}

Idle == [pc |-> "idle", kind |-> "none", session |-> 0,
         keep |-> {}, rows |-> {}, tokens |-> {}, seen |-> 0]

Init ==
  /\ sessions = <<>>
  /\ password = [u \in User |-> 0]
  /\ req = [c \in Client |-> Idle]

AtPc(c, pc) == req[c].pc = pc
Kind(c, kind) == req[c].kind = kind
Goto(c, pc) == req' = [req EXCEPT ![c].pc = pc]
Answer(c) == req' = [req EXCEPT ![c] = Idle]

-----------------------------------------------------------------------------
(* Locks *)

\* login and resetPassword begin their transaction by updating the user row.
HoldsUserRow(c) ==
  /\ req[c].kind \in {"login", "reset"}
  /\ req[c].pc \in {"read", "prune", "lock", "tokens", "commit"}

\* The session rows a transaction has updated.
LockedRows(c) == IF req[c].pc \in {"tokens", "commit"} THEN req[c].rows ELSE {}

Free(c, rows) == \A d \in Client \ {c} : LockedRows(d) \intersect rows = {}

-----------------------------------------------------------------------------
(* The requests, up to the transaction *)

\* login: the user is found and the password is the one stored now.
Login(c) ==
  /\ AtPc(c, "idle")
  /\ req' = [req EXCEPT ![c] = [Idle EXCEPT !.pc = "begin", !.kind = "login"]]
  /\ UNCHANGED <<sessions, password>>

\* refreshTokens: the token is stored ...
RefreshTokens(c, s) ==
  /\ AtPc(c, "idle")
  /\ s \in SessionsOf(Owner[c])
  /\ sessions[s].stored
  /\ req' = [req EXCEPT ![c] = [Idle EXCEPT !.pc = "check", !.kind = "refresh",
                                            !.session = s]]
  /\ UNCHANGED <<sessions, password>>

\* ... and the session it was issued with is still active.
SessionIsLiveUnchecked(s) == TRUE \* faulty
SessionIsLive(s) == sessions[s].isActive /\ ~sessions[s].isDeleted

\* The transaction begins with an updateMany of the sessions whose userId is
\* the session id of the token: it matches no row.
CheckSessionUnanswered(c) == \* faulty: the refusal is never sent
  /\ AtPc(c, "check")
  /\ SessionIsLive(req[c].session)
  /\ Goto(c, "read")
  /\ UNCHANGED <<sessions, password>>
CheckSession(c) ==
  /\ AtPc(c, "check")
  /\ IF SessionIsLive(req[c].session) THEN Goto(c, "read") ELSE Answer(c)
  /\ UNCHANGED <<sessions, password>>

\* resetPassword: the code was right (the one-time codes are not modelled here).
ResetPassword(c) ==
  /\ AtPc(c, "idle")
  /\ password[Owner[c]] < MaxResets
  /\ req' = [req EXCEPT ![c] = [Idle EXCEPT !.pc = "begin", !.kind = "reset"]]
  /\ UNCHANGED <<sessions, password>>

\* login (lastLoginAt) and resetPassword (password) update the user row
\* first, and wait for each other there.
LockUser(c) ==
  /\ AtPc(c, "begin")
  /\ \A d \in Client : Owner[d] = Owner[c] => ~HoldsUserRow(d)
  /\ Goto(c, IF Kind(c, "login") THEN "read" ELSE "prune")
  /\ UNCHANGED <<sessions, password>>

-----------------------------------------------------------------------------
(* generateTokens *)

\* The newest active sessions are kept, SessionsKept of them.
NewestCountedFromZero(active) == \* faulty: positions for ids
  {s - 1 : s \in {s \in active :
                   Cardinality({t \in active : t > s}) < SessionsKept}}
Newest(active) ==
  {s \in active : Cardinality({t \in active : t > s}) < SessionsKept}

ReadActiveSessions(c) ==
  /\ AtPc(c, "read")
  /\ req' = [req EXCEPT ![c].pc = "prune", ![c].keep = Newest(ActiveOf(Owner[c]))]
  /\ UNCHANGED <<sessions, password>>

\* The rows of the user that the updateMany of sessions is issued for: all
\* but those kept, or in resetPassword all that are active.
RowsToEndInactive(c) == \* faulty: sweeps the rows that have ended already
  IF Kind(c, "reset") THEN ActiveOf(Owner[c])
  ELSE SessionsOf(Owner[c]) \ (req[c].keep \union ActiveOf(Owner[c]))
RowsToEndKept(c) == \* faulty: a reset spares the newest session
  IF Kind(c, "reset") THEN ActiveOf(Owner[c]) \ {Len(sessions)}
  ELSE SessionsOf(Owner[c]) \ req[c].keep
RowsToEndOlder(c) == \* faulty: the rows older than those kept
  IF Kind(c, "reset") THEN ActiveOf(Owner[c])
  ELSE {s \in SessionsOf(Owner[c]) : \A k \in req[c].keep : s < k}
RowsToEnd(c) ==
  IF Kind(c, "reset") THEN ActiveOf(Owner[c])
  ELSE SessionsOf(Owner[c]) \ req[c].keep

IssueUpdate(c) ==
  /\ AtPc(c, "prune")
  /\ req' = [req EXCEPT ![c].pc = "lock", ![c].rows = RowsToEnd(c),
                        ![c].keep = {}, ![c].seen = Len(sessions)]
  /\ UNCHANGED <<sessions, password>>

\* The update waits for the rows others have locked; then its condition is
\* evaluated again on them.
LockRows(c) ==
  /\ AtPc(c, "lock")
  /\ Free(c, req[c].rows)
  /\ req' = [req EXCEPT
       ![c].pc = IF Kind(c, "reset") THEN "tokens" ELSE "commit",
       ![c].rows = IF Kind(c, "reset") THEN @ \intersect ActiveOf(Owner[c]) ELSE @]
  /\ UNCHANGED <<sessions, password>>

\* resetPassword: every refresh token of the user is deleted.
DeleteTokens(c) ==
  /\ AtPc(c, "tokens")
  /\ req' = [req EXCEPT ![c].pc = "commit", ![c].tokens = SessionsOf(Owner[c])]
  /\ UNCHANGED <<sessions, password>>

NewSession(c) ==
  [user |-> Owner[c], isActive |-> TRUE, isDeleted |-> FALSE, stored |-> TRUE]

\* What the transaction wrote becomes visible.
Ended(c) ==
  [s \in Ids |->
    [sessions[s] EXCEPT
       !.isActive = @ /\ s \notin req[c].rows,
       !.isDeleted = @ \/ s \in req[c].rows,
       !.stored = @ /\ s \notin req[c].tokens]]

CommitTokens(c) ==
  /\ AtPc(c, "commit")
  /\ req[c].kind \in {"login", "refresh"}
  /\ Len(sessions) < MaxSessions
  /\ sessions' = Append(Ended(c), NewSession(c))
  /\ Answer(c)
  /\ UNCHANGED password

CommitReset(c) ==
  /\ AtPc(c, "commit")
  /\ Kind(c, "reset")
  /\ sessions' = Ended(c)
  /\ password' = [password EXCEPT ![Owner[c]] = @ + 1]
  /\ Answer(c)

\* A transaction is rolled back: a timeout, a lost connection, a crash.
Rollback(c) ==
  /\ req[c].pc \in {"read", "prune", "lock", "tokens", "commit"}
  /\ Answer(c)
  /\ UNCHANGED <<sessions, password>>

-----------------------------------------------------------------------------
\* logout: the session of the access token ends.  The updateMany of refresh
\* tokens looks for the access token and matches no row.
Logout(c, s) ==
  /\ AtPc(c, "idle")
  /\ s \in ActiveOf(Owner[c])
  /\ Free(c, {s})
  /\ sessions' = [sessions EXCEPT ![s].isActive = FALSE]
  /\ UNCHANGED <<password, req>>

-----------------------------------------------------------------------------
RequestStep(c) ==
  \/ CheckSession(c)
  \/ LockUser(c)
  \/ ReadActiveSessions(c)
  \/ IssueUpdate(c)
  \/ LockRows(c)
  \/ DeleteTokens(c)
  \/ CommitTokens(c)
  \/ CommitReset(c)

ClientStep(c) ==
  \/ Login(c)
  \/ \E s \in Ids : RefreshTokens(c, s)
  \/ ResetPassword(c)
  \/ \E s \in Ids : Logout(c, s)

Next == \E c \in Client : RequestStep(c) \/ ClientStep(c) \/ Rollback(c)

Spec == Init /\ [][Next]_vars

\* Statements return, and PostgreSQL grants locks in the order of request.
Fairness == \A c \in Client : SF_vars(RequestStep(c))
FairSpec == Spec /\ Fairness

-----------------------------------------------------------------------------
Pc == {"idle", "check", "begin", "read", "prune", "lock", "tokens", "commit"}

Session == [user : User, isActive : BOOLEAN, isDeleted : BOOLEAN,
            stored : BOOLEAN]

Request == [pc : Pc, kind : {"none", "login", "refresh", "reset"},
            session : Nat, keep : SUBSET Nat, rows : SUBSET Nat,
            tokens : SUBSET Nat, seen : Nat]

(* The shape of the tables; what a transaction has read or written exists. *)
TypeOK ==
  /\ sessions \in Seq(Session)
  /\ password \in [User -> Nat]
  /\ req \in [Client -> Request]
  /\ \A c \in Client :
       req[c].keep \union req[c].rows \union req[c].tokens \subseteq Ids

(* generateTokens keeps the newest SessionsKept sessions and adds one, in  *)
(* statements that interleave with other requests; a user never has more   *)
(* active sessions than those kept and one per client.                     *)
ClientsOf(u) == {c \in Client : Owner[c] = u}
ActiveBound ==
  \A u \in User :
    Cardinality(ActiveOf(u)) <= SessionsKept + Cardinality(ClientsOf(u))

(* A session has ended and no refresh that found it live is still running. *)
Over(s) ==
  /\ ~sessions[s].isActive
  /\ \A c \in Client : ~(/\ Kind(c, "refresh") /\ req[c].session = s
                         /\ req[c].pc \notin {"idle", "check"})

(* Logout, pruning and reset are final: a session that is over never comes *)
(* back, and no session is issued on its refresh token any more.           *)
OverIsFinal ==
  [][\A s \in Ids : Over(s) =>
       /\ Over(s)'
       /\ \A c \in Client : CommitTokens(c) => req[c].session # s]_vars

(* "Invalidate all existing sessions for security" (resetPassword): when a *)
(* reset commits, a session still active was committed after the reset's   *)
(* update of the sessions was issued.                                      *)
ResetEndsSessions ==
  [][\A c \in Client : CommitReset(c) =>
       \A s \in ActiveOf(Owner[c])' : s > req[c].seen]_vars

(* "we keep only 1 previous + new one" (generateTokens): the sessions to   *)
(* keep are read in one statement and the others ended in a later one, so  *)
(* that a session committed in between is ended though it is the newest.   *)
(* But none slips through: when a login or refresh commits, few sessions   *)
(* are still active of all those committed before its update was issued.   *)
PruningLeavesFew ==
  [][\A c \in Client : CommitTokens(c) =>
       Cardinality({s \in ActiveOf(Owner[c])' : s <= req[c].seen}) <= SessionsKept]_vars

(* Whoever waits for the locks of whom, every request gets its answer,     *)
(* unless the bound on sessions stops it.                                  *)
EveryRequestEnds ==
  \A c \in Client :
    ~AtPc(c, "idle") ~> (AtPc(c, "idle") \/ Len(sessions) = MaxSessions)

(* "Deactivate all existing sessions for this user" (auth.service.ts:270): *)
(* after a refresh only the session it creates is active.                  *)
RefreshEndsSessions ==
  [][\A c \in Client : CommitTokens(c) /\ Kind(c, "refresh") =>
       ActiveOf(Owner[c])' \subseteq {Len(sessions')}]_vars
=============================================================================
