--------------------------- MODULE SessionsProofs ---------------------------
(***************************************************************************)
(* For any users, clients and bounds: the shape of the tables, what has    *)
(* ended stays ended, a reset ends what it saw, pruning leaves few of the  *)
(* sessions it saw, and a user's active sessions are bounded.              *)
(***************************************************************************)
EXTENDS Sessions, FiniteSetTheorems, SequenceTheorems, TLAPS

Issuing(c) == req[c].kind \in {"login", "refresh"}
Issued(c) == req[c].pc \in {"lock", "tokens", "commit"}

(* What a transaction that has issued its update relies on: the rows are   *)
(* the user's own, and those it spares of the rows it saw are few (login,  *)
(* refresh) or have ended already (reset).                                 *)
OwnRows(c) == req[c].rows \subseteq SessionsOf(Owner[c]) /\ req[c].seen <= Len(sessions)
Spared(c) == {s \in SessionsOf(Owner[c]) \ req[c].rows : s <= req[c].seen}
EndsAllSeen(c) == Kind(c, "reset") /\ Issued(c) => Spared(c) \intersect ActiveOf(Owner[c]) = {}
SparesFew(c) ==
  /\ AtPc(c, "prune") /\ Issuing(c) => Cardinality(req[c].keep) <= SessionsKept
  /\ Issued(c) /\ Issuing(c) => Cardinality(Spared(c)) <= SessionsKept

RequestOK(c) ==
  /\ ~Kind(c, "refresh") => req[c].session = 0
  /\ AtPc(c, "begin") => ~Kind(c, "refresh")
  /\ OwnRows(c) /\ EndsAllSeen(c) /\ SparesFew(c)

IInv == TypeOK /\ \A c \in Client : RequestOK(c)

-----------------------------------------------------------------------------
(* What the writes of sessions do to the rows. *)

LEMMA EndedRows ==
  ASSUME TypeOK, NEW c \in Client
  PROVE  /\ Ended(c) \in Seq(Session) /\ Len(Ended(c)) = Len(sessions)
         /\ \A s \in Ids :
              /\ Ended(c)[s].user = sessions[s].user
              /\ Ended(c)[s].isActive = (sessions[s].isActive /\ s \notin req[c].rows)
              /\ Ended(c)[s].isDeleted = (sessions[s].isDeleted \/ s \in req[c].rows)
PROOF
<1> DEFINE row(s) == [sessions[s] EXCEPT !.isActive = @ /\ s \notin req[c].rows,
                                         !.isDeleted = @ \/ s \in req[c].rows,
                                         !.stored = @ /\ s \notin req[c].tokens]
<1>1. Ids = 1..Len(sessions) /\ Len(sessions) \in Nat
      /\ \A s \in Ids : sessions[s] \in Session
  BY DEF TypeOK, Ids
<1>2. \A s \in Ids : /\ row(s) \in Session
                     /\ row(s).user = sessions[s].user
                     /\ row(s).isActive = (sessions[s].isActive /\ s \notin req[c].rows)
                     /\ row(s).isDeleted = (sessions[s].isDeleted \/ s \in req[c].rows)
  <2> SUFFICES ASSUME NEW s \in Ids
      PROVE  /\ row(s) \in Session
             /\ row(s).user = sessions[s].user
             /\ row(s).isActive = (sessions[s].isActive /\ s \notin req[c].rows)
             /\ row(s).isDeleted = (sessions[s].isDeleted \/ s \in req[c].rows)
    OBVIOUS
  <2>1. sessions[s] \in Session
    BY <1>1
  <2> QED
    BY <2>1 DEF Session
<1>3. Ended(c) = [s \in Ids |-> row(s)]
  BY DEF Ended
<1> HIDE DEF row
<1>4. Ended(c) \in [1..Len(sessions) -> Session]
  BY <1>1, <1>2, <1>3
<1>5. Ended(c) \in Seq(Session) /\ Len(Ended(c)) = Len(sessions)
  BY <1>1, <1>4
<1> QED
  BY <1>2, <1>3, <1>5

LEMMA CommitTokensRows ==
  ASSUME TypeOK, NEW c \in Client, CommitTokens(c)
  PROVE  /\ sessions' \in Seq(Session) /\ Len(sessions') = Len(sessions) + 1
         /\ Ids = 1..Len(sessions) /\ Ids' = 1..(Len(sessions) + 1)
         /\ sessions'[Len(sessions) + 1] = NewSession(c)
         /\ \A s \in Ids :
              /\ sessions'[s].user = sessions[s].user
              /\ sessions'[s].isActive = (sessions[s].isActive /\ s \notin req[c].rows)
              /\ sessions'[s].isDeleted = (sessions[s].isDeleted \/ s \in req[c].rows)
PROOF
<1>1. NewSession(c) \in Session
  <2>1. Owner[c] \in User /\ password[Owner[c]] \in Nat
    BY OwnerAssumption DEF TypeOK
  <2> QED
    BY <2>1 DEF NewSession, Session
<1>2. sessions' = Append(Ended(c), NewSession(c))
  BY DEF CommitTokens
<1>3. Ended(c) \in Seq(Session) /\ Len(Ended(c)) = Len(sessions)
  BY EndedRows
<1>4. Ids = 1..Len(sessions) /\ Len(sessions) \in Nat
  BY DEF TypeOK, Ids
<1>5. /\ sessions' \in Seq(Session) /\ Len(sessions') = Len(sessions) + 1
      /\ sessions'[Len(sessions) + 1] = NewSession(c)
      /\ \A s \in Ids : sessions'[s] = Ended(c)[s]
  BY <1>1, <1>2, <1>3, <1>4
<1>6. Ids' = 1..(Len(sessions) + 1)
  BY <1>5 DEF Ids
<1> QED
  BY <1>4, <1>5, <1>6, EndedRows

LEMMA CommitResetRows ==
  ASSUME TypeOK, NEW c \in Client, CommitReset(c)
  PROVE  /\ sessions' \in Seq(Session) /\ Len(sessions') = Len(sessions)
         /\ Ids' = Ids
         /\ \A s \in Ids :
              /\ sessions'[s].user = sessions[s].user
              /\ sessions'[s].isActive = (sessions[s].isActive /\ s \notin req[c].rows)
              /\ sessions'[s].isDeleted = (sessions[s].isDeleted \/ s \in req[c].rows)
PROOF
<1>1. sessions' = Ended(c)
  BY DEF CommitReset
<1>2. sessions' \in Seq(Session) /\ Len(sessions') = Len(sessions)
  BY <1>1, EndedRows
<1>3. Ids' = Ids
  BY <1>2 DEF Ids, TypeOK
<1> QED
  BY <1>1, <1>2, <1>3, EndedRows

LEMMA LogoutRows ==
  ASSUME TypeOK, NEW c \in Client, NEW s \in Ids, Logout(c, s)
  PROVE  /\ sessions' \in Seq(Session) /\ Len(sessions') = Len(sessions)
         /\ Ids' = Ids
         /\ \A t \in Ids :
              /\ sessions'[t].user = sessions[t].user
              /\ sessions'[t].isActive = (sessions[t].isActive /\ t # s)
              /\ sessions'[t].isDeleted = sessions[t].isDeleted
PROOF
<1> DEFINE row == [sessions[s] EXCEPT !.isActive = FALSE]
<1>1. Ids = 1..Len(sessions) /\ \A t \in Ids : sessions[t] \in Session
  BY DEF TypeOK, Ids
<1>2. row \in Session /\ row.user = sessions[s].user
      /\ row.isActive = FALSE /\ row.isDeleted = sessions[s].isDeleted
  BY <1>1 DEF Session
<1>3. sessions' = [sessions EXCEPT ![s] = row]
  BY DEF Logout
<1> HIDE DEF row
<1>4. sessions' \in Seq(Session) /\ Len(sessions') = Len(sessions)
  BY <1>1, <1>2, <1>3, ExceptSeq DEF TypeOK
<1>5. Ids' = Ids
  BY <1>4 DEF Ids, TypeOK
<1>6. \A t \in Ids : sessions'[t] = IF t = s THEN row ELSE sessions[t]
  BY <1>1, <1>3 DEF TypeOK
<1> QED
  <2>1. ASSUME NEW t \in Ids, t # s PROVE sessions[t].isActive \in BOOLEAN
    BY <1>1 DEF Session
  <2> QED
    BY <1>2, <1>4, <1>5, <1>6, <2>1

-----------------------------------------------------------------------------
(* A step of one client keeps what is true of the others: rows are only    *)
(* added, nobody changes their user, and no session becomes active again.  *)

Grows ==
  /\ Ids \subseteq Ids' /\ Len(sessions) <= Len(sessions')
  /\ \A s \in Ids' : s \notin Ids => s > Len(sessions)
  /\ \A s \in Ids : /\ sessions'[s].user = sessions[s].user
                    /\ sessions'[s].isActive => sessions[s].isActive

LEMMA SessionsOfGrow ==
  ASSUME Grows, NEW u
  PROVE  /\ \A s \in Ids : s \in SessionsOf(u)' <=> s \in SessionsOf(u)
         /\ \A s \in SessionsOf(u)' : s \in Ids \/ s > Len(sessions)
         /\ \A s \in Ids : s \in ActiveOf(u)' => s \in ActiveOf(u)
BY DEF Grows, SessionsOf, ActiveOf

\* What the numbers in a request mean to arithmetic.
LEMMA Numbers ==
  ASSUME TypeOK
  PROVE  /\ Ids = 1..Len(sessions) /\ Len(sessions) \in Nat
         /\ \A s \in Ids : sessions[s] \in Session
         /\ \A c \in Client : req[c] \in Request /\ req[c].seen \in Nat
BY DEF TypeOK, Ids, Request

LEMMA OthersStay ==
  ASSUME TypeOK, TypeOK', Grows, NEW d \in Client, RequestOK(d), req'[d] = req[d]
  PROVE  RequestOK(d)'
PROOF
<1>1. OwnRows(d) /\ req[d].seen \in Nat /\ Len(sessions) \in Nat /\ Len(sessions)' \in Nat
      /\ Ids \subseteq Nat /\ Ids' \subseteq Nat
  BY Numbers DEF RequestOK, TypeOK, Ids
<1>2. OwnRows(d)'
  <2>1. Len(sessions) <= Len(sessions)'
    BY DEF Grows
  <2>2. SessionsOf(Owner[d]) \subseteq SessionsOf(Owner[d])'
    BY SessionsOfGrow DEF SessionsOf
  <2> QED
    BY <1>1, <2>1, <2>2 DEF OwnRows
<1>3. Spared(d)' = Spared(d)
  <2>1. \A s \in SessionsOf(Owner[d])' : s <= req[d].seen => s \in SessionsOf(Owner[d])
    <3> SUFFICES ASSUME NEW s \in SessionsOf(Owner[d])', s <= req[d].seen
                 PROVE  s \in SessionsOf(Owner[d])
      OBVIOUS
    <3>1. s \in Nat
      BY <1>1 DEF SessionsOf
    <3>2. ~(s > Len(sessions))
      BY <1>1, <3>1 DEF OwnRows
    <3> QED
      BY <3>2, SessionsOfGrow
  <2>2. SessionsOf(Owner[d]) \subseteq SessionsOf(Owner[d])'
    BY SessionsOfGrow DEF SessionsOf
  <2> QED
    BY <2>1, <2>2 DEF Spared
<1>4. Spared(d) \intersect ActiveOf(Owner[d])' \subseteq ActiveOf(Owner[d])
  BY SessionsOfGrow DEF Spared, SessionsOf
<1> QED
  BY <1>2, <1>3, <1>4
     DEF RequestOK, EndsAllSeen, SparesFew, Kind, AtPc, Issued, Issuing

\* Only c's request changes, to one whose sessions exist.
Moves(c) ==
  /\ req' = [req EXCEPT ![c] = req'[c]]
  /\ req'[c] \in Request
  /\ req'[c].keep \union req'[c].rows \union req'[c].tokens \subseteq Ids'

LEMMA StepKeeps ==
  ASSUME IInv, NEW c \in Client, Grows, Moves(c),
         sessions' \in Seq(Session), password' \in [User -> Nat],
         TypeOK' => RequestOK(c)'
  PROVE  IInv'
PROOF
<1>1. req \in [Client -> Request] /\ \A d \in Client : RequestOK(d)
  BY DEF IInv, TypeOK
<1>2. req' \in [Client -> Request] /\ \A d \in Client : d # c => req'[d] = req[d]
  BY <1>1 DEF Moves
<1>3. TypeOK'
  BY <1>2 DEF Moves, Grows, IInv, TypeOK
<1>4. ASSUME NEW d \in Client, d # c PROVE RequestOK(d)'
  BY <1>1, <1>2, <1>3, <1>4, OthersStay DEF IInv
<1> QED
  BY <1>3, <1>4 DEF IInv

LEMMA SameTables ==
  ASSUME IInv, UNCHANGED <<sessions, password>>
  PROVE  /\ Grows /\ sessions' \in Seq(Session) /\ password' \in [User -> Nat]
         /\ Ids' = Ids
         /\ \A u : SessionsOf(u)' = SessionsOf(u) /\ ActiveOf(u)' = ActiveOf(u)
PROOF
<1>1. TypeOK
  BY DEF IInv
<1>2. Len(sessions) \in Nat
  BY <1>1, Numbers
<1> QED
  BY <1>1, <1>2 DEF TypeOK, Grows, Ids, SessionsOf, ActiveOf

LEMMA IdleFits ==
  /\ Idle \in Request
  /\ Idle.keep \union Idle.rows \union Idle.tokens = {}
  /\ Idle.pc = "idle" /\ Idle.session = 0 /\ Idle.seen = 0 /\ Idle.kind = "none"
BY DEF Idle, Request, Pc

LEMMA AnswerKeeps ==
  ASSUME IInv, NEW c \in Client, Answer(c), Grows,
         sessions' \in Seq(Session), password' \in [User -> Nat]
  PROVE  IInv'
PROOF
<1>1. req \in [Client -> Request]
  BY DEF IInv, TypeOK
<1>2. req'[c] = Idle
  BY <1>1 DEF Answer
<1>3. Moves(c)
  BY <1>1, <1>2, IdleFits DEF Moves, Answer
<1>4. Len(sessions') \in Nat
  OBVIOUS
<1>5. RequestOK(c)'
  <2>1. OwnRows(c)'
    BY <1>2, <1>4, IdleFits DEF OwnRows
  <2>2. EndsAllSeen(c)' /\ SparesFew(c)'
    BY <1>2, IdleFits DEF EndsAllSeen, SparesFew, Kind, AtPc, Issued, Issuing
  <2> QED
    BY <1>2, <2>1, <2>2, IdleFits DEF RequestOK, Kind, AtPc
<1> QED
  BY <1>3, <1>5, StepKeeps

-----------------------------------------------------------------------------
(* Counting the elements of a finite set of numbers from either end. *)

LEMMA NewestFew ==
  ASSUME NEW A \in SUBSET Nat, IsFiniteSet(A)
  PROVE  Newest(A) \subseteq A /\ Cardinality(Newest(A)) <= SessionsKept
PROOF
<1> DEFINE above(s) == {t \in A : t > s}
           rank == [s \in Newest(A) |-> Cardinality(above(s))]
<1>1. Newest(A) \subseteq A
  BY DEF Newest
<1>2. \A s \in A : IsFiniteSet(above(s)) /\ Cardinality(above(s)) \in Nat
  BY FS_Subset, FS_CardinalityType
<1>3. SessionsKept \in Nat
  BY KeptAssumption
<1>4. \A s \in Newest(A) : rank[s] \in 0..(SessionsKept - 1)
  <2> SUFFICES ASSUME NEW s \in Newest(A) PROVE rank[s] \in 0..(SessionsKept - 1)
    OBVIOUS
  <2>1. Cardinality(above(s)) < SessionsKept /\ Cardinality(above(s)) \in Nat
    BY <1>2 DEF Newest
  <2> HIDE DEF above
  <2> QED
    BY <1>3, <2>1
<1>5. \A r, s \in A : r < s => Cardinality(above(s)) # Cardinality(above(r))
  <2> SUFFICES ASSUME NEW r \in A, NEW s \in A, r < s
               PROVE  Cardinality(above(s)) # Cardinality(above(r))
    OBVIOUS
  <2>0. r \in Nat /\ s \in Nat /\ \A t \in A : t \in Nat
    OBVIOUS
  <2>1. above(s) \subseteq above(r)
    <3>1. ASSUME NEW t \in A, t > s PROVE t > r
      BY <2>0, <3>1
    <3> QED
      BY <3>1
  <2>3. s \in above(r) /\ s \notin above(s)
    <3>1. s > r /\ ~(s > s)
      BY <2>0
    <3> QED
      BY <3>1
  <2>2. IsFiniteSet(above(r))
    BY <1>2
  <2> HIDE DEF above
  <2> QED
    BY <2>1, <2>2, <2>3, FS_Subset
<1>6. \A r, s \in Newest(A) : rank[r] = rank[s] => r = s
  <2> SUFFICES ASSUME NEW r \in Newest(A), NEW s \in Newest(A), rank[r] = rank[s]
               PROVE  r = s
    OBVIOUS
  <2>1. r \in A /\ s \in A /\ r \in Nat /\ s \in Nat
    BY <1>1
  <2>2. Cardinality(above(r)) = Cardinality(above(s))
    OBVIOUS
  <2>3. ~(r < s) /\ ~(s < r)
    BY <1>5, <2>1, <2>2
  <2> QED
    BY <2>1, <2>3
<1>7. rank \in Injection(Newest(A), 0..(SessionsKept - 1))
  BY <1>4, <1>6 DEF Injection, IsInjective
<1>8. /\ IsFiniteSet(0..(SessionsKept - 1))
      /\ Cardinality(0..(SessionsKept - 1)) = SessionsKept
  BY <1>3, FS_Interval
<1> QED
  BY <1>1, <1>7, <1>8, FS_Injection

LEMMA FewUpToEach ==
  ASSUME NEW A \in SUBSET Nat, IsFiniteSet(A), NEW K \in Nat,
         \A t \in A : Cardinality({s \in A : s <= t}) <= K
  PROVE  Cardinality(A) <= K
PROOF
<1> DEFINE upTo(t) == {s \in A : s <= t}
           rank == [t \in A |-> Cardinality(upTo(t))]
<1>1. \A t \in A : IsFiniteSet(upTo(t)) /\ Cardinality(upTo(t)) \in Nat
  BY FS_Subset, FS_CardinalityType
<1>2. \A t \in A : rank[t] \in 1..K
  <2> SUFFICES ASSUME NEW t \in A PROVE Cardinality(upTo(t)) \in 1..K
    OBVIOUS
  <2>1. t \in upTo(t) /\ IsFiniteSet(upTo(t)) /\ Cardinality(upTo(t)) \in Nat
        /\ Cardinality(upTo(t)) <= K
    BY <1>1
  <2> HIDE DEF upTo
  <2>2. Cardinality(upTo(t)) # 0
    BY <2>1, FS_EmptySet
  <2> QED
    BY <2>1, <2>2
<1>3. \A r, s \in A : r < s => Cardinality(upTo(s)) # Cardinality(upTo(r))
  <2> SUFFICES ASSUME NEW r \in A, NEW s \in A, r < s
               PROVE  Cardinality(upTo(s)) # Cardinality(upTo(r))
    OBVIOUS
  <2>0. r \in Nat /\ s \in Nat /\ \A t \in A : t \in Nat
    OBVIOUS
  <2>1. upTo(r) \subseteq upTo(s)
    <3>1. ASSUME NEW t \in A, t <= r PROVE t <= s
      BY <2>0, <3>1
    <3> QED
      BY <3>1
  <2>3. s \in upTo(s) /\ s \notin upTo(r)
    <3>1. s <= s /\ ~(s <= r)
      BY <2>0
    <3> QED
      BY <3>1
  <2>2. IsFiniteSet(upTo(s))
    BY <1>1
  <2> HIDE DEF upTo
  <2> QED
    BY <2>1, <2>2, <2>3, FS_Subset
<1>4. \A r, s \in A : rank[r] = rank[s] => r = s
  <2> SUFFICES ASSUME NEW r \in A, NEW s \in A, rank[r] = rank[s] PROVE r = s
    OBVIOUS
  <2>1. Cardinality(upTo(r)) = Cardinality(upTo(s)) /\ r \in Nat /\ s \in Nat
    OBVIOUS
  <2>2. ~(r < s) /\ ~(s < r)
    BY <1>3, <2>1
  <2> QED
    BY <2>1, <2>2
<1>5. rank \in Injection(A, 1..K)
  BY <1>2, <1>4 DEF Injection, IsInjective
<1>6. IsFiniteSet(1..K) /\ Cardinality(1..K) = K
  BY FS_Interval
<1> QED
  BY <1>5, <1>6, FS_Injection

-----------------------------------------------------------------------------
(* Each step keeps the invariant. *)

LEMMA InitIInv == Init => IInv
PROOF
<1> SUFFICES ASSUME Init PROVE IInv
  OBVIOUS
<1>1. sessions \in Seq(Session) /\ Ids = {} /\ Len(sessions) = 0
  BY EmptySeq DEF Init, Ids
<1>2. \A c \in Client : req[c] = Idle
  BY DEF Init
<1>3. TypeOK
  BY <1>1, <1>2, IdleFits DEF Init, TypeOK
<1>4. ASSUME NEW c \in Client PROVE RequestOK(c)
  BY <1>1, <1>2, IdleFits
     DEF RequestOK, OwnRows, EndsAllSeen, SparesFew, Kind, AtPc, Issued, Issuing
<1> QED
  BY <1>3, <1>4 DEF IInv

\* A request that begins has read nothing yet.
Fresh(p) ==
  /\ p \in Request /\ p.pc \in {"begin", "check"}
  /\ p.keep = {} /\ p.rows = {} /\ p.tokens = {} /\ p.seen = 0
  /\ p.kind # "refresh" => p.session = 0
  /\ p.pc = "begin" => p.kind # "refresh"

LEMMA BeginKeeps ==
  ASSUME IInv, NEW c \in Client, UNCHANGED <<sessions, password>>,
         NEW p, Fresh(p), req' = [req EXCEPT ![c] = p]
  PROVE  IInv'
PROOF
<1>1. req \in [Client -> Request] /\ Len(sessions) \in Nat
  BY Numbers DEF IInv, TypeOK
<1>2. req'[c] = p /\ Moves(c)
  BY <1>1 DEF Moves, Fresh
<1>3. OwnRows(c)'
  <2>1. sessions' = sessions /\ 0 <= Len(sessions)
    BY <1>1
  <2> QED
    BY <1>2, <2>1 DEF OwnRows, Fresh
<1>4. EndsAllSeen(c)' /\ SparesFew(c)'
  BY <1>2 DEF EndsAllSeen, SparesFew, Kind, AtPc, Issued, Issuing, Fresh
<1> QED
  BY <1>2, <1>3, <1>4, SameTables, StepKeeps DEF RequestOK, Kind, AtPc, Fresh

LEMMA GotoRow ==
  ASSUME TypeOK, NEW c \in Client, NEW pc \in Pc, Goto(c, pc), Ids' = Ids
  PROVE  /\ Moves(c)
         /\ req'[c].pc = pc /\ req'[c].kind = req[c].kind
         /\ req'[c].session = req[c].session /\ req'[c].keep = req[c].keep
         /\ req'[c].rows = req[c].rows /\ req'[c].seen = req[c].seen
PROOF
<1> DEFINE p == [req[c] EXCEPT !.pc = pc]
<1>1. req \in [Client -> Request] /\ req[c] \in Request
      /\ req[c].keep \union req[c].rows \union req[c].tokens \subseteq Ids
  BY DEF TypeOK
<1>2. /\ p \in Request /\ p.pc = pc /\ p.kind = req[c].kind
      /\ p.session = req[c].session /\ p.keep = req[c].keep
      /\ p.rows = req[c].rows /\ p.seen = req[c].seen /\ p.tokens = req[c].tokens
  BY <1>1 DEF Request
<1>3. req' = [req EXCEPT ![c] = p]
  BY <1>1 DEF Goto
<1> HIDE DEF p
<1> QED
  BY <1>1, <1>2, <1>3 DEF Moves

LEMMA CheckSessionKeeps ==
  ASSUME IInv, NEW c \in Client, CheckSession(c)
  PROVE  IInv'
PROOF
<1>1. UNCHANGED <<sessions, password>>
  BY DEF CheckSession
<1>2. CASE Answer(c)
  BY <1>1, <1>2, SameTables, AnswerKeeps
<1>3. CASE Goto(c, "read")
  <2>1. TypeOK /\ RequestOK(c) /\ Ids' = Ids
    BY <1>1 DEF IInv, Ids
  <2>2. "read" \in Pc
    BY DEF Pc
  <2>3. /\ Moves(c)
        /\ req'[c].pc = "read" /\ req'[c].kind = req[c].kind
        /\ req'[c].session = req[c].session /\ req'[c].keep = req[c].keep
        /\ req'[c].rows = req[c].rows /\ req'[c].seen = req[c].seen
    BY <1>3, <2>1, <2>2, GotoRow
  <2>4. OwnRows(c)'
    BY <1>1, <2>1, <2>3, SameTables DEF RequestOK, OwnRows
  <2>5. RequestOK(c)'
    BY <2>1, <2>3, <2>4 DEF RequestOK, EndsAllSeen, SparesFew, Kind, AtPc, Issued, Issuing
  <2> QED
    BY <1>1, <2>3, <2>5, SameTables, StepKeeps
<1> QED
  BY <1>2, <1>3 DEF CheckSession

LEMMA LockUserKeeps ==
  ASSUME IInv, NEW c \in Client, LockUser(c)
  PROVE  IInv'
PROOF
<1>1. UNCHANGED <<sessions, password>> /\ AtPc(c, "begin")
  BY DEF LockUser
<1>2. TypeOK /\ RequestOK(c) /\ Ids' = Ids /\ req[c] \in Request
  BY <1>1 DEF IInv, Ids, TypeOK
<1>3. PICK pc \in {"read", "prune"} : Goto(c, pc) /\ (pc = "read" <=> Kind(c, "login"))
  BY DEF LockUser
<1>4. pc \in Pc
  BY DEF Pc
<1>5. /\ Moves(c)
      /\ req'[c].pc = pc /\ req'[c].kind = req[c].kind
      /\ req'[c].session = req[c].session /\ req'[c].keep = req[c].keep
      /\ req'[c].rows = req[c].rows /\ req'[c].seen = req[c].seen
  BY <1>2, <1>3, <1>4, GotoRow
<1>6. OwnRows(c)'
  BY <1>1, <1>2, <1>5, SameTables DEF RequestOK, OwnRows
<1>7. RequestOK(c)'
  BY <1>1, <1>2, <1>3, <1>5, <1>6
     DEF RequestOK, EndsAllSeen, SparesFew, Kind, AtPc, Issued, Issuing
<1> QED
  BY <1>1, <1>5, <1>7, SameTables, StepKeeps

LEMMA ReadActiveSessionsKeeps ==
  ASSUME IInv, NEW c \in Client, ReadActiveSessions(c)
  PROVE  IInv'
PROOF
<1> DEFINE K == Newest(ActiveOf(Owner[c]))
           p == [req[c] EXCEPT !.pc = "prune", !.keep = K]
<1>1. UNCHANGED <<sessions, password>> /\ Ids' = Ids
  BY DEF ReadActiveSessions, Ids
<1>2. /\ TypeOK /\ RequestOK(c) /\ req \in [Client -> Request] /\ req[c] \in Request
      /\ req[c].keep \union req[c].rows \union req[c].tokens \subseteq Ids
  BY DEF IInv, TypeOK
<1>3. ActiveOf(Owner[c]) \subseteq Ids /\ Ids \subseteq Nat /\ IsFiniteSet(Ids)
  BY <1>2, Numbers, FS_Interval DEF ActiveOf, SessionsOf
<1>4. K \subseteq Ids /\ K \subseteq Nat /\ Cardinality(K) <= SessionsKept
  <2>1. ActiveOf(Owner[c]) \in SUBSET Nat /\ IsFiniteSet(ActiveOf(Owner[c]))
    BY <1>3, FS_Subset
  <2> QED
    BY <1>3, <2>1, NewestFew
<1>5. req' = [req EXCEPT ![c] = p]
  BY <1>2 DEF ReadActiveSessions
<1> HIDE DEF K
<1>6. /\ p \in Request /\ p.pc = "prune" /\ p.kind = req[c].kind /\ p.keep = K
      /\ p.session = req[c].session /\ p.rows = req[c].rows
      /\ p.seen = req[c].seen /\ p.tokens = req[c].tokens
  BY <1>2, <1>4 DEF Request, Pc
<1> HIDE DEF p
<1>7. req'[c] = p /\ Moves(c)
  BY <1>1, <1>2, <1>4, <1>5, <1>6 DEF Moves
<1>8. OwnRows(c)'
  BY <1>1, <1>2, <1>6, <1>7, SameTables DEF RequestOK, OwnRows
<1>9. EndsAllSeen(c)' /\ SparesFew(c)'
  BY <1>4, <1>6, <1>7 DEF EndsAllSeen, SparesFew, Kind, AtPc, Issued, Issuing
<1> QED
  BY <1>1, <1>2, <1>6, <1>7, <1>8, <1>9, SameTables, StepKeeps DEF RequestOK, Kind, AtPc

LEMMA IssueUpdateKeeps ==
  ASSUME IInv, NEW c \in Client, IssueUpdate(c)
  PROVE  IInv'
PROOF
<1> DEFINE R == RowsToEnd(c)
           p == [req[c] EXCEPT !.pc = "lock", !.rows = R, !.keep = {},
                               !.seen = Len(sessions)]
<1>1. UNCHANGED <<sessions, password>> /\ Ids' = Ids /\ sessions' = sessions
  BY DEF IssueUpdate, Ids
<1>2. /\ TypeOK /\ RequestOK(c) /\ req \in [Client -> Request] /\ req[c] \in Request
      /\ req[c].keep \union req[c].rows \union req[c].tokens \subseteq Ids
      /\ AtPc(c, "prune")
  BY DEF IInv, TypeOK, IssueUpdate
<1>3. Ids = 1..Len(sessions) /\ Len(sessions) \in Nat
  BY <1>2, Numbers
<1>4. RowsToEnd(c) \subseteq SessionsOf(Owner[c]) /\ SessionsOf(Owner[c]) \subseteq Ids
  BY DEF RowsToEnd, ActiveOf, SessionsOf
<1>5. req' = [req EXCEPT ![c] = p]
  BY <1>2 DEF IssueUpdate
<1>6. /\ p \in Request /\ p.pc = "lock" /\ p.kind = req[c].kind /\ p.keep = {}
      /\ p.session = req[c].session /\ p.rows = RowsToEnd(c)
      /\ p.seen = Len(sessions) /\ p.tokens = req[c].tokens
  <2>1. R \subseteq Nat
    BY <1>3, <1>4
  <2>2. "lock" \in Pc
    BY DEF Pc
  <2> HIDE DEF R
  <2>3. p \in Request
    BY <1>2, <1>3, <2>1, <2>2 DEF Request
  <2>4. /\ p.pc = "lock" /\ p.kind = req[c].kind /\ p.keep = {}
        /\ p.session = req[c].session /\ p.rows = R
        /\ p.seen = Len(sessions) /\ p.tokens = req[c].tokens
    BY <1>2 DEF Request
  <2> QED
    BY <2>3, <2>4 DEF R
<1> HIDE DEF p
<1>7. req'[c] = p /\ Moves(c)
  BY <1>1, <1>2, <1>4, <1>5, <1>6 DEF Moves
<1>8. OwnRows(c)'
  <2>1. SessionsOf(Owner[c])' = SessionsOf(Owner[c])
    BY <1>1, SameTables
  <2> QED
    BY <1>1, <1>3, <1>4, <1>6, <1>7, <2>1 DEF OwnRows
<1>9. Spared(c)' = SessionsOf(Owner[c]) \ RowsToEnd(c)
  <2>1. \A s \in SessionsOf(Owner[c]) : s <= Len(sessions)
    BY <1>3, <1>4
  <2> QED
    BY <1>1, <1>6, <1>7, <2>1, SameTables DEF Spared
<1>10. EndsAllSeen(c)'
  <2>1. Kind(c, "reset")' => RowsToEnd(c) = ActiveOf(Owner[c])
    BY <1>6, <1>7 DEF Kind, RowsToEnd
  <2> QED
    BY <1>1, <1>9, <2>1, SameTables DEF EndsAllSeen
<1>11. SparesFew(c)'
  <2>1. CASE Issuing(c)
    <3>1. Spared(c)' \subseteq req[c].keep
      BY <1>9, <2>1 DEF RowsToEnd, Issuing, Kind
    <3>2. IsFiniteSet(req[c].keep) /\ Cardinality(req[c].keep) \in Nat
      <4>1. IsFiniteSet(Ids) /\ req[c].keep \subseteq Ids
        BY <1>2, <1>3, FS_Interval
      <4> QED
        BY <4>1, FS_Subset, FS_CardinalityType
    <3>3. Cardinality(Spared(c)') <= Cardinality(req[c].keep) /\ Cardinality(Spared(c)') \in Nat
      BY <3>1, <3>2, FS_Subset, FS_CardinalityType
    <3>4. Cardinality(req[c].keep) <= SessionsKept
      BY <1>2, <2>1 DEF RequestOK, SparesFew
    <3> QED
      BY <1>6, <1>7, <3>2, <3>3, <3>4, KeptAssumption DEF SparesFew, AtPc
  <2>2. CASE ~Issuing(c)
    BY <1>6, <1>7, <2>2 DEF SparesFew, Issuing
  <2> QED
    BY <2>1, <2>2
<1> QED
  BY <1>1, <1>2, <1>6, <1>7, <1>8, <1>10, <1>11, SameTables, StepKeeps DEF RequestOK, Kind, AtPc

LEMMA LockRowsKeeps ==
  ASSUME IInv, NEW c \in Client, LockRows(c)
  PROVE  IInv'
PROOF
<1> DEFINE pc == IF Kind(c, "reset") THEN "tokens" ELSE "commit"
           R == IF Kind(c, "reset") THEN req[c].rows \intersect ActiveOf(Owner[c])
                ELSE req[c].rows
           p == [req[c] EXCEPT !.pc = pc, !.rows = R]
<1>1. UNCHANGED <<sessions, password>> /\ Ids' = Ids /\ sessions' = sessions
  BY DEF LockRows, Ids
<1>2. /\ TypeOK /\ RequestOK(c) /\ req \in [Client -> Request] /\ req[c] \in Request
      /\ req[c].keep \union req[c].rows \union req[c].tokens \subseteq Ids
      /\ req[c].pc = "lock"
  BY DEF IInv, TypeOK, LockRows, AtPc
<1>3. req' = [req EXCEPT ![c] = p]
  BY <1>2 DEF LockRows
<1>4. pc \in Pc /\ pc \in {"tokens", "commit"} /\ R \subseteq req[c].rows
  BY DEF Pc
<1>5. ~Kind(c, "reset") => R = req[c].rows
  OBVIOUS
<1>6. \A s \in ActiveOf(Owner[c]) : s \in req[c].rows => s \in R
  OBVIOUS
<1> HIDE DEF pc, R
<1>7. p \in Request
  BY <1>2, <1>4 DEF Request
<1>8. /\ p.pc = pc /\ p.kind = req[c].kind /\ p.keep = req[c].keep
      /\ p.session = req[c].session /\ p.rows = R
      /\ p.seen = req[c].seen /\ p.tokens = req[c].tokens
  BY <1>2 DEF Request
<1> HIDE DEF p
<1>9. req'[c] = p /\ Moves(c)
  BY <1>1, <1>2, <1>3, <1>4, <1>7, <1>8 DEF Moves
<1>10. OwnRows(c)'
  <2>1. SessionsOf(Owner[c])' = SessionsOf(Owner[c])
    BY <1>1, SameTables
  <2> QED
    BY <1>1, <1>2, <1>4, <1>8, <1>9, <2>1 DEF RequestOK, OwnRows
<1>11. Spared(c)' = {s \in SessionsOf(Owner[c]) \ R : s <= req[c].seen}
  BY <1>1, <1>8, <1>9, SameTables DEF Spared
<1>12. EndsAllSeen(c)'
  <2>1. Kind(c, "reset") => Spared(c)' \intersect ActiveOf(Owner[c]) = {}
    <3>1. Kind(c, "reset") => Spared(c) \intersect ActiveOf(Owner[c]) = {}
      BY <1>2 DEF RequestOK, EndsAllSeen, Issued
    <3> QED
      BY <1>6, <1>11, <3>1 DEF Spared
  <2> QED
    BY <1>1, <1>8, <1>9, <2>1, SameTables DEF EndsAllSeen, Kind
<1>13. SparesFew(c)'
  <2>1. Issuing(c) => Spared(c)' = Spared(c)
    BY <1>5, <1>11 DEF Spared, Issuing, Kind
  <2>2. Issuing(c)' <=> Issuing(c)
    BY <1>8, <1>9 DEF Issuing
  <2> QED
    BY <1>2, <1>4, <1>8, <1>9, <2>1, <2>2 DEF RequestOK, SparesFew, AtPc, Issued
<1> QED
  BY <1>1, <1>2, <1>4, <1>8, <1>9, <1>10, <1>12, <1>13, SameTables, StepKeeps
     DEF RequestOK, Kind, AtPc

LEMMA DeleteTokensKeeps ==
  ASSUME IInv, NEW c \in Client, DeleteTokens(c)
  PROVE  IInv'
PROOF
<1> DEFINE T == SessionsOf(Owner[c])
           p == [req[c] EXCEPT !.pc = "commit", !.tokens = T]
<1>1. UNCHANGED <<sessions, password>> /\ Ids' = Ids /\ sessions' = sessions
  BY DEF DeleteTokens, Ids
<1>2. /\ TypeOK /\ RequestOK(c) /\ req \in [Client -> Request] /\ req[c] \in Request
      /\ req[c].keep \union req[c].rows \union req[c].tokens \subseteq Ids
      /\ req[c].pc = "tokens"
  BY DEF IInv, TypeOK, DeleteTokens, AtPc
<1>3. req' = [req EXCEPT ![c] = p]
  BY <1>2 DEF DeleteTokens
<1>4. "commit" \in Pc /\ T \subseteq Ids /\ T \subseteq Nat
  BY <1>2, Numbers DEF Pc, SessionsOf
<1> HIDE DEF T
<1>5. p \in Request
  BY <1>2, <1>4 DEF Request
<1>6. /\ p.pc = "commit" /\ p.kind = req[c].kind /\ p.keep = req[c].keep
      /\ p.session = req[c].session /\ p.rows = req[c].rows
      /\ p.seen = req[c].seen /\ p.tokens = T
  BY <1>2 DEF Request
<1> HIDE DEF p
<1>7. req'[c] = p /\ Moves(c)
  BY <1>1, <1>2, <1>3, <1>4, <1>5, <1>6 DEF Moves
<1>8. OwnRows(c)' /\ Spared(c)' = Spared(c)
  BY <1>1, <1>2, <1>6, <1>7, SameTables DEF RequestOK, OwnRows, Spared
<1>9. Issued(c) /\ Issued(c)' /\ (Issuing(c)' <=> Issuing(c)) /\ ~AtPc(c, "prune")'
  BY <1>2, <1>6, <1>7 DEF Issued, Issuing, AtPc
<1>10. EndsAllSeen(c)' /\ SparesFew(c)'
  BY <1>1, <1>2, <1>6, <1>7, <1>8, <1>9, SameTables
     DEF RequestOK, EndsAllSeen, SparesFew, Kind
<1> QED
  BY <1>1, <1>2, <1>6, <1>7, <1>8, <1>10, SameTables, StepKeeps DEF RequestOK, Kind, AtPc

LEMMA CommitTokensKeeps ==
  ASSUME IInv, NEW c \in Client, CommitTokens(c)
  PROVE  IInv' /\ Grows
PROOF
<1>1. TypeOK
  BY DEF IInv
<1>2. /\ sessions' \in Seq(Session) /\ Len(sessions') = Len(sessions) + 1
      /\ Ids = 1..Len(sessions) /\ Ids' = 1..(Len(sessions) + 1)
      /\ sessions'[Len(sessions) + 1] = NewSession(c)
      /\ \A s \in Ids : /\ sessions'[s].user = sessions[s].user
                        /\ sessions'[s].isActive => sessions[s].isActive
  BY <1>1, CommitTokensRows
<1>3. Len(sessions) \in Nat /\ password \in [User -> Nat] /\ password' = password
  BY <1>1 DEF TypeOK, CommitTokens
<1>4. Grows
  BY <1>2, <1>3 DEF Grows
<1>5. Answer(c)
  BY DEF CommitTokens
<1> QED
  BY <1>2, <1>3, <1>4, <1>5, AnswerKeeps

LEMMA CommitResetKeeps ==
  ASSUME IInv, NEW c \in Client, CommitReset(c)
  PROVE  IInv' /\ Grows
PROOF
<1>1. TypeOK
  BY DEF IInv
<1>2. /\ sessions' \in Seq(Session) /\ Len(sessions') = Len(sessions)
      /\ Ids' = Ids
      /\ \A s \in Ids : /\ sessions'[s].user = sessions[s].user
                        /\ sessions'[s].isActive => sessions[s].isActive
  BY <1>1, CommitResetRows
<1>3. Len(sessions) \in Nat /\ Owner[c] \in User /\ password \in [User -> Nat]
  BY <1>1, OwnerAssumption DEF TypeOK
<1>4. Grows
  BY <1>2, <1>3 DEF Grows
<1>5. password' \in [User -> Nat]
  BY <1>3 DEF CommitReset
<1>6. Answer(c)
  BY DEF CommitReset
<1> QED
  BY <1>2, <1>4, <1>5, <1>6, AnswerKeeps

LEMMA LogoutKeeps ==
  ASSUME IInv, NEW c \in Client, NEW s \in Ids, Logout(c, s)
  PROVE  IInv' /\ Grows
PROOF
<1>1. TypeOK /\ RequestOK(c) /\ Len(sessions) \in Nat
  BY Numbers DEF IInv
<1>2. /\ sessions' \in Seq(Session) /\ Len(sessions') = Len(sessions)
      /\ Ids' = Ids
      /\ \A t \in Ids : /\ sessions'[t].user = sessions[t].user
                        /\ sessions'[t].isActive => sessions[t].isActive
  BY <1>1, LogoutRows
<1>3. Grows
  BY <1>1, <1>2 DEF Grows
<1>4. req' = req /\ password' = password
  BY DEF Logout
<1>5. Moves(c)
  BY <1>1, <1>2, <1>4 DEF Moves, TypeOK
<1>6. TypeOK' => RequestOK(c)'
  BY <1>1, <1>3, <1>4, OthersStay
<1>7. password' \in [User -> Nat]
  BY <1>1, <1>4 DEF TypeOK
<1> QED
  BY <1>2, <1>3, <1>5, <1>6, <1>7, StepKeeps

LEMMA BeginsKeep ==
  ASSUME IInv, NEW c \in Client,
         Login(c) \/ ResetPassword(c) \/ \E s \in Ids : RefreshTokens(c, s)
  PROVE  IInv' /\ UNCHANGED <<sessions, password>>
PROOF
<1>1. CASE Login(c)
  <2>1. Fresh([Idle EXCEPT !.pc = "begin", !.kind = "login"])
    BY DEF Fresh, Idle, Request, Pc
  <2> QED
    BY <1>1, <2>1, BeginKeeps DEF Login
<1>2. CASE ResetPassword(c)
  <2>1. Fresh([Idle EXCEPT !.pc = "begin", !.kind = "reset"])
    BY DEF Fresh, Idle, Request, Pc
  <2> QED
    BY <1>2, <2>1, BeginKeeps DEF ResetPassword
<1>3. CASE \E s \in Ids : RefreshTokens(c, s)
  <2>1. PICK s \in Ids : RefreshTokens(c, s)
    BY <1>3
  <2>2. s \in Nat
    BY Numbers DEF IInv
  <2>3. Fresh([Idle EXCEPT !.pc = "check", !.kind = "refresh", !.session = s])
    BY <2>2 DEF Fresh, Idle, Request, Pc
  <2> QED
    BY <2>1, <2>3, BeginKeeps DEF RefreshTokens
<1> QED
  BY <1>1, <1>2, <1>3

LEMMA RollbackKeeps ==
  ASSUME IInv, NEW c \in Client, Rollback(c)
  PROVE  IInv' /\ Grows
BY SameTables, AnswerKeeps DEF Rollback

LEMMA NextKeeps ==
  ASSUME IInv, [Next]_vars
  PROVE  IInv' /\ Grows
PROOF
<1>1. ASSUME NEW c \in Client, RequestStep(c) PROVE IInv' /\ Grows
  <2>1. CASE CheckSession(c)
    BY <2>1, CheckSessionKeeps, SameTables DEF CheckSession
  <2>2. CASE LockUser(c)
    BY <2>2, LockUserKeeps, SameTables DEF LockUser
  <2>3. CASE ReadActiveSessions(c)
    BY <2>3, ReadActiveSessionsKeeps, SameTables DEF ReadActiveSessions
  <2>4. CASE IssueUpdate(c)
    BY <2>4, IssueUpdateKeeps, SameTables DEF IssueUpdate
  <2>5. CASE LockRows(c)
    BY <2>5, LockRowsKeeps, SameTables DEF LockRows
  <2>6. CASE DeleteTokens(c)
    BY <2>6, DeleteTokensKeeps, SameTables DEF DeleteTokens
  <2>7. CASE CommitTokens(c)
    BY <2>7, CommitTokensKeeps
  <2>8. CASE CommitReset(c)
    BY <2>8, CommitResetKeeps
  <2> QED
    BY <1>1, <2>1, <2>2, <2>3, <2>4, <2>5, <2>6, <2>7, <2>8 DEF RequestStep
<1>2. ASSUME NEW c \in Client, ClientStep(c) PROVE IInv' /\ Grows
  <2>1. CASE \E s \in Ids : Logout(c, s)
    BY <2>1, LogoutKeeps
  <2>2. CASE Login(c) \/ ResetPassword(c) \/ \E s \in Ids : RefreshTokens(c, s)
    BY <2>2, BeginsKeep, SameTables
  <2> QED
    BY <1>2, <2>1, <2>2 DEF ClientStep
<1>3. CASE UNCHANGED vars
  <2>1. UNCHANGED <<sessions, password>> /\ req' = req
    BY <1>3 DEF vars
  <2>2. Grows
    BY <2>1, SameTables
  <2>3. TypeOK'
    BY <2>1, SameTables DEF IInv, TypeOK
  <2>4. \A c \in Client : RequestOK(c)'
    BY <2>1, <2>2, <2>3, OthersStay DEF IInv
  <2> QED
    BY <2>2, <2>3, <2>4 DEF IInv
<1> QED
  BY <1>1, <1>2, <1>3, RollbackKeeps DEF Next

(* The tables and requests keep their shape, and what a transaction has    *)
(* read or written exists; the rest of IInv is what the theorems below     *)
(* rest on.                                                                *)
THEOREM Inductive == Spec => []IInv
<1>1. IInv /\ [Next]_vars => IInv'
  BY NextKeeps
<1> QED
  BY InitIInv, <1>1, PTL DEF Spec

(* The tables and requests keep their shape, and what a transaction has    *)
(* read or written exists.                                                 *)
THEOREM TypeCorrect == Spec => []TypeOK
<1>1. IInv => TypeOK
  BY DEF IInv
<1> QED
  BY Inductive, <1>1, PTL

-----------------------------------------------------------------------------
(* What a commit does to the active sessions. *)

\* Every step but a commit and a logout leaves the tables alone.
LEMMA Quiet ==
  ASSUME IInv, [Next]_vars
  PROVE  \/ UNCHANGED <<sessions, password>>
         \/ \E c \in Client : CommitTokens(c) \/ CommitReset(c)
         \/ \E c \in Client, s \in Ids : Logout(c, s)
BY DEF Next, RequestStep, ClientStep, vars, Login, RefreshTokens, CheckSession, ResetPassword,
       LockUser, ReadActiveSessions, IssueUpdate, LockRows, DeleteTokens, Rollback

(* "Invalidate all existing sessions for security" (resetPassword): when a *)
(* reset commits, a session still active was committed after the reset's   *)
(* update of the sessions was issued.                                      *)
THEOREM ResetIsComplete == Spec => ResetEndsSessions
PROOF
<1>1. ASSUME IInv, [Next]_vars, NEW c \in Client, CommitReset(c)
      PROVE  \A s \in ActiveOf(Owner[c])' : s > req[c].seen
  <2> SUFFICES ASSUME NEW s \in ActiveOf(Owner[c])', ~(s > req[c].seen) PROVE FALSE
    OBVIOUS
  <2>1. TypeOK /\ RequestOK(c)
    BY <1>1 DEF IInv
  <2>2. s \in Ids /\ s \in ActiveOf(Owner[c]) /\ s \notin req[c].rows
    BY <1>1, <2>1, CommitResetRows DEF ActiveOf, SessionsOf
  <2>3. s \in Nat /\ req[c].seen \in Nat
    BY <2>1, <2>2, Numbers
  <2>4. s \in Spared(c)
    BY <2>2, <2>3 DEF Spared, ActiveOf
  <2>5. Kind(c, "reset") /\ Issued(c)
    BY <1>1 DEF CommitReset, AtPc, Issued
  <2> QED
    BY <2>1, <2>2, <2>4, <2>5 DEF RequestOK, EndsAllSeen
<1>2. IInv /\ [Next]_vars =>
        [\A c \in Client : CommitReset(c) =>
           \A s \in ActiveOf(Owner[c])' : s > req[c].seen]_vars
  BY <1>1
<1> QED
  BY Inductive, <1>2, PTL DEF ResetEndsSessions, Spec

-----------------------------------------------------------------------------
(* Ended sessions stay ended. *)

\* A refresh gets past its check only while its session is live.
Advances(d) ==
  \/ req'[d].pc \in {"idle", "check"} \/ req'[d].kind # "refresh"
  \/ /\ req'[d].kind = req[d].kind /\ req'[d].session = req[d].session
     /\ req[d].pc \in {"idle", "check"} => SessionIsLive(req[d].session)

LEMMA AllAdvance ==
  ASSUME TypeOK, [Next]_vars, NEW d \in Client
  PROVE  Advances(d)
PROOF
<1>1. req \in [Client -> Request]
  BY DEF TypeOK
<1>2. CASE req'[d] = req[d] /\ req[d].pc \notin {"idle", "check"}
  BY <1>2 DEF Advances
<1>3. CASE req'[d] = req[d] /\ req[d].pc \in {"idle", "check"}
  BY <1>3 DEF Advances
<1>4. CASE req'[d] # req[d]
  <2>1. PICK c \in Client : RequestStep(c) \/ ClientStep(c) \/ Rollback(c)
    BY <1>4 DEF Next, vars
  <2>2. CASE c # d
    BY <1>1, <1>4, <2>1, <2>2
       DEF RequestStep, ClientStep, Rollback, Login, RefreshTokens, CheckSession, ResetPassword,
           LockUser, ReadActiveSessions, IssueUpdate, LockRows, DeleteTokens, CommitTokens,
           CommitReset, Logout, Goto, Answer
  <2>3. CASE c = d
    <3>1. CASE Answer(c)
      BY <1>1, <2>3, <3>1, IdleFits DEF Answer, Advances
    <3>2. CASE CheckSession(c) /\ ~Answer(c)
      <4>1. Goto(c, "read") /\ SessionIsLive(req[c].session)
        BY <3>2 DEF CheckSession
      <4> QED
        BY <1>1, <2>3, <4>1 DEF Goto, Advances, Request
    <3>3. CASE LockUser(c) \/ ReadActiveSessions(c) \/ IssueUpdate(c) \/ LockRows(c)
               \/ DeleteTokens(c)
      <4>1. req[c].pc \in {"begin", "read", "prune", "lock", "tokens"}
        BY <3>3 DEF LockUser, ReadActiveSessions, IssueUpdate, LockRows, DeleteTokens, AtPc
      <4>2. req'[c].kind = req[c].kind /\ req'[c].session = req[c].session
        BY <1>1, <3>3
           DEF LockUser, ReadActiveSessions, IssueUpdate, LockRows, DeleteTokens, Goto, Request
      <4> QED
        BY <2>3, <4>1, <4>2 DEF Advances
    <3>4. CASE CommitTokens(c) \/ CommitReset(c) \/ Rollback(c)
      BY <3>1, <3>4 DEF CommitTokens, CommitReset, Rollback
    <3>5. CASE ClientStep(c)
      BY <1>1, <1>4, <2>3, <3>5
         DEF ClientStep, Login, RefreshTokens, ResetPassword, Logout, Advances, Idle
    <3> QED
      BY <2>1, <3>1, <3>2, <3>3, <3>4, <3>5 DEF RequestStep
  <2> QED
    BY <2>2, <2>3
<1> QED
  BY <1>2, <1>3, <1>4

(* Logout, pruning and reset are final: a session that is over never comes *)
(* back, and no session is issued on its refresh token any more.           *)
THEOREM EndedSessionsStayEnded == Spec => OverIsFinal
PROOF
<1>1. ASSUME IInv, [Next]_vars, NEW s \in Ids, Over(s)
      PROVE  Over(s)' /\ \A c \in Client : CommitTokens(c) => req[c].session # s
  <2>1. TypeOK /\ Grows
    BY <1>1, NextKeeps DEF IInv
  <2>2. ~sessions'[s].isActive
    BY <1>1, <2>1 DEF Over, Grows
  <2>3. ASSUME NEW c \in Client,
               req'[c].kind = "refresh", req'[c].session = s,
               req'[c].pc \notin {"idle", "check"}
        PROVE  FALSE
    <3>1. Advances(c)
      BY <1>1, <2>1, AllAdvance
    <3>2. /\ req[c].kind = "refresh" /\ req[c].session = s
          /\ req[c].pc \in {"idle", "check"} => SessionIsLive(s)
      BY <2>3, <3>1 DEF Advances
    <3>3. CASE req[c].pc \in {"idle", "check"}
      BY <1>1, <3>2, <3>3 DEF SessionIsLive, Over
    <3>4. CASE req[c].pc \notin {"idle", "check"}
      BY <1>1, <3>2, <3>4 DEF Over, Kind
    <3> QED
      BY <3>3, <3>4
  <2>4. ASSUME NEW c \in Client, CommitTokens(c) PROVE req[c].session # s
    <3>1. CASE Kind(c, "refresh")
      BY <1>1, <2>4, <3>1 DEF Over, CommitTokens, AtPc, Kind
    <3>2. CASE ~Kind(c, "refresh")
      BY <1>1, <2>1, <3>2, Numbers DEF IInv, RequestOK
    <3> QED
      BY <3>1, <3>2
  <2> QED
    BY <2>2, <2>3, <2>4 DEF Over, Kind
<1>2. IInv /\ [Next]_vars =>
        [\A s \in Ids : Over(s) =>
           /\ Over(s)'
           /\ \A c \in Client : CommitTokens(c) => req[c].session # s]_vars
  BY <1>1
<1> QED
  BY Inductive, <1>2, PTL DEF OverIsFinal, Spec

-----------------------------------------------------------------------------
(* What pruning leaves. *)

(* "we keep only 1 previous + new one" (generateTokens): the sessions to   *)
(* keep are read in one statement and the others ended in a later one, so  *)
(* that a session committed in between is ended though it is the newest.   *)
(* But none slips through: when a login or refresh commits, few sessions   *)
(* are still active of all those committed before its update was issued.   *)
THEOREM PruningIsThorough == Spec => PruningLeavesFew
PROOF
<1>1. ASSUME IInv, [Next]_vars, NEW c \in Client, CommitTokens(c)
      PROVE  Cardinality({s \in ActiveOf(Owner[c])' : s <= req[c].seen}) <= SessionsKept
  <2> DEFINE left == {s \in ActiveOf(Owner[c])' : s <= req[c].seen}
  <2>1. TypeOK /\ RequestOK(c) /\ Issued(c) /\ Issuing(c)
    BY <1>1 DEF IInv, CommitTokens, AtPc, Issued, Issuing
  <2>2. Cardinality(Spared(c)) <= SessionsKept
    BY <2>1 DEF RequestOK, SparesFew
  <2>3. left \subseteq Spared(c)
    <3> SUFFICES ASSUME NEW s \in left PROVE s \in Spared(c)
      OBVIOUS
    <3>1. Ids' = 1..(Len(sessions) + 1) /\ Ids = 1..Len(sessions) /\ Len(sessions) \in Nat
      BY <1>1, <2>1, CommitTokensRows, Numbers
    <3>2. s \in Ids' /\ s <= req[c].seen
      BY DEF ActiveOf, SessionsOf
    <3>3. req[c].seen \in Nat /\ req[c].seen <= Len(sessions)
      BY <2>1 DEF RequestOK, OwnRows, TypeOK, Request
    <3>4. s \in Ids
      BY <3>1, <3>2, <3>3
    <3>5. s \notin req[c].rows /\ sessions[s].user = Owner[c]
      BY <1>1, <2>1, <3>4, CommitTokensRows DEF ActiveOf, SessionsOf
    <3> QED
      BY <3>4, <3>5 DEF Spared, SessionsOf
  <2>4. IsFiniteSet(Spared(c))
    <3>1. Spared(c) \subseteq Ids /\ IsFiniteSet(Ids)
      BY <2>1, Numbers, FS_Interval DEF Spared, SessionsOf
    <3> QED
      BY <3>1, FS_Subset
  <2> HIDE DEF left
  <2>5. Cardinality(left) <= Cardinality(Spared(c))
    BY <2>3, <2>4, FS_Subset
  <2>6. Cardinality(left) \in Nat /\ Cardinality(Spared(c)) \in Nat
    BY <2>3, <2>4, FS_Subset, FS_CardinalityType
  <2> QED
    BY <2>2, <2>5, <2>6, KeptAssumption DEF left
<1>2. IInv /\ [Next]_vars =>
        [\A c \in Client : CommitTokens(c) =>
           Cardinality({s \in ActiveOf(Owner[c])' : s <= req[c].seen}) <= SessionsKept]_vars
  BY <1>1
<1> QED
  BY Inductive, <1>2, PTL DEF PruningLeavesFew, Spec

-----------------------------------------------------------------------------
(* How many active sessions a user has.                                    *)
(*                                                                         *)
(* The bound is not inductive: two requests that overlap prune from the    *)
(* same picture of the table.  What is: f[c] is the last session c's       *)
(* requests committed, an update that c issues later sees it, and but for  *)
(* those last sessions every active session has few active ones up to it.  *)

UpTo(u, t) == {s \in ActiveOf(u) : s <= t}

Tagged(f) ==
  /\ \A c \in Client : f[c] <= Len(sessions)
  /\ \A c \in Client : Issued(c) /\ Issuing(c) => f[c] <= req[c].seen
  /\ \A u \in User : \A t \in ActiveOf(u) :
       (\A c \in ClientsOf(u) : f[c] # t) => Cardinality(UpTo(u, t)) <= SessionsKept

BoundInv == \E f \in [Client -> Nat] : Tagged(f)

LEMMA InitBound == Init => BoundInv
PROOF
<1> SUFFICES ASSUME Init PROVE BoundInv
  OBVIOUS
<1> DEFINE f == [c \in Client |-> 0]
<1>1. Ids = {} /\ Len(sessions) = 0 /\ \A u : ActiveOf(u) = {}
  BY EmptySeq DEF Init, Ids, ActiveOf, SessionsOf
<1>2. \A c \in Client : ~Issued(c)
  BY DEF Init, Issued, Idle
<1>3. f \in [Client -> Nat] /\ Tagged(f)
  BY <1>1, <1>2 DEF Tagged
<1> QED
  BY <1>3 DEF BoundInv

LEMMA SmallSets ==
  ASSUME TypeOK, NEW u
  PROVE  /\ ActiveOf(u) \subseteq Nat /\ SessionsOf(u) \subseteq Nat
         /\ IsFiniteSet(ActiveOf(u)) /\ IsFiniteSet(SessionsOf(u))
         /\ \A S \in SUBSET SessionsOf(u) : IsFiniteSet(S) /\ Cardinality(S) \in Nat
PROOF
<1>1. Ids \subseteq Nat /\ IsFiniteSet(Ids)
  BY Numbers, FS_Interval
<1>2. ActiveOf(u) \subseteq SessionsOf(u) /\ SessionsOf(u) \subseteq Ids
  BY DEF ActiveOf, SessionsOf
<1>3. IsFiniteSet(SessionsOf(u))
  BY <1>1, <1>2, FS_Subset
<1> QED
  BY <1>1, <1>2, <1>3, FS_Subset, FS_CardinalityType

\* How the number of sessions a request has seen changes.
Sees(d) ==
  Issued(d)' /\ Issuing(d)' => \/ Issued(d) /\ Issuing(d) /\ req'[d].seen = req[d].seen
                               \/ req'[d].seen = Len(sessions)

LEMMA AllSee ==
  ASSUME TypeOK, [Next]_vars, NEW d \in Client
  PROVE  Sees(d)
PROOF
<1>1. req \in [Client -> Request]
  BY DEF TypeOK
<1>2. CASE req'[d] = req[d]
  BY <1>2 DEF Sees, Issued, Issuing
<1>4. CASE req'[d] # req[d]
  <2>1. PICK c \in Client : RequestStep(c) \/ ClientStep(c) \/ Rollback(c)
    BY <1>4 DEF Next, vars
  <2>2. CASE c # d
    BY <1>1, <1>4, <2>1, <2>2
       DEF RequestStep, ClientStep, Rollback, Login, RefreshTokens, CheckSession, ResetPassword,
           LockUser, ReadActiveSessions, IssueUpdate, LockRows, DeleteTokens, CommitTokens,
           CommitReset, Logout, Goto, Answer
  <2>3. CASE c = d
    <3>1. CASE Answer(c)
      BY <1>1, <2>3, <3>1, IdleFits DEF Answer, Sees, Issued
    <3>2. CASE (CheckSession(c) /\ ~Answer(c)) \/ LockUser(c) \/ ReadActiveSessions(c)
      <4>1. req'[c].pc \in {"read", "prune"}
        BY <1>1, <3>2 DEF CheckSession, LockUser, ReadActiveSessions, Goto, Request
      <4> QED
        BY <2>3, <4>1 DEF Sees, Issued
    <3>3. CASE LockRows(c) \/ DeleteTokens(c)
      <4>1. /\ req[c].pc \in {"lock", "tokens"} /\ req'[c].kind = req[c].kind
            /\ req'[c].seen = req[c].seen
        BY <1>1, <3>3 DEF LockRows, DeleteTokens, AtPc, Request
      <4> QED
        BY <2>3, <4>1 DEF Sees, Issued, Issuing
    <3>4. CASE IssueUpdate(c)
      BY <1>1, <2>3, <3>4 DEF IssueUpdate, Sees, Request
    <3>5. CASE CommitTokens(c) \/ CommitReset(c) \/ Rollback(c)
      BY <3>1, <3>5 DEF CommitTokens, CommitReset, Rollback
    <3>6. CASE ClientStep(c)
      <4>1. req'[c].pc \in {"begin", "check"}
        BY <1>1, <1>4, <2>3, <3>6
           DEF ClientStep, Login, RefreshTokens, ResetPassword, Logout, Idle
      <4> QED
        BY <2>3, <4>1 DEF Sees, Issued
    <3> QED
      BY <2>1, <3>1, <3>2, <3>3, <3>4, <3>5, <3>6 DEF RequestStep
  <2> QED
    BY <2>2, <2>3
<1> QED
  BY <1>2, <1>4

LEMMA TagsSeen ==
  ASSUME IInv, [Next]_vars, NEW f \in [Client -> Nat], Tagged(f), NEW d \in Client
  PROVE  /\ f[d] <= Len(sessions)'
         /\ Issued(d)' /\ Issuing(d)' => f[d] <= req'[d].seen
PROOF
<1>1. TypeOK /\ Grows /\ TypeOK'
  BY NextKeeps DEF IInv
<1>2. f[d] \in Nat /\ Len(sessions) \in Nat /\ Len(sessions') \in Nat
  BY <1>1 DEF TypeOK
<1>3. f[d] <= Len(sessions) /\ (Issued(d) /\ Issuing(d) => f[d] <= req[d].seen)
  BY DEF Tagged
<1>4. Sees(d)
  BY <1>1, AllSee
<1> QED
  BY <1>1, <1>2, <1>3, <1>4 DEF Grows, Sees

\* As long as sessions only end, the tags stay right.
LEMMA TagsStay ==
  ASSUME IInv, [Next]_vars, NEW f \in [Client -> Nat], Tagged(f),
         \A u \in User : ActiveOf(u)' \subseteq ActiveOf(u)
  PROVE  Tagged(f)'
PROOF
<1>1. TypeOK /\ TypeOK'
  BY NextKeeps DEF IInv
<1>2. ASSUME NEW u \in User, NEW t \in ActiveOf(u)', \A c \in ClientsOf(u) : f[c] # t
      PROVE  Cardinality(UpTo(u, t)') <= SessionsKept
  <2>1. UpTo(u, t)' \subseteq UpTo(u, t) /\ t \in ActiveOf(u)
    BY DEF UpTo
  <2>2. IsFiniteSet(UpTo(u, t)) /\ Cardinality(UpTo(u, t)) \in Nat
    BY <1>1, SmallSets DEF UpTo, ActiveOf
  <2>3. Cardinality(UpTo(u, t)) <= SessionsKept
    BY <1>2, <2>1 DEF Tagged
  <2>4. Cardinality(UpTo(u, t)') <= Cardinality(UpTo(u, t)) /\ Cardinality(UpTo(u, t)') \in Nat
    BY <2>1, <2>2, FS_Subset, FS_CardinalityType
  <2> QED
    BY <2>2, <2>3, <2>4, KeptAssumption
<1> QED
  BY <1>2, TagsSeen DEF Tagged, ClientsOf

\* A commit exposes one more session, the one c committed before; its own
\* update has spared few of those up to it.
LEMMA CommitTags ==
  ASSUME IInv, [Next]_vars, NEW f \in [Client -> Nat], Tagged(f),
         NEW c \in Client, CommitTokens(c), NEW n \in Nat, n = Len(sessions) + 1
  PROVE  Tagged([f EXCEPT ![c] = n])'
PROOF
<1> DEFINE g == [f EXCEPT ![c] = n]
<1>1. TypeOK /\ TypeOK' /\ RequestOK(c) /\ Grows
  BY NextKeeps DEF IInv
<1>2. g \in [Client -> Nat] /\ g[c] = n /\ \A d \in Client : d # c => g[d] = f[d]
  OBVIOUS
<1> HIDE DEF g
<1>3. /\ Len(sessions') = n /\ Len(sessions) \in Nat
      /\ Ids = 1..Len(sessions) /\ Ids' = 1..(Len(sessions) + 1)
      /\ sessions'[n] = NewSession(c)
      /\ \A s \in Ids :
           /\ sessions'[s].user = sessions[s].user
           /\ sessions'[s].isActive = (sessions[s].isActive /\ s \notin req[c].rows)
  BY <1>1, CommitTokensRows DEF TypeOK
<1>4. req'[c].pc = "idle"
  BY <1>1, IdleFits DEF CommitTokens, Answer, TypeOK
<1>5. /\ \A d \in Client : g[d] <= Len(sessions)'
      /\ \A d \in Client : Issued(d)' /\ Issuing(d)' => g[d] <= req'[d].seen
  <2>1. ASSUME NEW d \in Client
        PROVE  g[d] <= Len(sessions)' /\ (Issued(d)' /\ Issuing(d)' => g[d] <= req'[d].seen)
    <3>1. CASE d = c
      BY <1>2, <1>3, <1>4, <3>1 DEF Issued
    <3>2. CASE d # c
      BY <1>2, <3>2, TagsSeen
    <3> QED
      BY <3>1, <3>2
  <2> QED
    BY <2>1
<1>6. ASSUME NEW u \in User, NEW t \in ActiveOf(u)', \A d \in ClientsOf(u) : g[d] # t
      PROVE  Cardinality(UpTo(u, t)') <= SessionsKept
  <2> DEFINE S == {s \in ActiveOf(u) \ req[c].rows : s <= t}
  <2>0. n \notin Ids /\ \A s \in Ids' : s \in Ids \/ s = n
    BY <1>3
  <2>1. ASSUME NEW s \in ActiveOf(u)'
        PROVE  \/ s \in ActiveOf(u) /\ s \notin req[c].rows
               \/ s = n /\ u = Owner[c]
    <3>1. s \in Ids' /\ sessions'[s].user = u /\ sessions'[s].isActive
      BY DEF ActiveOf, SessionsOf
    <3>2. CASE s = n
      BY <1>3, <3>1, <3>2 DEF NewSession
    <3>3. CASE s \in Ids
      BY <1>3, <3>1, <3>3 DEF ActiveOf, SessionsOf
    <3> QED
      BY <2>0, <3>1, <3>2, <3>3
  <2>2. t # n
    <3> SUFFICES ASSUME t = n PROVE FALSE
      OBVIOUS
    <3>1. u = Owner[c]
      BY <2>0, <2>1 DEF ActiveOf, SessionsOf
    <3> QED
      BY <1>2, <1>6, <3>1 DEF ClientsOf
  <2>3. t \in ActiveOf(u) /\ t \notin req[c].rows /\ t \in Nat /\ t < n
    <3>1. t \in ActiveOf(u) /\ t \notin req[c].rows
      BY <2>1, <2>2
    <3>2. t \in Ids
      BY <3>1 DEF ActiveOf, SessionsOf
    <3> QED
      BY <1>3, <3>1, <3>2
  <2>4. UpTo(u, t)' \subseteq S
    <3> SUFFICES ASSUME NEW s \in ActiveOf(u)', s <= t PROVE s \in S
      BY DEF UpTo
    <3>1. s # n
      BY <2>3
    <3> QED
      BY <2>1, <3>1
  <2>5. Cardinality(S) <= SessionsKept
    <3>1. S \subseteq UpTo(u, t) /\ IsFiniteSet(UpTo(u, t)) /\ Cardinality(UpTo(u, t)) \in Nat
      BY <1>1, SmallSets DEF UpTo, ActiveOf
    <3>2. Cardinality(S) \in Nat /\ Cardinality(S) <= Cardinality(UpTo(u, t))
      BY <3>1, FS_Subset, FS_CardinalityType
    <3>3. CASE \A d \in ClientsOf(u) : f[d] # t
      <4>1. Cardinality(UpTo(u, t)) <= SessionsKept
        BY <2>3, <3>3 DEF Tagged
      <4> HIDE DEF S
      <4> QED
        BY <3>1, <3>2, <4>1, KeptAssumption
    <3>4. CASE ~(\A d \in ClientsOf(u) : f[d] # t)
      <4>1. c \in ClientsOf(u) /\ f[c] = t
        BY <1>2, <1>6, <3>4 DEF ClientsOf
      <4>2. Issued(c) /\ Issuing(c)
        BY DEF CommitTokens, Issued, Issuing, AtPc
      <4>3. t <= req[c].seen /\ req[c].seen \in Nat /\ u = Owner[c]
        BY <1>1, <4>1, <4>2, Numbers DEF Tagged, ClientsOf
      <4>4. S \subseteq Spared(c)
        <5> SUFFICES ASSUME NEW s \in ActiveOf(u) \ req[c].rows, s <= t
                     PROVE  s \in Spared(c)
          OBVIOUS
        <5>1. s \in Nat
          BY <1>1, SmallSets
        <5>2. s <= req[c].seen
          BY <2>3, <4>3, <5>1
        <5> QED
          BY <4>3, <5>2 DEF Spared, ActiveOf
      <4>5. IsFiniteSet(Spared(c)) /\ Cardinality(Spared(c)) \in Nat
        BY <1>1, SmallSets DEF Spared
      <4>6. Cardinality(Spared(c)) <= SessionsKept
        BY <1>1, <4>2 DEF RequestOK, SparesFew
      <4>7. Cardinality(S) <= Cardinality(Spared(c))
        BY <4>4, <4>5, FS_Subset
      <4> HIDE DEF S
      <4> QED
        BY <3>2, <4>5, <4>6, <4>7, KeptAssumption
    <3> QED
      BY <3>3, <3>4
  <2>6. IsFiniteSet(S)
        /\ Cardinality(S) \in Nat
    BY <1>1, SmallSets DEF ActiveOf
  <2> HIDE DEF S
  <2>7. Cardinality(UpTo(u, t)') <= Cardinality(S)
        /\ Cardinality(UpTo(u, t)') \in Nat
    BY <2>4, <2>6, FS_Subset, FS_CardinalityType
  <2> QED
    BY <2>5, <2>6, <2>7, KeptAssumption
<1>7. Tagged(g)'
  BY <1>5, <1>6 DEF Tagged, ClientsOf
<1> QED
  BY <1>7 DEF g

LEMMA NextBound == IInv /\ BoundInv /\ [Next]_vars => BoundInv'
PROOF
<1> SUFFICES ASSUME IInv, BoundInv, [Next]_vars PROVE BoundInv'
  OBVIOUS
<1>1. PICK f \in [Client -> Nat] : Tagged(f)
  BY DEF BoundInv
<1>2. TypeOK /\ Len(sessions) + 1 \in Nat
  BY Numbers DEF IInv
<1>3. CASE \E c \in Client : CommitTokens(c)
  <2>1. PICK c \in Client : CommitTokens(c)
    BY <1>3
  <2>2. PICK n \in Nat : n = Len(sessions) + 1
    BY <1>2
  <2>3. Tagged([f EXCEPT ![c] = n])'
    BY <1>1, <2>1, <2>2, CommitTags
  <2>4. [f EXCEPT ![c] = n] \in [Client -> Nat]
    OBVIOUS
  <2> QED
    BY <2>3, <2>4 DEF BoundInv
<1>4. CASE ~\E c \in Client : CommitTokens(c)
  <2>1. \A u \in User : ActiveOf(u)' \subseteq ActiveOf(u)
    <3>1. CASE UNCHANGED <<sessions, password>>
      BY <3>1, SameTables
    <3>2. CASE Ids' = Ids
      BY <3>2, NextKeeps, SessionsOfGrow DEF ActiveOf, SessionsOf
    <3> QED
      BY <1>2, <1>4, <3>1, <3>2, Quiet, CommitResetRows, LogoutRows
  <2>2. Tagged(f)'
    BY <1>1, <2>1, TagsStay
  <2> QED
    BY <2>2 DEF BoundInv
<1> QED
  BY <1>3, <1>4

\* All but one session per client are few.
LEMMA BoundFollows == IInv /\ BoundInv => ActiveBound
PROOF
<1> SUFFICES ASSUME IInv, BoundInv, NEW u \in User
             PROVE  Cardinality(ActiveOf(u)) <= SessionsKept + Cardinality(ClientsOf(u))
  BY DEF ActiveBound
<1>1. PICK f \in [Client -> Nat] : Tagged(f)
  BY DEF BoundInv
<1> DEFINE A == ActiveOf(u)
           C == ClientsOf(u)
           last == {t \in A : \E c \in C : f[c] = t}
           rest == A \ last
<1>2. A \subseteq Nat /\ IsFiniteSet(A)
  BY SmallSets DEF IInv
<1>3. IsFiniteSet(C) /\ Cardinality(C) \in Nat
  BY ClientAssumption, FS_Subset, FS_CardinalityType DEF ClientsOf
<1>4. /\ IsFiniteSet(last) /\ Cardinality(last) \in Nat
      /\ IsFiniteSet(rest) /\ Cardinality(rest) \in Nat
  BY <1>2, FS_Subset, FS_CardinalityType
<1>5. Cardinality(last) <= Cardinality(C)
  <2> DEFINE of == [t \in last |-> CHOOSE c \in C : f[c] = t]
  <2>1. \A t \in last : of[t] \in C /\ f[of[t]] = t
    OBVIOUS
  <2>2. of \in Injection(last, C)
    <3>1. of \in [last -> C]
      BY <2>1
    <3> HIDE DEF last, C
    <3> QED
      BY <2>1, <3>1 DEF Injection, IsInjective
  <2> QED
    BY <1>3, <2>2, FS_Injection
<1>6. Cardinality(rest) <= SessionsKept
  <2>1. ASSUME NEW t \in rest
        PROVE  Cardinality({s \in rest : s <= t}) <= SessionsKept
    <3>1. Cardinality(UpTo(u, t)) <= SessionsKept
      BY <1>1 DEF Tagged
    <3>2. {s \in rest : s <= t} \subseteq UpTo(u, t)
      BY DEF UpTo
    <3>3. IsFiniteSet(UpTo(u, t)) /\ Cardinality(UpTo(u, t)) \in Nat
      BY <1>2, FS_Subset, FS_CardinalityType DEF UpTo
    <3> DEFINE S == {s \in rest : s <= t}
    <3>4. Cardinality(S) <= Cardinality(UpTo(u, t)) /\ Cardinality(S) \in Nat
      BY <3>2, <3>3, FS_Subset, FS_CardinalityType
    <3> HIDE DEF S
    <3>5. Cardinality(S) <= SessionsKept
      BY <3>1, <3>3, <3>4, KeptAssumption
    <3> QED
      BY <3>5 DEF S
  <2>2. rest \in SUBSET Nat
    BY <1>2
  <2> HIDE DEF rest
  <2> QED
    BY <1>4, <2>1, <2>2, KeptAssumption, FewUpToEach
<1>7. Cardinality(A) = Cardinality(rest) + Cardinality(last)
  <2>1. A = rest \union last /\ rest \intersect last = {}
    OBVIOUS
  <2>2. Cardinality(rest \union last)
        = Cardinality(rest) + Cardinality(last) - Cardinality(rest \intersect last)
    BY <1>4, FS_Union
  <2>3. Cardinality(rest \intersect last) = 0
    BY <2>1, FS_EmptySet
  <2> HIDE DEF rest, last, A
  <2> QED
    BY <1>4, <2>1, <2>2, <2>3
<1> HIDE DEF A, C, rest, last
<1>8. Cardinality(A) <= SessionsKept + Cardinality(C)
  BY <1>3, <1>4, <1>5, <1>6, <1>7, KeptAssumption
<1> QED
  BY <1>8 DEF A, C

(* generateTokens keeps the newest SessionsKept sessions and adds one, in  *)
(* statements that interleave with other requests; a user never has more   *)
(* active sessions than those kept and one per client.                     *)
THEOREM ActiveSessionsBounded == Spec => []ActiveBound
PROOF
<1>1. Spec => []BoundInv
  BY InitBound, NextBound, Inductive, PTL DEF Spec
<1> QED
  BY <1>1, BoundFollows, Inductive, PTL

=============================================================================
