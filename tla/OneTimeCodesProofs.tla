------------------------- MODULE OneTimeCodesProofs --------------------------
(***************************************************************************)
(* RedisCache implements ExpiringMap, for every set of keys and values and *)
(* every time to live; and what the one-time codes over it promise, for    *)
(* any users, clients, codes, pool, faults and length of time.             *)
(***************************************************************************)
EXTENDS OneTimeCodes, FiniteSetTheorems, TLAPS

-----------------------------------------------------------------------------
(* The cache the codes are kept in.  Its invariant is StoresAreRecent,     *)
(* inductive with the types.                                               *)

\* Counting in seconds loses nothing: the durations are whole seconds.
LEMMA WholeSeconds == (Ttl \div Second) * Second = Ttl
BY TtlAssumption

\* The two stores give an entry the same expiry.
LEMMA SameExpiry == \A v : InRedis(v) = InMemory(v)
BY WholeSeconds DEF InRedis, InMemory

CacheInv == CacheTypeOK /\ StoresAreRecent

LEMMA InitCacheInv == CacheInit => CacheInv
BY DEF CacheInit, CacheInv, CacheTypeOK, StoresAreRecent, Empty, NoEntry, Entry

\* What Set writes, whichever store it writes to.
LEMMA SetInv ==
  ASSUME CacheInv, NEW k \in Key, NEW v \in Value, Set(k, v),
         UNCHANGED now
  PROVE  /\ redis' \in [Key -> Entry(Value)] /\ memory' \in [Key -> Entry(Value)]
         /\ recent' \subseteq Key \X Entry(Value)
         /\ StoresAreRecent'
PROOF
<1>1. InMemory(v) \in Entry(Value) /\ InRedis(v) = InMemory(v)
  BY SameExpiry, TtlAssumption DEF CacheInv, CacheTypeOK, Entry, InMemory
<1>2. redis' \in {redis, [redis EXCEPT ![k] = InMemory(v)]}
  BY <1>1 DEF Set
<1>3. memory' \in {memory, [memory EXCEPT ![k] = InMemory(v)]}
  BY <1>1 DEF Set
<1>4. recent' = recent \union {<<k, InMemory(v)>>}
  BY DEF Set
<1>5. redis' \in [Key -> Entry(Value)] /\ memory' \in [Key -> Entry(Value)]
  BY <1>1, <1>2, <1>3 DEF CacheInv, CacheTypeOK
<1>6. recent' \subseteq Key \X Entry(Value)
  BY <1>1, <1>4 DEF CacheInv, CacheTypeOK
<1>7. StoresAreRecent'
  BY <1>2, <1>3, <1>4 DEF CacheInv, CacheTypeOK, StoresAreRecent
<1> QED
  BY <1>5, <1>6, <1>7

LEMMA DelInv ==
  ASSUME CacheInv, NEW k \in Key, Del(k), UNCHANGED <<now, up>>
  PROVE  /\ redis' \in [Key -> Entry(Value)] /\ memory' \in [Key -> Entry(Value)]
         /\ recent' \subseteq Key \X Entry(Value)
         /\ StoresAreRecent'
PROOF
<1>1. NoEntry \in Entry(Value)
  BY DEF NoEntry, Entry
<1>2. redis' \in [Key -> Entry(Value)] /\ memory' \in [Key -> Entry(Value)]
  BY <1>1 DEF CacheInv, CacheTypeOK, Del
<1>3. recent' \subseteq Key \X Entry(Value)
  BY DEF CacheInv, CacheTypeOK, Del, Forgotten
<1>4. StoresAreRecent'
  <2> SUFFICES ASSUME NEW j \in Key, NEW e \in {redis'[j], memory'[j]}, now < e.until
               PROVE  <<j, e>> \in recent'
    BY DEF StoresAreRecent
  <2>1. e # NoEntry
    BY DEF NoEntry, CacheInv, CacheTypeOK
  <2>2. e \in {redis[j], memory[j]}
    BY <2>1 DEF CacheInv, CacheTypeOK, Del
  <2>3. <<j, e>> \in recent
    BY <2>2 DEF CacheInv, StoresAreRecent
  <2>4. CASE j = k
    BY <2>1, <2>2, <2>3, <2>4 DEF Del, Forgotten, CacheInv, CacheTypeOK
  <2>5. CASE j # k
    BY <2>3, <2>5 DEF Del, Forgotten
  <2> QED
    BY <2>4, <2>5
<1> QED
  BY <1>2, <1>3, <1>4

LEMMA NextCacheInv == CacheInv /\ [CacheNext]_cacheVars => CacheInv'
PROOF
<1> SUFFICES ASSUME CacheInv, [CacheNext]_cacheVars
             PROVE  CacheInv'
  OBVIOUS
<1>1. ASSUME NEW k \in Key, NEW v \in Value, SetValue(k, v)
      PROVE  CacheInv'
  BY <1>1, SetInv DEF SetValue, CacheInv, CacheTypeOK
<1>2. ASSUME NEW k \in Key, DelKey(k)
      PROVE  CacheInv'
  BY <1>2, DelInv DEF DelKey, CacheInv, CacheTypeOK
<1>3. ASSUME NEW k \in Key, NEW v \in Value, CacheMiss(k, v)
      PROVE  CacheInv'
  BY <1>3 DEF CacheMiss, CacheInv, CacheTypeOK, StoresAreRecent
<1>4. ASSUME NEW k \in Key, NEW v \in Value, CacheFill(k, v)
      PROVE  CacheInv'
  BY <1>4, SetInv DEF CacheFill, CacheInv, CacheTypeOK
<1>5. ASSUME CacheTick
      PROVE  CacheInv'
  <2>1. CacheTypeOK'
    BY <1>5 DEF CacheTick, CacheInv, CacheTypeOK
  <2>2. StoresAreRecent'
    <3> SUFFICES ASSUME NEW k \in Key, NEW e \in {redis[k], memory[k]},
                        now' < e.until
                 PROVE  <<k, e>> \in recent'
      BY <1>5 DEF CacheTick, StoresAreRecent
    <3>1. e \in Entry(Value)
      BY DEF CacheInv, CacheTypeOK
    <3>2. now < e.until
      BY <1>5, <3>1 DEF CacheTick, CacheInv, CacheTypeOK, Entry
    <3>3. <<k, e>> \in recent
      BY <3>2 DEF CacheInv, StoresAreRecent
    <3> QED
      BY <1>5, <3>3 DEF CacheTick
  <2> QED
    BY <2>1, <2>2 DEF CacheInv
<1>6. CASE GoDown
  <2>1. CacheTypeOK'
    <3>1. outages' \in Nat
      BY <1>6 DEF GoDown, CacheInv, CacheTypeOK
    <3> QED
      BY <1>6, <3>1 DEF GoDown, CacheInv, CacheTypeOK
  <2>2. StoresAreRecent'
    BY <1>6 DEF GoDown, CacheInv, StoresAreRecent
  <2> QED
    BY <2>1, <2>2 DEF CacheInv
<1>7. ASSUME ComeBack \/ Restart
      PROVE  CacheInv'
  <2>1. Empty(Key) \in [Key -> Entry(Value)]
    BY DEF Empty, NoEntry, Entry
  <2>2. CacheTypeOK'
    <3>1. CASE ComeBack
      BY <2>1, <3>1 DEF ComeBack, CacheInv, CacheTypeOK
    <3>2. CASE Restart
      <4>1. outages' \in Nat
        BY <3>2 DEF Restart, CacheInv, CacheTypeOK
      <4> QED
        BY <2>1, <3>2, <4>1 DEF Restart, CacheInv, CacheTypeOK
    <3> QED
      BY <1>7, <3>1, <3>2
  <2>3. StoresAreRecent'
    <3> SUFFICES ASSUME NEW k \in Key, NEW e \in {redis'[k], memory'[k]}, now < e.until
                 PROVE  <<k, e>> \in recent
      BY <1>7 DEF ComeBack, Restart, StoresAreRecent
    <3>1. e # Empty(Key)[k]
      BY DEF Empty, NoEntry, CacheInv, CacheTypeOK
    <3>2. e \in {redis[k], memory[k]}
      BY <1>7, <3>1 DEF ComeBack, Restart
    <3> QED
      BY <3>2 DEF CacheInv, StoresAreRecent
  <2> QED
    BY <2>2, <2>3 DEF CacheInv
<1>8. CASE UNCHANGED cacheVars
  BY <1>8 DEF cacheVars, CacheInv, CacheTypeOK, StoresAreRecent
<1> QED
  BY <1>1, <1>2, <1>3, <1>4, <1>5, <1>6, <1>7, <1>8 DEF CacheNext

(* What a store can still show was set under its key less than Ttl ago     *)
(* and not removed since while Redis answered (RedisService.set, del).     *)
THEOREM StoresRecent == CacheSpec => []StoresAreRecent
PROOF
<1>1. CacheInv => StoresAreRecent
  BY DEF CacheInv
<1> QED
  BY <1>1, InitCacheInv, NextCacheInv, PTL DEF CacheSpec

-----------------------------------------------------------------------------
(* The refinement *)

LEMMA InitMap == CacheInit => Map!MInit
BY DEF CacheInit, Map!MInit, Get, Shown, Empty, NoEntry

LEMMA SetMap ==
  ASSUME CacheInv, NEW k \in Key, NEW v \in Value, Set(k, v), UNCHANGED <<now, up>>
  PROVE  Map!Put(k, v)
PROOF
<1>1. InRedis(v) = InMemory(v)
  BY SameExpiry
<1>2. Map!NewEntry(v) = InMemory(v)
  BY DEF Map!NewEntry, InMemory
<1>3. ASSUME NEW j \in Key
      PROVE  Get(j)' = IF j = k THEN InMemory(v) ELSE Get(j)
  <2>1. now < InMemory(v).until
    BY TtlAssumption DEF InMemory, CacheInv, CacheTypeOK
  <2> QED
    BY <1>1, <2>1 DEF Set, Get, Shown, CacheInv, CacheTypeOK
<1>4. [j \in Key |-> Get(j)]' = [[j \in Key |-> Get(j)] EXCEPT ![k] = InMemory(v)]
  BY <1>3
<1> QED
  BY <1>2, <1>4 DEF Map!Put, Set

LEMMA DelMap ==
  ASSUME CacheInv, NEW k \in Key, Del(k), UNCHANGED <<now, up>>
  PROVE  Map!Remove(k)
PROOF
<1>1. ASSUME NEW j \in Key
      PROVE  Get(j)' = IF j = k THEN NoEntry ELSE Get(j)
  BY DEF Del, Get, Shown, CacheInv, CacheTypeOK, NoEntry
<1>2. [j \in Key |-> Get(j)]' = [[j \in Key |-> Get(j)] EXCEPT ![k] = NoEntry]
  BY <1>1
<1> QED
  BY <1>2 DEF Map!Remove, Del, Forgotten

\* When the stores change, what shows is in the new one and still recent.
LEMMA ChangeMap ==
  ASSUME CacheInv, CacheInv', UNCHANGED <<now, recent>>
  PROVE  Map!ChangeStores
PROOF
<1>1. ASSUME NEW k \in Key
      PROVE  Get(k)' = NoEntry \/ <<k, Get(k)'>> \in recent
  BY DEF Get, Shown, CacheInv, StoresAreRecent
<1>2. (~up)' \in BOOLEAN
  BY DEF CacheInv, CacheTypeOK
<1> QED
  BY <1>1, <1>2 DEF Map!ChangeStores

LEMMA NextMap == CacheInv /\ CacheInv' /\ [CacheNext]_cacheVars => [Map!MNext]_(Map!mvars)
PROOF
<1> SUFFICES ASSUME CacheInv, CacheInv', [CacheNext]_cacheVars
             PROVE  Map!MNext \/ UNCHANGED Map!mvars
  OBVIOUS
<1>1. ASSUME NEW k \in Key, NEW v \in Value, SetValue(k, v) \/ CacheFill(k, v)
      PROVE  Map!MNext
  <2>1. Set(k, v) /\ UNCHANGED <<now, up>>
    BY <1>1 DEF SetValue, CacheFill
  <2> QED
    BY <2>1, SetMap DEF Map!MNext
<1>2. ASSUME NEW k \in Key, DelKey(k)
      PROVE  Map!MNext
  <2>1. Del(k) /\ UNCHANGED <<now, up>>
    BY <1>2 DEF DelKey
  <2> QED
    BY <2>1, DelMap DEF Map!MNext
<1>3. ASSUME NEW k \in Key, NEW v \in Value, CacheMiss(k, v)
      PROVE  UNCHANGED Map!mvars
  BY <1>3 DEF CacheMiss, Map!mvars, Get, Shown
<1>4. CASE CacheTick
  <2>1. ASSUME NEW k \in Key
        PROVE  Get(k)' = IF now' < Get(k).until THEN Get(k) ELSE NoEntry
    BY <1>4 DEF CacheTick, Get, Shown, CacheInv, CacheTypeOK, Entry, NoEntry
  <2>2. [k \in Key |-> Get(k)]' =
          [k \in Key |-> IF now' < [j \in Key |-> Get(j)][k].until
                         THEN [j \in Key |-> Get(j)][k] ELSE NoEntry]
    BY <2>1
  <2>3. Map!Expire
    BY <1>4, <2>2 DEF CacheTick, Map!Expire
  <2> QED
    BY <2>3 DEF Map!MNext
<1>5. CASE GoDown \/ ComeBack \/ Restart
  <2>1. UNCHANGED <<now, recent>>
    BY <1>5 DEF GoDown, ComeBack, Restart
  <2> QED
    BY <2>1, ChangeMap DEF Map!MNext
<1>6. CASE UNCHANGED cacheVars
  BY <1>6 DEF cacheVars, Map!mvars, Get, Shown
<1> QED
  BY <1>1, <1>2, <1>3, <1>4, <1>5, <1>6 DEF CacheNext

(* RedisService is a map with expiry: what an outage of Redis may bring    *)
(* back was set, has not expired and was not removed while Redis answered. *)
THEOREM CacheImplementsMap == CacheSpec => Implements
PROOF
<1>1. CacheSpec => []CacheInv
  BY InitCacheInv, NextCacheInv, PTL DEF CacheSpec
<1> QED
  BY <1>1, InitMap, NextMap, PTL DEF CacheSpec, Implements, Map!MSpec

-----------------------------------------------------------------------------
(* The codes. *)

CodeState == {"free", "pending", "stored", "gone"}
CodeRow == [state : CodeState, until : Nat, owner : User, given : BOOLEAN, resets : Nat]
Request == [pc : Pc, kind : {"none", "register", "forgot", "verify", "resend", "reset"},
            code : Key \union {0}, seen : UserRow, rows : SUBSET Key]

Setting == CodesAssumption /\ PoolAssumption

\* A client has a code in an open transaction.
Inserting(c) == req[c].pc \in {"cache", "commit"}
Resets(c) == req[c].pc \in {"password", "forget", "rows", "commitReset"}

\* The rows it has deleted.
RowsOK(c) ==
  \A k \in req[c].rows : codes[k].state \in {"stored", "gone"} /\ codes[k].owner = Owner[c]

(* What a request relies on.  The code it inserts is its own and pending,  *)
(* any other it works with was given and never becomes pending again.      *)
ClientOK(c) ==
  /\ Kind(c, "reset") <=> Resets(c)
  /\ req[c].pc \in {"idle", "find", "insert"} => req[c].code = 0
  /\ Inserting(c) =>
       /\ req[c].code \in Key
       /\ codes[req[c].code].state = "pending" /\ codes[req[c].code].owner = Owner[c]
  /\ ~Inserting(c) /\ req[c].code \in Key =>
       codes[req[c].code].state \in {"stored", "gone"}
  /\ Resets(c) => req[c].code \in Key /\ codes[req[c].code].owner = Owner[c]
  /\ AtPc(c, "commitReset") =>
       /\ codes[req[c].code].state = "stored" => req[c].code \in req[c].rows
       /\ RowsOK(c)
  /\ AtPc(c, "tokens") \/ token[c] # "none" => user[Owner[c]].isVerified

(* A pending code is somebody's; stored ones are of users that exist.      *)
CodeOK(k) ==
  /\ codes[k].state = "pending" => \E c \in Client : Inserting(c) /\ req[c].code = k
  /\ codes[k].given => codes[k].state \in {"stored", "gone"}
  /\ codes[k].state = "stored" => user[codes[k].owner].exists

(* The row of a user is held by one transaction.                           *)
RowHeldOnce ==
  \A c, d \in Client :
    HoldsUserRow(c) /\ HoldsUserRow(d) /\ Owner[c] = Owner[d] => c = d

Shape ==
  /\ codes \in [Key -> CodeRow]
  /\ user \in [User -> UserRow]
  /\ token \in [Client -> {"none", "unverified", "verified"}]
  /\ req \in [Client -> Request]
  /\ rollbacks \in Nat

IInv ==
  /\ Shape
  /\ RowHeldOnce
  /\ \A c \in Client : ClientOK(c)
  /\ \A k \in Key : CodeOK(k)

-----------------------------------------------------------------------------
(* What a step does to the requests. *)

\* The request of c goes to pc, the others stay.
To(c, pc, kind, code) ==
  /\ req' \in [Client -> Request]
  /\ req'[c].pc = pc /\ req'[c].kind = kind /\ req'[c].code = code
  /\ \A d \in Client : d # c => req'[d] = req[d]

LEMMA SetRequest ==
  ASSUME Shape, NEW c \in Client, NEW r \in Request, req' = [req EXCEPT ![c] = r]
  PROVE  /\ To(c, r.pc, r.kind, r.code)
         /\ req'[c].seen = r.seen /\ req'[c].rows = r.rows
BY DEF Shape, To

LEMMA IdleType == Idle \in Request /\ Idle.pc = "idle" /\ Idle.kind = "none" /\ Idle.code = 0
BY DEF Idle, Request, Pc, UserRow, Stranger

LEMMA AnswerTo ==
  ASSUME Shape, NEW c \in Client, Answer(c)
  PROVE  To(c, "idle", "none", 0)
BY SetRequest, IdleType DEF Answer

LEMMA GotoTo ==
  ASSUME Shape, NEW c \in Client, NEW pc \in Pc, Goto(c, pc)
  PROVE  /\ To(c, pc, req[c].kind, req[c].code)
         /\ req'[c].seen = req[c].seen /\ req'[c].rows = req[c].rows
PROOF
<1> DEFINE r == [req[c] EXCEPT !.pc = pc]
<1>1. req[c] \in Request
  BY DEF Shape
<1>2. /\ r \in Request /\ r.pc = pc /\ r.kind = req[c].kind /\ r.code = req[c].code
      /\ r.seen = req[c].seen /\ r.rows = req[c].rows
  BY <1>1 DEF Request
<1>3. req' = [req EXCEPT ![c] = r]
  BY DEF Goto
<1> HIDE DEF r
<1> QED
  BY <1>2, <1>3, SetRequest

LEMMA StartTo ==
  ASSUME Shape, NEW c \in Client, NEW kind \in {"verify", "resend", "reset"},
         NEW pc \in Pc, NEW k \in Key, Start(c, kind, pc, k)
  PROVE  To(c, pc, kind, k)
PROOF
<1> DEFINE r == [Idle EXCEPT !.kind = kind, !.pc = pc, !.code = k]
<1>1. r \in Request /\ r.pc = pc /\ r.kind = kind /\ r.code = k
  BY DEF Idle, Request, Stranger, UserRow
<1>2. req' = [req EXCEPT ![c] = r]
  BY DEF Start
<1> HIDE DEF r
<1> QED
  BY <1>1, <1>2, SetRequest

LEMMA InitIInv == ASSUME Setting, Init PROVE IInv
PROOF
<1>1. NoCode \in CodeRow /\ NoCode.state = "free" /\ NoCode.given = FALSE
  <2>1. \E u : u \in User
    BY DEF Setting, CodesAssumption
  <2>2. (CHOOSE u \in User : TRUE) \in User
    BY <2>1
  <2> QED
    BY <2>2 DEF NoCode, CodeRow, CodeState
<1>2. Stranger \in UserRow
  BY DEF Stranger, UserRow
<1>3. Shape
  BY <1>1, <1>2, IdleType DEF Init, Shape
<1>4. RowHeldOnce /\ \A c \in Client : ClientOK(c)
  <2>1. \A c \in Client : req[c] = Idle /\ token[c] = "none"
    BY DEF Init
  <2>2. 0 \notin Key
    BY DEF Setting, CodesAssumption
  <2> QED
    BY <2>1, <2>2, IdleType
       DEF RowHeldOnce, ClientOK, HoldsUserRow, Inserting, Resets, Kind, AtPc
<1>5. \A k \in Key : CodeOK(k)
  BY <1>1 DEF Init, CodeOK
<1> QED
  BY <1>3, <1>4, <1>5 DEF IInv

-----------------------------------------------------------------------------
(* One client's step and the others. *)

\* Codes keep their owners, and go from stored to gone only, but for the one
\* the client inserts.
CodesMove(c) ==
  \A k \in Key :
    \/ codes[k].state = "free"
    \/ Inserting(c) /\ k = req[c].code
    \/ /\ codes'[k].owner = codes[k].owner
       /\ \/ codes'[k].state = codes[k].state
          \/ codes[k].state = "stored" /\ codes'[k].state = "gone"

UsersGrow ==
  \A u \in User : /\ user[u].isVerified => user'[u].isVerified
                  /\ user[u].exists => user'[u].exists

LEMMA OthersOK ==
  ASSUME Setting, IInv, NEW c \in Client, NEW d \in Client, d # c,
         req'[d] = req[d], token'[d] = token[d], CodesMove(c), UsersGrow
  PROVE  ClientOK(d)'
PROOF
<1>1. ClientOK(d) /\ ClientOK(c) /\ Owner[d] \in User /\ 0 \notin Key
  BY DEF IInv, Setting, CodesAssumption
<1> DEFINE k == req[d].code
<1>2. ASSUME Inserting(d)
      PROVE  /\ k \in Key /\ codes'[k].state = "pending" /\ codes'[k].owner = Owner[d]
  <2>1. k \in Key /\ codes[k].state = "pending" /\ codes[k].owner = Owner[d]
    BY <1>1, <1>2 DEF ClientOK
  <2>2. ~(Inserting(c) /\ k = req[c].code)
    <3> SUFFICES ASSUME Inserting(c), k = req[c].code PROVE FALSE
      OBVIOUS
    <3>1. Owner[c] = Owner[d]
      BY <1>1, <2>1 DEF ClientOK
    <3>2. HoldsUserRow(c) /\ HoldsUserRow(d)
      BY <1>2 DEF Inserting, HoldsUserRow
    <3> QED
      BY <3>1, <3>2 DEF IInv, RowHeldOnce
  <2> QED
    BY <2>1, <2>2 DEF CodesMove
<1>3. ASSUME ~Inserting(d), k \in Key
      PROVE  /\ codes'[k].state \in {"stored", "gone"}
             /\ codes'[k].owner = codes[k].owner
             /\ codes'[k].state = "stored" => codes[k].state = "stored"
  <2>1. codes[k].state \in {"stored", "gone"}
    BY <1>1, <1>3 DEF ClientOK
  <2>2. ~(Inserting(c) /\ k = req[c].code)
    BY <1>1, <2>1 DEF ClientOK
  <2> QED
    BY <1>3, <2>1, <2>2 DEF CodesMove
<1>4. AtPc(d, "tokens") \/ token[d] # "none" => user'[Owner[d]].isVerified
  BY <1>1 DEF ClientOK, UsersGrow
<1>5. Resets(d) => ~Inserting(d)
  BY DEF Resets, Inserting
<1>6. AtPc(d, "commitReset") => Resets(d)
  BY DEF AtPc, Resets
<1>7. ASSUME RowsOK(d) PROVE RowsOK(d)'
  <2> SUFFICES ASSUME NEW j \in req[d].rows
               PROVE  codes'[j].state \in {"stored", "gone"} /\ codes'[j].owner = Owner[d]
    BY DEF RowsOK
  <2>1. j \in Key /\ codes[j].state \in {"stored", "gone"} /\ codes[j].owner = Owner[d]
    BY <1>7 DEF RowsOK, IInv, Shape, Request
  <2>2. ~(Inserting(c) /\ j = req[c].code)
    BY <1>1, <2>1 DEF ClientOK
  <2> QED
    BY <2>1, <2>2 DEF CodesMove
<1> QED
  BY <1>1, <1>2, <1>3, <1>4, <1>5, <1>6, <1>7 DEF ClientOK, Inserting, Resets, Kind, AtPc

\* A client takes its user's row only when nobody has it.
TakesRow(c) == HoldsUserRow(c)' => HoldsUserRow(c) \/ UserRowIsFree(c)
LeavesOthers(c) == \A d \in Client : d # c => req'[d] = req[d] /\ token'[d] = token[d]

LEMMA RowStaysHeldOnce ==
  ASSUME RowHeldOnce, NEW c \in Client, LeavesOthers(c), TakesRow(c)
  PROVE  RowHeldOnce'
PROOF
<1> SUFFICES ASSUME NEW d \in Client, NEW e \in Client, d # e, Owner[d] = Owner[e],
                    HoldsUserRow(d)', HoldsUserRow(e)'
             PROVE  FALSE
  BY DEF RowHeldOnce
<1>1. \A f \in Client : f # c => (HoldsUserRow(f)' <=> HoldsUserRow(f))
  BY DEF LeavesOthers, HoldsUserRow
<1>2. CASE d # c /\ e # c
  BY <1>1, <1>2 DEF RowHeldOnce
<1>3. CASE d = c
  BY <1>1, <1>3 DEF TakesRow, RowHeldOnce, UserRowIsFree
<1>4. CASE e = c
  BY <1>1, <1>4 DEF TakesRow, RowHeldOnce, UserRowIsFree
<1> QED
  BY <1>2, <1>3, <1>4

LEMMA StepKeeps ==
  ASSUME Setting, IInv, NEW c \in Client, Shape', LeavesOthers(c), TakesRow(c),
         CodesMove(c), UsersGrow, ClientOK(c)', \A k \in Key : CodeOK(k)'
  PROVE  IInv'
PROOF
<1>1. RowHeldOnce'
  BY RowStaysHeldOnce DEF IInv
<1>2. ASSUME NEW d \in Client PROVE ClientOK(d)'
  BY <1>2, OthersOK DEF LeavesOthers
<1> QED
  BY <1>1, <1>2 DEF IInv

\* A step that writes nothing to the tables.
LEMMA QuietKeeps ==
  ASSUME Setting, IInv, NEW c \in Client, UNCHANGED <<codes, user, token, rollbacks>>,
         NEW pc, NEW kind, NEW code, To(c, pc, kind, code),
         TakesRow(c), ClientOK(c)',
         Inserting(c) => pc \in {"cache", "commit"} /\ code = req[c].code
  PROVE  IInv'
PROOF
<1>1. Shape' /\ LeavesOthers(c) /\ CodesMove(c) /\ UsersGrow
  BY DEF IInv, Shape, To, LeavesOthers, CodesMove, UsersGrow
<1>2. ASSUME NEW k \in Key PROVE CodeOK(k)'
  <2>1. ASSUME codes[k].state = "pending" PROVE \E d \in Client : Inserting(d)' /\ req'[d].code = k
    <3>1. PICK d \in Client : Inserting(d) /\ req[d].code = k
      BY <2>1 DEF IInv, CodeOK
    <3>2. Inserting(d)' /\ req'[d].code = k
      BY <3>1 DEF To, Inserting
    <3> QED
      BY <3>2
  <2>2. CodeOK(k)
    BY DEF IInv
  <2> QED
    BY <2>1, <2>2 DEF CodeOK
<1> QED
  BY <1>1, <1>2, StepKeeps

-----------------------------------------------------------------------------
(* The statements that write nothing to the tables. *)

\* What is to be said of a request's next place, if it writes nothing.
LEMMA PlaceOK ==
  ASSUME Setting, IInv, NEW c \in Client, UNCHANGED <<codes, user, token, rollbacks>>,
         NEW pc, NEW kind, NEW code, To(c, pc, kind, code),
         kind = "reset" <=> pc \in {"password", "forget", "rows", "commitReset"},
         pc \in {"idle", "find", "insert"} => code = 0,
         pc \in {"cache", "commit"} => Inserting(c) /\ code = req[c].code,
         pc \notin {"cache", "commit"} /\ code \in Key => codes[code].state \in {"stored", "gone"},
         kind = "reset" => code \in Key /\ codes[code].owner = Owner[c],
         pc # "tokens",
         pc = "commitReset" =>
           /\ codes[code].state = "stored" => code \in req'[c].rows
           /\ \A k \in req'[c].rows :
                codes[k].state \in {"stored", "gone"} /\ codes[k].owner = Owner[c]
  PROVE  ClientOK(c)'
PROOF
<1>1. ClientOK(c)
  BY DEF IInv
<1>2. req'[c].pc = pc /\ req'[c].kind = kind /\ req'[c].code = code
  BY DEF To
<1>3. pc = "commitReset" => RowsOK(c)'
  BY DEF RowsOK
<1> QED
  BY <1>1, <1>2, <1>3 DEF ClientOK, Inserting, Resets, Kind, AtPc

LEMMA AnswerKeeps ==
  ASSUME Setting, IInv, NEW c \in Client, UNCHANGED <<codes, user, token, rollbacks>>,
         ~Inserting(c), Answer(c)
  PROVE  IInv'
PROOF
<1>1. To(c, "idle", "none", 0)
  BY AnswerTo DEF IInv
<1>2. 0 \notin Key
  BY DEF Setting, CodesAssumption
<1>3. ClientOK(c)'
  BY <1>1, <1>2, PlaceOK
<1>4. TakesRow(c)
  BY <1>1 DEF To, TakesRow, HoldsUserRow
<1> QED
  BY <1>1, <1>3, <1>4, QuietKeeps

LEMMA AskForCodeKeeps ==
  ASSUME Setting, IInv, NEW c \in Client, NEW kind \in {"register", "forgot"}, AskForCode(c, kind)
  PROVE  IInv'
PROOF
<1> DEFINE r == [Idle EXCEPT !.kind = kind, !.pc = "find", !.seen = user[Owner[c]]]
<1>1. user[Owner[c]] \in UserRow
  BY DEF IInv, Shape, Setting, CodesAssumption
<1>2. r \in Request /\ r.pc = "find" /\ r.kind = kind /\ r.code = 0
  BY <1>1 DEF Idle, Request, Pc
<1>3. req' = [req EXCEPT ![c] = r]
  BY DEF AskForCode
<1> HIDE DEF r
<1>4. To(c, "find", kind, 0)
  BY <1>2, <1>3, SetRequest DEF IInv
<1>5. 0 \notin Key /\ ~Inserting(c)
  BY DEF Setting, CodesAssumption, AskForCode, AtPc, Inserting
<1>6. ClientOK(c)'
  BY <1>4, <1>5, PlaceOK DEF AskForCode
<1>7. TakesRow(c)
  BY <1>4 DEF To, TakesRow, HoldsUserRow
<1> QED
  BY <1>4, <1>5, <1>6, <1>7, QuietKeeps DEF AskForCode

LEMMA GotoKeeps ==
  ASSUME Setting, IInv, NEW c \in Client, UNCHANGED <<codes, user, token, rollbacks>>,
         \/ AtPc(c, "find") /\ Goto(c, "insert")
         \/ AtPc(c, "cache") /\ Goto(c, "commit")
         \/ AtPc(c, "password") /\ UserRowIsFree(c) /\ Goto(c, "forget")
         \/ AtPc(c, "forget") /\ Goto(c, "rows")
         \/ AtPc(c, "update") /\ Goto(c, "late")
  PROVE  IInv'
PROOF
<1>1. ClientOK(c) /\ Shape
  BY DEF IInv
<1>2. PICK pc \in {"insert", "commit", "forget", "rows", "late"} :
        /\ Goto(c, pc)
        /\ req[c].pc = IF pc = "insert" THEN "find" ELSE IF pc = "commit" THEN "cache"
                       ELSE IF pc = "forget" THEN "password"
                       ELSE IF pc = "rows" THEN "forget" ELSE "update"
        /\ pc = "forget" => UserRowIsFree(c)
  BY DEF AtPc
<1>3. To(c, pc, req[c].kind, req[c].code)
  BY <1>1, <1>2, GotoTo DEF Pc
<1>4. /\ Kind(c, "reset") <=> pc \in {"forget", "rows"}
      /\ pc = "insert" => req[c].code = 0
      /\ pc = "commit" <=> Inserting(c)
      /\ ~Inserting(c) /\ req[c].code \in Key => codes[req[c].code].state \in {"stored", "gone"}
      /\ pc \in {"forget", "rows"} => req[c].code \in Key /\ codes[req[c].code].owner = Owner[c]
  BY <1>1, <1>2 DEF ClientOK, Resets, Inserting
<1>5. ClientOK(c)'
  BY <1>3, <1>4, PlaceOK DEF Kind
<1>6. TakesRow(c)
  BY <1>2, <1>3 DEF To, TakesRow, HoldsUserRow
<1> QED
  BY <1>3, <1>4, <1>5, <1>6, QuietKeeps

\* A request that has waited too long.
GivesUp(c) == TimeOut(c) \/ ConnectionTimeOut(c)

LEMMA GivesUpMoves ==
  ASSUME NEW c \in Client, GivesUp(c)
  PROVE  /\ UNCHANGED <<codes, user, token, rollbacks>> /\ UNCHANGED cacheVars
         /\ Answer(c) \/ (AtPc(c, "update") /\ Goto(c, "late"))
         /\ req[c].pc \in {"find", "insert", "user", "update", "late", "password"}
BY DEF GivesUp, TimeOut, Waits, ConnectionTimeOut, AtPc

LEMMA GivesUpKeeps == ASSUME Setting, IInv, NEW c \in Client, GivesUp(c) PROVE IInv'
PROOF
<1>1. UNCHANGED <<codes, user, token, rollbacks>> /\ ~Inserting(c)
  BY GivesUpMoves DEF Inserting
<1>2. CASE Answer(c)
  BY <1>1, <1>2, AnswerKeeps
<1>3. CASE AtPc(c, "update") /\ Goto(c, "late")
  BY <1>1, <1>3, GotoKeeps
<1> QED
  BY <1>2, <1>3, GivesUpMoves

\* A code that was given is stored or gone.
LEMMA GivenCode ==
  ASSUME IInv, NEW k \in Key, codes[k].given
  PROVE  codes[k].state \in {"stored", "gone"}
BY DEF IInv, CodeOK

LEMMA UseKeeps ==
  ASSUME Setting, IInv, NEW c \in Client, NEW k \in Key,
         VerifyOtp(c, k) \/ ResendOtp(c, k) \/ ResetPassword(c, k)
  PROVE  IInv'
PROOF
<1>1. PICK kind \in {"verify", "resend", "reset"}, pc \in {"user", "lookup", "password"} :
        /\ Start(c, kind, pc, k) /\ (kind = "reset" <=> pc = "password")
        /\ kind = "reset" => codes[k].owner = Owner[c]
  BY DEF VerifyOtp, ResendOtp, ResetPassword
<1>2. UNCHANGED <<codes, user, token, rollbacks>> /\ codes[k].given
  BY DEF VerifyOtp, ResendOtp, ResetPassword, Accepted
<1>3. To(c, pc, kind, k) /\ ~Inserting(c)
  BY <1>1, StartTo DEF IInv, Pc, Start, AtPc, Inserting
<1>4. ClientOK(c)'
  <2>1. codes[k].state \in {"stored", "gone"}
    BY <1>2, GivenCode
  <2> QED
    BY <1>1, <1>2, <1>3, <2>1, PlaceOK
<1>5. TakesRow(c)
  BY <1>3 DEF To, TakesRow, HoldsUserRow
<1> QED
  BY <1>2, <1>3, <1>4, <1>5, QuietKeeps

LEMMA ReadUserKeeps ==
  ASSUME Setting, IInv, NEW c \in Client, ReadUser(c)
  PROVE  IInv'
PROOF
<1> DEFINE r == [req[c] EXCEPT !.pc = "update", !.seen = user[Owner[c]]]
<1>1. user[Owner[c]] \in UserRow /\ req[c] \in Request
  BY DEF IInv, Shape, Setting, CodesAssumption
<1>2. r \in Request /\ r.pc = "update" /\ r.kind = req[c].kind /\ r.code = req[c].code
  BY <1>1 DEF Request, Pc
<1>3. req' = [req EXCEPT ![c] = r]
  BY DEF ReadUser
<1> HIDE DEF r
<1>4. To(c, "update", req[c].kind, req[c].code)
  BY <1>2, <1>3, SetRequest DEF IInv
<1>5. ~Inserting(c) /\ UNCHANGED <<codes, user, token, rollbacks>>
  BY DEF ReadUser, AtPc, Inserting
<1>6. ClientOK(c)'
  <2>1. /\ req[c].kind # "reset"
        /\ req[c].code \in Key => codes[req[c].code].state \in {"stored", "gone"}
    BY <1>5 DEF IInv, ClientOK, ReadUser, AtPc, Kind, Resets
  <2> QED
    BY <1>4, <1>5, <2>1, PlaceOK
<1>7. TakesRow(c)
  BY <1>4 DEF To, TakesRow, HoldsUserRow
<1> QED
  BY <1>4, <1>5, <1>6, <1>7, QuietKeeps

LEMMA DeleteRowsKeeps ==
  ASSUME Setting, IInv, NEW c \in Client, DeleteRows(c)
  PROVE  IInv'
PROOF
<1> DEFINE found == {k \in Key : Stored(k, Owner[c])}
           r == [req[c] EXCEPT !.pc = "commitReset", !.rows = found]
<1>1. req[c] \in Request /\ found \in SUBSET Key
  BY DEF IInv, Shape
<1>2. /\ r \in Request /\ r.pc = "commitReset" /\ r.kind = req[c].kind
      /\ r.code = req[c].code /\ r.rows = found
  BY <1>1 DEF Request, Pc
<1>3. req' = [req EXCEPT ![c] = r]
  BY DEF DeleteRows
<1> HIDE DEF r
<1>4. To(c, "commitReset", req[c].kind, req[c].code) /\ req'[c].rows = found
  BY <1>2, <1>3, SetRequest DEF IInv
<1>5. ~Inserting(c) /\ UNCHANGED <<codes, user, token, rollbacks>> /\ HoldsUserRow(c)
  BY DEF DeleteRows, AtPc, Inserting, HoldsUserRow
<1>6. ClientOK(c)'
  <2>1. /\ req[c].kind = "reset" /\ req[c].code \in Key /\ codes[req[c].code].owner = Owner[c]
        /\ codes[req[c].code].state \in {"stored", "gone"}
    BY <1>5 DEF IInv, ClientOK, DeleteRows, AtPc, Kind, Resets
  <2>2. /\ codes[req[c].code].state = "stored" => req[c].code \in found
        /\ \A k \in found : codes[k].state \in {"stored", "gone"} /\ codes[k].owner = Owner[c]
    BY <2>1 DEF Stored
  <2> QED
    BY <1>4, <1>5, <2>1, <2>2, PlaceOK
<1>7. TakesRow(c)
  BY <1>5 DEF TakesRow
<1> QED
  BY <1>4, <1>5, <1>6, <1>7, QuietKeeps

-----------------------------------------------------------------------------
(* The statements that write to the tables. *)

LEMMA WriteCode ==
  ASSUME Shape, NEW k \in Key, NEW row \in CodeRow, codes' = [codes EXCEPT ![k] = row]
  PROVE  /\ codes' \in [Key -> CodeRow]
         /\ \A j \in Key : codes'[j] = IF j = k THEN row ELSE codes[j]
BY DEF Shape

LEMMA WriteUser ==
  ASSUME Shape, NEW u \in User, NEW row \in UserRow, user' = [user EXCEPT ![u] = row]
  PROVE  /\ user' \in [User -> UserRow]
         /\ \A v \in User : user'[v] = IF v = u THEN row ELSE user[v]
BY DEF Shape

\* A request that finds a code to hand out.
LEMMA HandOutMoves ==
  ASSUME Setting, Shape, NEW c \in Client, NEW k \in Key,
         codes' = [codes EXCEPT ![k].given = TRUE]
  PROVE  /\ codes' \in [Key -> CodeRow]
         /\ \A j \in Key :
              /\ codes'[j].state = codes[j].state /\ codes'[j].owner = codes[j].owner
              /\ codes'[j].until = codes[j].until /\ codes'[j].resets = codes[j].resets
              /\ codes'[j].given => (j = k \/ codes[j].given)
PROOF
<1> DEFINE row == [codes[k] EXCEPT !.given = TRUE]
<1>1. codes \in [Key -> CodeRow]
  BY DEF Shape
<1>2. /\ row \in CodeRow /\ row.state = codes[k].state /\ row.owner = codes[k].owner
      /\ row.until = codes[k].until /\ row.resets = codes[k].resets /\ row.given = TRUE
  BY <1>1 DEF CodeRow
<1>3. codes' = [codes EXCEPT ![k] = row]
  OBVIOUS
<1> HIDE DEF row
<1>4. codes' \in [Key -> CodeRow] /\ \A j \in Key : codes'[j] = IF j = k THEN row ELSE codes[j]
  BY <1>2, <1>3, WriteCode
<1>5. \A j \in Key : codes[j].given \in BOOLEAN
  BY <1>1 DEF CodeRow
<1> QED
  BY <1>2, <1>4, <1>5

LEMMA FindCodeKeeps ==
  ASSUME Setting, IInv, NEW c \in Client, FindCode(c)
  PROVE  IInv'
PROOF
<1>1. CASE UNCHANGED codes /\ Goto(c, "insert")
  BY <1>1, GotoKeeps DEF FindCode
<1>2. ASSUME NEW k \in Key, Stored(k, Owner[c]), codes' = [codes EXCEPT ![k].given = TRUE],
             Answer(c)
      PROVE  IInv'
  <2>1. UNCHANGED <<user, token, rollbacks>> /\ ~Inserting(c)
    BY DEF FindCode, AtPc, Inserting
  <2>2. To(c, "idle", "none", 0)
    BY <1>2, AnswerTo DEF IInv
  <2>3. /\ codes' \in [Key -> CodeRow]
        /\ \A j \in Key :
             /\ codes'[j].state = codes[j].state /\ codes'[j].owner = codes[j].owner
             /\ codes'[j].given => (j = k \/ codes[j].given)
    BY <1>2, HandOutMoves DEF IInv
  <2>4. Shape' /\ LeavesOthers(c) /\ TakesRow(c) /\ CodesMove(c) /\ UsersGrow
    BY <2>1, <2>2, <2>3
       DEF IInv, Shape, To, LeavesOthers, TakesRow, HoldsUserRow, CodesMove, UsersGrow
  <2>5. ClientOK(c)'
    <3>1. 0 \notin Key /\ (token[c] # "none" => user[Owner[c]].isVerified)
      BY DEF Setting, CodesAssumption, IInv, ClientOK
    <3> QED
      BY <2>1, <2>2, <3>1 DEF ClientOK, To, Inserting, Resets, Kind, AtPc
  <2>6. ASSUME NEW j \in Key PROVE CodeOK(j)'
    <3>1. ASSUME codes[j].state = "pending"
          PROVE  \E d \in Client : Inserting(d)' /\ req'[d].code = j
      <4>1. PICK d \in Client : Inserting(d) /\ req[d].code = j
        BY <3>1 DEF IInv, CodeOK
      <4>2. Inserting(d)' /\ req'[d].code = j
        BY <2>1, <2>2, <4>1 DEF To, Inserting
      <4> QED
        BY <4>2
    <3>2. CodeOK(j) /\ codes[k].state = "stored"
      BY <1>2 DEF IInv, Stored
    <3> QED
      BY <2>1, <2>3, <3>1, <3>2 DEF CodeOK
  <2> QED
    BY <2>4, <2>5, <2>6, StepKeeps
<1> QED
  BY <1>1, <1>2 DEF FindCode

LEMMA GenerateMoves ==
  ASSUME Setting, IInv, NEW c \in Client, NEW k \in Key, GenerateCode(c, k), now \in Nat
  PROVE  /\ To(c, "cache", req[c].kind, k) /\ req'[c].seen = req[c].seen
         /\ codes' \in [Key -> CodeRow]
         /\ \A j \in Key : j # k => codes'[j] = codes[j]
         /\ codes'[k].state = "pending" /\ codes'[k].owner = Owner[c]
         /\ codes'[k].until = now + CodeLife /\ codes'[k].given = FALSE
         /\ codes'[k].resets = 0
PROOF
<1> DEFINE row == [NoCode EXCEPT !.state = "pending", !.until = now + CodeLife, !.owner = Owner[c]]
           r == [req[c] EXCEPT !.pc = "cache", !.code = k]
<1>1. req[c] \in Request /\ Owner[c] \in User /\ now + CodeLife \in Nat
  BY DEF IInv, Shape, Setting, CodesAssumption, PoolAssumption
<1>2. /\ row \in CodeRow /\ row.state = "pending" /\ row.owner = Owner[c]
      /\ row.until = now + CodeLife /\ row.given = FALSE /\ row.resets = 0
  BY <1>1 DEF NoCode, CodeRow, CodeState
<1>3. /\ r \in Request /\ r.pc = "cache" /\ r.kind = req[c].kind /\ r.code = k
      /\ r.seen = req[c].seen
  BY <1>1 DEF Request, Pc
<1>4. codes' = [codes EXCEPT ![k] = row] /\ req' = [req EXCEPT ![c] = r]
  BY DEF GenerateCode
<1> HIDE DEF row, r
<1>5. To(c, "cache", req[c].kind, k) /\ req'[c].seen = req[c].seen
  BY <1>3, <1>4, SetRequest DEF IInv
<1>6. codes' \in [Key -> CodeRow] /\ \A j \in Key : codes'[j] = IF j = k THEN row ELSE codes[j]
  BY <1>2, <1>4, WriteCode DEF IInv
<1> QED
  BY <1>2, <1>5, <1>6

LEMMA GenerateCodeKeeps ==
  ASSUME Setting, IInv, NEW c \in Client, NEW k \in Key, GenerateCode(c, k), now \in Nat
  PROVE  IInv'
PROOF
<1>1. /\ To(c, "cache", req[c].kind, k)
      /\ codes' \in [Key -> CodeRow]
      /\ \A j \in Key : j # k => codes'[j] = codes[j]
      /\ codes'[k].state = "pending" /\ codes'[k].owner = Owner[c] /\ codes'[k].given = FALSE
  BY GenerateMoves
<1>2. /\ UNCHANGED <<user, token, rollbacks>> /\ ~Inserting(c) /\ ~Resets(c)
      /\ UserRowIsFree(c) /\ codes[k].state = "free"
  BY DEF GenerateCode, AtPc, Inserting, Resets
<1>3. Shape' /\ LeavesOthers(c) /\ TakesRow(c) /\ CodesMove(c) /\ UsersGrow
  BY <1>1, <1>2 DEF IInv, Shape, To, LeavesOthers, TakesRow, CodesMove, UsersGrow
<1>4. ClientOK(c)'
  <2>1. req[c].kind # "reset" /\ (token[c] # "none" => user[Owner[c]].isVerified)
    BY <1>2 DEF IInv, ClientOK, Kind
  <2> QED
    BY <1>1, <1>2, <2>1 DEF ClientOK, To, Inserting, Resets, Kind, AtPc
<1>5. ASSUME NEW j \in Key PROVE CodeOK(j)'
  <2>1. CASE j = k
    <3>1. Inserting(c)' /\ req'[c].code = k
      BY <1>1 DEF To, Inserting
    <3> QED
      BY <1>1, <2>1, <3>1 DEF CodeOK
  <2>2. CASE j # k
    <3>1. ASSUME codes[j].state = "pending"
          PROVE  \E d \in Client : Inserting(d)' /\ req'[d].code = j
      <4>1. PICK d \in Client : Inserting(d) /\ req[d].code = j
        BY <3>1 DEF IInv, CodeOK
      <4>2. Inserting(d)' /\ req'[d].code = j
        BY <1>1, <1>2, <4>1 DEF To, Inserting
      <4> QED
        BY <4>2
    <3>2. CodeOK(j)
      BY DEF IInv
    <3> QED
      BY <1>1, <1>2, <2>2, <3>1, <3>2 DEF CodeOK
  <2> QED
    BY <2>1, <2>2
<1> QED
  BY <1>3, <1>4, <1>5, StepKeeps

LEMMA CommitMoves ==
  ASSUME Setting, IInv, NEW c \in Client, CommitCode(c)
  PROVE  LET k == req[c].code IN
         /\ k \in Key /\ codes[k].state = "pending" /\ codes[k].owner = Owner[c]
         /\ To(c, "idle", "none", 0)
         /\ codes' \in [Key -> CodeRow]
         /\ \A j \in Key : j # k => codes'[j] = codes[j]
         /\ codes'[k].state = "stored" /\ codes'[k].given
         /\ codes'[k].owner = codes[k].owner /\ codes'[k].until = codes[k].until
         /\ codes'[k].resets = codes[k].resets
         /\ user' \in [User -> UserRow]
         /\ \A u \in User : u # Owner[c] => user'[u] = user[u]
         /\ user'[Owner[c]].exists /\ user'[Owner[c]].isVerified = user[Owner[c]].isVerified
PROOF
<1> DEFINE k == req[c].code
           row == [codes[k] EXCEPT !.state = "stored", !.given = TRUE]
           u == Owner[c]
           person == [user[u] EXCEPT !.exists = TRUE]
<1>1. /\ k \in Key /\ codes[k].state = "pending" /\ codes[k].owner = Owner[c]
  BY DEF IInv, ClientOK, Inserting, CommitCode, AtPc
<1>2. codes[k] \in CodeRow /\ u \in User /\ user[u] \in UserRow
  BY <1>1 DEF IInv, Shape, Setting, CodesAssumption
<1>3. /\ row \in CodeRow /\ row.state = "stored" /\ row.given /\ row.owner = codes[k].owner
      /\ row.until = codes[k].until /\ row.resets = codes[k].resets
  BY <1>2 DEF CodeRow, CodeState
<1>4. person \in UserRow /\ person.exists /\ person.isVerified = user[u].isVerified
  BY <1>2 DEF UserRow
<1>5. codes' = [codes EXCEPT ![k] = row] /\ user' = [user EXCEPT ![u] = person] /\ Answer(c)
  BY DEF CommitCode
<1> HIDE DEF row, person
<1>6. codes' \in [Key -> CodeRow] /\ \A j \in Key : codes'[j] = IF j = k THEN row ELSE codes[j]
  BY <1>1, <1>3, <1>5, WriteCode DEF IInv
<1>7. user' \in [User -> UserRow] /\ \A v \in User : user'[v] = IF v = u THEN person ELSE user[v]
  BY <1>2, <1>4, <1>5, WriteUser DEF IInv
<1>8. To(c, "idle", "none", 0)
  BY <1>5, AnswerTo DEF IInv
<1> QED
  BY <1>1, <1>2, <1>3, <1>4, <1>6, <1>7, <1>8

LEMMA CommitCodeKeeps ==
  ASSUME Setting, IInv, NEW c \in Client, CommitCode(c)
  PROVE  IInv'
PROOF
<1> DEFINE k == req[c].code
<1>1. /\ k \in Key /\ codes[k].state = "pending" /\ codes[k].owner = Owner[c]
      /\ To(c, "idle", "none", 0)
      /\ codes' \in [Key -> CodeRow]
      /\ \A j \in Key : j # k => codes'[j] = codes[j]
      /\ codes'[k].state = "stored" /\ codes'[k].owner = codes[k].owner
      /\ user' \in [User -> UserRow]
      /\ \A u \in User : u # Owner[c] => user'[u] = user[u]
      /\ user'[Owner[c]].exists /\ user'[Owner[c]].isVerified = user[Owner[c]].isVerified
  BY CommitMoves
<1>2. UNCHANGED <<token, rollbacks>> /\ Inserting(c) /\ Owner[c] \in User /\ 0 \notin Key
  BY DEF CommitCode, AtPc, Inserting, Setting, CodesAssumption
<1> HIDE DEF k
<1>3. UsersGrow
  BY <1>1 DEF UsersGrow
<1>4. CodesMove(c)
  BY <1>1, <1>2 DEF CodesMove, k
<1>5. Shape' /\ LeavesOthers(c) /\ TakesRow(c)
  BY <1>1, <1>2 DEF IInv, Shape, To, LeavesOthers, TakesRow, HoldsUserRow
<1>6. ClientOK(c)'
  <2>1. token[c] # "none" => user[Owner[c]].isVerified
    BY DEF IInv, ClientOK
  <2> QED
    BY <1>1, <1>2, <2>1 DEF ClientOK, To, Inserting, Resets, Kind, AtPc
<1>7. ASSUME NEW j \in Key PROVE CodeOK(j)'
  <2>1. CASE j = k
    BY <1>1, <2>1 DEF CodeOK
  <2>2. CASE j # k
    <3>1. ASSUME codes[j].state = "pending"
          PROVE  \E d \in Client : Inserting(d)' /\ req'[d].code = j
      <4>1. PICK d \in Client : Inserting(d) /\ req[d].code = j
        BY <3>1 DEF IInv, CodeOK
      <4>2. d # c
        BY <2>2, <4>1 DEF k
      <4>3. Inserting(d)' /\ req'[d].code = j
        BY <1>1, <4>1, <4>2 DEF To, Inserting
      <4> QED
        BY <4>3
    <3>2. CodeOK(j) /\ codes[j].owner \in User
      BY DEF IInv, Shape, CodeRow
    <3> QED
      BY <1>1, <1>3, <2>2, <3>1, <3>2 DEF CodeOK, UsersGrow
  <2> QED
    BY <2>1, <2>2
<1> QED
  BY <1>3, <1>4, <1>5, <1>6, <1>7, StepKeeps

\* The update of the user, in its transaction or after the end of it.
LEMMA UpdateUserKeeps ==
  ASSUME Setting, IInv, NEW c \in Client, UpdateUser(c) \/ LateUpdate(c)
  PROVE  IInv'
PROOF
<1> DEFINE u == Owner[c]
           person == [user[u] EXCEPT !.isVerified = TRUE]
<1>1. u \in User /\ user[u] \in UserRow /\ Shape /\ ClientOK(c)
  BY DEF IInv, Shape, Setting, CodesAssumption
<1>2. person \in UserRow /\ person.isVerified /\ person.exists = user[u].exists
  BY <1>1 DEF UserRow
<1>3. user' = [user EXCEPT ![u] = person]
  BY DEF UpdateUser, LateUpdate
<1>4. /\ UNCHANGED <<codes, token, rollbacks>> /\ req[c].pc \in {"update", "late"}
      /\ Goto(c, "tokens") \/ Answer(c)
  BY DEF UpdateUser, LateUpdate, AtPc
<1> HIDE DEF person
<1>5. user' \in [User -> UserRow] /\ \A v \in User : user'[v] = IF v = u THEN person ELSE user[v]
  BY <1>1, <1>2, <1>3, WriteUser
<1>6. To(c, "tokens", req[c].kind, req[c].code) \/ To(c, "idle", "none", 0)
  BY <1>1, <1>4, GotoTo, AnswerTo DEF Pc
<1>7. UsersGrow
  BY <1>2, <1>5 DEF UsersGrow
<1>8. Shape' /\ LeavesOthers(c) /\ TakesRow(c) /\ CodesMove(c)
  BY <1>1, <1>4, <1>5, <1>6
     DEF Shape, To, LeavesOthers, TakesRow, HoldsUserRow, CodesMove
<1>9. ClientOK(c)'
  <2>1. req[c].kind # "reset" /\ user'[Owner[c]].isVerified /\ 0 \notin Key
    BY <1>1, <1>2, <1>4, <1>5 DEF ClientOK, AtPc, Kind, Resets, Setting, CodesAssumption
  <2> QED
    BY <1>1, <1>4, <1>6, <2>1 DEF ClientOK, To, Inserting, Resets, Kind, AtPc
<1>10. ASSUME NEW k \in Key PROVE CodeOK(k)'
  <2>1. ASSUME codes[k].state = "pending" PROVE \E d \in Client : Inserting(d)' /\ req'[d].code = k
    <3>1. PICK d \in Client : Inserting(d) /\ req[d].code = k
      BY <2>1 DEF IInv, CodeOK
    <3>2. Inserting(d)' /\ req'[d].code = k
      BY <1>4, <1>6, <3>1 DEF To, Inserting, AtPc
    <3> QED
      BY <3>2
  <2>2. CodeOK(k) /\ codes[k].owner \in User
    BY <1>1 DEF IInv, Shape, CodeRow
  <2> QED
    BY <1>4, <1>7, <2>1, <2>2 DEF CodeOK, UsersGrow
<1> QED
  BY <1>7, <1>8, <1>9, <1>10, StepKeeps

LEMMA IssueTokensKeeps ==
  ASSUME Setting, IInv, NEW c \in Client, IssueTokens(c)
  PROVE  IInv'
PROOF
<1>1. UNCHANGED <<codes, user, rollbacks>> /\ AtPc(c, "tokens") /\ Shape /\ ClientOK(c)
  BY DEF IssueTokens, IInv
<1>2. /\ token' \in [Client -> {"none", "unverified", "verified"}]
      /\ \A d \in Client : d # c => token'[d] = token[d]
  BY <1>1 DEF IssueTokens, Shape
<1>3. To(c, "idle", "none", 0)
  BY <1>1, AnswerTo DEF IssueTokens
<1>4. Shape' /\ LeavesOthers(c) /\ TakesRow(c) /\ CodesMove(c) /\ UsersGrow
  BY <1>1, <1>2, <1>3
     DEF Shape, To, LeavesOthers, TakesRow, HoldsUserRow, CodesMove, UsersGrow
<1>5. ClientOK(c)'
  <2>1. 0 \notin Key /\ user[Owner[c]].isVerified
    BY <1>1 DEF Setting, CodesAssumption, ClientOK
  <2> QED
    BY <1>1, <1>3, <2>1 DEF ClientOK, To, Inserting, Resets, Kind, AtPc
<1>6. ASSUME NEW k \in Key PROVE CodeOK(k)'
  <2>1. ASSUME codes[k].state = "pending" PROVE \E d \in Client : Inserting(d)' /\ req'[d].code = k
    <3>1. PICK d \in Client : Inserting(d) /\ req[d].code = k
      BY <2>1 DEF IInv, CodeOK
    <3>2. Inserting(d)' /\ req'[d].code = k
      BY <1>1, <1>3, <3>1 DEF To, Inserting, AtPc
    <3> QED
      BY <3>2
  <2>2. CodeOK(k)
    BY DEF IInv
  <2> QED
    BY <1>1, <2>1, <2>2 DEF CodeOK
<1> QED
  BY <1>4, <1>5, <1>6, StepKeeps

LEMMA ResetMoves ==
  ASSUME Setting, IInv, NEW c \in Client, CommitReset(c)
  PROVE  /\ To(c, "idle", "none", 0) /\ req[c].code \in Key
         /\ codes' \in [Key -> CodeRow]
         /\ \A k \in Key :
              /\ codes'[k].state = IF k \in req[c].rows THEN "gone" ELSE codes[k].state
              /\ codes'[k].resets = codes[k].resets + IF k = req[c].code THEN 1 ELSE 0
              /\ codes'[k].owner = codes[k].owner /\ codes'[k].until = codes[k].until
              /\ codes'[k].given = codes[k].given
         /\ user' \in [User -> UserRow]
         /\ \A u \in User : /\ user'[u].exists = user[u].exists
                            /\ user'[u].isVerified = user[u].isVerified
PROOF
<1>1. Shape /\ ClientOK(c) /\ AtPc(c, "commitReset") /\ Owner[c] \in User
  BY DEF IInv, CommitReset, Setting, CodesAssumption
<1>2. To(c, "idle", "none", 0) /\ req[c].code \in Key
  BY <1>1, AnswerTo DEF CommitReset, ClientOK, AtPc, Resets
<1> DEFINE row(k) == [codes[k] EXCEPT !.state = IF k \in req[c].rows THEN "gone" ELSE @,
                                      !.resets = IF k = req[c].code THEN @ + 1 ELSE @]
<1>3. codes' = [k \in Key |-> row(k)]
  BY DEF CommitReset
<1>4. ASSUME NEW k \in Key
      PROVE  /\ row(k) \in CodeRow
             /\ row(k).state = IF k \in req[c].rows THEN "gone" ELSE codes[k].state
             /\ row(k).resets = codes[k].resets + IF k = req[c].code THEN 1 ELSE 0
             /\ row(k).owner = codes[k].owner /\ row(k).until = codes[k].until
             /\ row(k).given = codes[k].given
  <2> DEFINE state == IF k \in req[c].rows THEN "gone" ELSE codes[k].state
             resets == IF k = req[c].code THEN codes[k].resets + 1 ELSE codes[k].resets
  <2>1. codes[k] \in CodeRow
    BY <1>1 DEF Shape
  <2>2. /\ state \in CodeState /\ resets \in Nat
        /\ resets = codes[k].resets + IF k = req[c].code THEN 1 ELSE 0
    BY <2>1 DEF CodeRow, CodeState
  <2>3. row(k) = [codes[k] EXCEPT !.state = state, !.resets = resets]
    OBVIOUS
  <2> HIDE DEF state, resets, row
  <2>4. /\ row(k) \in CodeRow /\ row(k).state = state /\ row(k).resets = resets
        /\ row(k).owner = codes[k].owner /\ row(k).until = codes[k].until
        /\ row(k).given = codes[k].given
    BY <2>1, <2>2, <2>3 DEF CodeRow
  <2> QED
    BY <2>2, <2>4 DEF state
<1> HIDE DEF row
<1> DEFINE u == Owner[c]
           person == [user[u] EXCEPT !.resets = @ + 1]
<1>5. user[u] \in UserRow
  BY <1>1 DEF Shape
<1>6. person \in UserRow /\ person.exists = user[u].exists /\ person.isVerified = user[u].isVerified
  BY <1>5 DEF UserRow
<1>7. user' = [user EXCEPT ![u] = person]
  BY DEF CommitReset
<1> HIDE DEF person
<1>8. user' \in [User -> UserRow] /\ \A v \in User : user'[v] = IF v = u THEN person ELSE user[v]
  BY <1>1, <1>6, <1>7, WriteUser
<1>9. codes' \in [Key -> CodeRow]
  BY <1>3, <1>4
<1>10. ASSUME NEW k \in Key PROVE codes'[k] = row(k)
  BY <1>3
<1>11. ASSUME NEW v \in User
       PROVE  user'[v].exists = user[v].exists /\ user'[v].isVerified = user[v].isVerified
  BY <1>6, <1>8
<1> QED
  BY <1>2, <1>4, <1>8, <1>9, <1>10, <1>11

LEMMA CommitResetKeeps ==
  ASSUME Setting, IInv, NEW c \in Client, CommitReset(c)
  PROVE  IInv'
PROOF
<1>1. /\ To(c, "idle", "none", 0)
      /\ codes' \in [Key -> CodeRow]
      /\ \A k \in Key :
           /\ codes'[k].state = IF k \in req[c].rows THEN "gone" ELSE codes[k].state
           /\ codes'[k].owner = codes[k].owner /\ codes'[k].given = codes[k].given
      /\ user' \in [User -> UserRow]
      /\ \A u \in User : /\ user'[u].exists = user[u].exists
                         /\ user'[u].isVerified = user[u].isVerified
  BY ResetMoves
<1>2. UNCHANGED <<token, rollbacks>> /\ AtPc(c, "commitReset") /\ Shape /\ ClientOK(c)
  BY DEF CommitReset, IInv
<1>3. PICK rows \in SUBSET Key : rows = req[c].rows
  BY <1>2 DEF Shape, Request
<1>4. ASSUME NEW k \in rows PROVE codes[k].state \in {"stored", "gone"}
  BY <1>2, <1>3 DEF ClientOK, RowsOK
<1>5. UsersGrow
  BY <1>1 DEF UsersGrow
<1>6. CodesMove(c)
  BY <1>1, <1>3, <1>4 DEF CodesMove
<1>7. Shape' /\ LeavesOthers(c) /\ TakesRow(c)
  BY <1>1, <1>2 DEF Shape, To, LeavesOthers, TakesRow, HoldsUserRow
<1>8. ClientOK(c)'
  <2>1. 0 \notin Key /\ Owner[c] \in User
    BY DEF Setting, CodesAssumption
  <2> QED
    BY <1>1, <1>2, <2>1 DEF ClientOK, To, Inserting, Resets, Kind, AtPc
<1>9. ASSUME NEW k \in Key PROVE CodeOK(k)'
  <2>1. ASSUME codes[k].state = "pending" PROVE \E d \in Client : Inserting(d)' /\ req'[d].code = k
    <3>1. PICK d \in Client : Inserting(d) /\ req[d].code = k
      BY <2>1 DEF IInv, CodeOK
    <3>2. Inserting(d)' /\ req'[d].code = k
      BY <1>1, <1>2, <3>1 DEF To, Inserting, AtPc
    <3> QED
      BY <3>2
  <2>2. CodeOK(k) /\ codes[k].owner \in User
    BY <1>2 DEF IInv, Shape, CodeRow
  <2> QED
    BY <1>1, <2>1, <2>2 DEF CodeOK
<1> QED
  BY <1>5, <1>6, <1>7, <1>8, <1>9, StepKeeps

-----------------------------------------------------------------------------
(* The faults. *)

\* Codes that are dropped.
LEMMA DropMoves ==
  ASSUME Shape, NEW D \in SUBSET Key,
         codes' = [k \in Key |-> IF k \in D THEN [codes[k] EXCEPT !.state = "gone"]
                                 ELSE codes[k]]
  PROVE  /\ codes' \in [Key -> CodeRow]
         /\ \A k \in Key :
              /\ codes'[k].state = IF k \in D THEN "gone" ELSE codes[k].state
              /\ codes'[k].owner = codes[k].owner /\ codes'[k].until = codes[k].until
              /\ codes'[k].given = codes[k].given /\ codes'[k].resets = codes[k].resets
PROOF
<1> DEFINE gone(k) == [codes[k] EXCEPT !.state = "gone"]
<1>1. ASSUME NEW k \in Key
      PROVE  /\ codes[k] \in CodeRow /\ gone(k) \in CodeRow /\ gone(k).state = "gone"
             /\ gone(k).owner = codes[k].owner /\ gone(k).until = codes[k].until
             /\ gone(k).given = codes[k].given /\ gone(k).resets = codes[k].resets
  BY DEF Shape, CodeRow, CodeState
<1> HIDE DEF gone
<1>2. codes' = [k \in Key |-> IF k \in D THEN gone(k) ELSE codes[k]]
  BY DEF gone
<1>3. ASSUME NEW k \in Key PROVE codes'[k] = IF k \in D THEN gone(k) ELSE codes[k]
  BY <1>2
<1>4. codes' \in [Key -> CodeRow]
  BY <1>1, <1>2
<1> QED
  BY <1>1, <1>3, <1>4

LEMMA RollbackMoves ==
  ASSUME Setting, IInv, NEW c \in Client, Rollback(c)
  PROVE  /\ To(c, "idle", "none", 0)
         /\ codes' \in [Key -> CodeRow]
         /\ \A k \in Key :
              /\ codes'[k].state = IF Inserting(c) /\ k = req[c].code THEN "gone"
                                   ELSE codes[k].state
              /\ codes'[k].owner = codes[k].owner /\ codes'[k].until = codes[k].until
              /\ codes'[k].given = codes[k].given /\ codes'[k].resets = codes[k].resets
PROOF
<1> DEFINE D == {k \in Key : k = req[c].code /\ codes[k].state = "pending"}
<1>1. ASSUME NEW k \in Key PROVE k \in D <=> Inserting(c) /\ k = req[c].code
  BY DEF IInv, ClientOK
<1>2. To(c, "idle", "none", 0)
  BY AnswerTo DEF Rollback, IInv
<1>3. codes' = [k \in Key |-> IF k \in D THEN [codes[k] EXCEPT !.state = "gone"]
                              ELSE codes[k]]
  BY DEF Rollback
<1> HIDE DEF D
<1>4. /\ codes' \in [Key -> CodeRow]
      /\ \A k \in Key :
           /\ codes'[k].state = IF k \in D THEN "gone" ELSE codes[k].state
           /\ codes'[k].owner = codes[k].owner /\ codes'[k].until = codes[k].until
           /\ codes'[k].given = codes[k].given /\ codes'[k].resets = codes[k].resets
  <2>1. D \in SUBSET Key
    BY DEF D
  <2> QED
    BY <1>3, <2>1, DropMoves DEF IInv
<1> QED
  BY <1>1, <1>2, <1>4

LEMMA RollbackKeeps ==
  ASSUME Setting, IInv, NEW c \in Client, Rollback(c)
  PROVE  IInv'
PROOF
<1>1. /\ To(c, "idle", "none", 0)
      /\ codes' \in [Key -> CodeRow]
      /\ \A k \in Key :
           /\ codes'[k].state = IF Inserting(c) /\ k = req[c].code THEN "gone"
                                ELSE codes[k].state
           /\ codes'[k].owner = codes[k].owner /\ codes'[k].given = codes[k].given
  BY RollbackMoves
<1>2. UNCHANGED <<user, token>> /\ rollbacks' = rollbacks + 1 /\ Shape /\ ClientOK(c)
  BY DEF Rollback, IInv
<1>3. UsersGrow /\ CodesMove(c)
  BY <1>1, <1>2 DEF UsersGrow, CodesMove
<1>4. Shape' /\ LeavesOthers(c) /\ TakesRow(c)
  <2>1. rollbacks' \in Nat
    BY <1>2 DEF Shape
  <2> QED
    BY <1>1, <1>2, <2>1 DEF Shape, To, LeavesOthers, TakesRow, HoldsUserRow
<1>5. ClientOK(c)'
  <2>1. 0 \notin Key
    BY DEF Setting, CodesAssumption
  <2> QED
    BY <1>1, <1>2, <2>1 DEF ClientOK, To, Inserting, Resets, Kind, AtPc
<1>6. ASSUME NEW k \in Key PROVE CodeOK(k)'
  <2>1. ASSUME codes'[k].state = "pending" PROVE \E d \in Client : Inserting(d)' /\ req'[d].code = k
    <3>1. codes[k].state = "pending" /\ ~(Inserting(c) /\ k = req[c].code)
      BY <1>1, <2>1
    <3>2. PICK d \in Client : Inserting(d) /\ req[d].code = k
      BY <3>1 DEF IInv, CodeOK
    <3>3. Inserting(d)' /\ req'[d].code = k
      BY <1>1, <3>1, <3>2 DEF To, Inserting
    <3> QED
      BY <3>3
  <2>2. CodeOK(k)
    BY DEF IInv
  <2>3. codes'[k].given => codes'[k].state \in {"stored", "gone"}
    BY <1>1, <2>2 DEF CodeOK
  <2>4. codes'[k].state = "stored" => user'[codes'[k].owner].exists
    BY <1>1, <1>2, <2>2 DEF CodeOK
  <2> QED
    BY <2>1, <2>3, <2>4 DEF CodeOK
<1> QED
  BY <1>3, <1>4, <1>5, <1>6, StepKeeps

LEMMA CrashKeeps ==
  ASSUME Setting, IInv, Crash
  PROVE  IInv'
PROOF
<1> DEFINE D == {k \in Key : codes[k].state = "pending"}
<1>1. codes' = [k \in Key |-> IF k \in D THEN [codes[k] EXCEPT !.state = "gone"]
                              ELSE codes[k]]
  BY DEF Crash
<1>2. /\ codes' \in [Key -> CodeRow]
      /\ \A k \in Key :
           /\ codes'[k].state = IF codes[k].state = "pending" THEN "gone" ELSE codes[k].state
           /\ codes'[k].owner = codes[k].owner /\ codes'[k].given = codes[k].given
  <2>1. D \in SUBSET Key
    OBVIOUS
  <2> HIDE DEF D
  <2>2. /\ codes' \in [Key -> CodeRow]
        /\ \A k \in Key :
             /\ codes'[k].state = IF k \in D THEN "gone" ELSE codes[k].state
             /\ codes'[k].owner = codes[k].owner /\ codes'[k].given = codes[k].given
    BY <1>1, <2>1, DropMoves DEF IInv
  <2> QED
    BY <2>2 DEF D
<1>3. UNCHANGED <<user, token, rollbacks>> /\ \A c \in Client : req'[c] = Idle
  BY DEF Crash
<1>4. Shape'
  BY <1>2, <1>3, IdleType DEF Crash, IInv, Shape
<1>5. RowHeldOnce'
  BY <1>3, IdleType DEF RowHeldOnce, HoldsUserRow
<1>6. ASSUME NEW c \in Client PROVE ClientOK(c)'
  <2>1. 0 \notin Key /\ ClientOK(c)
    BY DEF Setting, CodesAssumption, IInv
  <2> QED
    BY <1>3, <2>1, IdleType DEF ClientOK, Inserting, Resets, Kind, AtPc
<1>7. ASSUME NEW k \in Key PROVE CodeOK(k)'
  <2>1. CodeOK(k)
    BY DEF IInv
  <2>2. codes'[k].state # "pending"
    BY <1>2
  <2>3. codes'[k].given => codes'[k].state \in {"stored", "gone"}
    BY <1>2, <2>1 DEF CodeOK
  <2>4. codes'[k].state = "stored" => user'[codes'[k].owner].exists
    BY <1>2, <1>3, <2>1 DEF CodeOK
  <2> QED
    BY <2>2, <2>3, <2>4 DEF CodeOK
<1> QED
  BY <1>4, <1>5, <1>6, <1>7 DEF IInv

-----------------------------------------------------------------------------
(* The invariant, and the cache under it. *)

\* What a request does to the cache is what any caller of RedisService may do.
LEMMA CodesUseCache ==
  ASSUME Setting, IInv, [Next]_vars
  PROVE  [CacheNext]_cacheVars
PROOF
<1>1. ASSUME NEW c \in Client, CacheCode(c)
      PROVE  CacheNext
  <2>1. req[c].code \in Key /\ req[c].code \in Value
    BY <1>1 DEF IInv, ClientOK, CacheCode, AtPc, Inserting, Setting, CodesAssumption
  <2>2. SetValue(req[c].code, req[c].code)
    BY <1>1 DEF CacheCode, SetValue
  <2> QED
    BY <2>1, <2>2 DEF CacheNext
<1>2. ASSUME NEW c \in Client, ForgetCode(c)
      PROVE  CacheNext
  <2>1. req[c].code \in Key
    BY <1>2 DEF IInv, ClientOK, ForgetCode, AtPc, Resets
  <2>2. DelKey(req[c].code)
    BY <1>2 DEF ForgetCode, DelKey
  <2> QED
    BY <2>1, <2>2 DEF CacheNext
<1>3. ASSUME Environment \/ Crash
      PROVE  CacheNext
  BY <1>3 DEF Environment, Crash, CacheNext
<1>4. ASSUME NEW c \in Client, RequestStep(c), ~CacheCode(c), ~ForgetCode(c)
      PROVE  UNCHANGED cacheVars
  BY <1>4 DEF RequestStep, FindCode, CreateUserFails, CommitCode, GenerateCode, ReadUser,
              UpdateUser, LateUpdate, IssueTokens, LookupFails, UpdatePassword, DeleteRows,
              CommitReset
<1>5. ASSUME NEW c \in Client, ClientStep(c) \/ GivesUp(c) \/ Rollback(c)
      PROVE  UNCHANGED cacheVars
  BY <1>5, GivesUpMoves DEF ClientStep, AskForCode, VerifyOtp, ResendOtp, ResetPassword, Rollback
<1>6. CASE UNCHANGED vars
  BY <1>6 DEF vars
<1> QED
  BY <1>1, <1>2, <1>3, <1>4, <1>5, <1>6 DEF Next, GivesUp

LEMMA NextIInv ==
  ASSUME Setting, IInv, CacheInv, [Next]_vars
  PROVE  IInv'
PROOF
<1>1. now \in Nat
  BY DEF CacheInv, CacheTypeOK
<1>2. ASSUME NEW c \in Client, CacheCode(c) \/ ForgetCode(c) \/ UpdatePassword(c)
      PROVE  IInv'
  <2>1. UNCHANGED <<codes, user, token, rollbacks>>
    BY <1>2 DEF CacheCode, ForgetCode, UpdatePassword
  <2> QED
    BY <1>2, <2>1, GotoKeeps DEF CacheCode, ForgetCode, UpdatePassword
<1>3. ASSUME NEW c \in Client, CreateUserFails(c) \/ LookupFails(c)
      PROVE  IInv'
  <2>1. UNCHANGED <<codes, user, token, rollbacks>> /\ ~Inserting(c) /\ Answer(c)
    BY <1>3 DEF CreateUserFails, LookupFails, AtPc, Inserting
  <2> QED
    BY <2>1, AnswerKeeps
<1>4. ASSUME NEW c \in Client, RequestStep(c)
      PROVE  IInv'
  BY <1>1, <1>2, <1>3, <1>4, FindCodeKeeps, CommitCodeKeeps, GenerateCodeKeeps, ReadUserKeeps,
     UpdateUserKeeps, IssueTokensKeeps, DeleteRowsKeeps, CommitResetKeeps DEF RequestStep
<1>5. ASSUME NEW c \in Client, ClientStep(c)
      PROVE  IInv'
  BY <1>5, AskForCodeKeeps, UseKeeps DEF ClientStep
<1>6. ASSUME UNCHANGED codeVars
      PROVE  IInv'
  <2>1. UNCHANGED <<codes, user, token, req, rollbacks>>
    BY <1>6 DEF codeVars
  <2>2. Shape' /\ RowHeldOnce'
    BY <2>1 DEF IInv, Shape, RowHeldOnce, HoldsUserRow
  <2>3. \A c \in Client : ClientOK(c)'
    BY <2>1 DEF IInv, ClientOK, RowsOK, Inserting, Resets, Kind, AtPc
  <2>4. \A k \in Key : CodeOK(k)'
    BY <2>1 DEF IInv, CodeOK, Inserting
  <2> QED
    BY <2>2, <2>3, <2>4 DEF IInv
<1> QED
  BY <1>4, <1>5, <1>6, GivesUpKeeps, RollbackKeeps, CrashKeeps
     DEF Next, Environment, vars, GivesUp

-----------------------------------------------------------------------------
(* A user's codes are as many as its clients at the most.  Every code that *)
(* can be used is the last one of some client, which generates no other    *)
(* while it is there.                                                      *)

Usable(k) == codes[k].state = "stored" /\ Unexpired(k)

\* The client may have a code.
MayHave(c) == ~Inserting(c) /\ ~(AtPc(c, "insert") /\ req[c].seen.exists)

LastOnes(f) ==
  \A k \in Key : Usable(k) =>
    \E c \in Client : f[c] = k /\ Owner[c] = codes[k].owner /\ MayHave(c)

BoundInv == \E f \in [Client -> Key \union {0}] : LastOnes(f)

LEMMA InitBound == ASSUME Setting, Init PROVE BoundInv
PROOF
<1> DEFINE f == [c \in Client |-> 0]
<1>1. f \in [Client -> Key \union {0}]
  OBVIOUS
<1>2. LastOnes(f)
  BY DEF Init, NoCode, LastOnes, Usable
<1> QED
  BY <1>1, <1>2 DEF BoundInv

\* But for a commit, nothing adds a code that can be used.
FadeOnly ==
  \A k \in Key : codes'[k].state = "stored" =>
    /\ codes[k].state = "stored" /\ codes'[k].owner = codes[k].owner
    /\ codes'[k].until = codes[k].until

LEMMA CodesFade ==
  ASSUME Setting, IInv, CacheInv, [Next]_vars, ~\E c \in Client : CommitCode(c)
  PROVE  FadeOnly
PROOF
<1>1. ASSUME NEW c \in Client, FindCode(c)
      PROVE  FadeOnly
  <2>1. CASE UNCHANGED codes
    BY <2>1 DEF FadeOnly
  <2>2. ASSUME NEW k \in Key, codes' = [codes EXCEPT ![k].given = TRUE]
        PROVE  FadeOnly
    <3>1. \A j \in Key : /\ codes'[j].state = codes[j].state /\ codes'[j].owner = codes[j].owner
                         /\ codes'[j].until = codes[j].until
      BY <2>2, HandOutMoves DEF IInv
    <3> QED
      BY <3>1 DEF FadeOnly
  <2> QED
    BY <1>1, <2>1, <2>2 DEF FindCode
<1>2. ASSUME NEW c \in Client, NEW k \in Key, GenerateCode(c, k)
      PROVE  FadeOnly
  <2>1. codes'[k].state = "pending" /\ \A j \in Key : j # k => codes'[j] = codes[j]
    BY <1>2, GenerateMoves DEF CacheInv, CacheTypeOK
  <2> QED
    BY <2>1 DEF FadeOnly
<1>3. ASSUME NEW c \in Client, CommitReset(c)
      PROVE  FadeOnly
  <2>1. \A k \in Key :
          /\ codes'[k].state = IF k \in req[c].rows THEN "gone" ELSE codes[k].state
          /\ codes'[k].owner = codes[k].owner /\ codes'[k].until = codes[k].until
    BY <1>3, ResetMoves
  <2> QED
    BY <2>1 DEF FadeOnly
<1>4. ASSUME NEW c \in Client, Rollback(c)
      PROVE  FadeOnly
  <2>1. \A k \in Key :
          /\ codes'[k].state = IF Inserting(c) /\ k = req[c].code THEN "gone" ELSE codes[k].state
          /\ codes'[k].owner = codes[k].owner /\ codes'[k].until = codes[k].until
    BY <1>4, RollbackMoves
  <2> QED
    BY <2>1 DEF FadeOnly
<1>5. CASE Crash
  BY <1>5 DEF Crash, FadeOnly, IInv, Shape, CodeRow
<1>6. ASSUME UNCHANGED codes
      PROVE  FadeOnly
  BY <1>6 DEF FadeOnly
<1>7. ASSUME NEW c \in Client, RequestStep(c)
      PROVE  FadeOnly
  <2>1. CASE \/ CreateUserFails(c) \/ CacheCode(c) \/ ReadUser(c) \/ UpdateUser(c)
             \/ LateUpdate(c) \/ IssueTokens(c) \/ LookupFails(c) \/ UpdatePassword(c)
             \/ ForgetCode(c) \/ DeleteRows(c)
    BY <1>6, <2>1 DEF CreateUserFails, CacheCode, ReadUser, UpdateUser, LateUpdate, IssueTokens,
                      LookupFails, UpdatePassword, ForgetCode, DeleteRows
  <2> QED
    BY <1>1, <1>2, <1>3, <1>7, <2>1 DEF RequestStep
<1>8. ASSUME NEW c \in Client, ClientStep(c)
      PROVE  FadeOnly
  BY <1>6, <1>8 DEF ClientStep, AskForCode, VerifyOtp, ResendOtp, ResetPassword
<1> QED
  BY <1>4, <1>5, <1>6, <1>7, <1>8, GivesUpMoves DEF Next, GivesUp, Environment, codeVars, vars

\* The clock does not go back.
LEMMA UsableBefore ==
  ASSUME IInv, IInv', now \in Nat, now' \in Nat, now' >= now, FadeOnly, NEW k \in Key, Usable(k)'
  PROVE  Usable(k) /\ codes'[k].owner = codes[k].owner
PROOF
<1>1. /\ codes[k].state = "stored" /\ codes'[k].owner = codes[k].owner
      /\ codes'[k].until = codes[k].until
  BY DEF FadeOnly, Usable
<1>2. codes[k].until \in Nat
  BY DEF IInv, Shape, CodeRow
<1> QED
  BY <1>1, <1>2 DEF Usable, Unexpired

LEMMA TimePasses ==
  ASSUME CacheInv, [CacheNext]_cacheVars
  PROVE  now \in Nat /\ now' \in Nat /\ now' >= now
PROOF
<1>1. now \in Nat
  BY DEF CacheInv, CacheTypeOK
<1>2. CASE CacheTick
  BY <1>1, <1>2 DEF CacheTick
<1>3. CASE UNCHANGED now
  BY <1>1, <1>3
<1> QED
  BY <1>2, <1>3 DEF CacheNext, SetValue, DelKey, CacheMiss, CacheFill, GoDown, ComeBack,
                    Restart, cacheVars

HasNone(u) == \A k \in Key : ~(Usable(k) /\ codes[k].owner = u)

\* A client that goes on to generate a code has none.
LEMMA GivesUpNone ==
  ASSUME Setting, IInv, CacheInv, [Next]_vars, NEW c \in Client, MayHave(c), ~MayHave(c)'
  PROVE  HasNone(Owner[c])
PROOF
<1>1. CASE req'[c] = req[c]
  BY <1>1 DEF MayHave, Inserting, AtPc
<1>2. Shape /\ Owner[c] \in User
  BY DEF IInv, Setting, CodesAssumption
<1>3. ASSUME NEW d \in Client, d # c,
             RequestStep(d) \/ ClientStep(d) \/ GivesUp(d) \/ Rollback(d)
      PROVE  req'[c] = req[c]
  BY <1>2, <1>3, GivesUpMoves
     DEF RequestStep, ClientStep, Rollback, FindCode, CreateUserFails, CacheCode, CommitCode,
         GenerateCode, ReadUser, UpdateUser, LateUpdate, IssueTokens, LookupFails,
         UpdatePassword, ForgetCode, DeleteRows, CommitReset, AskForCode, VerifyOtp, ResendOtp, ResetPassword,
         Goto, Answer, Start, Shape
<1>4. CASE UNCHANGED vars \/ Environment
  BY <1>1, <1>4 DEF vars, codeVars, Environment
<1>5. CASE Crash
  BY <1>5, IdleType DEF Crash, MayHave, Inserting, AtPc
<1>6. ASSUME req'[c].pc \notin {"insert", "cache", "commit"}
      PROVE  FALSE
  BY <1>6 DEF MayHave, Inserting, AtPc
<1>7. ASSUME FindCode(c)
      PROVE  HasNone(Owner[c])
  <2>1. CASE Answer(c)
    BY <1>2, <1>6, <2>1, AnswerTo DEF To
  <2>2. CASE Goto(c, "insert") /\ ~\E k \in Key : Stored(k, Owner[c]) /\ Unexpired(k)
    BY <2>2 DEF HasNone, Usable, Stored
  <2>3. CASE Goto(c, "insert") /\ ~req[c].seen.exists
    <3>1. req'[c].seen = req[c].seen /\ req'[c].pc = "insert"
      BY <1>2, <2>3, GotoTo DEF Pc, To
    <3> QED
      BY <2>3, <3>1 DEF MayHave, Inserting, AtPc
  <2> QED
    BY <1>7, <2>1, <2>2, <2>3 DEF FindCode
<1>8. ASSUME NEW k \in Key, GenerateCode(c, k)
      PROVE  HasNone(Owner[c])
  <2>1. ~user[Owner[c]].exists
    BY <1>8 DEF GenerateCode, MayHave
  <2> QED
    BY <2>1 DEF IInv, CodeOK, HasNone, Usable
<1>9. ASSUME RequestStep(c), ~FindCode(c), ~\E k \in Key : GenerateCode(c, k)
      PROVE  FALSE
  <2>1. ASSUME Answer(c) PROVE FALSE
    BY <1>2, <1>6, <2>1, AnswerTo DEF To
  <2>2. ASSUME NEW pc \in {"tokens", "forget", "rows"}, Goto(c, pc) PROVE FALSE
    BY <1>2, <1>6, <2>2, GotoTo DEF To, Pc
  <2>3. CASE ReadUser(c) \/ DeleteRows(c)
    BY <1>2, <1>6, <2>3 DEF ReadUser, DeleteRows, Shape, Request
  <2>4. CASE CacheCode(c)
    BY <2>4 DEF CacheCode, AtPc, MayHave, Inserting
  <2> QED
    BY <1>9, <2>1, <2>2, <2>3, <2>4
       DEF RequestStep, CreateUserFails, CommitCode, UpdateUser, LateUpdate, IssueTokens,
           LookupFails, UpdatePassword, ForgetCode, CommitReset
<1>10. ASSUME ClientStep(c) \/ GivesUp(c) \/ Rollback(c)
       PROVE  FALSE
  <2>1. CASE Rollback(c) \/ GivesUp(c)
    <3>1. Answer(c) \/ Goto(c, "late")
      BY <2>1, GivesUpMoves DEF Rollback
    <3> QED
      BY <1>2, <1>6, <3>1, AnswerTo, GotoTo DEF To, Pc
  <2>2. CASE ClientStep(c)
    <3>1. ASSUME NEW kind, AskForCode(c, kind) PROVE req'[c].pc = "find"
      BY <1>2, <3>1 DEF AskForCode, Shape, Idle
    <3>2. ASSUME NEW kind \in {"verify", "resend", "reset"}, NEW k \in Key,
                 NEW pc \in {"user", "lookup", "password"}, Start(c, kind, pc, k)
          PROVE  req'[c].pc = pc
      BY <1>2, <3>2, StartTo DEF To, Pc
    <3> QED
      BY <1>6, <2>2, <3>1, <3>2 DEF ClientStep, VerifyOtp, ResendOtp, ResetPassword
  <2> QED
    BY <1>10, <2>1, <2>2
<1> QED
  BY <1>1, <1>3, <1>4, <1>5, <1>7, <1>8, <1>9, <1>10 DEF Next, GivesUp

LEMMA NextBound ==
  ASSUME Setting, IInv, IInv', CacheInv, BoundInv, [Next]_vars
  PROVE  BoundInv'
PROOF
<1>1. PICK f \in [Client -> Key \union {0}] : LastOnes(f)
  BY DEF BoundInv
<1>2. now \in Nat /\ now' \in Nat /\ now' >= now
  BY CodesUseCache, TimePasses
<1>3. CASE ~\E c \in Client : CommitCode(c)
  <2>1. FadeOnly
    BY <1>3, CodesFade
  <2>2. LastOnes(f)'
    <3> SUFFICES ASSUME NEW k \in Key, Usable(k)'
                 PROVE  \E c \in Client : f[c] = k /\ Owner[c] = codes'[k].owner /\ MayHave(c)'
      BY DEF LastOnes
    <3>1. Usable(k) /\ codes'[k].owner = codes[k].owner
      BY <1>2, <2>1, UsableBefore
    <3>2. PICK c \in Client : f[c] = k /\ Owner[c] = codes[k].owner /\ MayHave(c)
      BY <1>1, <3>1 DEF LastOnes
    <3>3. MayHave(c)'
      BY <3>1, <3>2, GivesUpNone DEF HasNone
    <3> QED
      BY <3>1, <3>2, <3>3
  <2> QED
    BY <2>2 DEF BoundInv
<1>4. ASSUME NEW c \in Client, CommitCode(c)
      PROVE  BoundInv'
  <2> DEFINE new == req[c].code
  <2>1. /\ new \in Key /\ codes[new].owner = Owner[c]
        /\ To(c, "idle", "none", 0)
        /\ \A j \in Key : j # new => codes'[j] = codes[j]
        /\ codes'[new].owner = codes[new].owner
    BY <1>4, CommitMoves
  <2>2. UNCHANGED now /\ Inserting(c)
    BY <1>4 DEF CommitCode, cacheVars, AtPc, Inserting
  <2>3. PICK g \in [Client -> Key \union {0}] :
          g[c] = new /\ \A d \in Client : d # c => g[d] = f[d]
    <3>1. [f EXCEPT ![c] = new] \in [Client -> Key \union {0}]
      BY <2>1
    <3> QED
      BY <3>1
  <2>4. MayHave(c)' /\ \A d \in Client : d # c => (MayHave(d)' <=> MayHave(d))
    BY <2>1 DEF To, MayHave, Inserting, AtPc
  <2> HIDE DEF new
  <2>5. LastOnes(g)'
    <3> SUFFICES ASSUME NEW k \in Key, Usable(k)'
                 PROVE  \E d \in Client : g[d] = k /\ Owner[d] = codes'[k].owner /\ MayHave(d)'
      BY DEF LastOnes
    <3>1. CASE k = new
      BY <2>1, <2>3, <2>4, <3>1
    <3>2. CASE k # new
      <4>1. Usable(k) /\ codes'[k] = codes[k]
        BY <2>1, <2>2, <3>2 DEF Usable, Unexpired
      <4>2. PICK d \in Client : f[d] = k /\ Owner[d] = codes[k].owner /\ MayHave(d)
        BY <1>1, <4>1 DEF LastOnes
      <4>3. d # c
        BY <2>2, <4>2 DEF MayHave
      <4> QED
        BY <2>3, <2>4, <4>1, <4>2, <4>3
    <3> QED
      BY <3>1, <3>2
  <2> QED
    BY <2>3, <2>5 DEF BoundInv
<1> QED
  BY <1>3, <1>4

LEMMA BoundMeans ==
  ASSUME IsFiniteSet(Client), BoundInv
  PROVE  CodesPerUser
PROOF
<1>1. PICK f \in [Client -> Key \union {0}] : LastOnes(f)
  BY DEF BoundInv
<1> SUFFICES ASSUME NEW u \in User
             PROVE  Cardinality({k \in Key : Stored(k, u) /\ Unexpired(k)}) <= Cardinality(Client)
  BY DEF CodesPerUser
<1> DEFINE S == {k \in Key : Stored(k, u) /\ Unexpired(k)}
           last(k) == CHOOSE c \in Client : f[c] = k
           g == [k \in S |-> last(k)]
<1>2. ASSUME NEW k \in S PROVE last(k) \in Client /\ f[last(k)] = k
  <2>1. \E c \in Client : f[c] = k
    BY <1>1 DEF LastOnes, Usable, Stored
  <2> QED
    BY <2>1
<1> HIDE DEF S, last
<1>3. g \in Injection(S, Client)
  BY <1>2 DEF Injection, IsInjective
<1> HIDE DEF g
<1>4. Cardinality(S) <= Cardinality(Client)
  BY <1>3, FS_Injection
<1> QED
  BY <1>4 DEF S

-----------------------------------------------------------------------------
(* What holds whatever fails. *)

Inductive == IInv /\ CacheInv /\ BoundInv

LEMMA InitInductive == ASSUME Setting, Init PROVE Inductive
BY InitIInv, InitBound, InitCacheInv DEF Inductive, Init

LEMMA NextInductive == ASSUME Setting, Inductive, [Next]_vars PROVE Inductive'
PROOF
<1>1. IInv'
  BY NextIInv DEF Inductive
<1>2. CacheInv'
  BY CodesUseCache, NextCacheInv DEF Inductive
<1>3. BoundInv'
  BY <1>1, NextBound DEF Inductive
<1> QED
  BY <1>1, <1>2, <1>3 DEF Inductive

LEMMA AlwaysInductive == ASSUME Setting PROVE Spec => []Inductive
PROOF
<1>1. Init => Inductive
  BY InitInductive
<1>2. Inductive /\ [Next]_vars => Inductive'
  BY NextInductive
<1> QED
  BY <1>1, <1>2, PTL DEF Spec

LEMMA OnePendingHolds == ASSUME IInv PROVE OnePendingPerUser
PROOF
<1> SUFFICES ASSUME NEW u \in User
             PROVE  Cardinality({k \in Key : codes[k].state = "pending" /\ codes[k].owner = u}
                                \union {c \in Client : Kind(c, "reset") /\ HoldsUserRow(c)
                                                       /\ Owner[c] = u}) <= 1
  BY DEF OnePendingPerUser
<1> DEFINE P == {k \in Key : codes[k].state = "pending" /\ codes[k].owner = u}
           R == {c \in Client : Kind(c, "reset") /\ HoldsUserRow(c) /\ Owner[c] = u}
           S == P \union R
<1>1. ASSUME NEW k \in P
      PROVE  \E c \in Client :
               Inserting(c) /\ req[c].code = k /\ HoldsUserRow(c) /\ Owner[c] = u
  <2>1. PICK c \in Client : Inserting(c) /\ req[c].code = k
    BY DEF IInv, CodeOK
  <2>2. HoldsUserRow(c) /\ Owner[c] = u
    BY <2>1 DEF Inserting, HoldsUserRow, IInv, ClientOK
  <2> QED
    BY <2>1, <2>2
<1>2. ASSUME NEW c \in R PROVE ~Inserting(c)
  BY DEF IInv, ClientOK, Resets, Inserting
<1>3. ASSUME NEW c \in Client, NEW d \in Client, HoldsUserRow(c), HoldsUserRow(d),
             Owner[c] = u, Owner[d] = u
      PROVE  c = d
  BY <1>3 DEF IInv, RowHeldOnce
<1>4. ASSUME NEW x \in S, NEW y \in S PROVE x = y
  <2>1. CASE x \in P /\ y \in P
    BY <1>1, <1>3, <2>1
  <2>2. CASE x \in R /\ y \in R
    BY <1>3, <2>2
  <2>3. ~(x \in P /\ y \in R) /\ ~(x \in R /\ y \in P)
    BY <1>1, <1>2, <1>3
  <2> QED
    BY <2>1, <2>2, <2>3
<1> HIDE DEF S
<1>5. CASE S = {}
  BY <1>5, FS_EmptySet DEF S
<1>6. ASSUME NEW x \in S PROVE Cardinality(S) <= 1
  <2>1. S = {x}
    BY <1>4
  <2>2. Cardinality({x}) = 1
    BY FS_Singleton
  <2> QED
    BY <2>1, <2>2
<1> QED
  BY <1>5, <1>6 DEF S

(* OneTimeCodes' TypeOK.  A request in a transaction that writes a code    *)
(* has one, and what it relies on is what the queries before it found.     *)
THEOREM TypeCorrect == ASSUME Setting PROVE Spec => []TypeOK
PROOF
<1>1. Inductive => TypeOK
  BY DEF Inductive, IInv, Shape, CacheInv, TypeOK, CodeRow, CodeState, Request
<1> QED
  BY <1>1, AlwaysInductive, PTL

(* mail.service.ts verifyOtp answers tokens only of a user whose row says  *)
(* isVerified, whatever transaction fails and whenever the process stops.  *)
THEOREM TokensFollowVerification == ASSUME Setting PROVE Spec => []TokensAfterVerification
PROOF
<1>1. Inductive => TokensAfterVerification
  BY DEF Inductive, IInv, ClientOK, TokensAfterVerification
<1> QED
  BY <1>1, AlwaysInductive, PTL

(* auth.service.ts register, forgotPassword and resetPassword of one user  *)
(* wait for its row: one code is under way, and none during a reset.       *)
THEOREM OneUnderWay == ASSUME Setting PROVE Spec => []OnePendingPerUser
PROOF
<1>1. Inductive => OnePendingPerUser
  BY OnePendingHolds DEF Inductive
<1> QED
  BY <1>1, AlwaysInductive, PTL

(* auth.service.ts getNotExpiredOtpCode keeps the codes of a user that can *)
(* be used to one for each of its clients, whatever fails and however many *)
(* requests they send.                                                     *)
THEOREM CodesBounded == ASSUME Setting, IsFiniteSet(Client) PROVE Spec => []CodesPerUser
PROOF
<1>1. Inductive => CodesPerUser
  BY BoundMeans DEF Inductive
<1> QED
  BY <1>1, AlwaysInductive, PTL

(* The services use RedisService as the specification of RedisCache lets   *)
(* any caller, so that what is proved of the cache holds of the codes.     *)
THEOREM CodesKeepTheCache == ASSUME Setting PROVE Spec => CacheSpec /\ Implements
PROOF
<1>1. Init => CacheInit
  BY DEF Init
<1>2. Inductive /\ [Next]_vars => [CacheNext]_cacheVars
  BY CodesUseCache DEF Inductive
<1>3. Spec => CacheSpec
  BY <1>1, <1>2, AlwaysInductive, PTL DEF Spec, CacheSpec
<1> QED
  BY <1>3, CacheImplementsMap

-----------------------------------------------------------------------------
(* What holds while nothing fails. *)

Calm == MaxOutages = 0 /\ MaxRollbacks = 0 /\ CodeLife <= Ttl

InCache(k) == codes[k].until <= redis[k].until

(* A code that is stored is in Redis for as long as its row, unless a      *)
(* reset has just removed it; one on its way to be stored is there by the  *)
(* time of its commit.                                                     *)
WorkInv ==
  /\ up
  /\ \A k \in Key : codes[k].state = "stored" /\ ~Resetting(k) => InCache(k)
  /\ \A c \in Client, k \in Key : req[c].code = k =>
       /\ AtPc(c, "cache") => codes[k].until <= now + CodeLife
       /\ AtPc(c, "commit") => InCache(k)

LEMMA InitWork == ASSUME Init PROVE WorkInv
PROOF
<1>1. up /\ (\A k \in Key : codes[k].state = "free") /\ \A c \in Client : AtPc(c, "idle")
  BY IdleType DEF Init, CacheInit, NoCode, AtPc
<1> QED
  BY <1>1 DEF WorkInv, AtPc

LEMMA CalmSteps ==
  ASSUME Calm, IInv, CacheInv
  PROVE  ~GoDown /\ ~Restart /\ \A c \in Client : ~Rollback(c)
BY DEF Calm, IInv, Shape, CacheInv, CacheTypeOK, GoDown, Restart, Rollback

\* Steps after which what WorkInv says of codes and requests is the same.
LEMMA QuietWork ==
  ASSUME WorkInv, IInv, NEW c \in Client, \A d \in Client : d # c => req'[d] = req[d],
         UNCHANGED <<now, up, redis>>,
         \A k \in Key : codes'[k].state = codes[k].state /\ codes'[k].until = codes[k].until,
         req'[c].pc \notin {"cache", "commit"},
         req[c].pc \in {"rows", "commitReset"} =>
           req'[c].pc = "commitReset" /\ req'[c].code = req[c].code
  PROVE  WorkInv'
PROOF
<1>1. ASSUME NEW k \in Key, Resetting(k) PROVE Resetting(k)'
  <2>1. PICK d \in Client : req[d].code = k /\ req[d].pc \in {"rows", "commitReset"}
    BY <1>1 DEF Resetting
  <2>2. req'[d].code = k /\ req'[d].pc \in {"rows", "commitReset"}
    BY <2>1
  <2> QED
    BY <2>2 DEF Resetting
<1>2. ASSUME NEW k \in Key, codes'[k].state = "stored", ~Resetting(k)' PROVE InCache(k)'
  BY <1>1, <1>2 DEF WorkInv, InCache
<1>3. ASSUME NEW d \in Client, Inserting(d)'
      PROVE  req'[d] = req[d] /\ req[d].code \in Key
  <2>1. d # c
    BY <1>3 DEF Inserting
  <2> QED
    BY <1>3, <2>1 DEF Inserting, IInv, ClientOK
<1>4. ASSUME NEW d \in Client, NEW k \in Key, req'[d].code = k, AtPc(d, "cache")'
      PROVE  codes'[k].until <= now' + CodeLife
  BY <1>3, <1>4 DEF WorkInv, AtPc, Inserting
<1>5. ASSUME NEW d \in Client, NEW k \in Key, req'[d].code = k, AtPc(d, "commit")'
      PROVE  InCache(k)'
  BY <1>3, <1>5 DEF WorkInv, AtPc, Inserting, InCache
<1> QED
  BY <1>2, <1>4, <1>5 DEF WorkInv

LEMMA GenerateWork ==
  ASSUME Setting, WorkInv, IInv, CacheInv, NEW c \in Client, NEW k \in Key, GenerateCode(c, k)
  PROVE  WorkInv'
PROOF
<1>1. /\ To(c, "cache", req[c].kind, k)
      /\ \A j \in Key : j # k => codes'[j] = codes[j]
      /\ codes'[k].state = "pending" /\ codes'[k].until = now + CodeLife
  BY GenerateMoves DEF CacheInv, CacheTypeOK
<1>2. UNCHANGED <<now, up, redis>> /\ codes[k].state = "free" /\ AtPc(c, "insert")
  BY DEF GenerateCode, cacheVars
<1>3. now + CodeLife \in Nat
  BY DEF CacheInv, CacheTypeOK, Setting, PoolAssumption
<1>4. ASSUME NEW j \in Key, codes'[j].state = "stored", ~Resetting(j)' PROVE InCache(j)'
  <2>1. ~Resetting(j)
    BY <1>1, <1>2, <1>4 DEF Resetting, To, AtPc
  <2> QED
    BY <1>1, <1>2, <1>4, <2>1 DEF WorkInv, InCache
<1>5. ASSUME NEW d \in Client, d # c, Inserting(d)
      PROVE  req'[d] = req[d] /\ req[d].code \in Key /\ req[d].code # k
  BY <1>1, <1>2, <1>5 DEF To, IInv, ClientOK
<1>6. ASSUME NEW d \in Client, NEW j \in Key, req'[d].code = j, AtPc(d, "cache")'
      PROVE  codes'[j].until <= now' + CodeLife
  <2>1. CASE d = c
    BY <1>1, <1>2, <1>3, <1>6, <2>1 DEF To
  <2>2. CASE d # c
    <3>1. req'[d] = req[d]
      BY <1>1, <2>2 DEF To
    <3> QED
      BY <1>1, <1>2, <1>5, <1>6, <2>2, <3>1 DEF WorkInv, AtPc, Inserting
  <2> QED
    BY <2>1, <2>2
<1>7. ASSUME NEW d \in Client, NEW j \in Key, req'[d].code = j, AtPc(d, "commit")'
      PROVE  InCache(j)'
  <2>1. d # c
    BY <1>1, <1>7 DEF To, AtPc
  <2>2. req'[d] = req[d]
    BY <1>1, <2>1 DEF To
  <2> QED
    BY <1>1, <1>2, <1>5, <1>7, <2>1, <2>2 DEF WorkInv, AtPc, Inserting, InCache
<1> QED
  BY <1>2, <1>4, <1>6, <1>7 DEF WorkInv

LEMMA CacheCodeWork ==
  ASSUME Setting, Calm, WorkInv, IInv, CacheInv, NEW c \in Client, CacheCode(c)
  PROVE  WorkInv'
PROOF
<1>0. PICK k \in Key : k = req[c].code
  BY DEF CacheCode, IInv, ClientOK, AtPc, Inserting
<1>1. AtPc(c, "cache") /\ codes[k].state = "pending"
  BY <1>0 DEF CacheCode, IInv, ClientOK, AtPc, Inserting
<1>2. To(c, "commit", req[c].kind, k)
  BY <1>0, GotoTo DEF CacheCode, IInv, Pc
<1>3. UNCHANGED <<codes, now, up>> /\ redis' = [redis EXCEPT ![k] = InRedis(k)]
  BY <1>0 DEF CacheCode, Set, WorkInv
<1>4. /\ redis'[k].until = now + Ttl
      /\ \A j \in Key : j # k => redis'[j] = redis[j]
  <2>1. InRedis(k).until = now + Ttl
    BY SameExpiry DEF InMemory
  <2> QED
    BY <1>1, <1>3, <2>1 DEF CacheInv, CacheTypeOK
<1>5. InCache(k)'
  <2>1. codes[k].until <= now + CodeLife
    BY <1>0, <1>1 DEF WorkInv
  <2>2. codes[k].until \in Nat /\ now \in Nat /\ CodeLife \in Nat /\ Ttl \in Nat
    BY <1>1, TtlAssumption DEF IInv, Shape, CodeRow, CacheInv, CacheTypeOK, Setting, PoolAssumption
  <2>3. codes'[k].until = codes[k].until
    BY <1>3
  <2> QED
    BY <1>4, <2>1, <2>2, <2>3 DEF InCache, Calm
<1>6. ASSUME NEW j \in Key, codes'[j].state = "stored", ~Resetting(j)' PROVE InCache(j)'
  <2>1. j # k
    BY <1>1, <1>3, <1>6
  <2>2. ~Resetting(j)
    BY <1>1, <1>2, <1>6 DEF Resetting, To, AtPc
  <2> QED
    BY <1>3, <1>4, <1>6, <2>1, <2>2 DEF WorkInv, InCache
<1>7. ASSUME NEW d \in Client, d # c, Inserting(d)
      PROVE  req'[d] = req[d] /\ req[d].code \in Key /\ req[d].code # k
  <2>1. req'[d] = req[d]
    BY <1>2, <1>7 DEF To
  <2>2. req[d].code \in Key /\ codes[req[d].code].owner = Owner[d]
    BY <1>7 DEF IInv, ClientOK
  <2>3. ASSUME req[d].code = k PROVE FALSE
    <3>1. HoldsUserRow(c) /\ HoldsUserRow(d) /\ Owner[c] = Owner[d]
      BY <1>0, <1>1, <1>7, <2>2, <2>3 DEF HoldsUserRow, Inserting, AtPc, IInv, ClientOK
    <3> QED
      BY <1>7, <3>1 DEF IInv, RowHeldOnce
  <2> QED
    BY <2>1, <2>2, <2>3
<1>8. ASSUME NEW d \in Client, NEW j \in Key, req'[d].code = j, AtPc(d, "cache")'
      PROVE  codes'[j].until <= now' + CodeLife
  <2>1. d # c
    BY <1>2, <1>8 DEF To, AtPc
  <2>2. req'[d] = req[d]
    BY <1>2, <2>1 DEF To
  <2> QED
    BY <1>3, <1>8, <2>2 DEF WorkInv, AtPc
<1>9. ASSUME NEW d \in Client, NEW j \in Key, req'[d].code = j, AtPc(d, "commit")'
      PROVE  InCache(j)'
  <2>1. CASE d = c
    BY <1>2, <1>5, <1>9, <2>1 DEF To
  <2>2. CASE d # c
    <3>1. req'[d] = req[d]
      BY <1>2, <2>2 DEF To
    <3> QED
      BY <1>3, <1>4, <1>7, <1>9, <2>2, <3>1 DEF WorkInv, AtPc, Inserting, InCache
  <2> QED
    BY <2>1, <2>2
<1> QED
  BY <1>3, <1>6, <1>8, <1>9 DEF WorkInv

LEMMA CommitWork ==
  ASSUME Setting, WorkInv, IInv, NEW c \in Client, CommitCode(c)
  PROVE  WorkInv'
PROOF
<1>1. PICK k \in Key : k = req[c].code
  BY CommitMoves
<1>2. /\ To(c, "idle", "none", 0)
      /\ \A j \in Key : j # k => codes'[j] = codes[j]
      /\ codes'[k].until = codes[k].until
  BY <1>1, CommitMoves
<1>3. UNCHANGED <<now, up, redis>> /\ AtPc(c, "commit")
  BY DEF CommitCode, cacheVars
<1>4. \A j \in Key : codes'[j].until = codes[j].until
  BY <1>2
<1>5. ASSUME NEW j \in Key, codes'[j].state = "stored", ~Resetting(j)' PROVE InCache(j)'
  <2>1. CASE j = k
    BY <1>1, <1>3, <1>4, <2>1 DEF WorkInv, InCache
  <2>2. CASE j # k
    <3>1. ~Resetting(j)
      BY <1>2, <1>3, <1>5 DEF Resetting, To, AtPc
    <3> QED
      BY <1>2, <1>3, <1>5, <2>2, <3>1 DEF WorkInv, InCache
  <2> QED
    BY <2>1, <2>2
<1>6. ASSUME NEW d \in Client, Inserting(d)'
      PROVE  req'[d] = req[d]
  BY <1>2, <1>6 DEF To, Inserting
<1>7. ASSUME NEW d \in Client, NEW j \in Key, req'[d].code = j, AtPc(d, "cache")'
      PROVE  codes'[j].until <= now' + CodeLife
  BY <1>3, <1>4, <1>6, <1>7 DEF WorkInv, AtPc, Inserting
<1>8. ASSUME NEW d \in Client, NEW j \in Key, req'[d].code = j, AtPc(d, "commit")'
      PROVE  InCache(j)'
  BY <1>3, <1>4, <1>6, <1>8 DEF WorkInv, AtPc, Inserting, InCache
<1> QED
  BY <1>3, <1>5, <1>7, <1>8 DEF WorkInv

LEMMA ForgetWork ==
  ASSUME Setting, WorkInv, IInv, CacheInv, NEW c \in Client, ForgetCode(c)
  PROVE  WorkInv'
PROOF
<1>1. PICK k \in Key : k = req[c].code /\ codes[k].state \in {"stored", "gone"}
  BY DEF ForgetCode, IInv, ClientOK, AtPc, Resets, Inserting
<1>2. To(c, "rows", req[c].kind, k)
  BY <1>1, GotoTo DEF ForgetCode, IInv, Pc
<1>3. UNCHANGED <<codes, now, up>> /\ AtPc(c, "forget")
  BY DEF ForgetCode
<1>4. \A j \in Key : j # k => redis'[j] = redis[j]
  BY <1>1 DEF ForgetCode, Del, WorkInv, CacheInv, CacheTypeOK
<1>5. ASSUME NEW j \in Key, codes'[j].state = "stored", ~Resetting(j)' PROVE InCache(j)'
  <2>1. j # k
    BY <1>2, <1>5 DEF Resetting, To
  <2>2. ~Resetting(j)
    BY <1>2, <1>3, <1>5 DEF Resetting, To, AtPc
  <2> QED
    BY <1>3, <1>4, <1>5, <2>1, <2>2 DEF WorkInv, InCache
<1>6. ASSUME NEW d \in Client, Inserting(d)'
      PROVE  req'[d] = req[d] /\ req[d].code # k
  <2>1. req'[d] = req[d]
    BY <1>2, <1>6 DEF To, Inserting
  <2> QED
    BY <1>1, <1>6, <2>1 DEF IInv, ClientOK, Inserting
<1>7. ASSUME NEW d \in Client, NEW j \in Key, req'[d].code = j, AtPc(d, "cache")'
      PROVE  codes'[j].until <= now' + CodeLife
  BY <1>3, <1>6, <1>7 DEF WorkInv, AtPc, Inserting
<1>8. ASSUME NEW d \in Client, NEW j \in Key, req'[d].code = j, AtPc(d, "commit")'
      PROVE  InCache(j)'
  BY <1>3, <1>4, <1>6, <1>8 DEF WorkInv, AtPc, Inserting, InCache
<1> QED
  BY <1>3, <1>5, <1>7, <1>8 DEF WorkInv

LEMMA ResetWork ==
  ASSUME Setting, WorkInv, IInv, NEW c \in Client, CommitReset(c)
  PROVE  WorkInv'
PROOF
<1>1. /\ To(c, "idle", "none", 0)
      /\ \A k \in Key :
           /\ codes'[k].state = IF k \in req[c].rows THEN "gone" ELSE codes[k].state
           /\ codes'[k].until = codes[k].until
  BY ResetMoves
<1>2. UNCHANGED <<now, up, redis>> /\ AtPc(c, "commitReset") /\ ClientOK(c)
  BY DEF CommitReset, cacheVars, IInv
<1>3. ASSUME NEW k \in Key, codes'[k].state = "stored", ~Resetting(k)' PROVE InCache(k)'
  <2>1. codes[k].state = "stored" /\ k \notin req[c].rows
    BY <1>1, <1>3
  <2>2. req[c].code # k
    BY <1>2, <2>1 DEF ClientOK
  <2>3. ~Resetting(k)
    BY <1>1, <1>3, <2>2 DEF Resetting, To
  <2> QED
    BY <1>1, <1>2, <2>1, <2>3 DEF WorkInv, InCache
<1>4. ASSUME NEW d \in Client, Inserting(d)'
      PROVE  req'[d] = req[d]
  BY <1>1, <1>4 DEF To, Inserting
<1>5. ASSUME NEW d \in Client, NEW j \in Key, req'[d].code = j, AtPc(d, "cache")'
      PROVE  codes'[j].until <= now' + CodeLife
  BY <1>1, <1>2, <1>4, <1>5 DEF WorkInv, AtPc, Inserting
<1>6. ASSUME NEW d \in Client, NEW j \in Key, req'[d].code = j, AtPc(d, "commit")'
      PROVE  InCache(j)'
  BY <1>1, <1>2, <1>4, <1>6 DEF WorkInv, AtPc, Inserting, InCache
<1> QED
  BY <1>2, <1>3, <1>5, <1>6 DEF WorkInv

\* Only time passes.
LEMMA TimeWork ==
  ASSUME Setting, WorkInv, IInv, CacheInv, UNCHANGED <<codes, req, up, redis>>,
         now' \in Nat, now' >= now
  PROVE  WorkInv'
PROOF
<1>1. ASSUME NEW k \in Key, codes'[k].state = "stored", ~Resetting(k)' PROVE InCache(k)'
  BY <1>1 DEF WorkInv, Resetting, InCache
<1>2. ASSUME NEW d \in Client, NEW k \in Key, req'[d].code = k, AtPc(d, "cache")'
      PROVE  codes'[k].until <= now' + CodeLife
  <2>1. codes[k].until <= now + CodeLife
    BY <1>2 DEF WorkInv, AtPc
  <2>2. codes[k].until \in Nat /\ now \in Nat /\ CodeLife \in Nat
    BY DEF IInv, Shape, CodeRow, CacheInv, CacheTypeOK, Setting, PoolAssumption
  <2> QED
    BY <2>1, <2>2
<1>3. ASSUME NEW d \in Client, NEW k \in Key, req'[d].code = k, AtPc(d, "commit")'
      PROVE  InCache(k)'
  BY <1>3 DEF WorkInv, AtPc, InCache
<1> QED
  BY <1>1, <1>2, <1>3 DEF WorkInv

\* The requests' steps that only move the request, or hand out a code.
QuietStep(c) ==
  \/ FindCode(c) \/ CreateUserFails(c) \/ ReadUser(c) \/ UpdateUser(c) \/ LateUpdate(c)
  \/ IssueTokens(c) \/ LookupFails(c) \/ UpdatePassword(c) \/ DeleteRows(c)
  \/ ClientStep(c) \/ GivesUp(c)

LEMMA QuietMoves ==
  ASSUME Setting, IInv, NEW c \in Client, QuietStep(c)
  PROVE  /\ \A d \in Client : d # c => req'[d] = req[d]
         /\ \A k \in Key : /\ codes'[k].state = codes[k].state /\ codes'[k].until = codes[k].until
                           /\ codes'[k].owner = codes[k].owner /\ codes'[k].resets = codes[k].resets
         /\ UNCHANGED cacheVars
         /\ \/ req'[c].pc \notin {"cache", "commit", "password", "forget", "rows", "commitReset"}
            \/ \E k \in Key : /\ ResetPassword(c, k) /\ req'[c].pc = "password"
                              /\ req'[c].code = k
            \/ /\ UpdatePassword(c) /\ req'[c].pc = "forget" /\ req'[c].code = req[c].code
            \/ /\ DeleteRows(c) /\ req'[c].pc = "commitReset" /\ req'[c].code = req[c].code
               /\ req'[c].rows = {k \in Key : Stored(k, Owner[c])}
         /\ req[c].pc \notin {"cache", "commit", "forget", "commitReset"}
         /\ req[c].pc = "rows" => req'[c].pc = "commitReset" /\ req'[c].code = req[c].code
PROOF
<1>1. Shape
  BY DEF IInv
<1>2. \A d \in Client : d # c => req'[d] = req[d]
  BY <1>1, GivesUpMoves
     DEF QuietStep, FindCode, CreateUserFails, ReadUser, UpdateUser, LateUpdate, IssueTokens,
         LookupFails, UpdatePassword, DeleteRows, ClientStep, AskForCode, VerifyOtp, ResendOtp,
         ResetPassword, Goto, Answer, Start, Shape
<1>3. UNCHANGED cacheVars
  BY GivesUpMoves
     DEF QuietStep, FindCode, CreateUserFails, ReadUser, UpdateUser, LateUpdate, IssueTokens,
         LookupFails, UpdatePassword, DeleteRows, ClientStep, AskForCode, VerifyOtp, ResendOtp,
         ResetPassword
<1>4. \A k \in Key : /\ codes'[k].state = codes[k].state /\ codes'[k].until = codes[k].until
                     /\ codes'[k].owner = codes[k].owner /\ codes'[k].resets = codes[k].resets
  <2>1. CASE UNCHANGED codes
    BY <2>1
  <2>2. ASSUME NEW k \in Key, codes' = [codes EXCEPT ![k].given = TRUE]
        PROVE  \A j \in Key :
                 /\ codes'[j].state = codes[j].state /\ codes'[j].until = codes[j].until
                 /\ codes'[j].owner = codes[j].owner /\ codes'[j].resets = codes[j].resets
    BY <1>1, <2>2, HandOutMoves
  <2>3. UNCHANGED codes \/ \E k \in Key : codes' = [codes EXCEPT ![k].given = TRUE]
    BY GivesUpMoves
       DEF QuietStep, FindCode, CreateUserFails, ReadUser, UpdateUser, LateUpdate, IssueTokens,
           LookupFails, UpdatePassword, DeleteRows, ClientStep, AskForCode, VerifyOtp, ResendOtp,
           ResetPassword
  <2> QED
    BY <2>1, <2>2, <2>3
<1>5. req[c].pc \notin {"cache", "commit", "forget", "commitReset"}
  BY GivesUpMoves
     DEF QuietStep, FindCode, CreateUserFails, ReadUser, UpdateUser, LateUpdate, IssueTokens,
         LookupFails, UpdatePassword, DeleteRows, ClientStep, AskForCode, VerifyOtp, ResendOtp,
         ResetPassword, AtPc, Start
<1>6. ASSUME req[c].pc = "rows"
       PROVE  req'[c].pc = "commitReset" /\ req'[c].code = req[c].code
  <2>1. DeleteRows(c)
    BY <1>6, GivesUpMoves
       DEF QuietStep, FindCode, CreateUserFails, ReadUser, UpdateUser, LateUpdate, IssueTokens,
           LookupFails, UpdatePassword, ClientStep, AskForCode, VerifyOtp, ResendOtp,
           ResetPassword, AtPc, Start
  <2> QED
    BY <1>1, <2>1 DEF DeleteRows, Shape, Request
<1> DEFINE Goes ==
      \/ req'[c].pc \notin {"cache", "commit", "password", "forget", "rows", "commitReset"}
      \/ \E k \in Key : ResetPassword(c, k) /\ req'[c].pc = "password" /\ req'[c].code = k
      \/ UpdatePassword(c) /\ req'[c].pc = "forget" /\ req'[c].code = req[c].code
      \/ /\ DeleteRows(c) /\ req'[c].pc = "commitReset" /\ req'[c].code = req[c].code
         /\ req'[c].rows = {k \in Key : Stored(k, Owner[c])}
<1>7. ASSUME Answer(c) PROVE Goes
  BY <1>1, <1>7, AnswerTo DEF To
<1>8. ASSUME NEW pc \in {"insert", "tokens", "late"}, Goto(c, pc) PROVE Goes
  BY <1>1, <1>8, GotoTo DEF To, Pc
<1>9. ASSUME UpdatePassword(c) PROVE Goes
  <2>1. Goto(c, "forget")
    BY <1>9 DEF UpdatePassword
  <2> QED
    BY <1>1, <1>9, <2>1, GotoTo DEF To, Pc
<1>10. ASSUME ReadUser(c) PROVE Goes
  <2>1. req'[c].pc = "update"
    BY <1>1, <1>10 DEF ReadUser, Shape, Request
  <2> QED
    BY <2>1
<1>11. ASSUME DeleteRows(c) PROVE Goes
  <2>1. /\ req'[c].pc = "commitReset" /\ req'[c].code = req[c].code
        /\ req'[c].rows = {k \in Key : Stored(k, Owner[c])}
    BY <1>1, <1>11 DEF DeleteRows, Shape, Request
  <2> QED
    BY <1>11, <2>1
<1>12. ASSUME NEW kind, AskForCode(c, kind) PROVE Goes
  <2>1. req'[c].pc = "find"
    BY <1>1, <1>12 DEF AskForCode, Shape, Idle
  <2> QED
    BY <2>1
<1>13. ASSUME NEW k \in Key, VerifyOtp(c, k) \/ ResendOtp(c, k) PROVE Goes
  <2>1. PICK kind \in {"verify", "resend"}, pc \in {"user", "lookup"} : Start(c, kind, pc, k)
    BY <1>13 DEF VerifyOtp, ResendOtp
  <2> QED
    BY <1>1, <2>1, StartTo DEF To, Pc
<1>14. ASSUME NEW k \in Key, ResetPassword(c, k) PROVE Goes
  <2>1. Start(c, "reset", "password", k)
    BY <1>14 DEF ResetPassword
  <2> QED
    BY <1>1, <1>14, <2>1, StartTo DEF To, Pc
<1>15. Goes
  <2> HIDE DEF Goes
  <2>1. CASE FindCode(c)
    BY <1>7, <1>8, <2>1 DEF FindCode
  <2>2. CASE \/ CreateUserFails(c) \/ UpdateUser(c) \/ LateUpdate(c) \/ IssueTokens(c)
             \/ LookupFails(c) \/ GivesUp(c)
    BY <1>7, <1>8, <2>2, GivesUpMoves
       DEF CreateUserFails, UpdateUser, LateUpdate, IssueTokens, LookupFails
  <2>3. CASE ClientStep(c)
    BY <1>12, <1>13, <1>14, <2>3 DEF ClientStep
  <2> QED
    BY <1>9, <1>10, <1>11, <2>1, <2>2, <2>3 DEF QuietStep
<1> QED
  BY <1>2, <1>3, <1>4, <1>5, <1>15, <1>6

LEMMA NextWork ==
  ASSUME Setting, Calm, Inductive, WorkInv, [Next]_vars
  PROVE  WorkInv'
PROOF
<1>1. IInv /\ CacheInv
  BY DEF Inductive
<1>2. ASSUME NEW c \in Client, QuietStep(c)
      PROVE  WorkInv'
  <2>1. UNCHANGED <<now, up, redis>>
    BY <1>1, <1>2, QuietMoves DEF cacheVars
  <2> QED
    BY <1>1, <1>2, <2>1, QuietMoves, QuietWork
<1>3. ASSUME NEW c \in Client, RequestStep(c)
      PROVE  WorkInv'
  BY <1>1, <1>2, <1>3, GenerateWork, CacheCodeWork, CommitWork, ForgetWork, ResetWork
     DEF RequestStep, QuietStep
<1>4. ASSUME NEW c \in Client, ClientStep(c) \/ GivesUp(c)
      PROVE  WorkInv'
  BY <1>2, <1>4 DEF QuietStep
<1>5. CASE CacheTick /\ UNCHANGED codeVars
  <2>1. UNCHANGED <<codes, req, up, redis>> /\ now' = now + 1 /\ now \in Nat
    BY <1>1, <1>5 DEF CacheTick, codeVars, CacheInv, CacheTypeOK
  <2> QED
    BY <1>1, <2>1, TimeWork
<1>6. CASE UNCHANGED vars
  <2>1. UNCHANGED <<codes, req, up, redis, now>> /\ now \in Nat
    BY <1>1, <1>6 DEF vars, codeVars, cacheVars, CacheInv, CacheTypeOK
  <2> QED
    BY <1>1, <2>1, TimeWork
<1>7. ~GoDown /\ ~ComeBack /\ ~Crash /\ \A c \in Client : ~Rollback(c)
  BY <1>1, CalmSteps DEF Crash, ComeBack, WorkInv
<1> QED
  BY <1>3, <1>4, <1>5, <1>6, <1>7 DEF Next, GivesUp, Environment

(* While nothing fails, the unexpired code that getNotExpiredOtpCode of    *)
(* auth.service.ts hands out is in the cache, where verifyOtp and          *)
(* resetPassword look for it, whatever requests overlap.                   *)
THEOREM HandedOutCodesWork == ASSUME Setting, Calm PROVE Spec => []StoredCodesWork
PROOF
<1>1. Init => WorkInv
  BY InitWork
<1>2. Inductive /\ WorkInv /\ [Next]_vars => WorkInv'
  BY NextWork
<1>3. ASSUME Inductive, WorkInv PROVE StoredCodesWork
  <2> SUFFICES ASSUME NEW k \in Key, codes[k].state = "stored", Unexpired(k), ~Resetting(k)
               PROVE  Get(k) # NoEntry
    BY DEF StoredCodesWork
  <2>1. codes[k].until \in Nat /\ redis[k].until \in Nat /\ now \in Nat
    BY <1>3 DEF Inductive, IInv, Shape, CodeRow, CacheInv, CacheTypeOK, Entry
  <2>2. codes[k].until <= redis[k].until /\ up
    BY <1>3 DEF WorkInv, InCache
  <2>3. now < redis[k].until /\ redis[k].until # 0
    BY <2>1, <2>2 DEF Unexpired
  <2>4. Get(k) = redis[k]
    BY <2>2, <2>3 DEF Get, Shown
  <2> QED
    BY <2>3, <2>4 DEF NoEntry
<1> QED
  BY <1>1, <1>2, <1>3, AlwaysInductive, PTL DEF Spec

-----------------------------------------------------------------------------
(* What holds while nothing fails and every user has one client.           *)

OneClientEach == \A c, d \in Client : Owner[c] = Owner[d] => c = d

\* No other code of the user can be used.
OnlyCode(k, u) == \A j \in Key : Usable(j) /\ codes[j].owner = u => j = k

Dead(k) == redis[k].until <= now

(* A reset works with a code that is stored and the only one of its user   *)
(* that can be used, so that the copy it removes from the cache is the     *)
(* last one of all the rows it deletes.                                    *)
RequestDead(c) ==
  \A k \in Key : req[c].code = k =>
    /\ Resets(c) => codes[k].state = "stored" /\ OnlyCode(k, Owner[c])
    /\ req[c].pc \in {"rows", "commitReset"} => Dead(k)
    /\ AtPc(c, "commitReset") => \A j \in req[c].rows : Unexpired(j) => j = k

DeadInv ==
  /\ \A k \in Key : codes[k].state = "gone" /\ Unexpired(k) => Dead(k)
  /\ \A k \in Key : /\ codes[k].resets <= 1
                    /\ codes[k].state # "gone" => codes[k].resets = 0
  /\ \A c \in Client : RequestDead(c)

LEMMA InitDead == ASSUME Setting, Init PROVE DeadInv
PROOF
<1>1. /\ \A k \in Key : codes[k].state = "free" /\ codes[k].resets = 0
      /\ \A c \in Client : AtPc(c, "idle")
  BY IdleType DEF Init, NoCode, AtPc
<1> QED
  BY <1>1 DEF DeadInv, RequestDead, AtPc, Resets

LEMMA OneUsable ==
  ASSUME OneClientEach, BoundInv, NEW k \in Key, Usable(k)
  PROVE  OnlyCode(k, codes[k].owner)
BY DEF OneClientEach, BoundInv, LastOnes, OnlyCode

LEMMA OthersDead ==
  ASSUME Setting, IInv, CacheInv, NEW d \in Client, RequestDead(d), req'[d] = req[d],
         now' \in Nat, now' >= now,
         \A k \in Key : codes[k].state # "free" =>
           codes'[k].until = codes[k].until /\ codes'[k].owner = codes[k].owner,
         \A k \in Key : Usable(k)' /\ codes'[k].owner = Owner[d] => Usable(k),
         \A k \in Key : codes[k].state = "stored" /\ codes[k].owner = Owner[d] =>
           codes'[k].state = "stored" /\ (redis'[k] = redis[k] \/ Dead(k)')
  PROVE  RequestDead(d)'
PROOF
<1> SUFFICES ASSUME NEW k \in Key, req'[d].code = k
             PROVE  /\ Resets(d)' => codes'[k].state = "stored" /\ OnlyCode(k, Owner[d])'
                    /\ req'[d].pc \in {"rows", "commitReset"} => Dead(k)'
                    /\ AtPc(d, "commitReset")' =>
                         \A j \in req'[d].rows : Unexpired(j)' => j = k
  BY DEF RequestDead
<1>1. ClientOK(d) /\ req[d].code = k
  BY DEF IInv
<1>2. ASSUME Resets(d)
      PROVE  codes'[k].state = "stored" /\ OnlyCode(k, Owner[d])' /\ codes[k].state = "stored"
             /\ (redis'[k] = redis[k] \/ Dead(k)')
  <2>1. codes[k].state = "stored" /\ OnlyCode(k, Owner[d]) /\ codes[k].owner = Owner[d]
    BY <1>1, <1>2 DEF RequestDead, ClientOK
  <2>2. OnlyCode(k, Owner[d])'
    <3> SUFFICES ASSUME NEW j \in Key, Usable(j)', codes'[j].owner = Owner[d] PROVE j = k
      BY DEF OnlyCode
    <3>1. Usable(j) /\ codes[j].owner = codes'[j].owner
      BY DEF Usable
    <3> QED
      BY <2>1, <3>1 DEF OnlyCode
  <2> QED
    BY <2>1, <2>2
<1>3. ASSUME req[d].pc \in {"rows", "commitReset"} PROVE Dead(k)'
  <2>1. Resets(d) /\ Dead(k)
    BY <1>1, <1>3 DEF Resets, RequestDead
  <2>2. CASE redis'[k] = redis[k]
    <3>1. redis[k].until \in Nat /\ now \in Nat
      BY DEF CacheInv, CacheTypeOK, Entry
    <3> QED
      BY <2>1, <2>2, <3>1 DEF Dead
  <2> QED
    BY <1>2, <2>1, <2>2
<1>4. ASSUME AtPc(d, "commitReset"), NEW j \in req[d].rows, Unexpired(j)' PROVE j = k
  <2>1. j \in Key /\ codes[j].state # "free"
    BY <1>1, <1>4 DEF ClientOK, RowsOK, IInv, Shape, Request
  <2>2. codes[j].until \in Nat /\ codes'[j].until = codes[j].until
    BY <2>1 DEF IInv, Shape, CodeRow
  <2>3. Unexpired(j)
    BY <1>4, <2>2 DEF Unexpired, CacheInv, CacheTypeOK
  <2> QED
    BY <1>1, <1>4, <2>3 DEF RequestDead
<1> QED
  BY <1>2, <1>3, <1>4 DEF Resets, AtPc

LEMMA DeadWhen ==
  ASSUME CacheInv, up, NEW k \in Key
  PROVE  Dead(k) <=> Get(k) = NoEntry
PROOF
<1>1. redis[k].until \in Nat /\ now \in Nat
  BY DEF CacheInv, CacheTypeOK, Entry
<1>2. CASE now < redis[k].until
  BY <1>1, <1>2 DEF Dead, Get, Shown, NoEntry
<1>3. CASE ~(now < redis[k].until)
  BY <1>1, <1>3 DEF Dead, Get, Shown
<1> QED
  BY <1>2, <1>3

LEMMA QuietDead ==
  ASSUME Setting, OneClientEach, Inductive, up, DeadInv, NEW c \in Client, QuietStep(c)
  PROVE  DeadInv'
PROOF
<1>1. IInv /\ CacheInv /\ BoundInv /\ now \in Nat
  BY DEF Inductive, CacheInv, CacheTypeOK
<1>2. /\ \A d \in Client : d # c => req'[d] = req[d]
      /\ \A k \in Key : /\ codes'[k].state = codes[k].state /\ codes'[k].until = codes[k].until
                        /\ codes'[k].owner = codes[k].owner /\ codes'[k].resets = codes[k].resets
      /\ UNCHANGED <<now, redis>>
  BY <1>1, QuietMoves DEF cacheVars
<1>3. \A k \in Key : codes'[k].state = "gone" /\ Unexpired(k)' => Dead(k)'
  BY <1>2 DEF DeadInv, Unexpired, Dead
<1>4. ASSUME NEW d \in Client, d # c PROVE RequestDead(d)'
  BY <1>1, <1>2, <1>4, OthersDead DEF DeadInv, Usable, Unexpired
<1>5. ASSUME NEW k \in Key, NEW u, OnlyCode(k, u) PROVE OnlyCode(k, u)'
  BY <1>2, <1>5 DEF OnlyCode, Usable, Unexpired
<1>6. ASSUME NEW k \in Key, req'[c].code = k, ResetPassword(c, k), req'[c].pc = "password"
      PROVE  RequestDead(c)'
  <2>1. Accepted(k) /\ codes[k].owner = Owner[c]
    BY <1>6 DEF ResetPassword
  <2>2. codes[k].state = "stored"
    <3>1. codes[k].state \in {"stored", "gone"}
      BY <1>1, <2>1, GivenCode DEF Accepted
    <3> QED
      BY <1>1, <2>1, <3>1, DeadWhen DEF Accepted, DeadInv
  <2>3. OnlyCode(k, Owner[c])
    BY <1>1, <2>1, <2>2, OneUsable DEF Accepted, Usable
  <2> QED
    BY <1>2, <1>5, <1>6, <2>2, <2>3 DEF RequestDead, AtPc
<1>7. ASSUME UpdatePassword(c), req'[c].pc = "forget", req'[c].code = req[c].code
      PROVE  RequestDead(c)'
  <2>1. Resets(c)
    BY <1>7 DEF UpdatePassword, Resets, AtPc
  <2> SUFFICES ASSUME NEW k \in Key, req[c].code = k
               PROVE  codes'[k].state = "stored" /\ OnlyCode(k, Owner[c])'
    BY <1>7 DEF RequestDead, AtPc
  <2>2. codes[k].state = "stored" /\ OnlyCode(k, Owner[c])
    BY <2>1 DEF DeadInv, RequestDead
  <2> QED
    BY <1>2, <1>5, <2>2
<1>8. ASSUME DeleteRows(c), req'[c].pc = "commitReset", req'[c].code = req[c].code,
             req'[c].rows = {k \in Key : Stored(k, Owner[c])}
      PROVE  RequestDead(c)'
  <2>1. Resets(c) /\ req[c].pc = "rows"
    BY <1>8 DEF DeleteRows, Resets, AtPc
  <2> SUFFICES ASSUME NEW k \in Key, req[c].code = k
               PROVE  /\ codes'[k].state = "stored" /\ OnlyCode(k, Owner[c])' /\ Dead(k)'
                      /\ \A j \in req'[c].rows : Unexpired(j)' => j = k
    BY <1>8 DEF RequestDead, AtPc
  <2>2. codes[k].state = "stored" /\ OnlyCode(k, Owner[c]) /\ Dead(k)
    BY <2>1 DEF DeadInv, RequestDead
  <2>3. ASSUME NEW j \in req'[c].rows, Unexpired(j)' PROVE j = k
    BY <1>2, <1>8, <2>2, <2>3 DEF Stored, Unexpired, OnlyCode, Usable
  <2> QED
    BY <1>2, <1>5, <2>2, <2>3 DEF Dead
<1>9. ASSUME req'[c].pc \notin {"password", "forget", "rows", "commitReset"}
      PROVE  RequestDead(c)'
  BY <1>9 DEF RequestDead, Resets, AtPc
<1>10. RequestDead(c)'
  BY <1>1, <1>6, <1>7, <1>8, <1>9, QuietMoves
<1> QED
  BY <1>2, <1>3, <1>4, <1>10 DEF DeadInv

LEMMA GenerateDead ==
  ASSUME Setting, Inductive, DeadInv, NEW c \in Client, NEW k \in Key, GenerateCode(c, k)
  PROVE  DeadInv'
PROOF
<1>1. IInv /\ CacheInv /\ now \in Nat
  BY DEF Inductive, CacheInv, CacheTypeOK
<1>2. /\ To(c, "cache", req[c].kind, k)
      /\ \A j \in Key : j # k => codes'[j] = codes[j]
      /\ codes'[k].state = "pending" /\ codes'[k].resets = 0
  BY <1>1, GenerateMoves
<1>3. UNCHANGED <<now, redis>> /\ codes[k].state = "free"
  BY DEF GenerateCode, cacheVars
<1>4. \A j \in Key : /\ codes'[j].state = "gone" /\ Unexpired(j)' => Dead(j)'
                     /\ codes'[j].resets <= 1
                     /\ codes'[j].state # "gone" => codes'[j].resets = 0
  BY <1>2, <1>3 DEF DeadInv, Unexpired, Dead
<1>5. ASSUME NEW d \in Client, d # c PROVE RequestDead(d)'
  BY <1>1, <1>2, <1>3, <1>5, OthersDead DEF DeadInv, To, Usable, Unexpired
<1>6. RequestDead(c)'
  BY <1>2 DEF To, RequestDead, Resets, AtPc
<1> QED
  BY <1>4, <1>5, <1>6 DEF DeadInv

LEMMA CacheCodeDead ==
  ASSUME Setting, Inductive, up, DeadInv, NEW c \in Client, CacheCode(c)
  PROVE  DeadInv'
PROOF
<1>1. IInv /\ CacheInv /\ now \in Nat
  BY DEF Inductive, CacheInv, CacheTypeOK
<1>2. PICK k \in Key : k = req[c].code /\ codes[k].state = "pending"
  BY <1>1 DEF CacheCode, IInv, ClientOK, AtPc, Inserting
<1>3. To(c, "commit", req[c].kind, k)
  BY <1>1, <1>2, GotoTo DEF CacheCode, IInv, Pc
<1>4. UNCHANGED <<codes, now>> /\ \A j \in Key : j # k => redis'[j] = redis[j]
  BY <1>1, <1>2 DEF CacheCode, Set, CacheInv, CacheTypeOK
<1>5. \A j \in Key : codes'[j].state = "gone" /\ Unexpired(j)' => Dead(j)'
  BY <1>2, <1>4 DEF DeadInv, Unexpired, Dead
<1>6. ASSUME NEW d \in Client, d # c PROVE RequestDead(d)'
  BY <1>1, <1>2, <1>3, <1>4, <1>6, OthersDead DEF DeadInv, To, Usable, Unexpired
<1>7. RequestDead(c)'
  BY <1>3 DEF To, RequestDead, Resets, AtPc
<1> QED
  BY <1>4, <1>5, <1>6, <1>7 DEF DeadInv

LEMMA CommitDead ==
  ASSUME Setting, OneClientEach, Inductive, DeadInv, NEW c \in Client, CommitCode(c)
  PROVE  DeadInv'
PROOF
<1>1. IInv /\ CacheInv /\ now \in Nat
  BY DEF Inductive, CacheInv, CacheTypeOK
<1>2. PICK k \in Key : k = req[c].code
  BY <1>1, CommitMoves
<1>3. /\ To(c, "idle", "none", 0) /\ codes[k].state = "pending" /\ codes[k].owner = Owner[c]
      /\ \A j \in Key : j # k => codes'[j] = codes[j]
      /\ codes'[k].state = "stored" /\ codes'[k].resets = codes[k].resets
      /\ codes'[k].owner = codes[k].owner /\ codes'[k].until = codes[k].until
  BY <1>1, <1>2, CommitMoves
<1>4. UNCHANGED <<now, redis>>
  BY DEF CommitCode, cacheVars
<1>5. \A j \in Key : /\ codes'[j].state = "gone" /\ Unexpired(j)' => Dead(j)'
                     /\ codes'[j].resets <= 1
                     /\ codes'[j].state # "gone" => codes'[j].resets = 0
  BY <1>3, <1>4 DEF DeadInv, Unexpired, Dead
<1>6. ASSUME NEW d \in Client, d # c PROVE RequestDead(d)'
  <2>1. Owner[d] # Owner[c]
    BY <1>6 DEF OneClientEach
  <2> QED
    BY <1>1, <1>3, <1>4, <1>6, <2>1, OthersDead DEF DeadInv, To, Usable, Unexpired
<1>7. RequestDead(c)'
  BY <1>3 DEF To, RequestDead, Resets, AtPc
<1> QED
  BY <1>5, <1>6, <1>7 DEF DeadInv

LEMMA ForgetDead ==
  ASSUME Setting, Inductive, up, DeadInv, NEW c \in Client, ForgetCode(c)
  PROVE  DeadInv'
PROOF
<1>1. IInv /\ CacheInv /\ now \in Nat
  BY DEF Inductive, CacheInv, CacheTypeOK
<1>2. PICK k \in Key : k = req[c].code /\ Resets(c)
  BY <1>1 DEF ForgetCode, IInv, ClientOK, AtPc, Resets
<1>3. To(c, "rows", req[c].kind, k)
  BY <1>1, <1>2, GotoTo DEF ForgetCode, IInv, Pc
<1>4. /\ UNCHANGED <<codes, now>> /\ Dead(k)'
      /\ \A j \in Key : j # k => redis'[j] = redis[j]
  <2>1. redis' = [redis EXCEPT ![k] = NoEntry] /\ UNCHANGED <<codes, now>>
    BY <1>2 DEF ForgetCode, Del
  <2>2. redis'[k].until = 0 /\ \A j \in Key : j # k => redis'[j] = redis[j]
    BY <1>1, <2>1 DEF CacheInv, CacheTypeOK, NoEntry
  <2> QED
    BY <1>1, <2>1, <2>2 DEF Dead
<1>5. \A j \in Key : codes'[j].state = "gone" /\ Unexpired(j)' => Dead(j)'
  <2> SUFFICES ASSUME NEW j \in Key, codes'[j].state = "gone", Unexpired(j)' PROVE Dead(j)'
    OBVIOUS
  <2>1. CASE j = k
    BY <1>4, <2>1
  <2>2. CASE j # k
    BY <1>4, <2>2 DEF DeadInv, Unexpired, Dead
  <2> QED
    BY <2>1, <2>2
<1>6. ASSUME NEW d \in Client, d # c PROVE RequestDead(d)'
  <2>1. \A j \in Key : redis'[j] = redis[j] \/ Dead(j)'
    BY <1>4
  <2> QED
    BY <1>1, <1>3, <1>4, <1>6, <2>1, OthersDead DEF DeadInv, To, Usable, Unexpired
<1>7. RequestDead(c)'
  <2>1. codes[k].state = "stored" /\ OnlyCode(k, Owner[c])
    BY <1>2 DEF DeadInv, RequestDead
  <2>2. codes'[k].state = "stored" /\ OnlyCode(k, Owner[c])'
    BY <1>4, <2>1 DEF OnlyCode, Usable, Unexpired
  <2> QED
    BY <1>3, <1>4, <2>2 DEF To, RequestDead, AtPc
<1> QED
  BY <1>4, <1>5, <1>6, <1>7 DEF DeadInv

LEMMA ResetDead ==
  ASSUME Setting, OneClientEach, Inductive, DeadInv, NEW c \in Client, CommitReset(c)
  PROVE  DeadInv'
PROOF
<1>1. IInv /\ CacheInv /\ now \in Nat /\ ClientOK(c) /\ AtPc(c, "commitReset")
  BY DEF Inductive, IInv, CacheInv, CacheTypeOK, CommitReset
<1>2. PICK k \in Key : k = req[c].code
  BY <1>1, ResetMoves
<1>3. /\ To(c, "idle", "none", 0)
      /\ \A j \in Key :
           /\ codes'[j].state = IF j \in req[c].rows THEN "gone" ELSE codes[j].state
           /\ codes'[j].resets = codes[j].resets + IF j = k THEN 1 ELSE 0
           /\ codes'[j].owner = codes[j].owner /\ codes'[j].until = codes[j].until
  BY <1>1, <1>2, ResetMoves
<1>4. UNCHANGED <<now, redis>>
  BY DEF CommitReset, cacheVars
<1>5. /\ codes[k].state = "stored" /\ Dead(k) /\ k \in req[c].rows
      /\ \A j \in req[c].rows : Unexpired(j) => j = k
  <2>1. RequestDead(c) /\ Resets(c)
    BY <1>1 DEF DeadInv, Resets, AtPc
  <2>2. codes[k].state = "stored" /\ Dead(k) /\ \A j \in req[c].rows : Unexpired(j) => j = k
    BY <1>1, <1>2, <2>1 DEF RequestDead, AtPc
  <2> QED
    BY <1>1, <1>2, <2>2 DEF ClientOK
<1>6. ASSUME NEW j \in Key, codes'[j].state = "gone", Unexpired(j)' PROVE Dead(j)'
  <2>1. Unexpired(j)
    BY <1>3, <1>4, <1>6 DEF Unexpired
  <2>2. Dead(j)
    BY <1>3, <1>5, <1>6, <2>1 DEF DeadInv
  <2> QED
    BY <1>4, <2>2 DEF Dead
<1>7. ASSUME NEW j \in Key
      PROVE  codes'[j].resets <= 1 /\ (codes'[j].state # "gone" => codes'[j].resets = 0)
  <2>1. codes[j].resets \in Nat /\ codes[j].resets <= 1
        /\ (codes[j].state # "gone" => codes[j].resets = 0)
    BY <1>1 DEF DeadInv, IInv, Shape, CodeRow
  <2>2. CASE j = k
    <3>1. codes[k].resets = 0 /\ codes'[k].state = "gone" /\ codes'[k].resets = codes[k].resets + 1
      BY <1>3, <1>5, <2>1, <2>2
    <3> QED
      BY <2>2, <3>1
  <2>3. CASE j # k
    <3>1. codes'[j].resets = codes[j].resets
      BY <1>3, <2>1, <2>3
    <3>2. codes'[j].state # "gone" => codes[j].state # "gone"
      BY <1>3
    <3> QED
      BY <2>1, <3>1, <3>2
  <2> QED
    BY <2>2, <2>3
<1>8. ASSUME NEW d \in Client, d # c PROVE RequestDead(d)'
  <2>1. Owner[d] # Owner[c]
    BY <1>8 DEF OneClientEach
  <2>2. \A j \in req[c].rows : codes[j].owner = Owner[c]
    BY <1>1 DEF ClientOK, RowsOK
  <2>3. \A j \in Key : Usable(j)' => Usable(j)
    BY <1>3, <1>4 DEF Usable, Unexpired
  <2>4. \A j \in Key : codes[j].state = "stored" /\ codes[j].owner = Owner[d] =>
                         codes'[j].state = "stored"
    BY <1>3, <2>1, <2>2
  <2> QED
    BY <1>1, <1>3, <1>4, <1>8, <2>3, <2>4, OthersDead DEF DeadInv, To
<1>9. RequestDead(c)'
  BY <1>3 DEF To, RequestDead, Resets, AtPc
<1> QED
  BY <1>6, <1>7, <1>8, <1>9 DEF DeadInv

LEMMA TimeDead ==
  ASSUME Setting, Inductive, DeadInv, UNCHANGED <<codes, req, redis>>, now' \in Nat, now' >= now
  PROVE  DeadInv'
PROOF
<1>1. IInv /\ CacheInv /\ now \in Nat
  BY DEF Inductive, CacheInv, CacheTypeOK
<1>2. ASSUME NEW k \in Key
      PROVE  (Unexpired(k)' => Unexpired(k)) /\ (Dead(k) => Dead(k)')
  <2>1. codes[k].until \in Nat /\ redis[k].until \in Nat
    BY <1>1 DEF IInv, Shape, CodeRow, CacheInv, CacheTypeOK, Entry
  <2> QED
    BY <1>1, <2>1 DEF Unexpired, Dead
<1>3. ASSUME NEW d \in Client PROVE RequestDead(d)'
  BY <1>1, <1>2, OthersDead DEF DeadInv, Usable
<1>4. \A k \in Key : codes'[k].state = "gone" /\ Unexpired(k)' => Dead(k)'
  BY <1>2 DEF DeadInv
<1> QED
  BY <1>3, <1>4 DEF DeadInv

LEMMA NextDead ==
  ASSUME Setting, Calm, OneClientEach, Inductive, WorkInv, DeadInv, [Next]_vars
  PROVE  DeadInv'
PROOF
<1>1. IInv /\ CacheInv /\ up
  BY DEF Inductive, WorkInv
<1>2. ASSUME NEW c \in Client, RequestStep(c) \/ ClientStep(c) \/ GivesUp(c)
      PROVE  DeadInv'
  BY <1>1, <1>2, QuietDead, GenerateDead, CacheCodeDead, CommitDead, ForgetDead, ResetDead
     DEF RequestStep, QuietStep
<1>3. CASE CacheTick /\ UNCHANGED codeVars
  <2>1. UNCHANGED <<codes, req, redis>> /\ now' = now + 1 /\ now \in Nat
    BY <1>1, <1>3 DEF CacheTick, codeVars, CacheInv, CacheTypeOK
  <2> QED
    BY <2>1, TimeDead
<1>4. CASE UNCHANGED vars
  <2>1. UNCHANGED <<codes, req, redis, now>> /\ now \in Nat
    BY <1>1, <1>4 DEF vars, codeVars, cacheVars, CacheInv, CacheTypeOK
  <2> QED
    BY <2>1, TimeDead
<1>5. ~GoDown /\ ~ComeBack /\ ~Crash /\ \A c \in Client : ~Rollback(c)
  BY <1>1, CalmSteps DEF Crash, ComeBack
<1> QED
  BY <1>2, <1>3, <1>4, <1>5 DEF Next, GivesUp, Environment

LEMMA AlwaysDead ==
  ASSUME Setting, Calm, OneClientEach
  PROVE  Spec => [](Inductive /\ WorkInv /\ DeadInv)
PROOF
<1>1. Init => WorkInv /\ DeadInv
  BY InitWork, InitDead
<1>2. Inductive /\ WorkInv /\ DeadInv /\ [Next]_vars => WorkInv' /\ DeadInv'
  BY NextWork, NextDead
<1> QED
  BY <1>1, <1>2, AlwaysInductive, PTL DEF Spec

(* auth.service.ts resetPassword removes one code from the cache and every *)
(* row of its user: with one client to a user, and nothing failing, no     *)
(* code whose row is deleted is accepted again.                            *)
THEOREM ResetEndsCodes ==
  ASSUME Setting, Calm, OneClientEach PROVE Spec => []DeletedCodesAreDead
PROOF
<1>1. Inductive /\ WorkInv /\ DeadInv => DeletedCodesAreDead
  BY DeadWhen DEF Inductive, WorkInv, DeadInv, DeletedCodesAreDead, Accepted
<1> QED
  BY <1>1, AlwaysDead, PTL

(* Under the same conditions resetPassword accepts a code once.            *)
THEOREM CodesResetOnce ==
  ASSUME Setting, Calm, OneClientEach PROVE Spec => []OneResetPerCode
PROOF
<1>1. DeadInv => OneResetPerCode
  BY DEF DeadInv, OneResetPerCode
<1> QED
  BY <1>1, AlwaysDead, PTL
==============================================================================
