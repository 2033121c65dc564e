----------------------------- MODULE RedisCache -----------------------------
(***************************************************************************)
(* RedisService: values with a time to live in Redis and, while Redis does *)
(* not answer, in the memory of the process.  Values written to one store  *)
(* during an outage stay there afterwards.  A value stands for the JSON it *)
(* is stored as.                                                           *)
(***************************************************************************)
EXTENDS Naturals

CONSTANTS
  Key, Value,
  NoValue,       \* what get answers when there is nothing
  Ttl,           \* milliseconds
  Second,        \* milliseconds in a second; Redis counts in seconds
  MaxTime,       \* bound: the clock
  MaxOutages     \* bound: times Redis stops answering or the process restarts

ASSUME NoValueAssumption == NoValue \notin Value
ASSUME TtlAssumption ==
  Second \in Nat \ {0} /\ Ttl \in Nat \ {0} /\ Ttl % Second = 0
ASSUME CacheBoundAssumption == MaxTime \in Nat /\ MaxOutages \in Nat

VARIABLES
  now,        \* the clock, in milliseconds
  up,         \* Redis answers
  redis,      \* redis[k], with the time it expires
  memory,     \* memory[k], likewise
  fills,      \* calls of cache() that found nothing and will set their value
  recent,     \* history: what was set and not since removed from both stores
  outages     \* counts outages and restarts

cacheVars == <<now, up, redis, memory, fills, recent, outages>>

NoEntryBare == NoValue \* faulty: no record
NoEntry == [value |-> NoValue, until |-> 0]
Empty(keys) == [k \in keys |-> NoEntry]

CacheInit ==
  /\ now = 0
  /\ up = TRUE
  /\ redis = Empty(Key)
  /\ memory = Empty(Key)
  /\ fills = {}
  /\ recent = {}
  /\ outages = 0

Shown(e) == IF now < e.until THEN e ELSE NoEntry

Get(k) == Shown(IF up THEN redis[k] ELSE memory[k])

\* EX takes seconds (ttl / 1000); the memory takes milliseconds.
InRedisMilliseconds(v) == [value |-> v, until |-> now + Ttl * Second] \* faulty: ttl for EX
InRedis(v) == [value |-> v, until |-> now + (Ttl \div Second) * Second]
InMemory(v) == [value |-> v, until |-> now + Ttl]

\* A command that fails may have been carried out, its reply being lost.
Set(k, v) ==
  /\ \/ up /\ redis' = [redis EXCEPT ![k] = InRedis(v)] /\ UNCHANGED memory
     \/ /\ ~up
        /\ redis' \in {redis, [redis EXCEPT ![k] = InRedis(v)]}
        /\ memory' = [memory EXCEPT ![k] = InMemory(v)]
  /\ recent' = recent \union {<<k, InMemory(v)>>}

Forgotten(k) == IF up THEN {p \in recent : p[1] # k} ELSE recent

DelRedisOnly(k) == \* faulty: the copy in memory stays
  /\ \/ redis' = [redis EXCEPT ![k] = NoEntry]
     \/ ~up /\ UNCHANGED redis
  /\ recent' = Forgotten(k)
  /\ UNCHANGED memory
Del(k) ==
  /\ memory' = [memory EXCEPT ![k] = NoEntry]
  /\ \/ redis' = [redis EXCEPT ![k] = NoEntry]
     \/ ~up /\ UNCHANGED redis
  /\ recent' = Forgotten(k)

SetValue(k, v) == Set(k, v) /\ UNCHANGED <<now, up, fills, outages>>
DelKey(k) == Del(k) /\ UNCHANGED <<now, up, fills, outages>>

\* cache(): get, and when there is nothing, later, set.
CacheMiss(k, v) ==
  /\ Get(k) = NoEntry
  /\ fills' = fills \union {<<k, v>>}
  /\ UNCHANGED <<now, up, redis, memory, recent, outages>>

CacheFill(k, v) ==
  /\ <<k, v>> \in fills
  /\ fills' = fills \ {<<k, v>>}
  /\ Set(k, v)
  /\ UNCHANGED <<now, up, outages>>

CacheTick ==
  /\ now < MaxTime
  /\ now' = now + 1
  /\ recent' = {p \in recent : now' < p[2].until}
  /\ UNCHANGED <<up, redis, memory, fills, outages>>

GoDown ==
  /\ up
  /\ outages < MaxOutages
  /\ up' = FALSE
  /\ outages' = outages + 1
  /\ UNCHANGED <<now, redis, memory, fills, recent>>

\* Redis comes back with its data, or without.
ComeBack ==
  /\ ~up
  /\ up' = TRUE
  /\ redis' \in {redis, Empty(Key)}
  /\ UNCHANGED <<now, memory, fills, recent, outages>>

\* The process restarts, with an empty memory and no call under way.
Restart ==
  /\ outages < MaxOutages
  /\ memory' = Empty(Key)
  /\ fills' = {}
  /\ outages' = outages + 1
  /\ UNCHANGED <<now, up, redis, recent>>

CacheNext ==
  \/ \E k \in Key :
       DelKey(k) \/ \E v \in Value : SetValue(k, v) \/ CacheMiss(k, v) \/ CacheFill(k, v)
  \/ CacheTick \/ GoDown \/ ComeBack \/ Restart

CacheSpec == CacheInit /\ [][CacheNext]_cacheVars

-----------------------------------------------------------------------------
Entry(values) == [value : values \union {NoValue}, until : Nat]

CacheTypeOK ==
  /\ now \in Nat /\ outages \in Nat
  /\ up \in BOOLEAN
  /\ redis \in [Key -> Entry(Value)]
  /\ memory \in [Key -> Entry(Value)]
  /\ fills \subseteq Key \X Value
  /\ recent \subseteq Key \X Entry(Value)

(* What either store can still show was set under its key less than Ttl    *)
(* ago, and not removed since while Redis answered.                        *)
StoresAreRecent ==
  \A k \in Key : \A e \in {redis[k], memory[k]} :
    now < e.until => <<k, e>> \in recent

Map == INSTANCE ExpiringMap WITH
         content <- [k \in Key |-> Get(k)], degraded <- ~up

(* The service is a map with expiry, and what an outage may bring back is  *)
(* limited to what was set and has not expired or been removed.            *)
Implements == Map!MSpec
=============================================================================
