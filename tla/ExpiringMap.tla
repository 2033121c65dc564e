---------------------------- MODULE ExpiringMap -----------------------------
(***************************************************************************)
(* What a user of RedisService may rely on: a map whose entries expire.    *)
(* As long as the service stays on one store, a key shows what was put     *)
(* under it last.  When it changes stores, a key shows nothing or some     *)
(* value that was put under it, has not expired, and was not removed while *)
(* Redis answered.                                                         *)
(***************************************************************************)
EXTENDS Naturals

CONSTANTS Key, Value, NoEntry, Ttl

VARIABLES
  now,
  content,   \* content[k] is what get(k) returns, with its expiry
  recent,    \* the entries that can still come back
  degraded   \* Redis does not answer

mvars == <<now, content, recent, degraded>>

NewEntry(v) == [value |-> v, until |-> now + Ttl]

MInit ==
  /\ now = 0
  /\ content = [k \in Key |-> NoEntry]
  /\ recent = {}
  /\ degraded \in BOOLEAN

Put(k, v) ==
  /\ content' = [content EXCEPT ![k] = NewEntry(v)]
  /\ recent' = recent \union {<<k, NewEntry(v)>>}
  /\ UNCHANGED <<now, degraded>>

Remove(k) ==
  /\ content' = [content EXCEPT ![k] = NoEntry]
  /\ recent' = IF degraded THEN recent ELSE {p \in recent : p[1] # k}
  /\ UNCHANGED <<now, degraded>>

Expire ==
  /\ now' = now + 1
  /\ content' = [k \in Key |-> IF now' < content[k].until THEN content[k] ELSE NoEntry]
  /\ recent' = {p \in recent : now' < p[2].until}
  /\ UNCHANGED degraded

ChangeStores ==
  /\ degraded' \in BOOLEAN
  /\ content' = [k \in Key |-> content'[k]]
  /\ \A k \in Key : content'[k] = NoEntry \/ <<k, content'[k]>> \in recent
  /\ UNCHANGED <<now, recent>>

MNext ==
  \/ \E k \in Key : Remove(k) \/ \E v \in Value : Put(k, v)
  \/ Expire
  \/ ChangeStores

MSpec == MInit /\ [][MNext]_mvars
=============================================================================
