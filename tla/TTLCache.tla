------------------------------ MODULE TTLCache ------------------------------
(***************************************************************************)
(* TTLCache (app.go), the in-memory cache all requests share.  Get and Set *)
(* hold its mutex from start to end, so each call is one step.  `order' is *)
(* the linked list, front first, with a list element identified with its   *)
(* key; `entries' is the map, with what its elements hold.                 *)
(***************************************************************************)
EXTENDS Integers, SequencesExt

CONSTANTS
    Key, Value,
    TTL,            \* the durations entries are stored with
    MaxEntries,     \* maxEntries: 0 means no limit
    MaxTime         \* bound of the clock, for model checking only

ASSUME CacheAssumption ==
    /\ MaxEntries \in Nat
    /\ TTL \subseteq Int
    /\ MaxTime \in Nat

VARIABLES order, entries, now

cacheVars == <<order, entries, now>>

Entry == [value : Value, expires : Int]

Position(k)   == CHOOSE i \in 1..Len(order) : order[i] = k
Unlink(k)     == RemoveAt(order, Position(k))
MoveToFront(k) == <<k>> \o Unlink(k)

Expired(k) == now > entries[k].expires

CacheInit ==
    /\ order = <<>>
    /\ entries = [k \in {} |-> 0]
    /\ now = 0

(* Get of a key that is not there. *)
GetMiss(k) ==
    /\ k \notin DOMAIN entries
    /\ UNCHANGED cacheVars

(* A variant of GetExpired that leaves the list element behind. *)
GetExpiredLeak(k) ==
    /\ k \in DOMAIN entries
    /\ Expired(k)
    /\ entries' = [l \in DOMAIN entries \ {k} |-> entries[l]]
    /\ UNCHANGED <<order, now>>

(* Get of a key whose time is over removes it: a miss as well. *)
GetExpired(k) ==
    /\ k \in DOMAIN entries
    /\ Expired(k)
    /\ order' = Unlink(k)
    /\ entries' = [l \in DOMAIN entries \ {k} |-> entries[l]]
    /\ UNCHANGED now

(* A variant of GetHit that does not look at the expiry time. *)
GetHitStale(k) ==
    /\ k \in DOMAIN entries
    /\ order' = MoveToFront(k)
    /\ UNCHANGED <<entries, now>>

(* Get that returns entries[k].value. *)
GetHit(k) ==
    /\ k \in DOMAIN entries
    /\ ~ Expired(k)
    /\ order' = MoveToFront(k)
    /\ UNCHANGED <<entries, now>>

(* Set of a key that is there: new value, new expiry, most recent again. *)
Update(k, ttl, v) ==
    /\ k \in DOMAIN entries
    /\ order' = MoveToFront(k)
    /\ entries' = [entries EXCEPT ![k] = [value |-> v, expires |-> now + ttl]]
    /\ UNCHANGED now

(* A variant of Insert that lets the list grow one element too long. *)
InsertOneTooMany(k, ttl, v) ==
    /\ k \notin DOMAIN entries
    /\ LET pushed  == <<k>> \o order
           over    == MaxEntries > 0 /\ Len(pushed) > MaxEntries + 1
           evicted == IF over THEN {Last(pushed)} ELSE {}
       IN  /\ order' = IF over THEN Front(pushed) ELSE pushed
           /\ entries' = [l \in (DOMAIN entries \cup {k}) \ evicted |->
                   IF l = k THEN [value |-> v, expires |-> now + ttl]
                            ELSE entries[l]]
    /\ UNCHANGED now

(* Set of a new key: pushed to the front; the back is evicted while the list
   is too long, which is at most once, as Bounded held before. *)
Insert(k, ttl, v) ==
    /\ k \notin DOMAIN entries
    /\ LET pushed  == <<k>> \o order
           over    == MaxEntries > 0 /\ Len(pushed) > MaxEntries
           evicted == IF over THEN {Last(pushed)} ELSE {}
       IN  /\ order' = IF over THEN Front(pushed) ELSE pushed
           /\ entries' = [l \in (DOMAIN entries \cup {k}) \ evicted |->
                   IF l = k THEN [value |-> v, expires |-> now + ttl]
                            ELSE entries[l]]
    /\ UNCHANGED now

Get(k) == GetMiss(k) \/ GetExpired(k) \/ GetHit(k)
Set(k, ttl, v) == Update(k, ttl, v) \/ Insert(k, ttl, v)

Tick ==
    /\ now < MaxTime
    /\ now' = now + 1
    /\ UNCHANGED <<order, entries>>

CacheNext ==
    \/ \E k \in Key : Get(k)
    \/ \E k \in Key, ttl \in TTL, v \in Value : Set(k, ttl, v)
    \/ Tick

CacheSpec == CacheInit /\ [][CacheNext]_cacheVars

-----------------------------------------------------------------------------
(***************************************************************************)
(* The variables have their types, and the list and the map hold the same  *)
(* keys: an element only one of them knows would never be evicted, or take *)
(* another key's entry with it.                                            *)
(***************************************************************************)
CacheTypeOK ==
    /\ order \in Seq(Key)
    /\ DOMAIN entries \subseteq Key
    /\ \A k \in DOMAIN entries : entries[k] \in Entry
    /\ now \in Int
    /\ Range(order) = DOMAIN entries

(* A key has one list element, whatever was set, expired and set again. *)
EachKeyOnce == \A i, j \in 1..Len(order) : order[i] = order[j] => i = j

(* server.cache_max_entries is a limit at every moment between two calls. *)
Bounded == MaxEntries > 0 => Len(order) <= MaxEntries

(***************************************************************************)
(* SPEC.md "Capacity" and "TTL": the list implements the abstract map, so  *)
(* what is evicted is the least recently used entry, nothing else is ever  *)
(* lost before its time, and no hit is given after it.                     *)
(***************************************************************************)
MoreRecent == {<<order[p[1]], order[p[2]]>> :
                  p \in {q \in (1..Len(order)) \X (1..Len(order)) : q[1] < q[2]}}

LRU == INSTANCE LRUMap WITH store <- entries, newer <- MoreRecent

ImplementsLRU == LRU!LRUSpec
=============================================================================
