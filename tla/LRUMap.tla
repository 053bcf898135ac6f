------------------------------- MODULE LRUMap -------------------------------
(***************************************************************************)
(* What the cache promises (SPEC.md, "Caching behavior"), without a list:  *)
(* a bounded map with expiry times, and for any two live keys which one    *)
(* was used more recently.                                                 *)
(***************************************************************************)
EXTENDS Integers, FiniteSets

CONSTANTS Key, Value, TTL, MaxEntries

VARIABLES
    store,      \* key -> [value, expires], for the keys that are kept
    newer,      \* pairs <<k, l>> of kept keys, k used more recently than l
    now         \* the clock

lruVars == <<store, newer, now>>

Kept == DOMAIN store
Without(k) == {p \in newer : p[1] # k /\ p[2] # k}

LRUInit ==
    /\ store = [k \in {} |-> 0]
    /\ newer = {}
    /\ now = 0

(* A hit is given only before the entry expires, and counts as a use. *)
Use(k) ==
    /\ k \in Kept
    /\ now <= store[k].expires
    /\ newer' = Without(k) \cup ({k} \X (Kept \ {k}))
    /\ UNCHANGED <<store, now>>

(* The cache may drop an entry once it has expired. *)
Drop(k) ==
    /\ k \in Kept
    /\ now > store[k].expires
    /\ store' = [l \in Kept \ {k} |-> store[l]]
    /\ newer' = Without(k)
    /\ UNCHANGED now

(* Storing keeps everything while there is room, and otherwise gives up the
   one key that every other key was used more recently than. *)
Put(k, e) ==
    LET full == MaxEntries > 0 /\ k \notin Kept /\ Cardinality(Kept) >= MaxEntries
        lost == IF full THEN {l \in Kept : \A m \in Kept \ {l} : <<m, l>> \in newer}
                        ELSE {}
        kept == (Kept \ lost) \ {k}
    IN  /\ store' = [l \in kept \cup {k} |-> IF l = k THEN e ELSE store[l]]
        /\ newer' = {p \in newer : p[1] \in kept /\ p[2] \in kept} \cup ({k} \X kept)
        /\ UNCHANGED now

Pass ==
    /\ now' = now + 1
    /\ UNCHANGED <<store, newer>>

LRUNext ==
    \/ \E k \in Key : Use(k) \/ Drop(k)
    \/ \E k \in Key, v \in Value, t \in TTL :
           Put(k, [value |-> v, expires |-> now + t])
    \/ Pass

LRUSpec == LRUInit /\ [][LRUNext]_lruVars
=============================================================================
