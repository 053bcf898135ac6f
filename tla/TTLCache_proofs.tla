-------------------------- MODULE TTLCache_proofs ---------------------------
(***************************************************************************)
(* The cache of any size, for any keys, values and durations: the list and *)
(* the map agree, the limit is kept, and the list implements LRUMap.       *)
(***************************************************************************)
EXTENDS TTLCache, SequenceTheorems, FiniteSetTheorems, TLAPS

Once(s) == \A i, j \in 1..Len(s) : s[i] = s[j] => i = j

(* What container/list does to the front, to an element, to the back. *)
LEMMA PushFrontFacts ==
    ASSUME NEW T, NEW s \in Seq(T), NEW k \in T
    PROVE  LET t == <<k>> \o s
           IN  /\ t \in Seq(T)
               /\ Len(s) \in Nat
               /\ Len(t) = Len(s) + 1
               /\ t # <<>>
               /\ t[1] = k
               /\ \A i \in 1..Len(s) : t[i + 1] = s[i]
               /\ \A i \in 2..Len(t) : t[i] = s[i - 1]
               /\ Range(t) = Range(s) \cup {k}
               /\ Once(s) /\ k \notin Range(s) => Once(t)
<1> DEFINE t == <<k>> \o s
<1>1. /\ t \in Seq(T) /\ Len(s) \in Nat /\ Len(t) = Len(s) + 1
      /\ t[1] = k
      /\ \A i \in 2..(Len(s) + 1) : t[i] = s[i - 1]
  BY LenProperties
<1>2. \A i \in 1..Len(s) : t[i + 1] = s[i]
  <2> TAKE i \in 1..Len(s)
  <2>1. i + 1 \in 2..(Len(s) + 1) /\ (i + 1) - 1 = i
    BY <1>1
  <2>2. QED
    BY <1>1, <2>1
<1>3. Range(t) = {t[i] : i \in 1..Len(t)} /\ Range(s) = {s[i] : i \in 1..Len(s)}
  BY <1>1, RangeEquality
<1> HIDE DEF t
<1>4. Range(t) = Range(s) \cup {k}
  <2>1. ASSUME NEW x \in Range(t) PROVE x \in Range(s) \cup {k}
    <3>1. PICK i \in 1..Len(t) : x = t[i]
      BY <1>3
    <3>2. CASE i = 1
      BY <1>1, <3>1, <3>2
    <3>3. CASE i # 1
      <4>1. i \in 2..(Len(s) + 1) /\ i - 1 \in 1..Len(s)
        BY <1>1, <3>1, <3>3
      <4>2. QED
        BY <1>1, <1>3, <3>1, <4>1
    <3>4. QED
      BY <3>2, <3>3
  <2>2. ASSUME NEW x \in Range(s) PROVE x \in Range(t)
    <3>1. PICK i \in 1..Len(s) : x = s[i]
      BY <1>3
    <3>2. i + 1 \in 1..Len(t)
      BY <1>1
    <3>3. QED
      BY <1>2, <1>3, <3>1, <3>2
  <2>3. k \in Range(t)
    BY <1>1, <1>3
  <2>4. QED
    BY <2>1, <2>2, <2>3
<1>5. ASSUME Once(s), k \notin Range(s) PROVE Once(t)
  <2>1. \A i \in 1..Len(s) : s[i] # k
    BY <1>3, <1>5
  <2>2. ASSUME NEW i \in 1..Len(t), NEW j \in 1..Len(t), t[i] = t[j]
        PROVE  i = j
    <3>1. CASE i = 1 \/ j = 1
      BY <1>1, <2>1, <2>2, <3>1
    <3>2. CASE i # 1 /\ j # 1
      <4>1. /\ i \in 2..(Len(s) + 1) /\ i - 1 \in 1..Len(s)
            /\ j \in 2..(Len(s) + 1) /\ j - 1 \in 1..Len(s)
        BY <1>1, <3>2
      <4>2. s[i - 1] = s[j - 1]
        BY <1>1, <2>2, <4>1
      <4>3. i - 1 = j - 1
        BY <1>5, <4>1, <4>2 DEF Once
      <4>4. QED
        BY <4>1, <4>3
    <3>3. QED
      BY <3>1, <3>2
  <2>3. QED
    BY <2>2 DEF Once
<1>6. t # <<>>
  BY <1>1, EmptySeq
<1>7. QED
  BY <1>1, <1>2, <1>4, <1>5, <1>6 DEF t

(* Removing an element from a list of distinct ones: what is left and where. *)
LEMMA RemoveFacts ==
    ASSUME NEW T, NEW s \in Seq(T), NEW p \in 1..Len(s), Once(s)
    PROVE  LET t == RemoveAt(s, p)
           IN  /\ t \in Seq(T)
               /\ Len(s) \in Nat
               /\ Len(t) = Len(s) - 1
               /\ \A i \in 1..(Len(s) - 1) :
                      t[i] = IF i < p THEN s[i] ELSE s[i + 1]
               /\ Range(t) = Range(s) \ {s[p]}
               /\ Once(t)
<1> DEFINE t == RemoveAt(s, p)
           u == SubSeq(s, 1, p - 1)
           w == SubSeq(s, p + 1, Len(s))
<1>1. /\ Len(s) \in Nat /\ p \in Nat /\ 1 <= p /\ p <= Len(s)
      /\ \A i \in 1..Len(s) : s[i] \in T
  BY LenProperties, ElementOfSeq
<1>2. /\ u \in Seq(T) /\ Len(u) = p - 1
      /\ \A i \in 1..(p - 1) : u[i] = s[i]
  <2>1. PICK m \in Nat : m = p - 1
    BY <1>1
  <2>2. \A i \in 1..m : s[i] \in T
    BY <1>1, <2>1
  <2>3. /\ SubSeq(s, 1, m) \in Seq(T)
        /\ Len(SubSeq(s, 1, m)) = IF 1 <= m THEN m - 1 + 1 ELSE 0
        /\ \A i \in 1..(m - 1 + 1) : SubSeq(s, 1, m)[i] = s[1 + i - 1]
    BY <2>2, SubSeqProperties
  <2>4. Len(SubSeq(s, 1, m)) = m
    BY <2>3
  <2>5. \A i \in 1..m : SubSeq(s, 1, m)[i] = s[i]
    BY <2>3
  <2>6. QED
    BY <2>1, <2>3, <2>4, <2>5
<1>3. /\ w \in Seq(T) /\ Len(w) = Len(s) - p
      /\ \A i \in 1..(Len(s) - p) : w[i] = s[p + i]
  <2>1. PICK m, n \in Nat : m = p + 1 /\ n = Len(s) /\ m <= n + 1
    BY <1>1
  <2>2. \A i \in m..n : s[i] \in T
    BY <1>1, <2>1
  <2>3. /\ SubSeq(s, m, n) \in Seq(T)
        /\ Len(SubSeq(s, m, n)) = IF m <= n THEN n - m + 1 ELSE 0
        /\ \A i \in 1..(n - m + 1) : SubSeq(s, m, n)[i] = s[m + i - 1]
    BY <2>2, SubSeqProperties
  <2>4. Len(SubSeq(s, m, n)) = n - m + 1
    BY <2>1, <2>3
  <2>5. n - m + 1 = Len(s) - p
    BY <1>1, <2>1
  <2>6. ASSUME NEW i \in 1..(Len(s) - p) PROVE SubSeq(s, m, n)[i] = s[p + i]
    <3>1. m + i - 1 = p + i
      BY <1>1, <2>1
    <3>2. QED
      BY <2>3, <2>5, <3>1
  <2>7. QED
    BY <2>1, <2>3, <2>4, <2>5, <2>6
<1>4. t = u \o w
  BY DEF RemoveAt
<1> HIDE DEF u, w, t
<1>5. /\ t \in Seq(T) /\ Len(t) = Len(s) - 1
  <2>1. t \in Seq(T) /\ Len(t) = Len(u) + Len(w)
    BY <1>2, <1>3, <1>4, ConcatProperties
  <2>2. QED
    BY <1>1, <1>2, <1>3, <2>1
<1>6. ASSUME NEW i \in 1..(Len(s) - 1)
      PROVE  t[i] = IF i < p THEN s[i] ELSE s[i + 1]
  <2>1. CASE i < p
    <3>1. i \in 1..(p - 1) /\ i \in 1..Len(u)
      BY <1>1, <1>2, <2>1
    <3>2. t[i] = u[i]
      BY <1>1, <1>2, <1>3, <1>4, <3>1
    <3>3. QED
      BY <1>2, <2>1, <3>1, <3>2
  <2>2. CASE ~ (i < p)
    <3>1. i - Len(u) \in 1..(Len(s) - p) /\ p + (i - Len(u)) = i + 1
      BY <1>1, <1>2, <2>2
    <3>2. t[i] = w[i - Len(u)]
      BY <1>1, <1>2, <1>3, <1>4, <2>2, <3>1
    <3>3. QED
      BY <1>3, <2>2, <3>1, <3>2
  <2>3. QED
    BY <2>1, <2>2
<1>7. Range(t) = {t[i] : i \in 1..(Len(s) - 1)} /\ Range(s) = {s[i] : i \in 1..Len(s)}
  BY <1>5, RangeEquality
<1>8. Range(t) = Range(s) \ {s[p]}
  <2>1. ASSUME NEW i \in 1..(Len(s) - 1) PROVE t[i] \in Range(s) \ {s[p]}
    <3>1. PICK j \in 1..Len(s) : t[i] = s[j] /\ j # p
      BY <1>1, <1>6
    <3>2. s[j] # s[p]
      BY <3>1 DEF Once
    <3>3. QED
      BY <1>7, <3>1, <3>2
  <2>2. ASSUME NEW j \in 1..Len(s), s[j] # s[p] PROVE s[j] \in Range(t)
    <3>1. CASE j < p
      <4>1. j \in 1..(Len(s) - 1) /\ t[j] = s[j]
        BY <1>1, <1>6, <3>1
      <4>2. QED
        BY <1>7, <4>1
    <3>2. CASE j > p
      <4>1. j - 1 \in 1..(Len(s) - 1) /\ ~ (j - 1 < p) /\ (j - 1) + 1 = j
        BY <1>1, <3>2
      <4>2. t[j - 1] = s[j]
        BY <1>6, <4>1
      <4>3. QED
        BY <1>7, <4>1, <4>2
    <3>3. QED
      BY <1>1, <2>2, <3>1, <3>2
  <2>3. QED
    BY <1>7, <2>1, <2>2
<1>9. Once(t)
  <2>1. SUFFICES ASSUME NEW i \in 1..(Len(s) - 1), NEW j \in 1..(Len(s) - 1),
                        t[i] = t[j]
                 PROVE  i = j
    BY <1>5 DEF Once
  <2> DEFINE at(x) == IF x < p THEN x ELSE x + 1
  <2>2. /\ at(i) \in 1..Len(s) /\ at(j) \in 1..Len(s)
        /\ t[i] = s[at(i)] /\ t[j] = s[at(j)]
    BY <1>1, <1>6
  <2>3. at(i) = at(j)
    BY <2>1, <2>2 DEF Once
  <2>4. QED
    BY <1>1, <2>3
<1>10. QED
  BY <1>1, <1>5, <1>6, <1>8, <1>9 DEF t

(* Dropping the back of a list: what is left and where. *)
LEMMA FrontFacts ==
    ASSUME NEW T, NEW s \in Seq(T), s # <<>>
    PROVE  /\ Front(s) \in Seq(T)
           /\ Len(s) \in Nat \ {0}
           /\ Len(Front(s)) = Len(s) - 1
           /\ \A i \in 1..(Len(s) - 1) : Front(s)[i] = s[i]
           /\ Last(s) = s[Len(s)] /\ Last(s) \in T
           /\ Once(s) => /\ Range(Front(s)) = Range(s) \ {Last(s)}
                         /\ Once(Front(s))
<1>1. Len(s) \in Nat \ {0} /\ \A i \in 1..Len(s) : s[i] \in T
  BY EmptySeq, ElementOfSeq
<1>2. /\ Front(s) \in Seq(T) /\ Len(Front(s)) = Len(s) - 1
      /\ \A i \in 1..(Len(s) - 1) : Front(s)[i] = s[i]
  <2>1. PICK n \in Nat : n = Len(s) - 1
    BY <1>1
  <2>2. \A i \in 1..n : s[i] \in T
    BY <1>1, <2>1
  <2>3. /\ SubSeq(s, 1, n) \in Seq(T)
        /\ Len(SubSeq(s, 1, n)) = IF 1 <= n THEN n - 1 + 1 ELSE 0
        /\ \A i \in 1..(n - 1 + 1) : SubSeq(s, 1, n)[i] = s[1 + i - 1]
    BY <2>2, SubSeqProperties
  <2>4. Len(SubSeq(s, 1, n)) = n
    BY <2>3
  <2>5. \A i \in 1..n : SubSeq(s, 1, n)[i] = s[i]
    BY <2>3
  <2>6. Front(s) = SubSeq(s, 1, n)
    BY <2>1 DEF Front
  <2>7. QED
    BY <2>1, <2>3, <2>4, <2>5, <2>6
<1>3. Last(s) = s[Len(s)] /\ Last(s) \in T
  BY <1>1 DEF Last
<1>4. ASSUME Once(s)
      PROVE  Range(Front(s)) = Range(s) \ {Last(s)} /\ Once(Front(s))
  <2>1. /\ Range(Front(s)) = {Front(s)[i] : i \in 1..(Len(s) - 1)}
        /\ Range(s) = {s[i] : i \in 1..Len(s)}
    BY <1>1, <1>2, RangeEquality
  <2>2. \A i \in 1..(Len(s) - 1) : s[i] # s[Len(s)]
    BY <1>1, <1>4 DEF Once
  <2>3. ASSUME NEW i \in 1..(Len(s) - 1)
        PROVE  Front(s)[i] \in Range(s) \ {Last(s)}
    BY <1>1, <1>2, <1>3, <2>1, <2>2
  <2>4. ASSUME NEW i \in 1..Len(s), s[i] # Last(s) PROVE s[i] \in Range(Front(s))
    <3>1. i \in 1..(Len(s) - 1)
      BY <1>1, <1>3, <2>4
    <3>2. QED
      BY <1>2, <2>1, <3>1
  <2>5. Once(Front(s))
    BY <1>1, <1>2, <1>4 DEF Once
  <2>6. QED
    BY <2>1, <2>3, <2>4, <2>5
<1>5. QED
  BY <1>1, <1>2, <1>3, <1>4

-----------------------------------------------------------------------------
CacheInv == CacheTypeOK /\ EachKeyOnce /\ Bounded

(* The position of a kept key, and the list without it and with it in front. *)
LEMMA MoveFacts ==
    ASSUME CacheInv, NEW k \in DOMAIN entries
    PROVE  /\ k \in Key
           /\ Position(k) \in 1..Len(order) /\ order[Position(k)] = k
           /\ Len(order) \in Nat
           /\ Unlink(k) \in Seq(Key)
           /\ Range(Unlink(k)) = DOMAIN entries \ {k}
           /\ Len(Unlink(k)) = Len(order) - 1
           /\ Once(Unlink(k))
           /\ MoveToFront(k) \in Seq(Key)
           /\ Range(MoveToFront(k)) = DOMAIN entries
           /\ Len(MoveToFront(k)) = Len(order)
           /\ Once(MoveToFront(k))
<1>1. order \in Seq(Key) /\ k \in Range(order) /\ k \in Key /\ Once(order)
  BY DEF CacheInv, CacheTypeOK, EachKeyOnce, Once
<1>2. \E i \in 1..Len(order) : order[i] = k
  BY <1>1, RangeEquality
<1>3. Position(k) \in 1..Len(order) /\ order[Position(k)] = k
  BY <1>2 DEF Position
<1>4. /\ Unlink(k) \in Seq(Key)
      /\ Len(order) \in Nat
      /\ Range(Unlink(k)) = Range(order) \ {k}
      /\ Len(Unlink(k)) = Len(order) - 1
      /\ Once(Unlink(k))
  BY <1>1, <1>3, RemoveFacts DEF Unlink
<1>5. Range(order) = DOMAIN entries
  BY DEF CacheInv, CacheTypeOK
<1>6. /\ MoveToFront(k) \in Seq(Key)
      /\ Range(MoveToFront(k)) = Range(Unlink(k)) \cup {k}
      /\ Len(MoveToFront(k)) = Len(Unlink(k)) + 1
      /\ Once(MoveToFront(k))
  BY <1>1, <1>4, PushFrontFacts DEF MoveToFront
<1>7. Range(Unlink(k)) = DOMAIN entries \ {k}
  BY <1>4, <1>5
<1>8. Range(MoveToFront(k)) = DOMAIN entries
  BY <1>6, <1>7
<1>9. Len(MoveToFront(k)) = Len(order)
  BY <1>4, <1>6
<1>10. QED
  BY <1>1, <1>3, <1>4, <1>6, <1>7, <1>8, <1>9

(* NewTTLCache returns a cache that satisfies the invariant. *)
LEMMA CacheInitInv == CacheInit => CacheInv
<1> SUFFICES ASSUME CacheInit PROVE CacheInv
  OBVIOUS
<1>1. order \in Seq(Key) /\ Len(order) = 0
  BY EmptySeq DEF CacheInit
<1>2. Range(order) = {order[i] : i \in 1..Len(order)}
  BY <1>1, RangeEquality
<1>3. 1..Len(order) = {}
  BY <1>1
<1>4. Range(order) = {}
  BY <1>2, <1>3, Zenon
<1>5. DOMAIN entries = {} /\ now \in Int
  BY DEF CacheInit
<1>6. QED
  BY <1>1, <1>3, <1>4, <1>5, CacheAssumption
     DEF CacheInv, CacheTypeOK, EachKeyOnce, Bounded

(* Get keeps the invariant, whether it hits, misses or removes. *)
LEMMA GetInv ==
    ASSUME CacheInv, NEW k \in Key, Get(k)
    PROVE  CacheInv'
<1>1. CASE GetMiss(k)
  BY <1>1 DEF GetMiss, cacheVars, CacheInv, CacheTypeOK, EachKeyOnce, Bounded
<1>2. CASE GetExpired(k)
  <2>1. k \in DOMAIN entries /\ order' = Unlink(k) /\ now' = now
        /\ entries' = [l \in DOMAIN entries \ {k} |-> entries[l]]
    BY <1>2 DEF GetExpired
  <2>2. CacheTypeOK'
    BY <2>1, MoveFacts DEF CacheInv, CacheTypeOK
  <2>3. Once(order') /\ Len(order) \in Nat /\ Len(order') = Len(order) - 1
    BY <2>1, MoveFacts
  <2>4. EachKeyOnce' /\ Bounded'
    BY <2>3, CacheAssumption DEF CacheInv, EachKeyOnce, Once, Bounded
  <2>5. QED
    BY <2>2, <2>4 DEF CacheInv
<1>3. CASE GetHit(k)
  <2>1. k \in DOMAIN entries /\ order' = MoveToFront(k) /\ now' = now
        /\ entries' = entries
    BY <1>3 DEF GetHit
  <2>2. CacheTypeOK'
    BY <2>1, MoveFacts DEF CacheInv, CacheTypeOK
  <2>3. EachKeyOnce' /\ Bounded'
    BY <2>1, MoveFacts, CacheAssumption DEF CacheInv, EachKeyOnce, Once, Bounded
  <2>4. QED
    BY <2>2, <2>3 DEF CacheInv
<1>4. QED
  BY <1>1, <1>2, <1>3 DEF Get

(* Set keeps the invariant, whether it updates, inserts or evicts. *)
LEMMA SetInv ==
    ASSUME CacheInv, NEW k \in Key, NEW ttl \in TTL, NEW v \in Value,
           Set(k, ttl, v)
    PROVE  CacheInv'
<1> DEFINE e == [value |-> v, expires |-> now + ttl]
<1>1. e \in Entry
  <2>1. now + ttl \in Int
    BY CacheAssumption DEF CacheInv, CacheTypeOK
  <2>2. QED
    BY <2>1 DEF Entry
<1> HIDE DEF e
<1>2. CASE Update(k, ttl, v)
  <2>1. k \in DOMAIN entries /\ order' = MoveToFront(k) /\ now' = now
        /\ entries' = [entries EXCEPT ![k] = e]
    BY <1>2 DEF Update, e
  <2>2. CacheTypeOK'
    BY <1>1, <2>1, MoveFacts DEF CacheInv, CacheTypeOK
  <2>3. EachKeyOnce' /\ Bounded'
    BY <2>1, MoveFacts, CacheAssumption DEF CacheInv, EachKeyOnce, Once, Bounded
  <2>4. QED
    BY <2>2, <2>3 DEF CacheInv
<1>3. CASE Insert(k, ttl, v)
  <2> DEFINE pushed  == <<k>> \o order
             over    == MaxEntries > 0 /\ Len(pushed) > MaxEntries
             evicted == IF over THEN {Last(pushed)} ELSE {}
  <2>1. /\ k \notin DOMAIN entries /\ now' = now
        /\ order' = IF over THEN Front(pushed) ELSE pushed
        /\ entries' = [l \in (DOMAIN entries \cup {k}) \ evicted |->
                          IF l = k THEN e ELSE entries[l]]
    BY <1>3 DEF Insert, e
  <2>2. /\ order \in Seq(Key) /\ Once(order) /\ Range(order) = DOMAIN entries
    BY DEF CacheInv, CacheTypeOK, EachKeyOnce, Once
  <2>3. /\ pushed \in Seq(Key) /\ pushed # <<>> /\ Len(order) \in Nat
        /\ Len(pushed) = Len(order) + 1
        /\ Range(pushed) = DOMAIN entries \cup {k} /\ Once(pushed)
    BY <2>1, <2>2, PushFrontFacts
  <2>4. /\ order' \in Seq(Key) /\ Once(order')
        /\ Range(order') = (DOMAIN entries \cup {k}) \ evicted
        /\ Len(order') = IF over THEN Len(order) ELSE Len(order) + 1
    <3> HIDE DEF pushed
    <3>1. CASE over
      BY <2>1, <2>3, <3>1, FrontFacts
    <3>2. CASE ~ over
      BY <2>1, <2>3, <3>2
    <3>3. QED
      BY <3>1, <3>2
  <2>5. Bounded'
    <3>1. ASSUME MaxEntries > 0 PROVE Len(order') <= MaxEntries
      BY <2>3, <2>4, <3>1, CacheAssumption DEF CacheInv, Bounded
    <3>2. QED
      BY <3>1 DEF Bounded
  <2> HIDE DEF evicted
  <2>6. CacheTypeOK'
    BY <1>1, <2>1, <2>4 DEF CacheInv, CacheTypeOK
  <2>7. EachKeyOnce'
    BY <2>4 DEF EachKeyOnce, Once
  <2>8. QED
    BY <2>5, <2>6, <2>7 DEF CacheInv
<1>4. QED
  BY <1>2, <1>3 DEF Set

(* Every call, and the clock, keep the invariant. *)
LEMMA CacheStepInv == CacheInv /\ [CacheNext]_cacheVars => CacheInv'
<1> SUFFICES ASSUME CacheInv, [CacheNext]_cacheVars PROVE CacheInv'
  OBVIOUS
<1>1. CASE Tick
  BY <1>1 DEF Tick, CacheInv, CacheTypeOK, EachKeyOnce, Bounded
<1>2. CASE UNCHANGED cacheVars
  BY <1>2 DEF cacheVars, CacheInv, CacheTypeOK, EachKeyOnce, Bounded
<1>3. QED
  BY <1>1, <1>2, GetInv, SetInv DEF CacheNext

(* The invariant holds whatever is called and when. *)
LEMMA CacheInvariant == CacheSpec => []CacheInv
  BY CacheInitInv, CacheStepInv, PTL DEF CacheSpec

(* Types, and list and map hold the same keys. *)
THEOREM CacheTypeCorrect == CacheSpec => []CacheTypeOK
<1>1. CacheInv => CacheTypeOK
  BY DEF CacheInv
<1>2. QED
  BY <1>1, CacheInvariant, PTL

(* A key has one list element. *)
THEOREM CacheEachKeyOnce == CacheSpec => []EachKeyOnce
<1>1. CacheInv => EachKeyOnce
  BY DEF CacheInv
<1>2. QED
  BY <1>1, CacheInvariant, PTL

(* server.cache_max_entries is kept. *)
THEOREM CacheBounded == CacheSpec => []Bounded
<1>1. CacheInv => Bounded
  BY DEF CacheInv
<1>2. QED
  BY <1>1, CacheInvariant, PTL

-----------------------------------------------------------------------------
(***************************************************************************)
(* The refinement.  Comes(s, x, y): x stands before y in the list s.       *)
(***************************************************************************)
Comes(s, x, y) == \E i, j \in 1..Len(s) : i < j /\ s[i] = x /\ s[j] = y

Pairs(s) == {<<s[p[1]], s[p[2]]>> :
                p \in {q \in (1..Len(s)) \X (1..Len(s)) : q[1] < q[2]}}

(* The pairs of a list are those in which one element comes before another. *)
LEMMA PairsIsComes ==
    ASSUME NEW T, NEW s \in Seq(T)
    PROVE  /\ Pairs(s) \subseteq T \X T
           /\ \A x, y : <<x, y>> \in Pairs(s) <=> Comes(s, x, y)
<1>1. \A i \in 1..Len(s) : s[i] \in T
  BY ElementOfSeq
<1>2. ASSUME NEW i \in 1..Len(s), NEW j \in 1..Len(s), i < j
      PROVE  <<s[i], s[j]>> \in Pairs(s)
  <2>1. <<i, j>> \in {q \in (1..Len(s)) \X (1..Len(s)) : q[1] < q[2]}
    BY <1>2
  <2>2. QED
    BY <2>1 DEF Pairs
<1>3. ASSUME NEW r \in Pairs(s)
      PROVE  \E i, j \in 1..Len(s) : i < j /\ r = <<s[i], s[j]>>
  BY <1>3 DEF Pairs
<1>4. Pairs(s) \subseteq T \X T
  BY <1>1, <1>3
<1>5. ASSUME NEW x, NEW y PROVE <<x, y>> \in Pairs(s) <=> Comes(s, x, y)
  <2>1. ASSUME <<x, y>> \in Pairs(s) PROVE Comes(s, x, y)
    BY <1>3, <2>1 DEF Comes
  <2>2. ASSUME Comes(s, x, y) PROVE <<x, y>> \in Pairs(s)
    BY <1>2, <2>2 DEF Comes
  <2>3. QED
    BY <2>1, <2>2
<1>6. QED
  BY <1>4, <1>5

(* The refinement mapping is the pairs of the list, in both states of a step. *)
LEMMA MoreRecentIsPairs == MoreRecent = Pairs(order) /\ MoreRecent' = Pairs(order')
  BY DEF MoreRecent, Pairs

(* PushFront puts the new element before all others and keeps their order. *)
LEMMA ComesPushFront ==
    ASSUME NEW T, NEW s \in Seq(T), NEW k \in T, NEW x, NEW y
    PROVE  Comes(<<k>> \o s, x, y) <=> Comes(s, x, y) \/ (x = k /\ y \in Range(s))
<1> DEFINE t == <<k>> \o s
<1>1. /\ Len(s) \in Nat /\ Len(t) = Len(s) + 1 /\ t[1] = k
      /\ \A i \in 1..Len(s) : t[i + 1] = s[i]
      /\ \A i \in 2..Len(t) : t[i] = s[i - 1]
      /\ Range(s) = {s[i] : i \in 1..Len(s)}
  BY PushFrontFacts, RangeEquality
<1> HIDE DEF t
<1>2. ASSUME Comes(t, x, y) PROVE Comes(s, x, y) \/ (x = k /\ y \in Range(s))
  <2>1. PICK i, j \in 1..Len(t) : i < j /\ t[i] = x /\ t[j] = y
    BY <1>2 DEF Comes
  <2>2. j \in 2..Len(t) /\ j - 1 \in 1..Len(s) /\ y = s[j - 1]
    BY <1>1, <2>1
  <2>3. CASE i = 1
    BY <1>1, <2>1, <2>2, <2>3
  <2>4. CASE i # 1
    <3>1. i \in 2..Len(t) /\ i - 1 \in 1..Len(s) /\ i - 1 < j - 1
      BY <1>1, <2>1, <2>4
    <3>2. x = s[i - 1]
      BY <1>1, <2>1, <3>1
    <3>3. QED
      BY <2>2, <3>1, <3>2 DEF Comes
  <2>5. QED
    BY <2>3, <2>4
<1>3. ASSUME Comes(s, x, y) PROVE Comes(t, x, y)
  <2>1. PICK i, j \in 1..Len(s) : i < j /\ s[i] = x /\ s[j] = y
    BY <1>3 DEF Comes
  <2>2. i + 1 \in 1..Len(t) /\ j + 1 \in 1..Len(t) /\ i + 1 < j + 1
    BY <1>1, <2>1
  <2>3. QED
    BY <1>1, <2>1, <2>2 DEF Comes
<1>4. ASSUME x = k, y \in Range(s) PROVE Comes(t, x, y)
  <2>1. PICK j \in 1..Len(s) : s[j] = y
    BY <1>1, <1>4
  <2>2. 1 \in 1..Len(t) /\ j + 1 \in 1..Len(t) /\ 1 < j + 1
    BY <1>1, <2>1
  <2>3. QED
    BY <1>1, <1>4, <2>1, <2>2 DEF Comes
<1>5. QED
  BY <1>2, <1>3, <1>4 DEF t

(* Remove takes the pairs of the removed element away and no others. *)
LEMMA ComesRemove ==
    ASSUME NEW T, NEW s \in Seq(T), NEW p \in 1..Len(s), Once(s), NEW x, NEW y
    PROVE  Comes(RemoveAt(s, p), x, y) <=> Comes(s, x, y) /\ x # s[p] /\ y # s[p]
<1> DEFINE t == RemoveAt(s, p)
           old(i) == IF i < p THEN i ELSE i + 1
           new(i) == IF i < p THEN i ELSE i - 1
<1>1. /\ Len(s) \in Nat /\ Len(t) = Len(s) - 1
      /\ \A i \in 1..(Len(s) - 1) : t[i] = IF i < p THEN s[i] ELSE s[i + 1]
  BY RemoveFacts
<1> HIDE DEF t
<1>2. \A i \in 1..Len(t) : old(i) \in 1..Len(s) /\ old(i) # p /\ t[i] = s[old(i)]
  BY <1>1
<1>3. ASSUME NEW i \in 1..Len(s), i # p
      PROVE  new(i) \in 1..Len(t) /\ t[new(i)] = s[i]
  <2>1. new(i) \in 1..(Len(s) - 1) /\ old(new(i)) = i
    BY <1>1, <1>3
  <2>2. QED
    BY <1>1, <1>2, <2>1
<1>4. ASSUME Comes(t, x, y) PROVE Comes(s, x, y) /\ x # s[p] /\ y # s[p]
  <2>1. PICK i, j \in 1..Len(t) : i < j /\ t[i] = x /\ t[j] = y
    BY <1>4 DEF Comes
  <2>2. /\ old(i) \in 1..Len(s) /\ old(j) \in 1..Len(s)
        /\ old(i) # p /\ old(j) # p /\ s[old(i)] = x /\ s[old(j)] = y
    BY <1>2, <2>1
  <2>3. old(i) < old(j)
    BY <1>1, <2>1
  <2> HIDE DEF old
  <2>4. x # s[p] /\ y # s[p]
    BY <2>2 DEF Once
  <2>5. QED
    BY <2>2, <2>3, <2>4 DEF Comes
<1>5. ASSUME Comes(s, x, y), x # s[p], y # s[p] PROVE Comes(t, x, y)
  <2>1. PICK i, j \in 1..Len(s) : i < j /\ s[i] = x /\ s[j] = y
    BY <1>5 DEF Comes
  <2>2. i # p /\ j # p
    BY <1>5, <2>1
  <2>3. /\ new(i) \in 1..Len(t) /\ t[new(i)] = x
        /\ new(j) \in 1..Len(t) /\ t[new(j)] = y
    BY <1>3, <2>1, <2>2
  <2>4. new(i) < new(j)
    BY <1>1, <2>1, <2>2
  <2> HIDE DEF new
  <2>5. QED
    BY <2>3, <2>4 DEF Comes
<1>6. QED
  BY <1>4, <1>5 DEF t

(* Removing the back takes the pairs of the back away and no others. *)
LEMMA ComesFront ==
    ASSUME NEW T, NEW s \in Seq(T), s # <<>>, Once(s), NEW x, NEW y
    PROVE  Comes(Front(s), x, y) <=> Comes(s, x, y) /\ x # Last(s) /\ y # Last(s)
<1> DEFINE t == Front(s)
<1>1. /\ Len(s) \in Nat \ {0} /\ Len(t) = Len(s) - 1
      /\ \A i \in 1..(Len(s) - 1) : t[i] = s[i]
      /\ Last(s) = s[Len(s)]
  BY FrontFacts
<1> HIDE DEF t
<1>2. \A i \in 1..Len(s) : s[i] = Last(s) <=> i = Len(s)
  BY <1>1 DEF Once
<1>3. ASSUME Comes(t, x, y) PROVE Comes(s, x, y) /\ x # Last(s) /\ y # Last(s)
  <2>1. PICK i, j \in 1..Len(t) : i < j /\ t[i] = x /\ t[j] = y
    BY <1>3 DEF Comes
  <2>2. /\ i \in 1..Len(s) /\ j \in 1..Len(s) /\ i # Len(s) /\ j # Len(s)
        /\ s[i] = x /\ s[j] = y
    BY <1>1, <2>1
  <2>3. QED
    BY <1>2, <2>1, <2>2 DEF Comes
<1>4. ASSUME Comes(s, x, y), x # Last(s), y # Last(s) PROVE Comes(t, x, y)
  <2>1. PICK i, j \in 1..Len(s) : i < j /\ s[i] = x /\ s[j] = y
    BY <1>4 DEF Comes
  <2>2. i # Len(s) /\ j # Len(s)
    BY <1>2, <1>4, <2>1
  <2>3. i \in 1..(Len(s) - 1)
    BY <1>1, <2>2
  <2>4. j \in 1..(Len(s) - 1)
    BY <1>1, <2>2
  <2>5. i \in 1..Len(t) /\ j \in 1..Len(t) /\ t[i] = x /\ t[j] = y
    BY <1>1, <2>1, <2>3, <2>4
  <2>6. QED
    BY <2>1, <2>5 DEF Comes
<1>5. QED
  BY <1>3, <1>4 DEF t

(* A list of distinct elements is as long as the set of them is large. *)
LEMMA ListLength ==
    ASSUME NEW T, NEW s \in Seq(T), Once(s)
    PROVE  Cardinality(Range(s)) = Len(s)
<1>1. Len(s) \in Nat /\ DOMAIN s = 1..Len(s)
  BY LenProperties
<1>2. Range(s) = {s[i] : i \in 1..Len(s)}
  BY RangeEquality
<1>3. s \in [1..Len(s) -> Range(s)]
  BY <1>2, LenProperties
<1>4. IsInjective(s)
  BY <1>1 DEF Once, IsInjective
<1>5. \A t \in Range(s) : \E i \in 1..Len(s) : s[i] = t
  BY <1>2
<1>6. s \in Bijection(1..Len(s), Range(s))
  BY <1>3, <1>4, <1>5 DEF Bijection, Injection, Surjection
<1>7. ExistsBijection(1..Len(s), Range(s))
  BY <1>6 DEF ExistsBijection
<1>8. QED
  BY <1>1, <1>7, FS_CountingElements

(* Two sets of pairs of keys with the same pairs are the same set. *)
LEMMA SamePairs ==
    ASSUME NEW A \in SUBSET (Key \X Key), NEW B \in SUBSET (Key \X Key),
           \A x, y \in Key : <<x, y>> \in A <=> <<x, y>> \in B
    PROVE  A = B
  OBVIOUS

(* An empty cache is an empty bounded map. *)
LEMMA InitImplements == CacheInit => LRU!LRUInit
<1> SUFFICES ASSUME CacheInit PROVE LRU!LRUInit
  OBVIOUS
<1>1. 1..Len(order) = {}
  BY EmptySeq DEF CacheInit
<1>2. MoreRecent = {}
  BY <1>1 DEF MoreRecent
<1>3. QED
  BY <1>2 DEF CacheInit, LRU!LRUInit

(* Moving a kept key to the front makes it the most recently used one. *)
LEMMA FrontIsMostRecent ==
    ASSUME CacheInv, NEW k \in DOMAIN entries, order' = MoveToFront(k)
    PROVE  MoreRecent' = {p \in MoreRecent : p[1] # k /\ p[2] # k}
                            \cup ({k} \X (DOMAIN entries \ {k}))
<1> DEFINE new == {p \in MoreRecent : p[1] # k /\ p[2] # k}
                     \cup ({k} \X (DOMAIN entries \ {k}))
<1>1. /\ order \in Seq(Key) /\ Once(order) /\ DOMAIN entries \subseteq Key
      /\ k \in Key
  BY DEF CacheInv, CacheTypeOK, EachKeyOnce, Once
<1>2. /\ Position(k) \in 1..Len(order) /\ order[Position(k)] = k
      /\ Unlink(k) \in Seq(Key) /\ Range(Unlink(k)) = DOMAIN entries \ {k}
      /\ order' \in Seq(Key)
  BY MoveFacts
<1>3. ASSUME NEW x \in Key, NEW y \in Key
      PROVE  <<x, y>> \in MoreRecent' <=> <<x, y>> \in new
  <2>1. <<x, y>> \in MoreRecent' <=> Comes(order', x, y)
    BY <1>2, PairsIsComes, MoreRecentIsPairs
  <2>2. Comes(order', x, y)
          <=> Comes(Unlink(k), x, y) \/ (x = k /\ y \in DOMAIN entries \ {k})
    BY <1>1, <1>2, ComesPushFront DEF MoveToFront
  <2>3. Comes(Unlink(k), x, y) <=> Comes(order, x, y) /\ x # k /\ y # k
    BY <1>1, <1>2, ComesRemove DEF Unlink
  <2>4. <<x, y>> \in MoreRecent <=> Comes(order, x, y)
    BY <1>1, PairsIsComes, MoreRecentIsPairs
  <2>5. QED
    BY <2>1, <2>2, <2>3, <2>4
<1>4. MoreRecent' \subseteq Key \X Key /\ MoreRecent \subseteq Key \X Key
  BY <1>1, <1>2, PairsIsComes, MoreRecentIsPairs
<1>5. new \subseteq Key \X Key
  BY <1>1, <1>4
<1>6. QED
  BY <1>3, <1>4, <1>5, SamePairs

(* Get is a use, a drop of an expired entry, or no step, of the map. *)
LEMMA GetImplements ==
    ASSUME CacheInv, CacheInv', NEW k \in Key, Get(k)
    PROVE  [LRU!LRUNext]_(LRU!lruVars)
<1>1. CASE GetMiss(k)
  BY <1>1 DEF GetMiss, cacheVars, LRU!lruVars, MoreRecent
<1>2. CASE GetExpired(k)
  <2>1. /\ k \in DOMAIN entries /\ now > entries[k].expires /\ now' = now
        /\ order' = Unlink(k)
        /\ entries' = [l \in DOMAIN entries \ {k} |-> entries[l]]
    BY <1>2 DEF GetExpired, Expired
  <2>2. /\ order \in Seq(Key) /\ order' \in Seq(Key) /\ Once(order)
    BY DEF CacheInv, CacheTypeOK, EachKeyOnce, Once
  <2>3. Position(k) \in 1..Len(order) /\ order[Position(k)] = k
    BY <2>1, MoveFacts
  <2>4. ASSUME NEW x \in Key, NEW y \in Key
        PROVE  <<x, y>> \in MoreRecent'
                 <=> <<x, y>> \in MoreRecent /\ x # k /\ y # k
    <3>1. <<x, y>> \in MoreRecent' <=> Comes(order', x, y)
      BY <2>2, PairsIsComes, MoreRecentIsPairs
    <3>2. Comes(order', x, y) <=> Comes(order, x, y) /\ x # k /\ y # k
      BY <2>1, <2>2, <2>3, ComesRemove DEF Unlink
    <3>3. <<x, y>> \in MoreRecent <=> Comes(order, x, y)
      BY <2>2, PairsIsComes, MoreRecentIsPairs
    <3>4. QED
      BY <3>1, <3>2, <3>3
  <2>5. MoreRecent' \subseteq Key \X Key /\ MoreRecent \subseteq Key \X Key
    BY <2>2, PairsIsComes, MoreRecentIsPairs
  <2> DEFINE new == {p \in MoreRecent : p[1] # k /\ p[2] # k}
  <2>6. new \subseteq Key \X Key
    BY <2>5
  <2>7. \A x, y \in Key : <<x, y>> \in MoreRecent' <=> <<x, y>> \in new
    BY <2>4
  <2>8. MoreRecent' = new
    BY <2>5, <2>6, <2>7, SamePairs
  <2>9. LRU!Drop(k)
    BY <2>1, <2>8 DEF LRU!Drop, LRU!Kept, LRU!Without
  <2>10. QED
    BY <2>9 DEF LRU!LRUNext
<1>3. CASE GetHit(k)
  <2>1. /\ k \in DOMAIN entries /\ ~ (now > entries[k].expires) /\ now' = now
        /\ order' = MoveToFront(k) /\ entries' = entries
    BY <1>3 DEF GetHit, Expired
  <2>2. now \in Int /\ entries[k].expires \in Int
    BY <2>1 DEF CacheInv, CacheTypeOK, Entry
  <2>3. now <= entries[k].expires
    BY <2>1, <2>2
  <2>4. LRU!Use(k)
    BY <2>1, <2>3, FrontIsMostRecent DEF LRU!Use, LRU!Kept, LRU!Without
  <2>5. QED
    BY <2>4 DEF LRU!LRUNext
<1>4. QED
  BY <1>1, <1>2, <1>3 DEF Get

(* Set of a key that is there is a Put that gives nothing up. *)
LEMMA UpdateImplements ==
    ASSUME CacheInv, NEW k \in Key, NEW ttl \in TTL, NEW v \in Value,
           Update(k, ttl, v)
    PROVE  LRU!Put(k, [value |-> v, expires |-> now + ttl])
<1> DEFINE e == [value |-> v, expires |-> now + ttl]
<1>1. /\ k \in DOMAIN entries /\ now' = now /\ order' = MoveToFront(k)
      /\ entries' = [entries EXCEPT ![k] = e]
  BY DEF Update
<1> HIDE DEF e
<1> DEFINE kept == DOMAIN entries \ {k}
<1>2. entries' = [l \in kept \cup {k} |-> IF l = k THEN e ELSE entries[l]]
  BY <1>1
<1>3. /\ order \in Seq(Key)
      /\ \A x, y : <<x, y>> \in MoreRecent => x \in DOMAIN entries /\ y \in DOMAIN entries
  <2>1. order \in Seq(Key) /\ Range(order) = DOMAIN entries
    BY DEF CacheInv, CacheTypeOK
  <2>2. QED
    BY <2>1, PairsIsComes, MoreRecentIsPairs, RangeEquality DEF Comes
<1>4. MoreRecent \subseteq Key \X Key
  BY <1>3, PairsIsComes, MoreRecentIsPairs
<1>5. {p \in MoreRecent : p[1] # k /\ p[2] # k}
        = {p \in MoreRecent : p[1] \in kept /\ p[2] \in kept}
  BY <1>3, <1>4
<1>6. MoreRecent' = {p \in MoreRecent : p[1] \in kept /\ p[2] \in kept} \cup ({k} \X kept)
  BY <1>1, <1>5, FrontIsMostRecent
<1>7. (DOMAIN entries \ {}) \ {k} = kept
  OBVIOUS
<1>8. LRU!Put(k, e)
  BY <1>1, <1>2, <1>6, <1>7 DEF LRU!Put, LRU!Kept
<1>9. QED
  BY <1>8 DEF e

(* Every kept key but the one at the back has been used after that one. *)
LEMMA BackIsLeastRecent ==
    ASSUME CacheInv, order # <<>>
    PROVE  {l \in DOMAIN entries :
              \A m \in DOMAIN entries \ {l} : <<m, l>> \in MoreRecent} = {Last(order)}
<1>1. /\ order \in Seq(Key) /\ Once(order) /\ Range(order) = DOMAIN entries
  BY DEF CacheInv, CacheTypeOK, EachKeyOnce, Once
<1>2. /\ Len(order) \in Nat \ {0} /\ Last(order) = order[Len(order)]
      /\ Range(order) = {order[i] : i \in 1..Len(order)}
  <2>1. Len(order) \in Nat \ {0}
    BY <1>1, EmptySeq
  <2>2. Last(order) = order[Len(order)]
    BY DEF Last
  <2>3. QED
    BY <1>1, <2>1, <2>2, RangeEquality
<1>3. Len(order) \in 1..Len(order) /\ Last(order) \in DOMAIN entries
  BY <1>1, <1>2
<1>4. \A x, y : <<x, y>> \in MoreRecent <=> Comes(order, x, y)
  BY <1>1, PairsIsComes, MoreRecentIsPairs
<1>5. ASSUME NEW m \in DOMAIN entries, m # Last(order)
      PROVE  <<m, Last(order)>> \in MoreRecent
  <2>1. PICK i \in 1..Len(order) : order[i] = m
    BY <1>1, <1>2
  <2>2. i < Len(order)
    BY <1>2, <1>5, <2>1
  <2>3. QED
    BY <1>2, <1>3, <1>4, <2>1, <2>2 DEF Comes
<1>6. ASSUME NEW l PROVE <<Last(order), l>> \notin MoreRecent
  <2>1. SUFFICES ASSUME NEW i \in 1..Len(order), NEW j \in 1..Len(order),
                        i < j, order[i] = Last(order)
                 PROVE  FALSE
    BY <1>4 DEF Comes
  <2>2. i = Len(order)
    BY <1>1, <1>2, <1>3, <2>1 DEF Once
  <2>3. QED
    BY <1>2, <2>1, <2>2
<1>7. QED
  BY <1>3, <1>5, <1>6

(* Set of a new key is a Put that gives up the least recently used one. *)
LEMMA InsertImplements ==
    ASSUME CacheInv, CacheInv', NEW k \in Key, NEW ttl \in TTL, NEW v \in Value,
           Insert(k, ttl, v)
    PROVE  LRU!Put(k, [value |-> v, expires |-> now + ttl])
<1> DEFINE e       == [value |-> v, expires |-> now + ttl]
           pushed  == <<k>> \o order
           over    == MaxEntries > 0 /\ Len(pushed) > MaxEntries
           evicted == IF over THEN {Last(pushed)} ELSE {}
           full    == /\ MaxEntries > 0 /\ k \notin DOMAIN entries
                      /\ Cardinality(DOMAIN entries) >= MaxEntries
           lost    == IF full
                      THEN {l \in DOMAIN entries :
                              \A m \in DOMAIN entries \ {l} : <<m, l>> \in MoreRecent}
                      ELSE {}
           kept    == (DOMAIN entries \ lost) \ {k}
           new     == {p \in MoreRecent : p[1] \in kept /\ p[2] \in kept}
                        \cup ({k} \X kept)
<1>1. /\ k \notin DOMAIN entries /\ now' = now
      /\ order' = IF over THEN Front(pushed) ELSE pushed
      /\ entries' = [l \in (DOMAIN entries \cup {k}) \ evicted |->
                        IF l = k THEN e ELSE entries[l]]
  BY DEF Insert
<1>2. /\ order \in Seq(Key) /\ Once(order) /\ Range(order) = DOMAIN entries
      /\ order' \in Seq(Key)
  BY DEF CacheInv, CacheTypeOK, EachKeyOnce, Once
<1>3. /\ pushed \in Seq(Key) /\ pushed # <<>> /\ Len(order) \in Nat
      /\ Len(pushed) = Len(order) + 1 /\ Once(pushed)
      /\ \A i \in 1..Len(order) : pushed[i + 1] = order[i]
  BY <1>1, <1>2, PushFrontFacts
<1>4. Cardinality(DOMAIN entries) = Len(order)
  BY <1>2, ListLength
<1>5. full <=> over
  BY <1>1, <1>3, <1>4, CacheAssumption
<1>6. ASSUME over PROVE order # <<>> /\ Last(pushed) = Last(order) /\ Last(order) # k
                        /\ Last(order) \in DOMAIN entries
  <2>1. Len(order) \in 1..Len(order)
    BY <1>3, <1>6, CacheAssumption
  <2>2. order # <<>> /\ Last(order) = order[Len(order)]
    BY <2>1, EmptySeq DEF Last
  <2>3. Last(pushed) = pushed[Len(order) + 1]
    BY <1>3 DEF Last
  <2>4. Last(pushed) = Last(order)
    BY <1>3, <2>1, <2>2, <2>3
  <2>5. Last(order) \in DOMAIN entries
    BY <1>2, <2>1, <2>2, RangeEquality
  <2>6. QED
    BY <1>1, <2>2, <2>4, <2>5
<1>7. lost = evicted
  <2>1. CASE over
    <3>1. lost = {Last(order)}
      BY <1>5, <1>6, <2>1, BackIsLeastRecent
    <3>2. QED
      BY <1>6, <2>1, <3>1
  <2>2. CASE ~ over
    BY <1>5, <2>2
  <2>3. QED
    BY <2>1, <2>2
<1>8. k \notin evicted
  BY <1>6
<1>9. kept \cup {k} = (DOMAIN entries \cup {k}) \ evicted /\ kept = DOMAIN entries \ evicted
  BY <1>1, <1>7, <1>8
<1>10. entries' = [l \in kept \cup {k} |-> IF l = k THEN e ELSE entries[l]]
  BY <1>1, <1>9
<1> HIDE DEF pushed, evicted, kept, lost, e
<1>11. ASSUME NEW x \in Key, NEW y \in Key
       PROVE  Comes(order', x, y)
                <=> /\ Comes(order, x, y) \/ (x = k /\ y \in DOMAIN entries)
                    /\ x \notin evicted /\ y \notin evicted
  <2>1. Comes(pushed, x, y) <=> Comes(order, x, y) \/ (x = k /\ y \in DOMAIN entries)
    BY <1>2, ComesPushFront DEF pushed
  <2>2. CASE over
    <3>1. Comes(order', x, y)
            <=> Comes(pushed, x, y) /\ x # Last(pushed) /\ y # Last(pushed)
      BY <1>1, <1>3, <2>2, ComesFront
    <3>2. QED
      BY <2>1, <2>2, <3>1 DEF evicted
  <2>3. CASE ~ over
    BY <1>1, <2>1, <2>3 DEF evicted
  <2>4. QED
    BY <2>2, <2>3
<1>12. \A x, y : Comes(order, x, y) => x \in DOMAIN entries /\ y \in DOMAIN entries
  BY <1>2, RangeEquality DEF Comes
<1>13. /\ MoreRecent \subseteq Key \X Key /\ MoreRecent' \subseteq Key \X Key
       /\ \A x, y : <<x, y>> \in MoreRecent <=> Comes(order, x, y)
       /\ \A x, y : <<x, y>> \in MoreRecent' <=> Comes(order', x, y)
  BY <1>2, PairsIsComes, MoreRecentIsPairs
<1>14. DOMAIN entries \subseteq Key
  BY DEF CacheInv, CacheTypeOK
<1>15. MoreRecent' = new
  <2>1. new \subseteq Key \X Key
    BY <1>9, <1>13, <1>14
  <2>2. ASSUME NEW x \in Key, NEW y \in Key
        PROVE  <<x, y>> \in MoreRecent' <=> <<x, y>> \in new
    <3>1. <<x, y>> \in new
            <=> \/ Comes(order, x, y) /\ x \in kept /\ y \in kept
                \/ x = k /\ y \in kept
      BY <1>13
    <3>2. QED
      BY <1>1, <1>8, <1>9, <1>11, <1>12, <1>13, <3>1
  <2>3. QED
    BY <1>13, <2>1, <2>2, SamePairs
<1>16. LRU!Cardinality(DOMAIN entries) = Cardinality(DOMAIN entries)
  BY DEF LRU!Cardinality, Cardinality
<1>17. LRU!Put(k, e)
  BY <1>1, <1>10, <1>15, <1>16 DEF LRU!Put, LRU!Kept, kept, lost
<1>18. QED
  BY <1>17 DEF e

(* Every step of the cache is a step of the bounded map or a stutter. *)
LEMMA StepImplements ==
    CacheInv /\ CacheInv' /\ [CacheNext]_cacheVars => [LRU!LRUNext]_(LRU!lruVars)
<1> SUFFICES ASSUME CacheInv, CacheInv', [CacheNext]_cacheVars
             PROVE  [LRU!LRUNext]_(LRU!lruVars)
  OBVIOUS
<1>1. ASSUME NEW k \in Key, NEW ttl \in TTL, NEW v \in Value, Set(k, ttl, v)
      PROVE  LRU!LRUNext
  <2>1. LRU!Put(k, [value |-> v, expires |-> now + ttl])
    BY <1>1, UpdateImplements, InsertImplements DEF Set
  <2>2. QED
    BY <2>1 DEF LRU!LRUNext
<1>2. CASE Tick
  <2>1. LRU!Pass
    BY <1>2 DEF Tick, LRU!Pass, MoreRecent
  <2>2. QED
    BY <2>1 DEF LRU!LRUNext
<1>3. CASE UNCHANGED cacheVars
  BY <1>3 DEF cacheVars, LRU!lruVars, MoreRecent
<1>4. QED
  BY <1>1, <1>2, <1>3, GetImplements DEF CacheNext

(* SPEC.md "the least-recently-used entry is evicted": the linked list and
   the map together implement the abstract bounded map with expiry. *)
THEOREM CacheImplementsLRU == CacheSpec => ImplementsLRU
<1>1. CacheInv /\ [CacheNext]_cacheVars => CacheInv'
  BY CacheStepInv
<1>2. QED
  BY <1>1, InitImplements, StepImplements, CacheInvariant, PTL
     DEF CacheSpec, ImplementsLRU, LRU!LRUSpec
=============================================================================
