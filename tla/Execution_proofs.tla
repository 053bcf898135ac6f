-------------------------- MODULE Execution_proofs --------------------------
(***************************************************************************)
(* Any number of requests, filters, keys and reloads.  Every configuration *)
(* that Validate accepts: the variables have their types, executions of    *)
(* one key do not overlap, the cache is used as the TTL cache it is, and a *)
(* failure is shared only with those who waited.  If no cache key is a key *)
(* of two wrapped filters, and cache filters do not wrap each other in a   *)
(* circle, neither of which Validate looks at: nobody waits in vain or in  *)
(* a circle, and results are the right ones.  If what templates name is in *)
(* the graph: it has been executed.                                        *)
(***************************************************************************)
EXTENDS Execution, SequenceTheorems, FiniteSetTheorems, TLAPS

Places == {"idle", "call", "work", "enter", "wait", "store", "leave", "done"}

RequestsTyped ==
    /\ engine \in Nat
    /\ pc \in [Request -> Places]
    /\ snapshot \in [Request -> Nat]
    /\ plan \in [Request -> Seq(Filter)]
    /\ step \in [Request -> Nat]
    /\ \A r \in Request : step[r] \in 1..Len(plan[r])
    /\ at \in [Request -> Filter]
    /\ key \in [Request -> CacheKey]
    /\ leads \in [Request -> Seq(CacheKey)]

(* A call in a group's map is one its leader is inside of. *)
FlightsAreLed ==
    \A f \in flights :
        /\ f.leader \in Request
        /\ f = Flight(snapshot[f.leader], f.key, f.leader)
        /\ \E i \in 1..Len(leads[f.leader]) : leads[f.leader][i] = f.key

(* Where a request is inside of a singleflight function, and where not. *)
LeadsFit ==
    \A r \in Request :
        /\ pc[r] = "idle" => leads[r] = <<>>
        /\ pc[r] \in {"store", "leave"} => leads[r] # <<>>

FlightInv ==
    RequestsTyped /\ FlightsAreLed /\ LeadsFit /\ ExecutionsDoNotOverlap

(***************************************************************************)
(* `Under' orders the filters: what a cache wraps is under it, and every   *)
(* non-empty set of filters has one that nothing else in it is under.      *)
(***************************************************************************)
Layered(Under) ==
    /\ \A f \in Filter : Kind[f] = "cache" => <<Wraps[f], f>> \in Under
    /\ \A f, h, m \in Filter :
           <<f, h>> \in Under /\ <<h, m>> \in Under => <<f, m>> \in Under
    /\ \A T \in SUBSET Filter :
           T # {} => \E f \in T : \A h \in T : <<h, f>> \notin Under

(***************************************************************************)
(* No cacheKey is made for two wrapped filters: ids hold no colon (see     *)
(* KeysWithoutColons), or no key begins with what would make up for it.    *)
(***************************************************************************)
KeysAreUnambiguous ==
    \A f, h \in Wrapped : \A k, l \in RenderedKey :
        KeyOf(f, k) = KeyOf(h, l) => f = h

KeyFor(ck, f) == f \in Wrapped /\ \E k \in RenderedKey : ck = KeyOf(f, k)

(* The nested calls of a goroutine go down in the order of Under: f, called
   inside of a function for ck, is a filter ck is for, or under one. *)
Inside(Under, f, ck) ==
    \E h \in Wrapped : KeyFor(ck, h) /\ (f = h \/ <<f, h>> \in Under)

CallsNest(Under) ==
    \A r \in Request : pc[r] \in {"call", "work", "enter", "wait"} =>
        \A i \in 1..Len(leads[r]) : Inside(Under, at[r], leads[r][i])

KeyIsOfWrapped ==
    \A r \in Request : pc[r] \in {"enter", "wait"} =>
        Kind[at[r]] = "cache" /\ KeyFor(key[r], Wraps[at[r]])

ExecutionInv == FlightInv /\ KeyIsOfWrapped

WaitInv(Under) == CallsNest(Under) /\ NobodyWaitsInVain

-----------------------------------------------------------------------------
USE ExecutionAssumption

LEMMA WrapsFilter ==
    ASSUME NEW f \in Filter, Kind[f] = "cache"
    PROVE  Wraps[f] \in Filter /\ Wraps[f] \in Wrapped
<1>1. Wraps \in [{g \in Filter : Kind[g] = "cache"} -> Filter]
  BY DEF Validated
<1>2. f \in DOMAIN Wraps
  BY <1>1
<1>3. QED
  BY <1>1, <1>2 DEF Wrapped, Range

LEMMA WrappedAreFilters == Wrapped \subseteq Filter
  BY DEF Validated, Wrapped, Range

LEMMA KeysOfWrapped ==
    ASSUME NEW f \in Filter, Kind[f] = "cache", NEW k \in RenderedKey
    PROVE  /\ KeyOf(Wraps[f], k) \in CacheKey
           /\ KeyFor(KeyOf(Wraps[f], k), Wraps[f])
  BY WrapsFilter DEF CacheKey, KeyFor

LEMMA OneFilter ==
    ASSUME KeysAreUnambiguous, NEW ck, NEW f, NEW h, KeyFor(ck, f), KeyFor(ck, h)
    PROVE  f = h
  BY DEF KeysAreUnambiguous, KeyFor

(* Ids without a colon, as in all of SPEC.md's examples, are enough for keys
   to be unambiguous, whatever params.key renders to: the first colon of a
   cacheKey ends the id. *)
THEOREM KeysWithoutColons ==
    ASSUME \A f \in Wrapped : \A i \in 1..Len(Id[f]) : Id[f][i] # ":"
    PROVE  KeysAreUnambiguous
<1> SUFFICES ASSUME NEW f \in Wrapped, NEW h \in Wrapped,
                    NEW k \in RenderedKey, NEW l \in RenderedKey,
                    KeyOf(f, k) = KeyOf(h, l)
             PROVE  f = h
  BY DEF KeysAreUnambiguous
<1> DEFINE s == Id[f]
           t == Id[h]
           n == Len(s)
           m == Len(t)
<1>1. /\ s \in Seq(STRING) /\ t \in Seq(STRING) /\ k \in Seq(STRING)
      /\ l \in Seq(STRING) /\ n \in Nat /\ m \in Nat
  BY WrappedAreFilters DEF Validated
<1>2. (s \o <<":">>) \o k = (t \o <<":">>) \o l
  BY DEF KeyOf
<1>3. /\ \A i \in 1..n : s[i] # ":"
      /\ \A i \in 1..m : t[i] # ":"
  OBVIOUS
<1>4. f = h <=> s = t
  BY WrappedAreFilters DEF Validated
<1> HIDE DEF s, t
<1> DEFINE Symbol == STRING \cup {":"}
<1>5. ASSUME NEW a \in Seq(STRING), NEW b \in Seq(STRING)
      PROVE  /\ \A i \in 1..Len(a) : ((a \o <<":">>) \o b)[i] = a[i]
             /\ ((a \o <<":">>) \o b)[Len(a) + 1] = ":"
  <2>1. \A seq \in Seq(STRING) : seq \in Seq(Symbol)
    OBVIOUS
  <2>2. /\ <<":">> \in Seq(Symbol) /\ Len(<<":">>) = 1 /\ <<":">>[1] = ":"
        /\ Len(a) \in Nat /\ Len(b) \in Nat
    OBVIOUS
  <2> HIDE DEF Symbol
  <2> DEFINE c == a \o <<":">>
  <2>3. /\ c \in Seq(Symbol) /\ Len(c) = Len(a) + 1
        /\ \A i \in 1..Len(a) : c[i] = a[i]
        /\ c[Len(a) + 1] = ":"
    BY <2>1, <2>2, ConcatProperties
  <2> HIDE DEF c
  <2>4. \A i \in 1..(Len(a) + 1) : (c \o b)[i] = c[i]
    BY <2>1, <2>2, <2>3, ConcatProperties
  <2>5. QED
    BY <2>2, <2>3, <2>4 DEF c
<1>6. n = m
  <2>1. CASE n < m
    <3>1. n + 1 \in 1..m
      BY <1>1, <2>1
    <3>2. t[n + 1] = ":"
      BY <1>1, <1>2, <1>5, <3>1
    <3>3. QED
      BY <1>3, <3>1, <3>2
  <2>2. CASE m < n
    <3>1. m + 1 \in 1..n
      BY <1>1, <2>2
    <3>2. s[m + 1] = ":"
      BY <1>1, <1>2, <1>5, <3>1
    <3>3. QED
      BY <1>3, <3>1, <3>2
  <2>3. QED
    BY <1>1, <2>1, <2>2
<1>7. \A i \in 1..n : s[i] = t[i]
  BY <1>1, <1>2, <1>5, <1>6
<1>8. QED
  BY <1>1, <1>4, <1>6, <1>7, SeqEqual

LEMMA PlansAreSequences ==
    ASSUME NEW p \in Plans
    PROVE  p \in Seq(Filter) /\ Len(p) \in Nat \ {0}
<1>1. Cardinality(Filter) \in Nat
  BY FS_CardinalityType
<1>2. p \in SeqOf(Filter, Cardinality(Filter)) /\ p # <<>>
  BY DEF Plans, Dep!IsOrder
<1>3. PICK m \in 0..Cardinality(Filter) : p \in [1..m -> Filter]
  BY <1>2 DEF SeqOf
<1>4. QED
  BY <1>1, <1>2, <1>3

(* A request that resumes goes back to a singleflight function it is inside
   of, or calls the next filter of its order outside of any, or ends. *)
LEMMA Resumed ==
    ASSUME RequestsTyped, leads' \in [Request -> Seq(CacheKey)],
           NEW R \in SUBSET Request, NEW o, Resume(R, o)
    PROVE  /\ pc' \in [Request -> Places]
           /\ step' \in [Request -> Nat] /\ at' \in [Request -> Filter]
           /\ \A r \in Request : step'[r] \in 1..Len(plan[r])
           /\ \A r \in Request \ R : pc'[r] = pc[r] /\ at'[r] = at[r]
           /\ \A r \in R : /\ pc'[r] \in {"call", "done", "store", "leave"}
                           /\ pc'[r] \in {"store", "leave"} => leads'[r] # <<>>
                           /\ pc'[r] = "call" => leads'[r] = <<>>
<1> USE DEF RequestsTyped
<1>1. \A r \in Request : Len(plan[r]) \in Nat
  OBVIOUS
<1>2. ASSUME NEW r \in Request, Loops(r, o)
      PROVE  step[r] + 1 \in 1..Len(plan[r]) /\ plan[r][step[r] + 1] \in Filter
  <2>1. step[r] \in 1..Len(plan[r]) /\ step[r] # Len(plan[r])
    BY <1>2 DEF Loops, Ends
  <2>2. step[r] + 1 \in 1..Len(plan[r])
    BY <1>1, <2>1
  <2>3. plan[r] \in Seq(Filter)
    OBVIOUS
  <2>4. QED
    BY <2>2, <2>3
<1>3. step' \in [Request -> Nat] /\ at' \in [Request -> Filter]
      /\ \A r \in Request : step'[r] \in 1..Len(plan[r])
  BY <1>1, <1>2 DEF Resume
<1>4. pc' \in [Request -> Places]
  BY DEF Resume, Places
<1>5. QED
  BY <1>3, <1>4 DEF Resume, Loops

(* The steps by which the innermost call of r returns. *)
Returned(r) ==
    /\ pc[r] \in {"call", "work"}
    /\ leads' = leads
    /\ \E o : Resume({r}, o)
    /\ UNCHANGED <<flights, engine, snapshot, plan, key>>

LEMMA ReturnedOne ==
    ASSUME RequestsTyped, NEW r \in Request, Returned(r)
    PROVE  /\ RequestsTyped'
           /\ pc'[r] \in {"call", "done", "store", "leave"}
           /\ pc'[r] \in {"store", "leave"} => leads'[r] # <<>>
           /\ pc'[r] = "call" => leads'[r] = <<>>
           /\ \A q \in Request \ {r} : pc'[q] = pc[q] /\ at'[q] = at[q]
<1>1. leads' = leads /\ leads' \in [Request -> Seq(CacheKey)]
  BY DEF Returned, RequestsTyped
<1>2. PICK o : Resume({r}, o)
  BY DEF Returned
<1>3. RequestsTyped'
  BY <1>1, <1>2, Resumed DEF Returned, RequestsTyped
<1>4. QED
  BY <1>1, <1>2, <1>3, Resumed

LEMMA ReturningSteps ==
    ASSUME NEW r \in Request,
           \/ RefuseWork(r) \/ FinishWork(r) \/ KeyFails(r)
           \/ \E k \in RenderedKey : Hit(r, k)
    PROVE  Returned(r)
  BY DEF RefuseWork, FinishWork, KeyFails, Hit, Return, Returned, shared

(* What every step of the specification is, for the parts of the invariant. *)
LEMMA StepCases ==
    ASSUME [Next]_vars
    PROVE  \/ \E r \in Request : \/ Begin(r) \/ StartWork(r) \/ Returned(r)
                                 \/ \E k \in RenderedKey : Miss(r, k)
                                 \/ Lead(r) \/ Join(r) \/ Store(r) \/ Leave(r)
           \/ /\ engine' \in {engine, engine + 1}
              /\ UNCHANGED <<flights, pc, snapshot, plan, step, at, key, leads>>
  BY ReturningSteps
     DEF Next, Proceed, Deadline, Disconnect, ContextEnds, Reload, Tick, vars,
         shared, localVars

LEMMA InitFlightInv == ASSUME Init PROVE FlightInv
<1>1. \A r \in Request : plan[r] \in Seq(Filter) /\ Len(plan[r]) \in Nat \ {0}
  BY PlansAreSequences DEF Init
<1>2. \A r \in Request : plan[r][1] \in Filter
  BY <1>1
<1>3. plan \in [Request -> Seq(Filter)]
  BY <1>1 DEF Init
<1>4. at \in [Request -> Filter]
  BY <1>2 DEF Init
<1>5. /\ step \in [Request -> Nat]
      /\ \A r \in Request : step[r] \in 1..Len(plan[r])
  BY <1>1 DEF Init
<1>6. key \in [Request -> CacheKey]
  <2>1. ASSUME NEW r \in Request PROVE \E ck : ck \in CacheKey
    <3>1. PICK k \in RenderedKey : TRUE
      OBVIOUS
    <3>2. KeyOf(plan[r][1], k) \in CacheKey
      BY <1>2 DEF CacheKey
    <3>3. QED
      BY <3>2
  <2>2. QED
    BY <2>1 DEF Init
<1>7. RequestsTyped
  BY <1>3, <1>4, <1>5, <1>6 DEF Init, RequestsTyped, Places
<1>8. FlightsAreLed /\ LeadsFit /\ ExecutionsDoNotOverlap
  BY DEF Init, FlightsAreLed, LeadsFit, ExecutionsDoNotOverlap
<1>9. QED
  BY <1>7, <1>8 DEF FlightInv

(* Steps that leave the flights and what is led alone. *)
LEMMA QuietFlightInv ==
    ASSUME FlightInv, NEW r \in Request,
           \/ StartWork(r) \/ Returned(r) \/ Join(r) \/ Store(r)
           \/ \E k \in RenderedKey : Miss(r, k)
    PROVE  FlightInv'
<1> USE DEF FlightInv, RequestsTyped, Places, FlightsAreLed, LeadsFit,
            ExecutionsDoNotOverlap, Flight
<1>1. CASE StartWork(r)
  BY <1>1 DEF StartWork, shared
<1>2. CASE Join(r)
  BY <1>2 DEF Join, shared
<1>3. CASE Store(r)
  BY <1>3 DEF Store
<1>4. CASE Returned(r)
  <2>1. RequestsTyped'
    BY <1>4, ReturnedOne
  <2>2. LeadsFit'
    BY <1>4, ReturnedOne DEF Returned
  <2>3. FlightsAreLed' /\ ExecutionsDoNotOverlap'
    BY <1>4 DEF Returned
  <2>4. QED
    BY <2>1, <2>2, <2>3
<1>5. ASSUME NEW k \in RenderedKey, Miss(r, k) PROVE FlightInv'
  <2>1. KeyOf(Wraps[at[r]], k) \in CacheKey
    BY <1>5, KeysOfWrapped DEF Miss
  <2>2. RequestsTyped'
    BY <1>5, <2>1 DEF Miss
  <2>3. FlightsAreLed' /\ LeadsFit' /\ ExecutionsDoNotOverlap'
    BY <1>5 DEF Miss
  <2>4. QED
    BY <2>2, <2>3
<1>6. QED
  BY <1>1, <1>2, <1>3, <1>4, <1>5

LEMMA BeginFlightInv ==
    ASSUME FlightInv, NEW r \in Request, Begin(r)
    PROVE  FlightInv'
<1> USE DEF FlightInv, RequestsTyped, Places, FlightsAreLed, LeadsFit
<1>1. RequestsTyped' /\ LeadsFit' /\ ExecutionsDoNotOverlap'
  BY DEF Begin, shared, ExecutionsDoNotOverlap
<1>2. leads[r] = <<>> /\ Len(leads[r]) = 0
  BY DEF Begin
<1>3. \A f \in flights : f.leader # r
  BY <1>2
<1>4. FlightsAreLed'
  BY <1>3 DEF Begin, shared, Flight
<1>5. QED
  BY <1>1, <1>4

LEMMA LeadFlightInv ==
    ASSUME FlightInv, NEW r \in Request, Lead(r), Kind[at[r]] = "cache"
    PROVE  FlightInv'
<1> DEFINE new == Flight(snapshot[r], key[r], r)
<1> USE DEF FlightInv, RequestsTyped, FlightsAreLed, LeadsFit
<1>1. Wraps[at[r]] \in Filter
  BY WrapsFilter
<1>2. leads' \in [Request -> Seq(CacheKey)]
  BY DEF Lead
<1>3. RequestsTyped'
  BY <1>1, <1>2 DEF Lead, Places
<1>4. LeadsFit'
  BY DEF Lead
<1>5. /\ Len(leads'[r]) = Len(leads[r]) + 1 /\ Len(leads[r]) \in Nat
      /\ leads'[r][Len(leads[r]) + 1] = key[r]
      /\ \A i \in 1..Len(leads[r]) : leads'[r][i] = leads[r][i]
  BY DEF Lead
<1>6. FlightsAreLed'
  <2> SUFFICES ASSUME NEW f \in flights'
               PROVE  /\ f.leader \in Request
                      /\ f = Flight(snapshot[f.leader], f.key, f.leader)
                      /\ \E i \in 1..Len(leads'[f.leader]) :
                             leads'[f.leader][i] = f.key
    BY DEF Lead
  <2>1. CASE f = new
    <3>1. Len(leads[r]) + 1 \in 1..Len(leads'[r])
      BY <1>5
    <3>2. f.leader = r /\ f.key = key[r] /\ f = Flight(snapshot[r], key[r], r)
      BY <2>1 DEF Flight
    <3>3. QED
      BY <1>5, <3>1, <3>2
  <2>2. CASE f \in flights /\ f.leader = r
    <3>1. PICK i \in 1..Len(leads[r]) : leads[r][i] = f.key
      BY <2>2
    <3>2. i \in 1..Len(leads'[r])
      BY <1>5
    <3>3. QED
      BY <1>5, <2>2, <3>1, <3>2
  <2>3. CASE f \in flights /\ f.leader # r
    BY <2>3 DEF Lead
  <2>4. QED
    BY <2>1, <2>2, <2>3 DEF Lead
<1>7. ASSUME NEW f \in flights
      PROVE  ~ (f.engine = new.engine /\ f.key = new.key)
  BY DEF Lead, InFlight, Flight
<1>8. ExecutionsDoNotOverlap'
  BY <1>7 DEF Lead, ExecutionsDoNotOverlap
<1>9. QED
  BY <1>3, <1>4, <1>6, <1>8

(* Front drops the last element and nothing else. *)
LEMMA FrontOfLeads ==
    ASSUME NEW s \in Seq(CacheKey), s # <<>>
    PROVE  /\ Len(s) \in Nat \ {0} /\ Last(s) = s[Len(s)]
           /\ Front(s) \in Seq(CacheKey) /\ Len(Front(s)) = Len(s) - 1
           /\ \A i \in 1..(Len(s) - 1) : Front(s)[i] = s[i]
<1> DEFINE n == Len(s) - 1
<1>1. Len(s) \in Nat \ {0} /\ n \in Nat /\ \A i \in 1..n : s[i] \in CacheKey
  OBVIOUS
<1>2. /\ SubSeq(s, 1, n) \in Seq(CacheKey)
      /\ Len(SubSeq(s, 1, n)) = IF 1 <= n THEN n - 1 + 1 ELSE 0
      /\ \A i \in 1..(n - 1 + 1) : SubSeq(s, 1, n)[i] = s[1 + i - 1]
  BY <1>1, SubSeqProperties
<1>3. Front(s) = SubSeq(s, 1, n)
  BY Zenon DEF Front
<1>4. Front(s) \in Seq(CacheKey) /\ Len(Front(s)) = n
  <2>1. (IF 1 <= n THEN n - 1 + 1 ELSE 0) = n
    <3> HIDE DEF n
    <3>1. QED
      BY <1>1
  <2>2. QED
    BY <1>2, <1>3, <2>1, Zenon
<1>5. ASSUME NEW i \in 1..n PROVE Front(s)[i] = s[i]
  <2>1. i \in 1..(n - 1 + 1) /\ 1 + i - 1 = i
    BY <1>1
  <2>2. QED
    BY <1>2, <1>3, <2>1
<1>6. QED
  BY <1>1, <1>4, <1>5 DEF Last

LEMMA LeaveFlightInv ==
    ASSUME FlightInv, NEW r \in Request, Leave(r)
    PROVE  FlightInv'
<1> DEFINE ck == Last(leads[r])
           R  == {r} \cup Waiters(snapshot[r], ck)
<1> USE DEF FlightInv, RequestsTyped, FlightsAreLed, LeadsFit
<1>1. leads[r] \in Seq(CacheKey) /\ leads[r] # <<>> /\ Len(leads[r]) \in Nat \ {0}
  BY DEF Leave
<1>2. /\ Front(leads[r]) \in Seq(CacheKey)
      /\ Len(Front(leads[r])) = Len(leads[r]) - 1
      /\ \A i \in 1..(Len(leads[r]) - 1) : Front(leads[r])[i] = leads[r][i]
  BY <1>1, FrontOfLeads
<1>3. leads' \in [Request -> Seq(CacheKey)]
  BY <1>2 DEF Leave
<1>4. R \in SUBSET Request /\ Resume(R, result[r])
  BY DEF Leave, Waiters
<1>5. RequestsTyped'
  BY <1>3, <1>4, Resumed DEF Leave
<1>6. LeadsFit'
  <2> SUFFICES ASSUME NEW q \in Request
               PROVE  /\ pc'[q] = "idle" => leads'[q] = <<>>
                      /\ pc'[q] \in {"store", "leave"} => leads'[q] # <<>>
    OBVIOUS
  <2>1. CASE q \in R
    BY <1>3, <1>4, <2>1, Resumed
  <2>2. CASE q \notin R
    <3>1. pc'[q] = pc[q]
      BY <1>3, <1>4, <2>2, Resumed
    <3>2. leads'[q] = leads[q]
      BY <2>2 DEF Leave
    <3>3. QED
      BY <3>1, <3>2
  <2>3. QED
    BY <2>1, <2>2
<1>7. FlightsAreLed'
  <2> SUFFICES ASSUME NEW f \in flights, f # Flight(snapshot[r], ck, r)
               PROVE  \E i \in 1..Len(leads'[f.leader]) :
                          leads'[f.leader][i] = f.key
    BY DEF Leave
  <2>1. PICK i \in 1..Len(leads[f.leader]) : leads[f.leader][i] = f.key
    OBVIOUS
  <2>2. CASE f.leader = r
    <3>1. f.key # ck
      BY <2>2
    <3>2. i \in 1..(Len(leads[r]) - 1)
      BY <1>1, <2>1, <2>2, <3>1 DEF Last
    <3>3. QED
      BY <1>2, <2>1, <2>2, <3>2 DEF Leave
  <2>3. CASE f.leader # r
    BY <2>1, <2>3 DEF Leave
  <2>4. QED
    BY <2>2, <2>3
<1>8. ExecutionsDoNotOverlap'
  BY DEF Leave, ExecutionsDoNotOverlap
<1>9. QED
  BY <1>5, <1>6, <1>7, <1>8

-----------------------------------------------------------------------------
(* A key that is looked up, or waited for, was made by Miss. *)
LEMMA KeyStep ==
    ASSUME ExecutionInv, NEW r \in Request,
           \/ Begin(r) \/ StartWork(r) \/ Returned(r)
           \/ \E k \in RenderedKey : Miss(r, k)
           \/ Lead(r) \/ Join(r) \/ Store(r) \/ Leave(r)
    PROVE  KeyIsOfWrapped'
<1> SUFFICES ASSUME NEW q \in Request, pc'[q] \in {"enter", "wait"}
             PROVE  Kind[at'[q]] = "cache" /\ KeyFor(key'[q], Wraps[at'[q]])
  BY DEF KeyIsOfWrapped
<1> USE DEF ExecutionInv, FlightInv, RequestsTyped, KeyIsOfWrapped
<1>1. CASE Begin(r) \/ StartWork(r) \/ Lead(r) \/ Join(r) \/ Store(r)
  BY <1>1 DEF Begin, StartWork, Lead, Join, Store, shared
<1>2. ASSUME NEW k \in RenderedKey, Miss(r, k)
      PROVE  Kind[at'[q]] = "cache" /\ KeyFor(key'[q], Wraps[at'[q]])
  BY <1>2, KeysOfWrapped DEF Miss
<1>3. CASE Returned(r)
  <2>1. q # r /\ pc'[q] = pc[q] /\ at'[q] = at[q]
    BY <1>3, ReturnedOne
  <2>2. QED
    BY <1>3, <2>1 DEF Returned
<1>4. CASE Leave(r)
  <2> DEFINE R == {r} \cup Waiters(snapshot[r], Last(leads[r]))
  <2>1. key' = key /\ R \in SUBSET Request /\ Resume(R, result[r])
    BY <1>4 DEF Leave, Waiters
  <2>2. leads' \in [Request -> Seq(CacheKey)]
    BY <1>4, LeaveFlightInv
  <2>3. q \notin R /\ pc'[q] = pc[q] /\ at'[q] = at[q]
    BY <2>1, <2>2, Resumed
  <2>4. QED
    BY <2>1, <2>3
<1>5. QED
  BY <1>1, <1>2, <1>3, <1>4

LEMMA ExecutionStepInv == ExecutionInv /\ [Next]_vars => ExecutionInv'
<1> SUFFICES ASSUME ExecutionInv, [Next]_vars PROVE ExecutionInv'
  OBVIOUS
<1>1. ASSUME NEW r \in Request,
             \/ Begin(r) \/ StartWork(r) \/ Returned(r)
             \/ \E k \in RenderedKey : Miss(r, k)
             \/ Lead(r) \/ Join(r) \/ Store(r) \/ Leave(r)
      PROVE  ExecutionInv'
  <2>1. CASE Lead(r)
    <3>1. Kind[at[r]] = "cache"
      BY <2>1 DEF Lead, ExecutionInv, KeyIsOfWrapped
    <3>2. QED
      BY <2>1, <3>1, KeyStep, LeadFlightInv DEF ExecutionInv
  <2>2. CASE ~ Lead(r)
    BY <1>1, <2>2, KeyStep, QuietFlightInv, BeginFlightInv, LeaveFlightInv
       DEF ExecutionInv
  <2>3. QED
    BY <2>1, <2>2
<1>2. CASE /\ engine' \in {engine, engine + 1}
           /\ UNCHANGED <<flights, pc, snapshot, plan, step, at, key, leads>>
  BY <1>2 DEF ExecutionInv, FlightInv, RequestsTyped, FlightsAreLed, LeadsFit,
              ExecutionsDoNotOverlap, KeyIsOfWrapped, Flight
<1>3. QED
  BY <1>1, <1>2, StepCases

LEMMA ExecutionInvariant == Spec => []ExecutionInv
<1>1. Init => ExecutionInv
  BY InitFlightInv DEF ExecutionInv, KeyIsOfWrapped, Init
<1>2. QED
  BY <1>1, ExecutionStepInv, PTL DEF Spec

(* SPEC.md "collapsed into a single execution", for calls that overlap: any
   number of requests, nested caches and reloads. *)
THEOREM OneExecutionAtATime == Spec => []ExecutionsDoNotOverlap
<1>1. ExecutionInv => ExecutionsDoNotOverlap
  BY DEF ExecutionInv, FlightInv
<1>2. QED
  BY <1>1, ExecutionInvariant, PTL

-----------------------------------------------------------------------------
(* In a layered configuration the calls of a goroutine go down: each step. *)
LEMMA CallsNestStep ==
    ASSUME NEW Under, Layered(Under), ExecutionInv, CallsNest(Under),
           NEW r \in Request,
           \/ Begin(r) \/ StartWork(r) \/ Returned(r)
           \/ \E k \in RenderedKey : Miss(r, k)
           \/ Lead(r) \/ Join(r) \/ Store(r) \/ Leave(r)
    PROVE  CallsNest(Under)'
<1> SUFFICES ASSUME NEW q \in Request,
                    pc'[q] \in {"call", "work", "enter", "wait"},
                    NEW i \in 1..Len(leads'[q])
             PROVE  Inside(Under, at'[q], leads'[q][i])
  BY DEF CallsNest, Inside
<1> USE DEF ExecutionInv, FlightInv, RequestsTyped, CallsNest
<1>1. CASE Begin(r)
  <2>1. leads[r] = <<>> /\ leads' = leads
    BY <1>1 DEF Begin, LeadsFit
  <2>2. q # r
    BY <2>1
  <2>3. QED
    BY <1>1, <2>1, <2>2 DEF Begin
<1>2. CASE StartWork(r) \/ Join(r) \/ Store(r)
  BY <1>2 DEF StartWork, Join, Store, shared
<1>3. ASSUME NEW k \in RenderedKey, Miss(r, k)
      PROVE  Inside(Under, at'[q], leads'[q][i])
  BY <1>3 DEF Miss
<1>4. CASE Lead(r)
  <2>1. CASE q # r
    BY <1>4, <2>1 DEF Lead
  <2>2. CASE q = r
    <3>1. /\ at'[r] = Wraps[at[r]] /\ KeyFor(key[r], Wraps[at[r]])
          /\ Kind[at[r]] = "cache" /\ Wraps[at[r]] \in Filter
          /\ <<Wraps[at[r]], at[r]>> \in Under
      BY <1>4, WrapsFilter DEF Lead, KeyIsOfWrapped, Layered
    <3>2. /\ leads[r] \in Seq(CacheKey) /\ Len(leads[r]) \in Nat
          /\ leads'[r] = Append(leads[r], key[r])
          /\ Len(leads'[r]) = Len(leads[r]) + 1
      BY <1>4 DEF Lead
    <3>3. CASE i = Len(leads[r]) + 1
      <4>1. leads'[r][i] = key[r]
        BY <3>2, <3>3
      <4>2. QED
        BY <2>2, <3>1, <4>1 DEF Inside, KeyFor
    <3>4. CASE i \in 1..Len(leads[r])
      <4>1. leads'[r][i] = leads[r][i]
        BY <3>2, <3>4
      <4>2. PICK h \in Wrapped : /\ KeyFor(leads[r][i], h)
                                 /\ at[r] = h \/ <<at[r], h>> \in Under
        BY <1>4, <3>4 DEF Lead, Inside
      <4>3. <<at'[r], h>> \in Under
        BY <3>1, <4>2, WrappedAreFilters DEF Layered
      <4>4. QED
        BY <2>2, <4>1, <4>2, <4>3 DEF Inside
    <3>5. i = Len(leads[r]) + 1 \/ i \in 1..Len(leads[r])
      BY <2>2, <3>2
    <3>6. QED
      BY <3>3, <3>4, <3>5
  <2>3. QED
    BY <2>1, <2>2
<1>5. CASE Returned(r)
  <2>1. q # r
    <3> SUFFICES ASSUME q = r PROVE FALSE
      OBVIOUS
    <3>1. pc'[r] = "call" /\ leads'[r] = <<>>
      BY <1>5, ReturnedOne
    <3>2. Len(leads'[r]) = 0
      BY <3>1
    <3>3. QED
      BY <3>2
  <2>2. pc'[q] = pc[q] /\ at'[q] = at[q]
    BY <1>5, <2>1, ReturnedOne
  <2>3. QED
    BY <1>5, <2>2 DEF Returned
<1>6. CASE Leave(r)
  <2> DEFINE R == {r} \cup Waiters(snapshot[r], Last(leads[r]))
  <2>1. R \in SUBSET Request /\ Resume(R, result[r])
    BY <1>6 DEF Leave, Waiters
  <2>2. leads' \in [Request -> Seq(CacheKey)]
    BY <1>6, LeaveFlightInv
  <2>3. q \notin R
    <3> SUFFICES ASSUME q \in R PROVE FALSE
      OBVIOUS
    <3>1. pc'[q] \in {"call", "done", "store", "leave"}
          /\ (pc'[q] = "call" => leads'[q] = <<>>)
      BY <2>1, <2>2, Resumed
    <3>2. leads'[q] = <<>> /\ Len(leads'[q]) = 0
      BY <3>1
    <3>3. QED
      BY <3>2
  <2>4. pc'[q] = pc[q] /\ at'[q] = at[q]
    BY <2>1, <2>2, <2>3, Resumed
  <2>5. leads'[q] = leads[q]
    BY <1>6, <2>3 DEF Leave
  <2>6. QED
    BY <2>4, <2>5
<1>7. QED
  BY <1>1, <1>2, <1>3, <1>4, <1>5, <1>6

(* What is under a filter is another filter. *)
LEMMA NotUnderItself ==
    ASSUME NEW Under, Layered(Under), NEW f \in Filter
    PROVE  <<f, f>> \notin Under
<1>1. {f} \in SUBSET Filter /\ {f} # {}
  OBVIOUS
<1>2. \E h \in {f} : \A m \in {f} : <<m, h>> \notin Under
  BY <1>1 DEF Layered
<1>3. QED
  BY <1>2

(* A request about to join a call is not the one that leads it. *)
LEMMA JoinsAnother ==
    ASSUME KeysAreUnambiguous, NEW Under, Layered(Under), ExecutionInv,
           CallsNest(Under), NEW r \in Request, pc[r] = "enter"
    PROVE  Flight(snapshot[r], key[r], r) \notin flights
<1> SUFFICES ASSUME Flight(snapshot[r], key[r], r) \in flights PROVE FALSE
  OBVIOUS
<1> USE DEF ExecutionInv, FlightInv, RequestsTyped
<1>1. PICK i \in 1..Len(leads[r]) : leads[r][i] = key[r]
  BY DEF FlightsAreLed, Flight
<1>2. /\ at[r] \in Filter /\ KeyFor(key[r], Wraps[at[r]])
      /\ Wraps[at[r]] \in Filter /\ <<Wraps[at[r]], at[r]>> \in Under
  BY WrapsFilter DEF KeyIsOfWrapped, Layered
<1>3. at[r] = Wraps[at[r]] \/ <<at[r], Wraps[at[r]]>> \in Under
  BY <1>1, <1>2, OneFilter DEF CallsNest, Inside
<1>4. <<at[r], at[r]>> \in Under
  BY <1>2, <1>3 DEF Layered
<1>5. QED
  BY <1>2, <1>4, NotUnderItself

(* Leave wakes all who wait for the call it drops. *)
LEMMA LeaveWakesAll ==
    ASSUME ExecutionInv, NobodyWaitsInVain, NEW r \in Request, Leave(r)
    PROVE  NobodyWaitsInVain'
<1> DEFINE ck == Last(leads[r])
           R  == {r} \cup Waiters(snapshot[r], ck)
<1> SUFFICES ASSUME NEW q \in Request, pc'[q] = "wait"
             PROVE  \E l \in Request \ {q} :
                        Flight(snapshot'[q], key'[q], l) \in flights'
  BY DEF NobodyWaitsInVain
<1> USE DEF ExecutionInv, FlightInv, RequestsTyped
<1>1. R \in SUBSET Request /\ Resume(R, result[r])
  BY DEF Leave, Waiters
<1>2. leads' \in [Request -> Seq(CacheKey)]
  BY LeaveFlightInv
<1>3. q \notin R
  BY <1>1, <1>2, Resumed
<1>4. pc[q] = "wait"
  BY <1>1, <1>2, <1>3, Resumed
<1>5. PICK l \in Request \ {q} : Flight(snapshot[q], key[q], l) \in flights
  BY <1>4 DEF NobodyWaitsInVain
<1>6. Flight(snapshot[q], key[q], l) # Flight(snapshot[r], ck, r)
  BY <1>3, <1>4 DEF Waiters, Flight
<1>7. QED
  BY <1>5, <1>6 DEF Leave

LEMMA WaitStepInv ==
    ASSUME KeysAreUnambiguous, NEW Under, Layered(Under)
    PROVE  ExecutionInv /\ WaitInv(Under) /\ [Next]_vars => WaitInv(Under)'
<1> SUFFICES ASSUME ExecutionInv, WaitInv(Under), [Next]_vars
             PROVE  WaitInv(Under)'
  OBVIOUS
<1>1. ASSUME NEW r \in Request,
             \/ Begin(r) \/ StartWork(r) \/ Returned(r)
             \/ \E k \in RenderedKey : Miss(r, k)
             \/ Lead(r) \/ Join(r) \/ Store(r) \/ Leave(r)
      PROVE  WaitInv(Under)'
  <2> USE DEF ExecutionInv, FlightInv, RequestsTyped
  <2>1. CallsNest(Under)'
    BY <1>1, CallsNestStep DEF WaitInv
  <2>2. CASE Begin(r) \/ StartWork(r) \/ Lead(r) \/ Store(r)
    <3> SUFFICES ASSUME NEW q \in Request, pc'[q] = "wait"
                 PROVE  \E l \in Request \ {q} :
                            Flight(snapshot'[q], key'[q], l) \in flights'
      BY <2>1 DEF WaitInv, NobodyWaitsInVain
    <3>1. flights \subseteq flights' /\ key' = key
      BY <2>2 DEF Begin, StartWork, Lead, Store, shared
    <3>2. pc[q] = "wait" /\ snapshot'[q] = snapshot[q]
      BY <2>2 DEF Begin, StartWork, Lead, Store
    <3>3. PICK l \in Request \ {q} : Flight(snapshot[q], key[q], l) \in flights
      BY <3>2 DEF WaitInv, NobodyWaitsInVain
    <3>4. QED
      BY <3>1, <3>2, <3>3
  <2>3. ASSUME NEW k \in RenderedKey, Miss(r, k) PROVE WaitInv(Under)'
    BY <2>1, <2>3 DEF WaitInv, NobodyWaitsInVain, Miss
  <2>4. CASE Returned(r)
    <3>1. pc'[r] # "wait" /\ \A q \in Request \ {r} : pc'[q] = pc[q]
      BY <2>4, ReturnedOne
    <3>2. QED
      BY <2>1, <2>4, <3>1 DEF WaitInv, NobodyWaitsInVain, Returned
  <2>5. CASE Join(r)
    <3>1. PICK l \in Request : Flight(snapshot[r], key[r], l) \in flights
      BY <2>5 DEF Join, InFlight
    <3>2. l # r
      BY <2>5, <3>1, JoinsAnother DEF Join, WaitInv
    <3>3. QED
      BY <2>1, <2>5, <3>1, <3>2 DEF WaitInv, NobodyWaitsInVain, Join, shared
  <2>6. CASE Leave(r)
    BY <2>1, <2>6, LeaveWakesAll DEF WaitInv
  <2>7. QED
    BY <1>1, <2>2, <2>3, <2>4, <2>5, <2>6
<1>2. CASE UNCHANGED <<flights, pc, snapshot, plan, step, at, key, leads>>
  BY <1>2 DEF WaitInv, CallsNest, Inside, NobodyWaitsInVain
<1>3. QED
  BY <1>1, <1>2, StepCases

LEMMA WaitInvariant ==
    ASSUME KeysAreUnambiguous, NEW Under, Layered(Under)
    PROVE  Spec => [](ExecutionInv /\ WaitInv(Under))
<1>1. Init => WaitInv(Under)
  BY DEF Init, WaitInv, CallsNest, NobodyWaitsInVain
<1>2. QED
  BY <1>1, WaitStepInv, ExecutionInvariant, PTL DEF Spec

-----------------------------------------------------------------------------
(* No wake-up is lost, however requests, nested caches, failures, deadlines
   and reloads interleave, if no key is for two filters and no cache wraps
   itself through others. *)
THEOREM NoLostWakeUp ==
    ASSUME KeysAreUnambiguous, NEW CONSTANT Under, Layered(Under)
    PROVE  Spec => []NobodyWaitsInVain
<1>1. WaitInv(Under) => NobodyWaitsInVain
  BY DEF WaitInv
<1>2. QED
  BY <1>1, WaitInvariant, PTL

(* And nobody waits in a circle, under the same two conditions: of those who
   wait, take one for a key whose filter is lowest; who leads it, if it
   waited, would wait for a lower one. *)
THEOREM NoDeadlock ==
    ASSUME KeysAreUnambiguous, NEW CONSTANT Under, Layered(Under)
    PROVE  Spec => []NoWaitCycle
<1>1. ExecutionInv /\ WaitInv(Under) => NoWaitCycle
  <2> SUFFICES ASSUME ExecutionInv, WaitInv(Under),
                      NEW S \in SUBSET {q \in Request : pc[q] = "wait"}, S # {}
               PROVE  \E q \in S : \A r \in S :
                          Flight(snapshot[q], key[q], r) \notin flights
    BY DEF NoWaitCycle
  <2> USE DEF ExecutionInv, FlightInv, RequestsTyped, WaitInv
  <2> DEFINE T == {Wraps[at[q]] : q \in S}
  <2>1. ASSUME NEW q \in S
        PROVE  /\ Wraps[at[q]] \in Filter /\ <<Wraps[at[q]], at[q]>> \in Under
               /\ at[q] \in Filter /\ KeyFor(key[q], Wraps[at[q]])
    BY WrapsFilter DEF KeyIsOfWrapped, Layered
  <2>2. T \in SUBSET Filter /\ T # {}
    <3>1. ASSUME NEW f \in T PROVE f \in Filter
      <4>1. PICK q \in S : f = Wraps[at[q]]
        OBVIOUS
      <4>2. QED
        BY <2>1, <4>1
    <3>2. PICK q \in S : TRUE
      OBVIOUS
    <3>3. Wraps[at[q]] \in T
      BY <3>2
    <3>4. QED
      BY <3>1, <3>3, Zenon
  <2>3. PICK f \in T : \A h \in T : <<h, f>> \notin Under
    BY <2>2 DEF Layered
  <2>4. PICK q \in S : Wraps[at[q]] = f
    BY <2>3
  <2>5. ASSUME NEW r \in S, Flight(snapshot[q], key[q], r) \in flights
        PROVE  FALSE
    <3>1. PICK i \in 1..Len(leads[r]) : leads[r][i] = key[q]
      BY <2>5 DEF FlightsAreLed, Flight
    <3>2. PICK h \in Wrapped : /\ KeyFor(key[q], h)
                               /\ at[r] = h \/ <<at[r], h>> \in Under
      BY <3>1 DEF CallsNest, Inside
    <3>3. h = f
      BY <2>1, <2>4, <3>2, OneFilter
    <3>4. <<Wraps[at[r]], f>> \in Under
      BY <2>1, <2>2, <2>3, <3>2, <3>3 DEF Layered
    <3>5. QED
      BY <2>3, <3>4
  <2>6. QED
    BY <2>5
<1>2. QED
  BY <1>1, WaitInvariant, PTL
-----------------------------------------------------------------------------
(***************************************************************************)
(* What the cache holds and what calls return.                             *)
(***************************************************************************)
WorkIsNotCache ==
    \A r \in Request : pc[r] = "work" => Kind[at[r]] # "cache"

(* The cache holds values only, and a function that is about to store has
   one. *)
DataTyped ==
    /\ ctx \in [Request -> {"live", "deadline", "canceled"}]
    /\ result \in [Request -> Outcome]
    /\ DOMAIN entries \subseteq CacheKey
    /\ \A k \in DOMAIN entries : entries[k].value \in Value
    /\ \A r \in Request : pc[r] = "store" => result[r].form \notin Failure
    /\ WorkIsNotCache

DataInv == ExecutionInv /\ DataTyped

(* What the innermost call of r may return: something made by the filter it
   was called with, or a value of the cache. *)
MadeHere(r, o) ==
    /\ o.from = at[r]
    /\ o.form \in {"deadline", "canceled"} => o.form = ctx[r]
    /\ o.form \notin Failure => Kind[at[r]] # "cache"

FromCache(r, o) ==
    /\ Kind[at[r]] = "cache"
    /\ \E k \in RenderedKey : /\ KeyOf(Wraps[at[r]], k) \in DOMAIN entries
                              /\ o = entries[KeyOf(Wraps[at[r]], k)].value

Returns(r, o) ==
    /\ pc[r] \in {"call", "work"}
    /\ leads' = leads
    /\ o \in Outcome
    /\ MadeHere(r, o) \/ FromCache(r, o)
    /\ Resume({r}, o)
    /\ UNCHANGED <<entries, engine, flights, ctx, snapshot, plan, key, followed>>

LEMMA ReturnsWhat ==
    ASSUME DataInv, NEW r \in Request,
           \/ RefuseWork(r) \/ FinishWork(r) \/ KeyFails(r)
           \/ \E k \in RenderedKey : Hit(r, k)
    PROVE  \E o : Returns(r, o)
<1> USE DEF DataInv, ExecutionInv, FlightInv, RequestsTyped, DataTyped, Returns, shared
<1>1. at[r] \in Filter /\ ctx[r] \in {"live", "deadline", "canceled"}
  OBVIOUS
<1>2. ASSUME NEW form \in Form \cup Failure, Return(r, form),
             pc[r] \in {"call", "work"},
             form \in {"deadline", "canceled"} => form = ctx[r],
             form \notin Failure => Kind[at[r]] # "cache",
             UNCHANGED <<entries, engine, flights, ctx, snapshot, plan, key, followed>>
      PROVE  \E o : Returns(r, o)
  <2> DEFINE o == [from |-> at[r], form |-> form]
  <2>1. o \in Outcome /\ o.from = at[r] /\ o.form = form
    BY <1>1 DEF Outcome
  <2>2. leads' = leads /\ Resume({r}, o)
    BY <1>2 DEF Return
  <2>3. MadeHere(r, o)
    BY <1>2, <2>1 DEF MadeHere
  <2>4. Returns(r, o)
    BY <1>2, <2>1, <2>2, <2>3
  <2>5. QED
    BY <2>4
<1>3. CASE RefuseWork(r)
  <2>1. ctx[r] \in Form \cup Failure /\ "timedout" \in Form /\ "failed" \in Failure
    BY <1>1, <1>3 DEF RefuseWork, Form, Failure
  <2>2. Kind[at[r]] # "cache"
    BY <1>3 DEF RefuseWork
  <2>3. QED
    BY <1>2, <1>3, <2>1, <2>2 DEF RefuseWork
<1>4. CASE FinishWork(r)
  <2>1. PICK form \in WorkForms(r) : Return(r, form)
    BY <1>4 DEF FinishWork
  <2>2. form \in Form \cup Failure
    BY <1>1, <2>1 DEF WorkForms, Form, Failure
  <2>3. form \in {"deadline", "canceled"} => form = ctx[r]
    BY <1>1, <2>1 DEF WorkForms
  <2>4. Kind[at[r]] # "cache"
    BY <1>4 DEF FinishWork, WorkIsNotCache
  <2>5. QED
    BY <1>2, <1>4, <2>1, <2>2, <2>3, <2>4 DEF FinishWork
<1>5. CASE KeyFails(r)
  BY <1>2, <1>5 DEF KeyFails, Failure
<1>6. ASSUME NEW k \in RenderedKey, Hit(r, k) PROVE \E o : Returns(r, o)
  <2> DEFINE ck == KeyOf(Wraps[at[r]], k)
             o  == entries[ck].value
  <2>1. ck \in DOMAIN entries /\ entries' = entries /\ Resume({r}, o)
    BY <1>6 DEF Hit, Cache!GetHit
  <2>2. o \in Outcome
    BY <2>1 DEF Value, Outcome
  <2>3. FromCache(r, o)
    BY <1>6, <2>1 DEF Hit, FromCache
  <2>4. Returns(r, o)
    BY <1>6, <2>1, <2>2, <2>3 DEF Hit
  <2>5. QED
    BY <2>4
<1>7. QED
  BY <1>3, <1>4, <1>5, <1>6

(* What every step is, for the data. *)
LEMMA DataCases ==
    ASSUME DataInv, [Next]_vars
    PROVE  \/ \E r \in Request :
                 \/ Begin(r) \/ StartWork(r) \/ (\E o : Returns(r, o))
                 \/ \E k \in RenderedKey : Miss(r, k)
                 \/ Lead(r) \/ Join(r) \/ Store(r) \/ Leave(r)
                 \/ \E why \in {"deadline", "canceled"} : ContextEnds(r, why)
           \/ /\ engine' = engine \/ (engine < MaxReloads /\ engine' = engine + 1)
              /\ UNCHANGED <<entries, flights, localVars>>
<1>1. CASE Reload \/ Tick \/ UNCHANGED vars
  BY <1>1 DEF Reload, Tick, Cache!Tick, vars, shared
<1>2. ASSUME NEW r \in Request,
             \/ Begin(r) \/ Proceed(r) \/ FinishWork(r)
             \/ Deadline(r) \/ Disconnect(r)
      PROVE  \/ Begin(r) \/ StartWork(r) \/ (\E o : Returns(r, o))
             \/ \E k \in RenderedKey : Miss(r, k)
             \/ Lead(r) \/ Join(r) \/ Store(r) \/ Leave(r)
             \/ \E why \in {"deadline", "canceled"} : ContextEnds(r, why)
  BY <1>2, ReturnsWhat DEF Proceed, Deadline, Disconnect
<1>3. QED
  BY <1>1, <1>2 DEF Next

(* A miss may drop the entry; a store adds one, and may evict others. *)
LEMMA MissEntries ==
    ASSUME NEW r, NEW k, Miss(r, k)
    PROVE  \A l \in DOMAIN entries' : l \in DOMAIN entries /\ entries'[l] = entries[l]
  BY DEF Miss, Cache!GetMiss, Cache!GetExpired, Cache!cacheVars

LEMMA StoreEntries ==
    ASSUME NEW r, Store(r)
    PROVE  \A l \in DOMAIN entries' :
               \/ l = Last(leads[r]) /\ entries'[l].value = result[r]
               \/ l \in DOMAIN entries /\ entries'[l] = entries[l]
<1>1. PICK ttl \in TTL : Cache!Set(Last(leads[r]), ttl, result[r])
  BY DEF Store
<1>2. QED
  BY <1>1 DEF Cache!Set, Cache!Update, Cache!Insert

(* What Resume leaves alone, and where it leads. *)
LEMMA ResumeFacts ==
    ASSUME NEW R \in SUBSET Request, NEW o, Resume(R, o), step \in [Request -> Nat],
           at \in [Request -> Filter]
    PROVE  /\ \A r \in Request \ R :
                 /\ pc'[r] = pc[r] /\ result'[r] = result[r]
                 /\ step'[r] = step[r] /\ at'[r] = at[r]
           /\ \A r \in R :
                 /\ result'[r] = o
                 /\ pc'[r] \in {"call", "done", "store", "leave"}
                 /\ pc'[r] = "call" =>
                        /\ leads'[r] = <<>> /\ ~ Ends(r, o)
                        /\ step'[r] = step[r] + 1 /\ at'[r] = plan[r][step'[r]]
                 /\ pc'[r] # "call" => step'[r] = step[r] /\ at'[r] = at[r]
                 /\ pc'[r] = "done" => leads'[r] = <<>> /\ Ends(r, o)
                 /\ pc'[r] = "store" => o.form \notin Failure
                 /\ pc'[r] \in {"store", "leave"} => leads'[r] # <<>>
  BY DEF Resume, Loops

(* Those a Leave of r gives the result to. *)
Served(r) == {r} \cup Waiters(snapshot[r], Last(leads[r]))

LEMMA LeaveResumes ==
    ASSUME NEW r \in Request, Leave(r)
    PROVE  Served(r) \in SUBSET Request /\ Resume(Served(r), result[r])
  BY DEF Leave, Waiters, Served

LEMMA DataTypedStep == DataInv /\ [Next]_vars => DataTyped'
<1> SUFFICES ASSUME DataInv, [Next]_vars PROVE DataTyped'
  OBVIOUS
<1> USE DEF DataInv, ExecutionInv, FlightInv, RequestsTyped, DataTyped, WorkIsNotCache
<1>1. ASSUME NEW r \in Request, Begin(r) \/ Lead(r) \/ Join(r) PROVE DataTyped'
  BY <1>1 DEF Begin, Lead, Join, shared
<1>2. ASSUME NEW r \in Request, StartWork(r) PROVE DataTyped'
  BY <1>2 DEF StartWork, shared
<1>3. ASSUME NEW r \in Request, NEW o, Returns(r, o) PROVE DataTyped'
  <2>1. result' \in [Request -> Outcome]
    BY <1>3 DEF Returns, Resume
  <2>2. \A q \in Request : pc'[q] = "store" => result'[q].form \notin Failure
    BY <1>3, ResumeFacts DEF Returns
  <2>3. WorkIsNotCache'
    <3> SUFFICES ASSUME NEW q \in Request, pc'[q] = "work"
                 PROVE  Kind[at'[q]] # "cache"
      OBVIOUS
    <3>1. q # r /\ pc'[q] = pc[q] /\ at'[q] = at[q]
      BY <1>3, ResumeFacts DEF Returns
    <3>2. QED
      BY <3>1
  <2>4. UNCHANGED <<entries, ctx>>
    BY <1>3 DEF Returns
  <2>5. QED
    BY <2>1, <2>2, <2>3, <2>4
<1>4. ASSUME NEW r \in Request, NEW k \in RenderedKey, Miss(r, k) PROVE DataTyped'
  <2>1. UNCHANGED <<ctx, result, at>> /\ pc' = [pc EXCEPT ![r] = "enter"]
    BY <1>4 DEF Miss
  <2>2. /\ DOMAIN entries' \subseteq CacheKey
        /\ \A l \in DOMAIN entries' : entries'[l].value \in Value
    BY <1>4, MissEntries
  <2>3. QED
    BY <2>1, <2>2
<1>5. ASSUME NEW r \in Request, Store(r) PROVE DataTyped'
  <2>1. UNCHANGED <<ctx, result, at>> /\ pc' = [pc EXCEPT ![r] = "leave"]
    BY <1>5 DEF Store
  <2>2. Last(leads[r]) \in CacheKey
    BY <1>5 DEF Store, LeadsFit, Last
  <2>3. result[r] \in Value
    BY <1>5 DEF Store, Outcome, Value
  <2>4. /\ DOMAIN entries' \subseteq CacheKey
        /\ \A l \in DOMAIN entries' : entries'[l].value \in Value
    <3> SUFFICES ASSUME NEW l \in DOMAIN entries'
                 PROVE  l \in CacheKey /\ entries'[l].value \in Value
      OBVIOUS
    <3>1. \/ l = Last(leads[r]) /\ entries'[l].value = result[r]
          \/ l \in DOMAIN entries /\ entries'[l] = entries[l]
      BY <1>5, StoreEntries
    <3>2. QED
      BY <2>2, <2>3, <3>1
  <2>5. QED
    BY <2>1, <2>4
<1>6. ASSUME NEW r \in Request, Leave(r) PROVE DataTyped'
  <2>1. UNCHANGED <<ctx, entries>>
    BY <1>6 DEF Leave
  <2>2. result' \in [Request -> Outcome]
    BY <1>6 DEF Leave, Resume
  <2>3. \A q \in Request : pc'[q] = "store" => result'[q].form \notin Failure
    BY <1>6, LeaveResumes, ResumeFacts
  <2>4. WorkIsNotCache'
    <3> SUFFICES ASSUME NEW q \in Request, pc'[q] = "work"
                 PROVE  Kind[at'[q]] # "cache"
      OBVIOUS
    <3>1. pc'[q] = pc[q] /\ at'[q] = at[q]
      BY <1>6, LeaveResumes, ResumeFacts
    <3>2. QED
      BY <3>1
  <2>5. QED
    BY <2>1, <2>2, <2>3, <2>4
<1>7. ASSUME NEW r \in Request, NEW why \in {"deadline", "canceled"},
             ContextEnds(r, why)
      PROVE  DataTyped'
  BY <1>7 DEF ContextEnds, shared
<1>8. CASE UNCHANGED <<entries, flights, localVars>>
  BY <1>8 DEF localVars
<1>9. QED
  BY <1>1, <1>2, <1>3, <1>4, <1>5, <1>6, <1>7, <1>8, DataCases

LEMMA DataInvariant == Spec => []DataInv
<1>1. Init => DataTyped
  <2> SUFFICES ASSUME Init PROVE DataTyped
    OBVIOUS
  <2>1. at \in [Request -> Filter]
    BY InitFlightInv DEF FlightInv, RequestsTyped
  <2>2. result \in [Request -> Outcome]
    BY <2>1 DEF Init, Outcome, Failure
  <2>3. QED
    BY <2>2 DEF Init, DataTyped, WorkIsNotCache, Cache!CacheInit
<1>2. QED
  BY <1>1, DataTypedStep, ExecutionInvariant, PTL DEF Spec, DataInv

-----------------------------------------------------------------------------
(***************************************************************************)
(* Who leads: what a request is inside of is registered, once per key.     *)
(***************************************************************************)
LeadsRegistered ==
    /\ \A r \in Request : \A i \in 1..Len(leads[r]) :
           Flight(snapshot[r], leads[r][i], r) \in flights
    /\ \A r \in Request : \A i, j \in 1..Len(leads[r]) :
           leads[r][i] = leads[r][j] => i = j

EnginesTyped ==
    /\ engine \in 0..MaxReloads
    /\ snapshot \in [Request -> 0..MaxReloads]
    /\ plan \in [Request -> Plans]
    /\ followed \in [Request -> SUBSET Request]

RegisterInv == LeadsRegistered /\ EnginesTyped

LEMMA LeadsRegisteredStep ==
    ASSUME DataInv, LeadsRegistered, [Next]_vars
    PROVE  LeadsRegistered'
<1> USE DEF LeadsRegistered
<1>0. /\ leads \in [Request -> Seq(CacheKey)] /\ snapshot \in [Request -> Nat]
      /\ \A r \in Request : pc[r] = "idle" => leads[r] = <<>>
      /\ \A r \in Request : pc[r] = "leave" => leads[r] # <<>>
  BY DEF DataInv, ExecutionInv, FlightInv, RequestsTyped, LeadsFit
<1>1. ASSUME NEW r \in Request,
             \/ Begin(r) \/ Join(r) \/ StartWork(r) \/ (\E o : Returns(r, o))
             \/ \E k \in RenderedKey : Miss(r, k)
             \/ Store(r)
             \/ \E why \in {"deadline", "canceled"} : ContextEnds(r, why)
      PROVE  LeadsRegistered'
  <2>1. leads' = leads /\ flights' = flights
    BY <1>1 DEF Begin, Join, StartWork, Returns, Miss, Store, ContextEnds, shared
  <2>2. snapshot' = snapshot \/ (Begin(r) /\ snapshot' = [snapshot EXCEPT ![r] = engine])
    BY <1>1 DEF Begin, Join, StartWork, Returns, Miss, Store, ContextEnds, shared
  <2>3. Begin(r) => leads[r] = <<>> /\ Len(leads[r]) = 0
    BY <1>0 DEF Begin
  <2>4. ASSUME NEW q \in Request, NEW i \in 1..Len(leads[q])
        PROVE  snapshot'[q] = snapshot[q]
    BY <1>0, <2>2, <2>3
  <2>5. QED
    BY <2>1, <2>4
<1>2. ASSUME NEW r \in Request, Lead(r) PROVE LeadsRegistered'
  <2>1. /\ snapshot' = snapshot /\ flights' = flights \cup {Flight(snapshot[r], key[r], r)}
        /\ leads' = [leads EXCEPT ![r] = Append(@, key[r])]
    BY <1>2 DEF Lead
  <2>2. ASSUME NEW i \in 1..Len(leads[r]) PROVE leads[r][i] # key[r]
    BY <1>2 DEF Lead, InFlight
  <2>3. /\ Len(leads'[r]) = Len(leads[r]) + 1 /\ Len(leads[r]) \in Nat
        /\ leads'[r][Len(leads[r]) + 1] = key[r]
        /\ \A i \in 1..Len(leads[r]) : leads'[r][i] = leads[r][i]
    BY <1>0, <2>1
  <2>4. \A q \in Request \ {r} : leads'[q] = leads[q]
    BY <1>0, <2>1
  <2>5. ASSUME NEW q \in Request, NEW i \in 1..Len(leads'[q])
        PROVE  Flight(snapshot[q], leads'[q][i], q) \in flights'
    <3>1. CASE q = r
      <4>1. i = Len(leads[r]) + 1 \/ i \in 1..Len(leads[r])
        BY <2>3, <3>1
      <4>2. QED
        BY <2>1, <2>3, <3>1, <4>1
    <3>2. CASE q # r
      BY <2>1, <2>4, <3>2
    <3>3. QED
      BY <3>1, <3>2
  <2>6. ASSUME NEW q \in Request, NEW i \in 1..Len(leads'[q]),
               NEW j \in 1..Len(leads'[q]), leads'[q][i] = leads'[q][j]
        PROVE  i = j
    <3>1. CASE q = r
      <4>1. /\ i = Len(leads[r]) + 1 \/ i \in 1..Len(leads[r])
            /\ j = Len(leads[r]) + 1 \/ j \in 1..Len(leads[r])
        BY <2>3, <3>1
      <4>2. QED
        BY <2>2, <2>3, <2>6, <3>1, <4>1
    <3>2. CASE q # r
      BY <2>4, <2>6, <3>2
    <3>3. QED
      BY <3>1, <3>2
  <2>7. QED
    BY <2>1, <2>5, <2>6
<1>3. ASSUME NEW r \in Request, Leave(r) PROVE LeadsRegistered'
  <2> DEFINE n == Len(leads[r])
  <2>1. /\ snapshot' = snapshot
        /\ flights' = flights \ {Flight(snapshot[r], Last(leads[r]), r)}
        /\ leads' = [leads EXCEPT ![r] = Front(@)]
    BY <1>3 DEF Leave
  <2>2. leads[r] \in Seq(CacheKey) /\ leads[r] # <<>>
    BY <1>0, <1>3 DEF Leave
  <2>3. /\ n \in Nat \ {0} /\ Last(leads[r]) = leads[r][n]
        /\ Len(Front(leads[r])) = n - 1
        /\ \A i \in 1..(n - 1) : Front(leads[r])[i] = leads[r][i]
    BY <2>2, FrontOfLeads
  <2>4. leads'[r] = Front(leads[r]) /\ \A q \in Request \ {r} : leads'[q] = leads[q]
    BY <1>0, <2>1
  <2> HIDE DEF n
  <2>5. ASSUME NEW q \in Request, NEW i \in 1..Len(leads'[q])
        PROVE  Flight(snapshot[q], leads'[q][i], q) \in flights'
    <3>1. CASE q = r
      <4>1. i \in 1..(n - 1)
        BY <2>3, <2>4, <3>1
      <4>2. i \in 1..n /\ i # n /\ n \in 1..n /\ leads'[r][i] = leads[r][i]
        BY <2>3, <2>4, <4>1
      <4>3. leads[r][i] # Last(leads[r])
        BY <2>3, <4>2 DEF n
      <4>4. Flight(snapshot[r], leads[r][i], r) \in flights
        BY <4>2 DEF n
      <4>5. QED
        BY <2>1, <3>1, <4>2, <4>3, <4>4 DEF Flight
    <3>2. CASE q # r
      BY <2>1, <2>4, <3>2 DEF Flight
    <3>3. QED
      BY <3>1, <3>2
  <2>6. ASSUME NEW q \in Request, NEW i \in 1..Len(leads'[q]),
               NEW j \in 1..Len(leads'[q]), leads'[q][i] = leads'[q][j]
        PROVE  i = j
    <3>1. CASE q = r
      <4>1. i \in 1..(n - 1) /\ j \in 1..(n - 1)
        BY <2>3, <2>4, <3>1
      <4>2. i \in 1..n /\ j \in 1..n /\ leads[r][i] = leads[r][j]
        BY <2>3, <2>4, <2>6, <3>1, <4>1
      <4>3. QED
        BY <4>2 DEF n
    <3>2. CASE q # r
      BY <2>4, <2>6, <3>2
    <3>3. QED
      BY <3>1, <3>2
  <2>7. QED
    BY <2>1, <2>5, <2>6
<1>4. CASE UNCHANGED <<entries, flights, localVars>>
  BY <1>4 DEF localVars
<1>5. QED
  BY <1>1, <1>2, <1>3, <1>4, DataCases

LEMMA EnginesTypedStep ==
    ASSUME DataInv, EnginesTyped, [Next]_vars
    PROVE  EnginesTyped'
<1> USE DEF EnginesTyped
<1>1. ASSUME NEW r \in Request,
             \/ Begin(r) \/ Join(r) \/ StartWork(r) \/ (\E o : Returns(r, o))
             \/ \E k \in RenderedKey : Miss(r, k)
             \/ Lead(r) \/ Store(r) \/ Leave(r)
             \/ \E why \in {"deadline", "canceled"} : ContextEnds(r, why)
      PROVE  EnginesTyped'
  <2>1. engine' = engine /\ plan' = plan
    BY <1>1 DEF Begin, Join, StartWork, Returns, Miss, Lead, Store, Leave,
                ContextEnds, shared
  <2>2. snapshot' = snapshot \/ snapshot' = [snapshot EXCEPT ![r] = engine]
    BY <1>1 DEF Begin, Join, StartWork, Returns, Miss, Lead, Store, Leave,
                ContextEnds, shared
  <2>3. followed' = followed \/ (\E R \in SUBSET Request : FollowedBy(R, r))
    BY <1>1 DEF Begin, Join, StartWork, Returns, Miss, Lead, Store, Leave,
                ContextEnds, shared, Waiters
  <2>4. followed' \in [Request -> SUBSET Request]
    BY <2>3 DEF FollowedBy
  <2>5. QED
    BY <2>1, <2>2, <2>4
<1>2. CASE /\ engine' = engine \/ (engine < MaxReloads /\ engine' = engine + 1)
           /\ UNCHANGED <<entries, flights, localVars>>
  BY <1>2 DEF localVars
<1>3. QED
  BY <1>1, <1>2, DataCases

LEMMA RegisterInvariant == Spec => []RegisterInv
<1>1. Init => RegisterInv
  <2> SUFFICES ASSUME Init PROVE RegisterInv
    OBVIOUS
  <2>1. \A r \in Request : leads[r] = <<>> /\ Len(leads[r]) = 0
    BY DEF Init
  <2>2. LeadsRegistered
    BY <2>1 DEF LeadsRegistered
  <2>3. EnginesTyped
    BY DEF Init, EnginesTyped
  <2>4. QED
    BY <2>2, <2>3 DEF RegisterInv
<1>2. DataInv /\ RegisterInv /\ [Next]_vars => RegisterInv'
  BY LeadsRegisteredStep, EnginesTypedStep DEF RegisterInv
<1>3. QED
  BY <1>1, <1>2, DataInvariant, PTL DEF Spec

-----------------------------------------------------------------------------
(***************************************************************************)
(* The cache that the requests share is the TTL cache: every step of the   *)
(* requests is a Get, a Set, a Tick or a stutter of it.                    *)
(***************************************************************************)
CacheP == INSTANCE TTLCache_proofs WITH Key <- CacheKey

LEMMA CacheMayAssume == CacheP!CacheAssumption
  BY DEF CacheP!CacheAssumption

LEMMA SameOrder ==
    /\ \A k : Cache!Unlink(k) = CacheP!Unlink(k)
    /\ \A k : Cache!MoveToFront(k) = CacheP!MoveToFront(k)
    /\ \A s : Cache!Front(s) = CacheP!Front(s) /\ Cache!Last(s) = CacheP!Last(s)
<1>1. \A k : Cache!Unlink(k) = CacheP!Unlink(k)
  BY Zenon DEF Cache!Unlink, Cache!Position, Cache!RemoveAt,
               CacheP!Unlink, CacheP!Position, CacheP!RemoveAt
<1>2. \A k : Cache!MoveToFront(k) = CacheP!MoveToFront(k)
  BY <1>1, Zenon DEF Cache!MoveToFront, CacheP!MoveToFront
<1>3. \A s : Cache!Front(s) = CacheP!Front(s) /\ Cache!Last(s) = CacheP!Last(s)
  BY Zenon DEF Cache!Front, CacheP!Front, Cache!Last, CacheP!Last
<1>4. QED
  BY <1>1, <1>2, <1>3

LEMMA CacheStep == DataInv /\ [Next]_vars => [CacheP!CacheNext]_(CacheP!cacheVars)
<1> SUFFICES ASSUME DataInv, [Next]_vars
             PROVE  CacheP!CacheNext \/ UNCHANGED CacheP!cacheVars
  OBVIOUS
<1> USE DEF CacheP!cacheVars
<1>1. ASSUME NEW r \in Request, NEW k \in RenderedKey, Hit(r, k) \/ Miss(r, k)
      PROVE  CacheP!CacheNext
  <2> DEFINE ck == KeyOf(Wraps[at[r]], k)
  <2>1. at[r] \in Filter /\ Kind[at[r]] = "cache"
    BY <1>1 DEF Hit, Miss, DataInv, ExecutionInv, FlightInv, RequestsTyped
  <2>2. ck \in CacheKey
    BY <2>1, KeysOfWrapped
  <2>3. CacheP!Get(ck)
    BY <1>1, SameOrder DEF Hit, Miss, Cache!GetHit, Cache!GetMiss, Cache!GetExpired,
                Cache!Expired, Cache!cacheVars, CacheP!Get, CacheP!GetHit,
                CacheP!GetMiss, CacheP!GetExpired, CacheP!Expired
  <2>4. QED
    BY <2>2, <2>3 DEF CacheP!CacheNext
<1>2. ASSUME NEW r \in Request, Store(r) PROVE CacheP!CacheNext
  <2>1. Last(leads[r]) \in CacheKey /\ result[r] \in Value
    BY <1>2 DEF Store, Last, Outcome, Value, DataInv, ExecutionInv, FlightInv,
                RequestsTyped, LeadsFit, DataTyped
  <2>2. PICK ttl \in TTL : Cache!Set(Last(leads[r]), ttl, result[r])
    BY <1>2 DEF Store
  <2>3. CacheP!Set(Last(leads[r]), ttl, result[r])
    BY <2>2, SameOrder DEF Cache!Set, Cache!Update, Cache!Insert, CacheP!Set,
                           CacheP!Update, CacheP!Insert
  <2>4. QED
    BY <2>1, <2>3 DEF CacheP!CacheNext
<1>3. CASE Tick
  BY <1>3 DEF Tick, Cache!Tick, CacheP!Tick, CacheP!CacheNext
<1>4. ASSUME UNCHANGED <<order, entries, now>>
      PROVE  CacheP!CacheNext \/ UNCHANGED CacheP!cacheVars
  BY <1>4
<1>5. CASE UNCHANGED vars \/ Reload
  BY <1>4, <1>5 DEF vars, shared, Reload
<1>6. ASSUME NEW r \in Request,
             \/ Begin(r) \/ FinishWork(r) \/ Deadline(r) \/ Disconnect(r)
             \/ StartWork(r) \/ RefuseWork(r) \/ KeyFails(r)
             \/ Lead(r) \/ Join(r) \/ Leave(r)
      PROVE  UNCHANGED <<order, entries, now>>
  BY <1>6 DEF Begin, FinishWork, Deadline, Disconnect, ContextEnds, StartWork,
              RefuseWork, KeyFails, Lead, Join, Leave, shared
<1>7. QED
  BY <1>1, <1>2, <1>3, <1>4, <1>5, <1>6 DEF Next, Proceed

LEMMA CacheInitial == Init => CacheP!CacheInit
  BY DEF Init, Cache!CacheInit, CacheP!CacheInit

(* What handleRequest does to the cache is what TTLCache specifies. *)
THEOREM CacheIsUsedAsACache == Spec => CacheP!CacheSpec
  BY CacheInitial, CacheStep, DataInvariant, PTL DEF Spec, CacheP!CacheSpec

(* So the results of the cache hold for the requests: what is evicted is the
   least recently used entry. *)
THEOREM RequestsShareAnLRUCache == Spec => CacheP!ImplementsLRU
  BY CacheIsUsedAsACache, CacheMayAssume, CacheP!CacheImplementsLRU, PTL

(* Every variable has its type, and what is registered is what is led. *)
THEOREM ExecutionTypeCorrect == Spec => []TypeOK
<1>1. CacheP!CacheTypeOK => Cache!CacheTypeOK
  <2>1. Cache!Entry = CacheP!Entry
    BY DEF Cache!Entry, CacheP!Entry
  <2>2. Cache!Range(order) = CacheP!Range(order)
    BY DEF Cache!Range, CacheP!Range
  <2>3. QED
    BY <2>1, <2>2 DEF Cache!CacheTypeOK, CacheP!CacheTypeOK
<1>2. DataInv /\ RegisterInv /\ Cache!CacheTypeOK => TypeOK
  <2> SUFFICES ASSUME DataInv, RegisterInv, Cache!CacheTypeOK PROVE TypeOK
    OBVIOUS
  <2> DEFINE led == UNION {{Flight(snapshot[r], k, r) : k \in Range(leads[r])} :
                               r \in Request}
  <2>1. /\ pc \in [Request -> Places] /\ at \in [Request -> Filter]
        /\ \A r \in Request : step[r] \in 1..Len(plan[r])
        /\ key \in [Request -> CacheKey] /\ leads \in [Request -> Seq(CacheKey)]
    BY DEF DataInv, ExecutionInv, FlightInv, RequestsTyped
  <2>2. ctx \in [Request -> {"live", "deadline", "canceled"}]
        /\ result \in [Request -> Outcome]
    BY DEF DataInv, DataTyped
  <2>3. engine \in 0..MaxReloads /\ snapshot \in [Request -> 0..MaxReloads]
        /\ plan \in [Request -> Plans] /\ followed \in [Request -> SUBSET Request]
    BY DEF RegisterInv, EnginesTyped
  <2>4. ASSUME NEW f \in flights
        PROVE  /\ f \in [engine : 0..MaxReloads, key : CacheKey, leader : Request]
               /\ f \in led
    <3>1. /\ f.leader \in Request /\ f = Flight(snapshot[f.leader], f.key, f.leader)
          /\ \E i \in 1..Len(leads[f.leader]) : leads[f.leader][i] = f.key
      BY DEF DataInv, ExecutionInv, FlightInv, FlightsAreLed
    <3>2. leads[f.leader] \in Seq(CacheKey)
      BY <2>1, <3>1
    <3>3. f.key \in CacheKey /\ f.key \in Range(leads[f.leader])
      BY <3>1, <3>2 DEF Range
    <3>4. f \in led
      <4> DEFINE Of(r) == {Flight(snapshot[r], k, r) : k \in Range(leads[r])}
      <4>1. f \in Of(f.leader) /\ Of(f.leader) \in {Of(r) : r \in Request}
        BY <3>1, <3>3, Zenon
      <4>2. QED
        BY <4>1, Zenon
    <3>5. snapshot[f.leader] \in 0..MaxReloads
      BY <2>3, <3>1
    <3>6. f \in [engine : 0..MaxReloads, key : CacheKey, leader : Request]
      BY <3>1, <3>3, <3>5 DEF Flight
    <3>7. QED
      BY <3>4, <3>6
  <2>5. ASSUME NEW f \in led PROVE f \in flights
    <3>1. PICK r \in Request : \E k \in Range(leads[r]) : f = Flight(snapshot[r], k, r)
      OBVIOUS
    <3>2. PICK k \in Range(leads[r]) : f = Flight(snapshot[r], k, r)
      BY <3>1
    <3>3. leads[r] \in Seq(CacheKey)
      BY <2>1
    <3>4. PICK i \in 1..Len(leads[r]) : k = leads[r][i]
      BY <3>2, <3>3 DEF Range
    <3>5. QED
      BY <3>2, <3>4 DEF RegisterInv, LeadsRegistered
  <2>6. flights = led
    BY <2>4, <2>5, Zenon
  <2>7. QED
    BY <2>1, <2>2, <2>3, <2>4, <2>6 DEF TypeOK, Places
<1>3. QED
  BY <1>1, <1>2, DataInvariant, RegisterInvariant, CacheIsUsedAsACache,
     CacheMayAssume, CacheP!CacheTypeCorrect, PTL

-----------------------------------------------------------------------------
(***************************************************************************)
(* Why a request failed: the end of a context it shared.                   *)
(***************************************************************************)
FailureHasCause ==
    /\ \A r \in Request : pc[r] = "idle" =>
           ctx[r] = "live" /\ result[r].form = "failed" /\ followed[r] = {}
    /\ \A r \in Request : \A q \in followed[r] :
           pc[q] # "idle" /\ snapshot[q] = snapshot[r]
    /\ \A r \in Request : result[r].form \in {"deadline", "canceled"} =>
           \E q \in {r} \cup followed[r] : ctx[q] = result[r].form

LEMMA ResumeResults ==
    ASSUME NEW R \in SUBSET Request, NEW o, Resume(R, o)
    PROVE  /\ \A r \in R : result'[r] = o /\ pc'[r] # "idle"
           /\ \A r \in Request \ R : pc'[r] = pc[r] /\ result'[r] = result[r]
  BY DEF Resume

LEMMA FailureHasCauseStep ==
    ASSUME DataInv, RegisterInv, FailureHasCause, [Next]_vars
    PROVE  FailureHasCause'
<1>0. /\ pc \in [Request -> Places] /\ snapshot \in [Request -> Nat]
      /\ ctx \in [Request -> {"live", "deadline", "canceled"}]
      /\ followed \in [Request -> SUBSET Request]
  BY DEF DataInv, DataTyped, ExecutionInv, FlightInv, RequestsTyped, RegisterInv,
         EnginesTyped
<1> USE DEF FailureHasCause
<1>1. ASSUME NEW r \in Request, Begin(r) PROVE FailureHasCause'
  <2>1. /\ pc[r] = "idle" /\ pc' = [pc EXCEPT ![r] = "call"]
        /\ snapshot' = [snapshot EXCEPT ![r] = engine]
        /\ UNCHANGED <<ctx, result, followed>>
    BY <1>1 DEF Begin
  <2>2. ASSUME NEW q \in Request, NEW p \in followed[q]
        PROVE  pc'[p] # "idle" /\ snapshot'[p] = snapshot'[q]
    <3>1. pc[p] # "idle" /\ snapshot[p] = snapshot[q] /\ p \in Request
      BY <1>0, <2>2
    <3>2. p # r /\ q # r
      BY <2>1, <2>2, <3>1
    <3>3. QED
      BY <1>0, <2>1, <3>1, <3>2
  <2>3. QED
    BY <1>0, <2>1, <2>2
<1>2. ASSUME NEW r \in Request,
             \/ StartWork(r) \/ Lead(r) \/ Join(r) \/ Store(r)
             \/ \E k \in RenderedKey : Miss(r, k)
      PROVE  FailureHasCause'
  <2>1. UNCHANGED <<ctx, result, snapshot, followed>>
    BY <1>2 DEF StartWork, Lead, Join, Store, Miss, shared
  <2>2. \A q \in Request : pc'[q] = "idle" <=> pc[q] = "idle"
    BY <1>0, <1>2 DEF StartWork, Lead, Join, Store, Miss
  <2>3. QED
    BY <1>0, <2>1, <2>2
<1>3. ASSUME NEW r \in Request, NEW o, Returns(r, o) PROVE FailureHasCause'
  <2>1. UNCHANGED <<ctx, snapshot, followed>> /\ Resume({r}, o)
    BY <1>3 DEF Returns
  <2>2. /\ result'[r] = o /\ pc'[r] # "idle"
        /\ \A q \in Request \ {r} : pc'[q] = pc[q] /\ result'[q] = result[q]
    <3>1. {r} \in SUBSET Request
      OBVIOUS
    <3>2. /\ \A q \in {r} : result'[q] = o /\ pc'[q] # "idle"
          /\ \A q \in Request \ {r} : pc'[q] = pc[q] /\ result'[q] = result[q]
      BY <2>1, <3>1, ResumeResults
    <3>3. QED
      BY <3>2
  <2>3. o.form \in {"deadline", "canceled"} => o.form = ctx[r]
    <3>1. CASE MadeHere(r, o)
      BY <3>1 DEF MadeHere
    <3>2. CASE FromCache(r, o)
      <4>1. o \in Value
        BY <3>2 DEF FromCache, DataInv, DataTyped
      <4>2. QED
        BY <4>1 DEF Value, Form
    <3>3. QED
      BY <1>3, <3>1, <3>2 DEF Returns
  <2>4. ASSUME NEW q \in Request
        PROVE  /\ pc'[q] = "idle" => pc[q] = "idle" /\ result'[q] = result[q]
               /\ pc[q] # "idle" => pc'[q] # "idle"
               /\ result'[q].form \in {"deadline", "canceled"} =>
                      \E p \in {q} \cup followed[q] : ctx[p] = result'[q].form
    BY <2>2, <2>3
  <2>5. QED
    BY <1>0, <2>1, <2>4
<1>4. ASSUME NEW r \in Request, Leave(r) PROVE FailureHasCause'
  <2> DEFINE W == Waiters(snapshot[r], Last(leads[r]))
  <2>1. /\ pc[r] = "leave" /\ UNCHANGED <<ctx, snapshot>>
        /\ FollowedBy(W, r)
    BY <1>4 DEF Leave
  <2>2. /\ \A q \in Served(r) : result'[q] = result[r] /\ pc'[q] # "idle"
        /\ \A q \in Request \ Served(r) : pc'[q] = pc[q] /\ result'[q] = result[q]
    BY <1>4, LeaveResumes, ResumeResults
  <2>3. \A q \in W : q \in Request /\ pc[q] = "wait" /\ snapshot[q] = snapshot[r]
    BY DEF Waiters
  <2>4. Served(r) = {r} \cup W
    BY DEF Served
  <2> HIDE DEF W
  <2>5. \A q \in Request :
            followed'[q] = IF q \in W THEN followed[q] \cup {r} \cup followed[r]
                                      ELSE followed[q]
    BY <2>1 DEF FollowedBy
  <2>6. ASSUME NEW q \in Request, pc'[q] = "idle"
        PROVE  ctx[q] = "live" /\ result'[q].form = "failed" /\ followed'[q] = {}
    <3>1. q \notin Served(r) /\ pc[q] = "idle" /\ result'[q] = result[q]
      BY <2>2, <2>6
    <3>2. QED
      BY <2>4, <2>5, <3>1
  <2>7. ASSUME NEW q \in Request, NEW p \in followed'[q]
        PROVE  pc'[p] # "idle" /\ snapshot[p] = snapshot[q]
    <3>1. p \in followed[q] \/ (q \in W /\ p \in {r} \cup followed[r])
      BY <2>5, <2>7
    <3>2. p \in Request /\ pc[p] # "idle" /\ snapshot[p] = snapshot[q]
      BY <1>0, <2>1, <2>3, <3>1
    <3>3. QED
      BY <2>2, <3>2
  <2>8. ASSUME NEW q \in Request, result'[q].form \in {"deadline", "canceled"}
        PROVE  \E p \in {q} \cup followed'[q] : ctx[p] = result'[q].form
    <3>1. CASE q \in Served(r)
      <4>1. PICK p \in {r} \cup followed[r] : ctx[p] = result[r].form
        BY <2>2, <2>8, <3>1
      <4>2. result'[q] = result[r] /\ p \in {q} \cup followed'[q]
        BY <2>2, <2>3, <2>4, <2>5, <3>1, <4>1
      <4>3. QED
        BY <4>1, <4>2
    <3>2. CASE q \notin Served(r)
      <4>1. /\ result'[q] = result[q] /\ q \notin W
            /\ followed'[q] = followed[q]
        BY <2>2, <2>4, <2>5, <3>2
      <4>2. QED
        BY <2>8, <4>1
    <3>3. QED
      BY <3>1, <3>2
  <2>9. QED
    BY <2>1, <2>6, <2>7, <2>8
<1>5. ASSUME NEW r \in Request, NEW why \in {"deadline", "canceled"},
             ContextEnds(r, why)
      PROVE  FailureHasCause'
  <2>1. /\ UNCHANGED <<pc, result, snapshot, followed>>
        /\ ctx' = [ctx EXCEPT ![r] = why] /\ ctx[r] = "live" /\ pc[r] # "idle"
    BY <1>5 DEF ContextEnds, Active
  <2>2. ASSUME NEW q \in Request, result[q].form \in {"deadline", "canceled"}
        PROVE  \E p \in {q} \cup followed[q] : ctx'[p] = result[q].form
    <3>1. PICK p \in {q} \cup followed[q] : ctx[p] = result[q].form
      BY <2>2
    <3>2. p # r /\ p \in Request
      BY <1>0, <2>1, <2>2, <3>1
    <3>3. QED
      BY <1>0, <2>1, <3>1, <3>2
  <2>3. QED
    BY <1>0, <2>1, <2>2
<1>6. CASE UNCHANGED <<entries, flights, localVars>>
  BY <1>6 DEF localVars
<1>7. QED
  BY <1>1, <1>2, <1>3, <1>4, <1>5, <1>6, DataCases

(* Waiters share the leader's failure, and only they: who fails with the end
   of a context had it, or waited for a call of who had it, directly or
   through others; any number of requests and reloads. *)
THEOREM FailuresAreShared == Spec => []ContextFailuresAreShared
<1>1. Init => FailureHasCause
  BY DEF Init, FailureHasCause
<1>2. FailureHasCause /\ RegisterInv => ContextFailuresAreShared
  BY DEF FailureHasCause, ContextFailuresAreShared
<1>3. QED
  BY <1>1, <1>2, FailureHasCauseStep, DataInvariant, RegisterInvariant, PTL DEF Spec

-----------------------------------------------------------------------------
(***************************************************************************)
(* What a template needs has been executed, provided that a filter depends *)
(* on every filter its templates name (inferred, or in depends_on), and a  *)
(* cache on what the filter it wraps depends on: the graph has no edge for *)
(* that.                                                                   *)
(***************************************************************************)
ReferencesAreDependencies ==
    \A f \in Filter : {x.name : x \in Refs[f]} \subseteq Deps[f]

WrappedNeedsNoMore ==
    \A f \in Filter : Kind[f] = "cache" => Deps[Wraps[f]] \subseteq Deps[f]

(* Before a request returns from the filter it is at, what it calls needs no
   more than the filter of the order it is at. *)
AtNeedsNoMore ==
    \A r \in Request : pc[r] \in {"idle", "call", "work", "enter", "wait"} =>
        Deps[at[r]] \subseteq Deps[plan[r][step[r]]]

LEMMA AtNeedsNoMoreStep ==
    ASSUME WrappedNeedsNoMore, DataInv, AtNeedsNoMore, [Next]_vars
    PROVE  AtNeedsNoMore'
<1>0. /\ pc \in [Request -> Places] /\ step \in [Request -> Nat]
      /\ at \in [Request -> Filter]
      /\ \A r \in Request : pc[r] = "enter" => Kind[at[r]] = "cache"
  BY DEF DataInv, ExecutionInv, FlightInv, RequestsTyped, KeyIsOfWrapped
<1> USE DEF AtNeedsNoMore
<1>1. ASSUME NEW r \in Request,
             \/ Begin(r) \/ StartWork(r) \/ Join(r) \/ Store(r)
             \/ \E k \in RenderedKey : Miss(r, k)
             \/ \E why \in {"deadline", "canceled"} : ContextEnds(r, why)
      PROVE  AtNeedsNoMore'
  <2>1. UNCHANGED <<plan, step, at>>
    BY <1>1 DEF Begin, StartWork, Join, Store, Miss, ContextEnds, shared
  <2>2. ASSUME NEW q \in Request,
               pc'[q] \in {"idle", "call", "work", "enter", "wait"}
        PROVE  pc[q] \in {"idle", "call", "work", "enter", "wait"}
    BY <1>0, <1>1, <2>2 DEF Begin, StartWork, Join, Store, Miss, ContextEnds
  <2>3. QED
    BY <2>1, <2>2
<1>2. ASSUME NEW r \in Request, Lead(r) PROVE AtNeedsNoMore'
  <2>1. /\ pc[r] = "enter" /\ Kind[at[r]] = "cache" /\ at[r] \in Filter
        /\ at' = [at EXCEPT ![r] = Wraps[@]] /\ pc' = [pc EXCEPT ![r] = "call"]
        /\ UNCHANGED <<plan, step>>
    BY <1>0, <1>2 DEF Lead
  <2>2. /\ Deps[Wraps[at[r]]] \subseteq Deps[at[r]]
        /\ Deps[at[r]] \subseteq Deps[plan[r][step[r]]]
    BY <2>1 DEF WrappedNeedsNoMore
  <2>3. QED
    BY <1>0, <2>1, <2>2
<1>3. ASSUME NEW R \in SUBSET Request, NEW o, Resume(R, o), plan' = plan
      PROVE  AtNeedsNoMore'
  <2> SUFFICES ASSUME NEW q \in Request,
                      pc'[q] \in {"idle", "call", "work", "enter", "wait"}
               PROVE  Deps[at'[q]] \subseteq Deps[plan[q][step'[q]]]
    BY <1>3
  <2>1. CASE q \in R
    <3>1. pc'[q] = "call" /\ at'[q] = plan[q][step'[q]]
      BY <1>0, <1>3, <2>1, ResumeFacts
    <3>2. QED
      BY <3>1
  <2>2. CASE q \notin R
    <3>1. pc'[q] = pc[q] /\ step'[q] = step[q] /\ at'[q] = at[q]
      BY <1>0, <1>3, <2>2, ResumeFacts
    <3>2. QED
      BY <3>1
  <2>3. QED
    BY <2>1, <2>2
<1>4. ASSUME NEW r \in Request, NEW o, Returns(r, o) PROVE AtNeedsNoMore'
  <2>1. Resume({r}, o) /\ plan' = plan /\ {r} \in SUBSET Request
    BY <1>4 DEF Returns
  <2>2. QED
    BY <1>3, <2>1
<1>5. ASSUME NEW r \in Request, Leave(r) PROVE AtNeedsNoMore'
  <2>1. plan' = plan
    BY <1>5 DEF Leave
  <2>2. QED
    BY <1>3, <1>5, <2>1, LeaveResumes
<1>6. CASE UNCHANGED <<entries, flights, localVars>>
  BY <1>6 DEF localVars
<1>7. QED
  BY <1>1, <1>2, <1>4, <1>5, <1>6, DataCases

(* The dependencies of a filter of an order stand before it. *)
LEMMA OrderHasDependencies ==
    ASSUME NEW p \in Plans, NEW n \in 1..Len(p), NEW d \in Deps[p[n]]
    PROVE  \E j \in 1..(n - 1) : p[j] = d
<1>0. p \in Seq(Filter) /\ Len(p) \in Nat
  BY PlansAreSequences
<1>1. PICK target \in Routes : Dep!IsOrder(Deps, p, target)
  BY DEF Plans
<1>2. p[n] \in Filter /\ p[n] \in Dep!Reachable(Deps, target)
  BY <1>0, <1>1 DEF Dep!IsOrder, Dep!Range
<1>3. d \in Filter
  <2>1. Deps[p[n]] \subseteq Filter
    BY <1>2 DEF Deps, Dep!BuildDependencyGraph, Validated
  <2>2. QED
    BY <2>1
<1>4. d \in Dep!Reachable(Deps, target)
  <2> SUFFICES ASSUME NEW S \in SUBSET Filter, target \in S, Dep!Closed(Deps, S)
               PROVE  d \in S
    BY <1>3 DEF Dep!Reachable
  <2>1. p[n] \in S
    BY <1>2 DEF Dep!Reachable
  <2>2. QED
    BY <2>1 DEF Dep!Closed
<1>5. PICK j \in 1..Len(p) : p[j] = d
  BY <1>0, <1>1, <1>4 DEF Dep!IsOrder, Dep!Range
<1>6. j < n
  BY <1>1, <1>5 DEF Dep!IsOrder
<1>7. QED
  BY <1>0, <1>5, <1>6

(* SPEC.md "Reachability sources: [...] template references": for every
   configuration whose graph has the references and what wrapping needs. *)
THEOREM ReferencesExecuted ==
    ASSUME ReferencesAreDependencies, WrappedNeedsNoMore
    PROVE  Spec => []ReferencesAreExecuted
<1>1. Init => AtNeedsNoMore
  BY DEF Init, AtNeedsNoMore
<1>2. DataInv /\ AtNeedsNoMore /\ [Next]_vars => AtNeedsNoMore'
  BY AtNeedsNoMoreStep
<1>3. DataInv /\ RegisterInv /\ AtNeedsNoMore => ReferencesAreExecuted
  <2> SUFFICES ASSUME DataInv, RegisterInv, AtNeedsNoMore,
                      NEW r \in Request, pc[r] \in {"work", "enter"},
                      NEW x \in Refs[at[r]]
               PROVE  x.name \in Has(r)
    BY DEF ReferencesAreExecuted
  <2>1. at[r] \in Filter /\ step[r] \in 1..Len(plan[r]) /\ plan[r] \in Plans
    BY DEF DataInv, ExecutionInv, FlightInv, RequestsTyped, RegisterInv, EnginesTyped
  <2>2. x.name \in Deps[at[r]]
    BY <2>1 DEF ReferencesAreDependencies
  <2>3. x.name \in Deps[plan[r][step[r]]]
    BY <2>2 DEF AtNeedsNoMore
  <2>4. \E j \in 1..(step[r] - 1) : plan[r][j] = x.name
    BY <2>1, <2>3, OrderHasDependencies
  <2>5. QED
    BY <2>4 DEF Has
<1>4. QED
  BY <1>1, <1>2, <1>3, DataInvariant, RegisterInvariant, PTL DEF Spec

-----------------------------------------------------------------------------
(***************************************************************************)
(* The filter that does the work: in a layered configuration the recursive *)
(* definition of Origin has a solution.  `Leads to' is the smallest        *)
(* relation that has the filters that do work themselves, and for a cache  *)
(* what the wrapped filter leads to.                                       *)
(***************************************************************************)
ClosedUnderWrapping(R) ==
    /\ \A f \in Filter : Kind[f] # "cache" => <<f, f>> \in R
    /\ \A f, o \in Filter :
           Kind[f] = "cache" /\ <<Wraps[f], o>> \in R => <<f, o>> \in R

LeadsTo == {p \in Filter \X Filter :
                \A R \in SUBSET (Filter \X Filter) :
                    ClosedUnderWrapping(R) => p \in R}

LEMMA LeadsToClosed == ClosedUnderWrapping(LeadsTo)
<1>1. ASSUME NEW f \in Filter, Kind[f] # "cache" PROVE <<f, f>> \in LeadsTo
  BY <1>1 DEF LeadsTo, ClosedUnderWrapping
<1>2. ASSUME NEW f \in Filter, NEW o \in Filter, Kind[f] = "cache",
             <<Wraps[f], o>> \in LeadsTo
      PROVE  <<f, o>> \in LeadsTo
  <2>1. ASSUME NEW R \in SUBSET (Filter \X Filter), ClosedUnderWrapping(R)
        PROVE  <<f, o>> \in R
    <3>1. <<Wraps[f], o>> \in R
      BY <1>2, <2>1 DEF LeadsTo
    <3>2. QED
      BY <1>2, <2>1, <3>1 DEF ClosedUnderWrapping
  <2>2. QED
    BY <2>1 DEF LeadsTo
<1>3. QED
  BY <1>1, <1>2 DEF ClosedUnderWrapping

(* It is the smallest: a pair that no rule makes is not in it. *)
LEMMA LeadsToMade ==
    ASSUME NEW f \in Filter, NEW o \in Filter, <<f, o>> \in LeadsTo
    PROVE  \/ Kind[f] # "cache" /\ f = o
           \/ Kind[f] = "cache" /\ <<Wraps[f], o>> \in LeadsTo
<1> SUFFICES ASSUME ~ (Kind[f] # "cache" /\ f = o),
                    ~ (Kind[f] = "cache" /\ <<Wraps[f], o>> \in LeadsTo)
             PROVE  FALSE
  OBVIOUS
<1> DEFINE R == LeadsTo \ {<<f, o>>}
<1>1. R \in SUBSET (Filter \X Filter)
  BY DEF LeadsTo
<1>2. ASSUME NEW h \in Filter, Kind[h] # "cache" PROVE <<h, h>> \in R
  BY <1>2, LeadsToClosed DEF ClosedUnderWrapping
<1>3. ASSUME NEW h \in Filter, NEW m \in Filter, Kind[h] = "cache",
             <<Wraps[h], m>> \in R
      PROVE  <<h, m>> \in R
  BY <1>3, LeadsToClosed DEF ClosedUnderWrapping
<1>4. ClosedUnderWrapping(R)
  <2> HIDE DEF R
  <2>1. QED
    BY <1>2, <1>3 DEF ClosedUnderWrapping
<1>5. <<f, o>> \in R
  BY <1>1, <1>4 DEF LeadsTo
<1>6. QED
  BY <1>5

LEMMA LeadsToOne ==
    ASSUME NEW Under, Layered(Under), NEW f \in Filter
    PROVE  \E o \in Filter : \A m \in Filter : <<f, m>> \in LeadsTo <=> m = o
<1> DEFINE One(h) == \E o \in Filter : \A m \in Filter :
                         <<h, m>> \in LeadsTo <=> m = o
           T == {h \in Filter : ~ One(h)}
<1>1. ASSUME T # {} PROVE FALSE
  <2>1. PICK h \in T : \A m \in T : <<m, h>> \notin Under
    <3>1. T \in SUBSET Filter
      OBVIOUS
    <3>2. QED
      BY <1>1, <3>1 DEF Layered
  <2>2. h \in Filter /\ ~ One(h)
    OBVIOUS
  <2> HIDE DEF T
  <2>3. CASE Kind[h] # "cache"
    <3>1. <<h, h>> \in LeadsTo
      BY <2>2, <2>3, LeadsToClosed DEF ClosedUnderWrapping
    <3>2. \A m \in Filter : <<h, m>> \in LeadsTo => m = h
      BY <2>2, <2>3, LeadsToMade
    <3>3. QED
      BY <2>2, <3>1, <3>2
  <2>4. CASE Kind[h] = "cache"
    <3>1. Wraps[h] \in Filter /\ <<Wraps[h], h>> \in Under
      BY <2>2, <2>4, WrapsFilter DEF Layered
    <3>2. Wraps[h] \notin T
      BY <2>1, <3>1
    <3>3. One(Wraps[h])
      BY <3>1, <3>2 DEF T
    <3>4. PICK o \in Filter : \A m \in Filter :
              <<Wraps[h], m>> \in LeadsTo <=> m = o
      BY <3>3
    <3>5. <<h, o>> \in LeadsTo
      BY <2>2, <2>4, <3>4, LeadsToClosed DEF ClosedUnderWrapping
    <3>6. ASSUME NEW m \in Filter, <<h, m>> \in LeadsTo PROVE m = o
      BY <2>2, <2>4, <3>4, <3>6, LeadsToMade
    <3>7. QED
      BY <2>2, <3>5, <3>6
  <2>5. QED
    BY <2>3, <2>4
<1>2. One(f)
  BY <1>1
<1>3. QED
  BY <1>2

LEMMA OriginEquation ==
    ASSUME NEW Under, Layered(Under)
    PROVE  \A f \in Filter :
               Origin[f] = IF Kind[f] = "cache" THEN Origin[Wraps[f]] ELSE f
<1> DEFINE End(f) == CHOOSE o \in Filter : <<f, o>> \in LeadsTo
           G == [f \in Filter |-> End(f)]
           Solves(g) == g = [f \in Filter |->
                                IF Kind[f] = "cache" THEN g[Wraps[f]] ELSE f]
<1>1. ASSUME NEW f \in Filter
      PROVE  G[f] \in Filter /\ \A m \in Filter : <<f, m>> \in LeadsTo <=> m = G[f]
  <2>1. PICK o \in Filter : \A m \in Filter : <<f, m>> \in LeadsTo <=> m = o
    BY LeadsToOne
  <2>2. End(f) \in Filter /\ <<f, End(f)>> \in LeadsTo
    BY <2>1
  <2> HIDE DEF End
  <2>3. G[f] = End(f)
    OBVIOUS
  <2>4. QED
    BY <2>1, <2>2, <2>3
<1>2. G \in [Filter -> Filter]
  <2> HIDE DEF End
  <2>1. \A f \in Filter : G[f] = End(f)
    OBVIOUS
  <2>2. QED
    BY <1>1, <2>1
<1> HIDE DEF G
<1>3. ASSUME NEW f \in Filter
      PROVE  G[f] = IF Kind[f] = "cache" THEN G[Wraps[f]] ELSE f
  <2>1. CASE Kind[f] # "cache"
    BY <1>1, <2>1, LeadsToClosed DEF ClosedUnderWrapping
  <2>2. CASE Kind[f] = "cache"
    <3>1. Wraps[f] \in Filter
      BY <2>2, WrapsFilter
    <3>2. <<Wraps[f], G[Wraps[f]]>> \in LeadsTo /\ G[Wraps[f]] \in Filter
      BY <1>1, <3>1
    <3>3. <<f, G[Wraps[f]]>> \in LeadsTo
      BY <2>2, <3>2, LeadsToClosed DEF ClosedUnderWrapping
    <3>4. QED
      BY <1>1, <2>2, <3>2, <3>3
  <2>3. QED
    BY <2>1, <2>2
<1>4. Solves(G)
  BY <1>2, <1>3
<1>5. Origin = CHOOSE g : Solves(g)
  BY DEF Origin
<1>6. Solves(Origin)
  <2> HIDE DEF Solves
  <2>1. QED
    BY <1>4, <1>5
<1>7. QED
  BY <1>6

(***************************************************************************)
(* Who made what a request has: it is due a result of the filter that does *)
(* the work of the one it is at in its order.  So what is called, what is  *)
(* led and what is stored have the same origin.                            *)
(***************************************************************************)
Due(r) == Origin[plan[r][step[r]]]

CalledAgrees(r) ==
    pc[r] \in {"idle", "call", "work", "enter", "wait"} => Origin[at[r]] = Due(r)

(* A key for a filter whose work o does in the end. *)
KeyOfOrigin(ck, o) == \E f \in Wrapped : KeyFor(ck, f) /\ Origin[f] = o

LedAgrees(r) == \A i \in 1..Len(leads[r]) : KeyOfOrigin(leads[r][i], Due(r))

ResultAgrees(r) ==
    pc[r] \in {"store", "leave", "done"} /\ result[r].form \notin Failure =>
        result[r].from = Due(r)

EndsAtTheLast(r) ==
    pc[r] = "done" /\ result[r].form \notin Failure \cup {"big"} =>
        step[r] = Len(plan[r])

Agrees(r) ==
    CalledAgrees(r) /\ LedAgrees(r) /\ ResultAgrees(r) /\ EndsAtTheLast(r)

EntriesAgree ==
    \A ck \in DOMAIN entries : \A f \in Wrapped :
        KeyFor(ck, f) => entries[ck].value.from = Origin[f]

OriginsAgree == EntriesAgree /\ \A r \in Request : Agrees(r)

Wrapping ==
    \A f \in Filter :
        Origin[f] = IF Kind[f] = "cache" THEN Origin[Wraps[f]] ELSE f

LEMMA OneOrigin ==
    ASSUME KeysAreUnambiguous, NEW ck, NEW o, KeyOfOrigin(ck, o),
           NEW f, KeyFor(ck, f)
    PROVE  Origin[f] = o
  BY OneFilter DEF KeyOfOrigin

(* Requests that are given what they are due go on in agreement. *)
LEMMA ResumeAgrees ==
    ASSUME NEW R \in SUBSET Request, NEW o, Resume(R, o), plan' = plan,
           step \in [Request -> Nat], at \in [Request -> Filter],
           \A r \in R : o.form \notin Failure => o.from = Due(r),
           \A r \in Request : \A i \in 1..Len(leads'[r]) :
               i \in 1..Len(leads[r]) /\ leads'[r][i] = leads[r][i],
           \A r \in Request : Agrees(r)
    PROVE  \A r \in Request : Agrees(r)'
<1> SUFFICES ASSUME NEW q \in Request PROVE Agrees(q)'
  OBVIOUS
<1>1. CASE q \in R
  <2>1. CASE pc'[q] = "call"
    <3>1. leads'[q] = <<>> /\ at'[q] = plan[q][step'[q]]
      BY <1>1, <2>1, ResumeFacts
    <3>2. Len(leads'[q]) = 0
      BY <3>1
    <3>3. CalledAgrees(q)' /\ LedAgrees(q)'
      BY <3>1, <3>2 DEF CalledAgrees, LedAgrees, Due
    <3>4. QED
      BY <2>1, <3>3 DEF Agrees, ResultAgrees, EndsAtTheLast
  <2>2. CASE pc'[q] # "call"
    <3>1. /\ step'[q] = step[q] /\ pc'[q] \in {"done", "store", "leave"}
          /\ result'[q] = o
          /\ pc'[q] = "done" => Ends(q, o)
      BY <1>1, <2>2, ResumeFacts
    <3>2. Due(q)' = Due(q)
      BY <3>1 DEF Due
    <3>3. LedAgrees(q)'
      BY <3>2 DEF Agrees, LedAgrees
    <3>4. ResultAgrees(q)'
      BY <1>1, <3>1, <3>2 DEF ResultAgrees
    <3>5. EndsAtTheLast(q)'
      BY <3>1 DEF EndsAtTheLast, Ends
    <3>6. QED
      BY <3>1, <3>3, <3>4, <3>5 DEF Agrees, CalledAgrees
  <2>3. QED
    BY <2>1, <2>2
<1>2. CASE q \notin R
  <2>1. /\ pc'[q] = pc[q] /\ result'[q] = result[q]
        /\ step'[q] = step[q] /\ at'[q] = at[q]
    BY <1>2, ResumeFacts
  <2>2. Due(q)' = Due(q)
    BY <2>1 DEF Due
  <2>3. LedAgrees(q)'
    BY <2>2 DEF Agrees, LedAgrees
  <2>4. QED
    BY <2>1, <2>2, <2>3
       DEF Agrees, CalledAgrees, ResultAgrees, EndsAtTheLast
<1>3. QED
  BY <1>1, <1>2

LEMMA OriginsAgreeStep ==
    ASSUME KeysAreUnambiguous, Wrapping, DataInv, OriginsAgree, [Next]_vars
    PROVE  OriginsAgree'
<1>0. /\ pc \in [Request -> Places] /\ step \in [Request -> Nat]
      /\ at \in [Request -> Filter] /\ key \in [Request -> CacheKey]
      /\ leads \in [Request -> Seq(CacheKey)]
      /\ result \in [Request -> Outcome] /\ DOMAIN entries \subseteq CacheKey
      /\ \A r \in Request : pc[r] \in {"store", "leave"} => leads[r] # <<>>
      /\ \A r \in Request : pc[r] = "store" => result[r].form \notin Failure
      /\ \A r \in Request : pc[r] \in {"enter", "wait"} =>
             Kind[at[r]] = "cache" /\ KeyFor(key[r], Wraps[at[r]])
  BY DEF DataInv, DataTyped, ExecutionInv, FlightInv, RequestsTyped, LeadsFit,
         KeyIsOfWrapped
<1>1. EntriesAgree /\ \A r \in Request :
          CalledAgrees(r) /\ LedAgrees(r) /\ ResultAgrees(r) /\ EndsAtTheLast(r)
  BY DEF OriginsAgree, Agrees
<1>2. ASSUME NEW r \in Request,
             \/ Begin(r) \/ StartWork(r) \/ Join(r) \/ Store(r)
             \/ \E k \in RenderedKey : Miss(r, k)
             \/ \E why \in {"deadline", "canceled"} : ContextEnds(r, why)
      PROVE  \A q \in Request : Agrees(q)'
  <2>1. UNCHANGED <<plan, step, at, leads, result>>
    BY <1>2 DEF Begin, StartWork, Join, Store, Miss, ContextEnds, shared
  <2>2. ASSUME NEW q \in Request
        PROVE  /\ pc'[q] \in {"idle", "call", "work", "enter", "wait"} =>
                      pc[q] \in {"idle", "call", "work", "enter", "wait"}
               /\ pc'[q] \in {"store", "leave", "done"} =>
                      pc[q] \in {"store", "leave", "done"}
               /\ pc'[q] = "done" => pc[q] = "done"
    BY <1>0, <1>2 DEF Begin, StartWork, Join, Store, Miss, ContextEnds
  <2>3. ASSUME NEW q \in Request PROVE Agrees(q)'
    <3>1. CalledAgrees(q)' /\ LedAgrees(q)'
      BY <1>1, <2>1, <2>2 DEF CalledAgrees, LedAgrees, Due
    <3>2. ResultAgrees(q)' /\ EndsAtTheLast(q)'
      BY <1>1, <2>1, <2>2 DEF ResultAgrees, EndsAtTheLast, Due
    <3>3. QED
      BY <3>1, <3>2 DEF Agrees
  <2>4. QED
    BY <2>3
<1>3. ASSUME NEW r \in Request, Lead(r) PROVE \A q \in Request : Agrees(q)'
  <2>1. /\ pc[r] = "enter" /\ pc' = [pc EXCEPT ![r] = "call"]
        /\ at' = [at EXCEPT ![r] = Wraps[@]]
        /\ leads' = [leads EXCEPT ![r] = Append(@, key[r])]
        /\ UNCHANGED <<plan, step, result>>
    BY <1>3 DEF Lead
  <2>2. Origin[Wraps[at[r]]] = Due(r) /\ KeyFor(key[r], Wraps[at[r]])
    BY <1>0, <1>1, <2>1 DEF CalledAgrees, Wrapping
  <2>3. ASSUME NEW q \in Request, q # r PROVE Agrees(q)'
    <3>1. pc'[q] = pc[q] /\ at'[q] = at[q] /\ leads'[q] = leads[q]
      BY <1>0, <2>1, <2>3
    <3>2. Due(q)' = Due(q)
      BY <2>1 DEF Due
    <3>3. CalledAgrees(q)' /\ LedAgrees(q)'
      BY <1>1, <3>1, <3>2 DEF CalledAgrees, LedAgrees
    <3>4. ResultAgrees(q)' /\ EndsAtTheLast(q)'
      BY <1>1, <2>1, <3>1, <3>2 DEF ResultAgrees, EndsAtTheLast
    <3>5. QED
      BY <3>3, <3>4 DEF Agrees
  <2>4. Agrees(r)'
    <3>1. /\ Len(leads'[r]) = Len(leads[r]) + 1 /\ Len(leads[r]) \in Nat
          /\ leads'[r][Len(leads[r]) + 1] = key[r]
          /\ \A i \in 1..Len(leads[r]) : leads'[r][i] = leads[r][i]
      BY <1>0, <2>1
    <3>2. Due(r)' = Due(r) /\ pc'[r] = "call" /\ at'[r] = Wraps[at[r]]
      BY <1>0, <2>1 DEF Due
    <3>3. ASSUME NEW i \in 1..Len(leads'[r])
          PROVE  KeyOfOrigin(leads'[r][i], Due(r))
      <4>1. i = Len(leads[r]) + 1 \/ i \in 1..Len(leads[r])
        BY <3>1
      <4>2. CASE i = Len(leads[r]) + 1
        BY <2>2, <3>1, <4>2 DEF KeyOfOrigin, KeyFor
      <4>3. CASE i \in 1..Len(leads[r])
        BY <1>1, <3>1, <4>3 DEF LedAgrees
      <4>4. QED
        BY <4>1, <4>2, <4>3
    <3>4. LedAgrees(r)'
      BY <3>2, <3>3 DEF LedAgrees, KeyOfOrigin
    <3>5. QED
      BY <2>2, <3>2, <3>4 DEF Agrees, CalledAgrees, ResultAgrees, EndsAtTheLast
  <2>5. QED
    BY <2>3, <2>4
<1>4. ASSUME NEW r \in Request, NEW o, Returns(r, o)
      PROVE  \A q \in Request : Agrees(q)'
  <2>1. /\ pc[r] \in {"call", "work"} /\ leads' = leads /\ Resume({r}, o)
        /\ plan' = plan /\ {r} \in SUBSET Request
    BY <1>4 DEF Returns
  <2>2. Origin[at[r]] = Due(r)
    BY <1>1, <2>1 DEF CalledAgrees
  <2>3. o.form \notin Failure => o.from = Due(r)
    <3>1. CASE MadeHere(r, o)
      BY <1>0, <2>2, <3>1 DEF MadeHere, Wrapping
    <3>2. CASE FromCache(r, o)
      <4>1. PICK k \in RenderedKey :
                /\ KeyOf(Wraps[at[r]], k) \in DOMAIN entries
                /\ o = entries[KeyOf(Wraps[at[r]], k)].value
        BY <3>2 DEF FromCache
      <4>2. KeyFor(KeyOf(Wraps[at[r]], k), Wraps[at[r]])
        BY <1>0, <3>2, KeysOfWrapped DEF FromCache
      <4>3. o.from = Origin[Wraps[at[r]]]
        BY <1>1, <4>1, <4>2 DEF EntriesAgree, KeyFor
      <4>4. Origin[at[r]] = Origin[Wraps[at[r]]]
        BY <1>0, <3>2 DEF FromCache, Wrapping
      <4>5. QED
        BY <2>2, <4>3, <4>4
    <3>3. QED
      BY <1>4, <3>1, <3>2 DEF Returns
  <2>4. /\ \A q \in {r} : o.form \notin Failure => o.from = Due(q)
        /\ \A q \in Request : \A i \in 1..Len(leads'[q]) :
               i \in 1..Len(leads[q]) /\ leads'[q][i] = leads[q][i]
    BY <2>1, <2>3
  <2>5. \A q \in Request : Agrees(q)
    BY DEF OriginsAgree
  <2>6. QED
    <3>1. step \in [Request -> Nat] /\ at \in [Request -> Filter]
      BY <1>0
    <3>2. QED
      BY <2>1, <2>4, <2>5, <3>1, ResumeAgrees
<1>5. ASSUME NEW r \in Request, Leave(r) PROVE \A q \in Request : Agrees(q)'
  <2> DEFINE ck == Last(leads[r])
  <2>1. /\ pc[r] = "leave" /\ leads' = [leads EXCEPT ![r] = Front(@)]
        /\ plan' = plan
    BY <1>5 DEF Leave
  <2>2. leads[r] \in Seq(CacheKey) /\ leads[r] # <<>>
    BY <1>0, <2>1
  <2>3. /\ Len(leads[r]) \in Nat \ {0} /\ ck = leads[r][Len(leads[r])]
        /\ Len(Front(leads[r])) = Len(leads[r]) - 1
        /\ \A i \in 1..(Len(leads[r]) - 1) : Front(leads[r])[i] = leads[r][i]
    BY <2>2, FrontOfLeads
  <2>4. ASSUME NEW q \in Request, NEW i \in 1..Len(leads'[q])
        PROVE  i \in 1..Len(leads[q]) /\ leads'[q][i] = leads[q][i]
    <3>1. CASE q = r
      <4>1. leads'[r] = Front(leads[r])
        BY <1>0, <2>1
      <4>2. i \in 1..(Len(leads[r]) - 1)
        BY <2>3, <3>1, <4>1
      <4>3. QED
        BY <2>3, <3>1, <4>1, <4>2
    <3>2. CASE q # r
      BY <1>0, <2>1, <3>2
    <3>3. QED
      BY <3>1, <3>2
  <2>5. KeyOfOrigin(ck, Due(r))
    <3>1. Len(leads[r]) \in 1..Len(leads[r])
      BY <2>3
    <3>2. QED
      BY <1>1, <2>3, <3>1 DEF LedAgrees
  <2>6. ASSUME NEW q \in Served(r), result[r].form \notin Failure
        PROVE  result[r].from = Due(q)
    <3>1. result[r].from = Due(r)
      BY <1>1, <2>1, <2>6 DEF ResultAgrees
    <3>2. CASE q \in Waiters(snapshot[r], ck)
      <4>1. q \in Request /\ pc[q] = "wait" /\ key[q] = ck
        BY <3>2 DEF Waiters
      <4>2. Origin[at[q]] = Due(q) /\ Origin[at[q]] = Origin[Wraps[at[q]]]
        BY <1>0, <1>1, <4>1 DEF CalledAgrees, Wrapping
      <4>3. KeyFor(ck, Wraps[at[q]])
        BY <1>0, <4>1
      <4>4. Origin[Wraps[at[q]]] = Due(r)
        BY <2>5, <4>3, OneOrigin
      <4>5. QED
        BY <3>1, <4>2, <4>4
    <3>3. QED
      BY <3>1, <3>2 DEF Served
  <2>7. Served(r) \in SUBSET Request /\ Resume(Served(r), result[r])
    BY <1>5, LeaveResumes
  <2>8. /\ \A q \in Served(r) :
               result[r].form \notin Failure => result[r].from = Due(q)
        /\ \A q \in Request : \A i \in 1..Len(leads'[q]) :
               i \in 1..Len(leads[q]) /\ leads'[q][i] = leads[q][i]
    BY <2>4, <2>6
  <2>9. \A q \in Request : Agrees(q)
    BY DEF OriginsAgree
  <2>10. QED
    <3>1. step \in [Request -> Nat] /\ at \in [Request -> Filter]
      BY <1>0
    <3>2. QED
      BY <2>1, <2>7, <2>8, <2>9, <3>1, ResumeAgrees
<1>6. ASSUME NEW r \in Request, Store(r) PROVE EntriesAgree'
  <2> DEFINE ck == Last(leads[r])
  <2>1. pc[r] = "store"
    BY <1>6 DEF Store
  <2>2. leads[r] \in Seq(CacheKey) /\ leads[r] # <<>>
    BY <1>0, <2>1
  <2>3. Len(leads[r]) \in 1..Len(leads[r]) /\ ck = leads[r][Len(leads[r])]
    BY <2>2, FrontOfLeads
  <2>4. KeyOfOrigin(ck, Due(r))
    BY <1>1, <2>3 DEF LedAgrees
  <2>5. result[r].from = Due(r)
    BY <1>0, <1>1, <2>1 DEF ResultAgrees
  <2>6. ASSUME NEW l \in DOMAIN entries', NEW f \in Wrapped, KeyFor(l, f)
        PROVE  entries'[l].value.from = Origin[f]
    <3>1. \/ l = ck /\ entries'[l].value = result[r]
          \/ l \in DOMAIN entries /\ entries'[l] = entries[l]
      BY <1>6, StoreEntries
    <3>2. l = ck => Origin[f] = Due(r)
      BY <2>4, <2>6, OneOrigin
    <3>3. QED
      BY <1>1, <2>5, <2>6, <3>1, <3>2 DEF EntriesAgree
  <2>7. QED
    BY <2>6 DEF EntriesAgree
<1>7. ASSUME NEW r \in Request, NEW k \in RenderedKey, Miss(r, k)
      PROVE  EntriesAgree'
  BY <1>1, <1>7, MissEntries DEF EntriesAgree
<1>8. ASSUME NEW r \in Request,
             \/ Begin(r) \/ StartWork(r) \/ (\E o : Returns(r, o))
             \/ Lead(r) \/ Join(r) \/ Leave(r)
             \/ \E why \in {"deadline", "canceled"} : ContextEnds(r, why)
      PROVE  EntriesAgree'
  <2>1. entries' = entries
    BY <1>8 DEF Begin, StartWork, Returns, Lead, Join, Leave, ContextEnds, shared
  <2>2. QED
    BY <1>1, <2>1 DEF EntriesAgree
<1>9. CASE UNCHANGED <<entries, flights, localVars>>
  BY <1>1, <1>9 DEF localVars, OriginsAgree, EntriesAgree, Agrees, CalledAgrees,
                    LedAgrees, KeyOfOrigin, ResultAgrees, EndsAtTheLast,
                    Due
<1>10. ASSUME NEW r \in Request,
              \/ Begin(r) \/ StartWork(r) \/ (\E o : Returns(r, o))
              \/ \E k \in RenderedKey : Miss(r, k)
              \/ Lead(r) \/ Join(r) \/ Store(r) \/ Leave(r)
              \/ \E why \in {"deadline", "canceled"} : ContextEnds(r, why)
       PROVE  OriginsAgree'
  <2>1. \A q \in Request : Agrees(q)'
    BY <1>2, <1>3, <1>4, <1>5, <1>10
  <2>2. EntriesAgree'
    BY <1>6, <1>7, <1>8, <1>10
  <2>3. QED
    BY <2>1, <2>2 DEF OriginsAgree
<1>11. QED
  BY <1>9, <1>10, DataCases

(* A key holds a success of the filter it is for, and who ends well is given
   a result of the filter its route names: any number of requests, nested
   caches and reloads, if no key is for two filters and no cache wraps itself
   through others. *)
THEOREM TheRightResults ==
    ASSUME KeysAreUnambiguous, NEW CONSTANT Under, Layered(Under)
    PROVE  Spec => []ResultsAreTheRightOnes
<1>0. Wrapping
  BY OriginEquation DEF Wrapping
<1>1. Init => OriginsAgree
  <2> SUFFICES ASSUME Init PROVE OriginsAgree
    OBVIOUS
  <2>1. EntriesAgree
    BY DEF Init, Cache!CacheInit, EntriesAgree
  <2>2. ASSUME NEW r \in Request PROVE Agrees(r)
    <3>1. /\ pc[r] = "idle" /\ at[r] = plan[r][step[r]]
          /\ leads[r] = <<>> /\ Len(leads[r]) = 0
      BY DEF Init
    <3>2. QED
      BY <3>1 DEF Agrees, CalledAgrees, LedAgrees, ResultAgrees, EndsAtTheLast, Due
  <2>3. QED
    BY <2>1, <2>2 DEF OriginsAgree
<1>2. DataInv /\ OriginsAgree /\ [Next]_vars => OriginsAgree'
  BY <1>0, OriginsAgreeStep
<1>3. DataInv /\ OriginsAgree => ResultsAreTheRightOnes
  <2> SUFFICES ASSUME DataInv, OriginsAgree PROVE ResultsAreTheRightOnes
    OBVIOUS
  <2>1. EntriesAreTheirFilters
    BY DEF DataInv, DataTyped, OriginsAgree, EntriesAgree, EntriesAreTheirFilters,
           KeyFor
  <2>2. ASSUME NEW r \in Request, Answer(r) = "OK"
        PROVE  result[r].from = Origin[Last(plan[r])]
    <3>1. pc[r] = "done" /\ Code(result[r].form) = "OK"
      BY <2>2 DEF Answer
    <3>2. result[r].form \notin Failure \cup {"big"}
      BY <3>1 DEF Code, Failure
    <3>3. result[r].from = Due(r) /\ step[r] = Len(plan[r])
      BY <3>1, <3>2 DEF OriginsAgree, Agrees, ResultAgrees, EndsAtTheLast
    <3>4. QED
      BY <3>3 DEF Due, Last
  <2>3. QED
    BY <2>1, <2>2 DEF ResultsAreTheRightOnes, AnswersAreTheirFilters
<1>4. QED
  BY <1>1, <1>2, <1>3, DataInvariant, PTL DEF Spec
=============================================================================
