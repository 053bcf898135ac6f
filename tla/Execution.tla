----------------------------- MODULE Execution ------------------------------
(***************************************************************************)
(* Requests in flight: handleRequest around Engine.Execute, execFilter and *)
(* execCacheFilter (engine.go), run by one goroutine per request over what *)
(* they share: the TTL cache, the engine the App points to, and every      *)
(* engine's own singleflight group.                                        *)
(*                                                                         *)
(* A cache filter calls execFilter again for the filter it wraps, so a     *)
(* goroutine's calls nest: `leads' are the singleflight functions it is    *)
(* running, innermost last.  What a filter returns is abstracted to the    *)
(* filter that made it and the form it has.                                *)
(***************************************************************************)
EXTENDS Integers, SequencesExt

CONSTANTS
    Request,        \* the HTTP requests, each served once
    Filter,
    Id,             \* Filter -> its id, a sequence of symbols, one of them ":"
    Kind,           \* Filter -> "cache", "exec", "http" or "pure" (the rest)
    Wraps,          \* cache filter -> the filter named by its params.filter
    DependsOn,      \* Filter -> its depends_on
    Refs,           \* Filter -> what its templates refer to (see DepGraph)
    Routes,         \* the target filters of the configured paths
    RenderedKey,    \* what params.key renders to, sequences of symbols as well
    TTL, MaxEntries,
    MaxTime, MaxReloads     \* bounds of the clock and of the reloads

(* The engine's graph.  What a cache filter wraps is not an edge of it. *)
Dep == INSTANCE DepGraph WITH Node <- Filter

Deps == Dep!BuildDependencyGraph(
            [f \in Filter |-> [dependsOn |-> DependsOn[f], refs |-> Refs[f]]])

(* Config.Validate lets through: ids are not empty and not used twice, the
   filters that depends_on, params.filter and the paths name exist, and the
   graph has no cycle. *)
Validated ==
    /\ Id \in [Filter -> Seq(STRING) \ {<<>>}]
    /\ \A f, h \in Filter : Id[f] = Id[h] => f = h
    /\ Wraps \in [{f \in Filter : Kind[f] = "cache"} -> Filter]
    /\ DependsOn \in [Filter -> SUBSET Filter]
    /\ Routes \subseteq Filter
    /\ Dep!Acyclic(Deps)

ASSUME ExecutionAssumption ==
    /\ Kind \in [Filter -> {"cache", "exec", "http", "pure"}]
    /\ Refs \in [Filter -> SUBSET [name : Filter, form : Dep!RefForm]]
    /\ Validated
    /\ IsFiniteSet(Filter)
    /\ RenderedKey # {} /\ RenderedKey \subseteq Seq(STRING)
    /\ TTL \subseteq Int
    /\ {MaxEntries, MaxTime, MaxReloads} \subseteq Nat

(* The orders topoForTarget may return (see TopoForTarget). *)
Plans == {p \in SeqOf(Filter, Cardinality(Filter)) :
              \E target \in Routes : Dep!IsOrder(Deps, p, target)}

(* A variant of KeyOf that leaves the filter out. *)
KeyAlone(f, k) == k

(* cacheKey is target + ":" + key: two filters may have one in common, as an
   id may hold a colon. *)
KeyOf(f, k) == Id[f] \o <<":">> \o k
CacheKey    == {KeyOf(f, k) : f \in Filter, k \in RenderedKey}

(* A result may carry timeout = true or the output of a killed process, or
   be over max_filter_output_size. *)
Form    == {"complete", "timedout", "killed", "big"}
Failure == {"deadline", "canceled", "failed"}
Value   == [from : Filter, form : Form]
Outcome == [from : Filter, form : Form \cup Failure]

VARIABLES
    order, entries, now,    \* the cache: App.cache, kept over reloads
    engine,                 \* the number of the engine App.engine points to
    flights,                \* the calls in the singleflight groups' maps
    pc, ctx,                \* where a request is; the state of its context
    snapshot,               \* the engine it took when it began
    plan, step,             \* its order, and the index it is at
    at,                     \* the filter execFilter was called with last
    key,                    \* the cacheKey of its last cache miss
    leads,
    result,                 \* what its innermost call returned
    followed                \* ghost: the requests whose calls it waited for,
                            \* and those these had waited for

shared   == <<order, entries, now, engine, flights>>
localVars == <<pc, ctx, snapshot, plan, step, at, key, leads, result, followed>>
vars == <<shared, localVars>>

Cache == INSTANCE TTLCache WITH Key <- CacheKey

Flight(e, k, r) == [engine |-> e, key |-> k, leader |-> r]
InFlight(e, k)  == \E r \in Request : Flight(e, k, r) \in flights
Waiters(e, k)   == {q \in Request : pc[q] = "wait" /\ snapshot[q] = e /\ key[q] = k}
Active(r)       == pc[r] \notin {"idle", "done"}

Init ==
    /\ Cache!CacheInit
    /\ engine = 0
    /\ flights = {}
    /\ pc = [r \in Request |-> "idle"]
    /\ ctx = [r \in Request |-> "live"]
    /\ snapshot = [r \in Request |-> 0]
    /\ plan \in [Request -> Plans]
    /\ step = [r \in Request |-> 1]
    /\ at = [r \in Request |-> plan[r][1]]
    /\ key = [r \in Request |-> CHOOSE k \in CacheKey : TRUE]
    /\ leads = [r \in Request |-> <<>>]
    /\ result = [r \in Request |-> [from |-> plan[r][1], form |-> "failed"]]
    /\ followed = [r \in Request |-> {}]

(***************************************************************************)
(* The outcome o of execFilter reaches the callers R, after leads' is set: *)
(* back to the singleflight function that made the call, which stores a    *)
(* success and passes on a failure, or back to the loop of Execute, which  *)
(* ends with a failure, an oversized output or the last filter.            *)
(***************************************************************************)
Ends(r, o)  == o.form \in Failure \cup {"big"} \/ step[r] = Len(plan[r])
Loops(r, o) == leads'[r] = <<>> /\ ~ Ends(r, o)

(* A variant of Resume that stores failures as well. *)
ResumeStoring(R, o) ==
    /\ result' = [r \in Request |-> IF r \in R THEN o ELSE result[r]]
    /\ pc' = [r \in Request |->
           IF r \notin R THEN pc[r]
           ELSE IF Loops(r, o) THEN "call"
           ELSE IF leads'[r] = <<>> THEN "done" ELSE "store"]
    /\ step' = [r \in Request |->
           IF r \in R /\ Loops(r, o) THEN step[r] + 1 ELSE step[r]]
    /\ at' = [r \in Request |->
           IF r \in R /\ Loops(r, o) THEN plan[r][step[r] + 1] ELSE at[r]]

Resume(R, o) ==
    /\ result' = [r \in Request |-> IF r \in R THEN o ELSE result[r]]
    /\ pc' = [r \in Request |->
           IF r \notin R THEN pc[r]
           ELSE IF Loops(r, o) THEN "call"
           ELSE IF leads'[r] = <<>> THEN "done"
           ELSE IF o.form \in Failure THEN "leave" ELSE "store"]
    /\ step' = [r \in Request |->
           IF r \in R /\ Loops(r, o) THEN step[r] + 1 ELSE step[r]]
    /\ at' = [r \in Request |->
           IF r \in R /\ Loops(r, o) THEN plan[r][step[r] + 1] ELSE at[r]]

Return(r, form) ==
    /\ leads' = leads
    /\ Resume({r}, [from |-> at[r], form |-> form])

-----------------------------------------------------------------------------
(* handleRequest takes cfg and engine under one read lock. *)
Begin(r) ==
    /\ pc[r] = "idle"
    /\ pc' = [pc EXCEPT ![r] = "call"]
    /\ snapshot' = [snapshot EXCEPT ![r] = engine]
    /\ UNCHANGED <<shared, ctx, plan, step, at, key, leads, result, followed>>

(* A filter that does no I/O under the context, or whose context is live. *)
StartWork(r) ==
    /\ pc[r] = "call"
    /\ Kind[at[r]] = "pure" \/ (Kind[at[r]] # "cache" /\ ctx[r] = "live")
    /\ pc' = [pc EXCEPT ![r] = "work"]
    /\ UNCHANGED <<shared, ctx, snapshot, plan, step, at, key, leads, result, followed>>

(* With a context that has ended the HTTP client and the process are not
   started; execExecFilter makes a result of a deadline all the same.  The
   templates of the params are rendered before, and may fail. *)
RefuseWork(r) ==
    /\ pc[r] = "call"
    /\ Kind[at[r]] \in {"http", "exec"}
    /\ ctx[r] # "live"
    /\ \/ Return(r, IF Kind[at[r]] = "exec" /\ ctx[r] = "deadline"
                    THEN "timedout" ELSE ctx[r])
       \/ Return(r, "failed")
    /\ UNCHANGED <<shared, ctx, snapshot, plan, key, followed>>

(* How the work can end.  A process that ran into exec.timeout or into the
   request's deadline returns timeout = true, complete or not; one killed
   because the client went away returns like any process that was killed,
   or, when it had just ended by itself, as the error of the context. *)
WorkForms(r) ==
    {"big", "failed"} \cup
    CASE Kind[at[r]] = "exec" /\ ctx[r] = "live" -> {"complete", "timedout"}
      [] Kind[at[r]] = "exec" /\ ctx[r] = "deadline" -> {"timedout"}
      [] Kind[at[r]] = "exec" /\ ctx[r] = "canceled" ->
            {"complete", "killed", "canceled"}
      [] Kind[at[r]] = "http" -> {"complete"} \cup ({ctx[r]} \ {"live"})
      [] OTHER -> {"complete"}

FinishWork(r) ==
    /\ pc[r] = "work"
    /\ \E form \in WorkForms(r) : Return(r, form)
    /\ UNCHANGED <<shared, ctx, snapshot, plan, key, followed>>

(* execCacheFilter: the template of params.key cannot be rendered. *)
KeyFails(r) ==
    /\ pc[r] = "call"
    /\ Kind[at[r]] = "cache"
    /\ Return(r, "failed")
    /\ UNCHANGED <<shared, ctx, snapshot, plan, key, followed>>

(* execCacheFilter: the lookup, under the cache's own lock.  A hit returns
   the cached value, a miss goes on to Do without any lock. *)
Hit(r, k) ==
    /\ pc[r] = "call"
    /\ Kind[at[r]] = "cache"
    /\ LET ck == KeyOf(Wraps[at[r]], k)
       IN  /\ Cache!GetHit(ck)
           /\ leads' = leads
           /\ Resume({r}, entries[ck].value)
    /\ UNCHANGED <<engine, flights, ctx, snapshot, plan, key, followed>>

Miss(r, k) ==
    /\ pc[r] = "call"
    /\ Kind[at[r]] = "cache"
    /\ LET ck == KeyOf(Wraps[at[r]], k)
       IN  /\ Cache!GetMiss(ck) \/ Cache!GetExpired(ck)
           /\ key' = [key EXCEPT ![r] = ck]
    /\ pc' = [pc EXCEPT ![r] = "enter"]
    /\ UNCHANGED <<engine, flights, ctx, snapshot, plan, step, at, leads, result,
                   followed>>

(* A variant of Lead for a group that does not know the call's key. *)
LeadAlways(r) ==
    /\ pc[r] = "enter"
    /\ flights' = flights \cup {Flight(snapshot[r], key[r], r)}
    /\ leads' = [leads EXCEPT ![r] = Append(@, key[r])]
    /\ at' = [at EXCEPT ![r] = Wraps[@]]
    /\ pc' = [pc EXCEPT ![r] = "call"]
    /\ UNCHANGED <<order, entries, now, engine, ctx, snapshot, plan, step, key, result,
                   followed>>

(* Do finds no call for the key: this goroutine registers one and runs the
   function, which executes the wrapped filter under its own context. *)
Lead(r) ==
    /\ pc[r] = "enter"
    /\ ~ InFlight(snapshot[r], key[r])
    /\ flights' = flights \cup {Flight(snapshot[r], key[r], r)}
    /\ leads' = [leads EXCEPT ![r] = Append(@, key[r])]
    /\ at' = [at EXCEPT ![r] = Wraps[@]]
    /\ pc' = [pc EXCEPT ![r] = "call"]
    /\ UNCHANGED <<order, entries, now, engine, ctx, snapshot, plan, step, key, result,
                   followed>>

(* Do finds a call for the key: this goroutine waits for it, with no regard
   to its own context. *)
Join(r) ==
    /\ pc[r] = "enter"
    /\ InFlight(snapshot[r], key[r])
    /\ pc' = [pc EXCEPT ![r] = "wait"]
    /\ UNCHANGED <<shared, ctx, snapshot, plan, step, at, key, leads, result, followed>>

(* The singleflight function stores what the wrapped filter returned. *)
Store(r) ==
    /\ pc[r] = "store"
    /\ \E ttl \in TTL : Cache!Set(Last(leads[r]), ttl, result[r])
    /\ pc' = [pc EXCEPT ![r] = "leave"]
    /\ UNCHANGED <<engine, flights, ctx, snapshot, plan, step, at, key, leads, result, followed>>

(* What the waiters of r's call are given comes from r, or from those whose
   calls r waited for itself. *)
FollowedBy(R, r) ==
    followed' = [q \in Request |->
        IF q \in R THEN followed[q] \cup {r} \cup followed[r] ELSE followed[q]]

(* A variant of Leave that leaves its call in the group. *)
LeaveRegistered(r) ==
    /\ pc[r] = "leave"
    /\ leads' = [leads EXCEPT ![r] = Front(@)]
    /\ Resume({r} \cup Waiters(snapshot[r], Last(leads[r])), result[r])
    /\ FollowedBy(Waiters(snapshot[r], Last(leads[r])), r)
    /\ UNCHANGED <<shared, ctx, snapshot, plan, key>>

(* A variant of Leave that wakes nobody when the function failed. *)
LeaveSilently(r) ==
    /\ pc[r] = "leave"
    /\ LET ck == Last(leads[r])
       IN  /\ flights' = flights \ {Flight(snapshot[r], ck, r)}
           /\ leads' = [leads EXCEPT ![r] = Front(@)]
           /\ Resume({r} \cup IF result[r].form \in Failure THEN {}
                              ELSE Waiters(snapshot[r], ck), result[r])
           /\ FollowedBy(Waiters(snapshot[r], ck), r)
    /\ UNCHANGED <<order, entries, now, engine, ctx, snapshot, plan, key>>

(* The function returned: its call is dropped from the group, and everyone
   who waited gets the same result, or the same error. *)
Leave(r) ==
    /\ pc[r] = "leave"
    /\ LET ck == Last(leads[r])
       IN  /\ flights' = flights \ {Flight(snapshot[r], ck, r)}
           /\ leads' = [leads EXCEPT ![r] = Front(@)]
           /\ Resume({r} \cup Waiters(snapshot[r], ck), result[r])
           /\ FollowedBy(Waiters(snapshot[r], ck), r)
    /\ UNCHANGED <<order, entries, now, engine, ctx, snapshot, plan, key>>

-----------------------------------------------------------------------------
(* server.request_timeout passes; or the client goes away. *)
ContextEnds(r, why) ==
    /\ Active(r)
    /\ ctx[r] = "live"
    /\ ctx' = [ctx EXCEPT ![r] = why]
    /\ UNCHANGED <<shared, pc, snapshot, plan, step, at, key, leads, result, followed>>

Deadline(r) == ContextEnds(r, "deadline")
Disconnect(r) == ContextEnds(r, "canceled")

(* Reload: a new engine, with a group of its own, over the same cache. *)
Reload ==
    /\ engine < MaxReloads
    /\ engine' = engine + 1
    /\ UNCHANGED <<order, entries, now, flights, localVars>>

Tick ==
    /\ Cache!Tick
    /\ UNCHANGED <<engine, flights, localVars>>

(* What the goroutine of r does by itself, without waiting for anyone. *)
Proceed(r) ==
    \/ StartWork(r) \/ RefuseWork(r) \/ KeyFails(r)
    \/ \E k \in RenderedKey : Hit(r, k) \/ Miss(r, k)
    \/ Lead(r) \/ Join(r) \/ Store(r) \/ Leave(r)

Next ==
    \/ \E r \in Request : \/ Begin(r) \/ Proceed(r) \/ FinishWork(r)
                         \/ Deadline(r) \/ Disconnect(r)
    \/ Reload
    \/ Tick

Spec == Init /\ [][Next]_vars

(***************************************************************************)
(* Goroutines run, request timers fire, a filter without I/O ends, and the *)
(* HTTP client and a process give up once the context they hold has ended. *)
(* An upstream that is slow under a live context may stay so.              *)
(***************************************************************************)
GivesUp(r) == (Kind[at[r]] = "pure" \/ ctx[r] # "live") /\ FinishWork(r)

Fairness ==
    \A r \in Request : /\ WF_vars(Proceed(r))
                       /\ WF_vars(GivesUp(r))
                       /\ WF_vars(Deadline(r))

FairSpec == Spec /\ Fairness

-----------------------------------------------------------------------------
(* What handleRequest writes for the outcome of Execute. A dial that runs into
   the 30 s of http.DefaultTransport counts as a deadline in the code; here it is
   among what "failed". *)
Code(form) ==
    CASE form = "deadline" -> "REQUEST_TIMEOUT"
      [] form = "big" -> "FILTER_OUTPUT_TOO_LARGE"
      [] form \in {"canceled", "failed"} -> "FILTER_EXECUTION_FAILED"
      [] OTHER -> "OK"

Answer(r) == IF pc[r] = "done" THEN Code(result[r].form) ELSE "none"

(* Types, and who leads something has registered it, once per key. *)
TypeOK ==
    /\ Cache!CacheTypeOK
    /\ engine \in 0..MaxReloads
    /\ flights \subseteq
           [engine : 0..MaxReloads, key : CacheKey, leader : Request]
    /\ pc \in [Request -> {"idle", "call", "work", "enter", "wait", "store",
                           "leave", "done"}]
    /\ ctx \in [Request -> {"live", "deadline", "canceled"}]
    /\ snapshot \in [Request -> 0..MaxReloads]
    /\ plan \in [Request -> Plans]
    /\ \A r \in Request : step[r] \in 1..Len(plan[r])
    /\ at \in [Request -> Filter]
    /\ key \in [Request -> CacheKey]
    /\ leads \in [Request -> Seq(CacheKey)]
    /\ result \in [Request -> Outcome]
    /\ followed \in [Request -> SUBSET Request]
    /\ flights = UNION {{Flight(snapshot[r], k, r) : k \in Range(leads[r])} :
                            r \in Request}

(***************************************************************************)
(* Singleflight collapses what runs at the same time: in one engine a      *)
(* wrapped filter is never executed by two requests at once for one key.   *)
(***************************************************************************)
ExecutionsDoNotOverlap ==
    \A f, h \in flights : f.engine = h.engine /\ f.key = h.key => f = h

(***************************************************************************)
(* No lost wake-up: whoever waits, waits for a call that another request   *)
(* of the same engine is still running, and so will be given its result.   *)
(***************************************************************************)
NobodyWaitsInVain ==
    \A q \in Request : pc[q] = "wait" =>
        \E r \in Request \ {q} : Flight(snapshot[q], key[q], r) \in flights

(***************************************************************************)
(* Requests do not wait for each other in a circle: every set of waiting   *)
(* requests has one whose flight is led from outside the set.              *)
(***************************************************************************)
NoWaitCycle ==
    \A S \in SUBSET {q \in Request : pc[q] = "wait"} :
        S # {} => \E q \in S :
            \A r \in S : Flight(snapshot[q], key[q], r) \notin flights

(* The filter that in the end does the work of f. *)
Origin[f \in Filter] == IF Kind[f] = "cache" THEN Origin[Wraps[f]] ELSE f

(* What params.filter names in some cache filter. *)
Wrapped == Range(Wraps)

(* The cache holds successes, each of the filter whose results its key is
   for. *)
EntriesAreTheirFilters ==
    \A ck \in DOMAIN entries :
        /\ entries[ck].value \in Value
        /\ \A f \in Wrapped : (\E k \in RenderedKey : ck = KeyOf(f, k)) =>
               entries[ck].value.from = Origin[f]

(* SPEC.md:510 "if a cache hit occurs (key exists and TTL not expired), the
   target filter is skipped and the cached result is returned": a request that
   ends well is given a result of the filter its route names. *)
AnswersAreTheirFilters ==
    \A r \in Request : Answer(r) = "OK" => result[r].from = Origin[Last(plan[r])]

(***************************************************************************)
(* However requests, nested caches and reloads interleave, a key holds a   *)
(* success of the filter it is for, and a request that ends well is given  *)
(* a result of the filter its route names -- as long as no two wrapped     *)
(* filters have a key in common.                                           *)
(***************************************************************************)
ResultsAreTheRightOnes == EntriesAreTheirFilters /\ AnswersAreTheirFilters

(* The filters whose results are in resultMap. *)
Has(r) == {plan[r][i] : i \in 1..(step[r] - 1)}

(***************************************************************************)
(* SPEC.md "Reachability sources: [...] template references": when a       *)
(* filter renders its templates, every filter they refer to has been       *)
(* executed in this request.                                               *)
(***************************************************************************)
ReferencesAreExecuted ==
    \A r \in Request : pc[r] \in {"work", "enter"} =>
        \A x \in Refs[at[r]] : x.name \in Has(r)

(***************************************************************************)
(* Waiters share the leader's failure, and only they: who fails with the   *)
(* end of a context is the request whose context it was, or waited for a   *)
(* call of it, or of one that had waited for it, in the same engine.       *)
(* Neither the cache nor a reload carries it over.                         *)
(***************************************************************************)
ContextFailuresAreShared ==
    \A r \in Request :
        pc[r] = "done" /\ result[r].form \in {"deadline", "canceled"} =>
            \E q \in {r} \cup followed[r] :
                snapshot[q] = snapshot[r] /\ ctx[q] = result[r].form

(* Every request is answered: each is served once, so none that began stays
   active for ever. *)
EveryRequestEnds == []<>(\A r \in Request : ~ Active(r))

-----------------------------------------------------------------------------
(* What SPEC.md says and the code does not keep to. *)

(* SPEC.md "If timeout is exceeded: [...] stop remaining filter execution":
   Execute does not go on to another filter of the order. *)
StopsAfterTimeout ==
    [][\A r \in Request : ctx[r] = "deadline" => step'[r] = step[r]]_vars

(* SPEC.md "all filters must not have circular dependencies": a configuration
   that Validate accepts never makes a request wait for itself. *)
AcceptedConfigsDoNotHang == Validated => NoWaitCycle
=============================================================================
