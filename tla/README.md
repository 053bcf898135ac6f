# gilterweb in TLA+

gilterweb is an HTTP server whose responses are computed by *filters*: a
configuration names filters (`static`, `env`, `http`, `exec`, `file`, `jq`,
`base64`, `regex`, `cache`), what they depend on, and which filter answers
which route. This directory holds TLA+ models of its core logic, TLC
configurations that check them on small instances, and proofs of the main
results for instances of any size.

Line numbers refer to the Go files in the root of the repository. The exact
correspondence of every definition is in `PROJECT.json` under `map`.

## 1. Inventory

| part | code | state | operations | what is hard |
|---|---|---|---|---|
| dependency graph | `deps.go` | the graph of an engine | `BuildDependencyGraph`, `inferTemplateDeps`, `detectCycle` | map iteration order; references that are not recognised; edges that are missing (`cache.filter`) |
| execution order | `engine.go` `topoForTarget` | local to a request | the depth-first search | map iteration order; agreement with `detectCycle` |
| request execution | `engine.go` `Execute`, `execFilter`, `execCacheFilter` | result map of a request; singleflight group of an engine | one filter after the other; nested calls through cache filters | interleaving of requests between lookup, join and store; keys that two filters share; deadlines, disconnects; nested waits |
| filters | `engine.go` `exec*Filter`, `template_funcs.go` | compile caches | http and exec I/O under the request's context | what a deadline or a kill turns into |
| TTL cache | `app.go` `TTLCache` | list and map under one mutex | `Get`, `Set` | list and map kept in step by hand; expiry against recency; capacity |
| App | `app.go` `App` | cfg, engine, cache, logger under one RWMutex | `handleRequest`, `Reload`, `Check`, `Run`, `Shutdown` | snapshot of a request against reload; the cache outlives engines |
| server process | `main.go` `newServerCmd` | the signal loop, listener, socket file | start, SIGHUP, SIGTERM | merged signals; `--addr` against reload; races around the socket file; a SIGTERM during the start |
| routing, request context | `request_context.go` | none | route match, body limit, parsing | boundary of the limit; order of routes |
| response | `app.go` | headers of one response | header precedence, compression, errors | failure after headers are set |
| configuration | `config.go`, `filter_validate.go` | none | `LoadConfig`, `Validate` | what later code takes for granted |
| init-config | `main.go` `writeConfigFile` | a file | write in place, or through a temporary file | crash or failing write half way |

How they interact: `main` loads a configuration, builds the `App` (cache and
first engine) and runs it. Each HTTP request runs in a goroutine of its own:
`handleRequest` takes `cfg` and `engine` under the read lock and calls
`Engine.Execute` with a context that ends at `server.request_timeout` or when
the client goes away. `Execute` asks `topoForTarget` for the order and runs it.
A cache filter looks into the shared `TTLCache`, and on a miss calls the
engine's singleflight group, in which the goroutine of *one* request executes
the wrapped filter under *its own* context while others wait. A reload replaces
the engine, and with it the singleflight group, but keeps the cache.

For each part, what makes it correct:

- **graph**: exactly the circular configurations are refused, whatever order
  the maps are walked in;
- **order**: exactly the filters the target needs, each once, dependencies first;
- **cache**: a bounded map in which an entry is given out until it expires and
  only the least recently used is given up before that;
- **execution**: misses on one key are executed once at a time; nobody waits
  for something that will not come, or in a circle; a request is given a result
  of the filter its route names; every request is answered;
- **filters**: what validation accepted does not fail a request for its shape,
  and the compile caches cannot be noticed;
- **exchange**: the documented route, the whole body or none of it, headers by
  precedence, described compression, an error a client can rely on, and an end;
- **server**: a request works with one configuration from start to
  end; the last hangup is honoured; shutdown waits for what is in flight;
- **socket file**: whoever listens can be reached, and what a crash left never
  stops a start;
- **init-config**: a whole configuration file is never replaced by a part of one.

## 2. Modules

```
DepGraph ──┬─ DetectCycle ───┐                        deps.go
           ├─ TopoForTarget ─┴─ ExecutionPlan         engine.go, main.go
           └──(INSTANCE)── Execution                  engine.go, app.go
LRUMap ──(INSTANCE)── TTLCache ──(INSTANCE)──┘        app.go

Filters                                  engine.go, filter_validate.go
Routing, Response ── Exchange            request_context.go, app.go
InitConfig ──(INSTANCE)──┐
Server ── Deployment ────┘               main.go, app.go
UnixSocket                               app.go

proofs: ExecutionPlan_proofs (on StackLemmas), TTLCache_proofs, Execution_proofs
        (on TTLCache_proofs), Filters_proofs, Exchange_proofs, Deployment_proofs,
        UnixSocket_proofs
```

A module `MC<name>` gives the constants of `<name>` their values for TLC.
**Overlay** defines `@@` and `:>` as module TLC does, where the provers can see
the definition; Filters and Response combine maps with them.

**DepGraph** builds the graph from a configuration, and defines the reference
notions (reachable, acyclic, an order for a target) without any search:
reachable is membership in
every closed set that holds the start, acyclic on `T` is that every non-empty
part of `T` has a member that depends on nothing in that part. The searches
are judged by these.

**DetectCycle** (`deps.go:154-191`) and **TopoForTarget** (`engine.go:126-153`)
are the two depth-first searches, one action per outcome of looking at an edge
or of leaving a call. The Go recursion is an explicit stack (`calls`, `stack`);
what is left of the loop of an active call is a set (`left`, `todo`), because Go
walks a map in an unspecified order and TLA+ may then take any member.
**ExecutionPlan** runs one after the other on the same graph, as the `validate`
command does (`main.go:265-280`): `AcceptedIsOrdered` says that the two cycle
detections, written differently, agree. It asks for an order of refused graphs
as well, which the program does not, so that `CycleVerdict` is not vacuous.

**TTLCache** (`app.go:557-616`). `order` is the linked list and `entries` the
map; a list element is identified with its key. `Get` and `Set` hold the mutex
from start to end, so each is one step, split by outcome (`GetMiss`,
`GetExpired`, `GetHit`, `Update`, `Insert`). The eviction loop runs at most once
because the list was within bounds before; that is the invariant `Bounded`.
**LRUMap** is the abstract specification, a map with expiry times and, in place
of a list, the relation "used more recently than". `ImplementsLRU` states that
TTLCache implements it with the relation read off the list.

**Execution** composes the graph (for the orders a request may get), the cache,
the singleflight groups, and one goroutine per request:

| variable | code |
|---|---|
| `order`, `entries`, `now` | `App.cache`, the clock |
| `engine`, `snapshot` | `App.engine`, and the one `handleRequest` took |
| `flights` | the maps of the singleflight groups, one group per engine |
| `plan`, `step` | `order` and the loop of `Execute` |
| `at`, `leads` | the nested `execFilter` calls of a goroutine: the filter of the innermost one, and the singleflight functions it is inside of |
| `key`, `pc` | between a cache miss and the end of `Do` |
| `ctx` | the request's context: live, past its deadline, cancelled |
| `result` | what the innermost call returned |
| `followed` | no variable of the code: the requests whose calls this one got its result from (a history variable) |

A cache key is what the code makes of it (`KeyOf`): the id of the wrapped filter,
a colon and the rendered key, one after the other, as a sequence of characters or
of longer pieces. Ids may hold colons and keys come from the request, so two
wrapped filters may share an entry and a call.

`Resume` is what happens after a call returns: the value goes to the enclosing
singleflight function (store it, or pass on the error) or to the loop of
`Execute` (next filter, or the end). `Leave` ends a singleflight call and
resumes its leader and its waiters with the same outcome in one step, as
singleflight deletes the call under its lock before the waiters are released.
Work done by http and exec takes two steps, so that a deadline, a disconnect or
a reload can fall in between. `WorkForms` lists how work can end: an exec filter
that ran into the deadline returns a *result* with `timeout = true`
(`engine.go:402`), one whose client went away returns like any killed process.

`Validated` is what `Config.Validate` lets through about filters, their
dependencies and the routes. `Refs` gives the references in a filter's templates
with the form they are written in; the graph holds those that
`inferTemplateDeps` recognises, and `ReferencesAreExecuted` asks that the filter
read is in the result map (`Has`) when the template is rendered. It is checked
for recognised references: one written `{{$.A}}` or `{{index . "A"}}` is none.

What a filter computes is abstracted to the filter that made it and the form it
has (complete, timed out, killed, too big, or a kind of failure). The filters
stay the same over a reload.

**Filters** is the inside of one filter call. `Steps(f)` is the sequence of
checks, compilations and renderings that the function of its type performs,
in the order of the code; `ValidateFilterParams` is the separate list of checks
in `filter_validate.go`. A literal of the configuration is abstracted to what
the two can tell apart: absent or no string (`toString` makes both empty),
empty, without actions, rendered differently from request to request, or not
parsable. `programs` are the three `sync.Map` compile caches of an engine;
`Load`, `LoadMiss` and `LoadOrStore` are separate steps, so requests may compile
one source at the same time. `LeftToRequestTime` lists exactly what an accepted
filter can still be found to lack.

**Exchange** is one HTTP exchange around `Engine.Execute`: the access log and
recovery, routing, the body, the answer. Time is counted from the end of the
request's header, where net/http starts `ReadTimeout` and `WriteTimeout`; it
passes only while there is something to wait for, the rest of the body or
Execute, and the handler's own steps take none. `alone` says of a request that
the deadline it can run into is its own: it shares no call with another one, and
does not dial. **Routing** has the two
passes of `matchRouteWithParams` over paths as sequences of segments, next to
the match policy of SPEC.md stated declaratively (`Describes`, `Precedes`).
Methods are compared as `strings.EqualFold` does (`Folded`).
Segments with an opening and with a closing brace are told apart, since
`hasPathParamPattern` looks for the two anywhere in the path. The policy is
stated for requests whose path does not itself look like a pattern; for the
others the code prefers no route that spells the path out.
**Response** has the order in which headers are set, the choice of content type,
the eight conditions of compression and the error payload, as operators; a header
that is set to nothing counts as not set where the code uses `Header.Get`. The
limit of the body is `maxBytes + 1` in two's complement (`Wrap`).

**Server** is the process: the operator (`Edit`, `Hangup`, `Terminate`), the
signal loop of `newServerCmd` with one action per case of its `select` and per
step of a reload, the goroutine of `App.Run` (`Listen`, `ServeClosed`,
`ListenFails`, `ServeFails`), and requests as far as reload and shutdown see
them: `Connect` needs a listener, while a request on a connection that is open
may reach its handler (`Accept`) after Shutdown has begun. A configuration is its server section, with the address apart, and its
content. `hupCh` holds one signal, so `hup` is a Boolean; a hangup sent
while one is in the channel is merged into it. Loading the file and applying it
are separate steps: edits, hangups and a termination fall in between.
`--log-level` is applied to every file read and cannot fail after the start, so
it is left out; `--addr` is applied at the start only, as in the code.
`asked` is a history variable: a hangup was sent and the file not edited since.

**InitConfig** is `writeConfigFile` by several processes on one name, one action
per system call that can fail or be the last one before a crash. A file is what
`LoadConfig` would make of it; `Cut` are the beginnings of a file that is being
written, some of which parse (an empty file is the default configuration).
**Deployment** puts InitConfig and Server on the same `file`: a step of one is a
change of the file for the other.

**UnixSocket** is several server processes on one socket path. The file is
identified with the process that bound it, and everything the code does to it
goes by the path: `Remove`, `Close` and `Cleanup` hit whoever's file is there.
Between `net.Listen` and `Serve` a process listens (`Listening`) without being
registered with its server: a SIGTERM that comes so early finds nothing to close,
and the process exits with status 0 and leaves its file (`Quit`).
`raced` is a history variable: a start overlapped another start or a stop, or a
process was too busy to answer within `unixSocketProbeTimeout`.

## 3. Runs

| run | bounds | distinct states | shows |
|---|---|---|---|
| `execution_plan` | every graph on 3 nodes, every root | 71,988 | `PlanTypeOK`; `VerdictRight`, `DetectionEnds`; `DependenciesFirst`, `ExactlyReachable`, `CycleVerdict`, `SearchEnds`; `AcceptedIsOrdered` |
| `ttl_cache` | 3 keys, 2 values, capacity 2, ttl -1..1, clock to `MaxTime` = 3 | 1,936 | `CacheTypeOK`, `Bounded`, `ImplementsLRU` |
| `execution` | 2 requests; a cache around a cache around http, whose key refers to a cache around exec; capacity 1, `MaxTime` = 1, `MaxReloads` = 1 | 939,299 | `TypeOK`, `ReferencesAreExecuted`, `ResultsAreTheRightOnes`, `ExecutionsDoNotOverlap`, `ContextFailuresAreShared`, `NobodyWaitsInVain`, `NoWaitCycle`, `EveryRequestEnds` |
| `filters` | 2 requests; 274 accepted filters of all nine types | 64,712 | `LeftToRequestTime`, `OneProgramPerSource` |
| `exchange` | all lists of 3 routes out of 9 for 8 paths and 3 methods, two of them the same up to case; limits 1..`MaxInt` = 3 with bodies of 0..5 that come at once, late or never, of requests that are alone or not; 9 header sets, with empty values, and 6 Accept-Encodings | 782,704 | `RouteIsTheDocumentedOne`, `ParamsExplainThePath`, `BodyIsWholeOrRefused`, `HeadersHavePrecedence`, `CompressedIsDescribed`, `EnoughTimeMeansAnAnswer`, `ExchangeEnds` |
| `deployment` | 1 request, `MaxEdits` = 2, `MaxHangups` = 2, one init-config with and one without `--force`, no `--addr` | 813,879 | `ServerTypeOK`, `OneConfiguration`, `CleanExit`, `RejectedForAReason`, `TermEnds`, `HangupIsHonoured`; `HalfAConfigIsUnforced`, `WholeStaysWhole` |
| `unix_socket` | 4 processes, each started once, with symmetry | 5,282 | `SocketTypeOK`, `ReachableUnlessRaced`, `FailsOnlyForAnother` |

Why the bounds are enough to be interesting: three nodes hold self-loops,
two- and three-cycles, edges to nodes met before and parts that are not
reachable; three keys in a cache of two make every order of use before an
eviction. In `execution`, capacity one makes the three keys evict each other,
and they have two origins, so that a result in the wrong place shows (no two
wrapped filters have a key in common there; `execution_keys` is the other case); the two
requests may enter the nest of caches at different depths, so that a leader
waits for the other one's inner call. Longer chains of waits need more requests
than TLC manages; that nobody waits in vain or in a circle is proved for any
number. In `filters` two requests are all it takes to compile one source at the
same time, and each literal class of each parameter occurs. The families of
`exchange` are separate because routing, timing and headers do not influence
each other; `MaxInt` stands for the largest int64, and `Overrun` = 1 for the time
Execute may go on past its own deadline, for the singleflight leader it waits
for. Two edits and two
hangups are what it takes for a file to be changed while the one before is being
loaded, and for the hangup about it to come before that load has ended; requests
do not influence each other there, so one is enough. Four processes on a socket
are one that crashes or is stopped early, one that takes its place, and two that
meet it.

Symmetry is used in `unix_socket` only, which checks no liveness. Deadlock is not
checked, because everything modelled may stop: searches and requests end, the
clock, reloads, edits and hangups are bounded by the constants named above,
processes exit.

### What the documentation says and the code does not do

These runs are expected to find a violation; the quotes are in `PROJECT.json`
under `findings`.

| run | property | what happens |
|---|---|---|
| `execution_stops` | `StopsAfterTimeout` | execution goes on after the deadline when the filter was an exec |
| `execution_self` | `AcceptedConfigsDoNotHang` | a cache around itself is accepted, and hangs |
| `execution_keys` | `AnswersAreTheirFilters` | `a` with the key `b:x` and `a:b` with the key `x` share the cache key `a:b:x`, and one is answered with the other's result |
| `server_override` | `RejectedForAReason` | started with `--addr`, the server rejects even the file it was started with, and so every reload |
| `exchange_body` | `BodyIsDelivered` | an upstream's Content-Length is copied onto a body of another length |

Ten more departures are in the models, which do as the code does, without a run
of their own:

1. Two concurrent misses may execute the target one after the other, where
   SPEC.md:512 has one execution (`ExecutionsDoNotOverlap` is what remains).
2. A waiter is answered REQUEST_TIMEOUT for its leader's deadline, where
   SPEC.md:781 has the request's own (`ContextFailuresAreShared` is what remains).
3. A filter read as `{{$.job}}` is not executed for its reader.
4. A filter that is a dependency of a cache and wrapped by it is executed twice in
   a request, where SPEC.md:546 and 565-566 have it executed once: the function
   of the singleflight call does not look into the result map (`engine.go:624`).
5. A result beyond `max_filter_output_size` is cached before Execute refuses it, and
   fails every hit until it expires, where SPEC.md:705-707 has the limit checked
   during the execution of the filter.
6. A result that cannot be encoded ends in a bare status 500 with the headers of
   the result (`app.go:333-336`), where SPEC.md:772-773 asks every error for a code
   and a request id. `ErrorsAreStable` is what SPEC.md says, and `StableErrors` (§4)
   proves that this is the only exception.
7. Methods match whatever their case (`request_context.go:143`), where SPEC.md:723
   has an exact match: `get` is routed to a route of `GET`.
8. A Content-Type among the headers of the result stands in for detection
   (`app.go:338`), which SPEC.md:757-759 ties to `paths[].headers` alone. An empty
   one does not.
9. SPEC.md:700-703 has bodies beyond `max_body_size` refused and others passed on;
   with the largest int64 as the limit, `maxBytes + 1` overflows and every body is
   read as empty (`BodyIsWholeOrRefused` says so).
10. With the default timeouts the REQUEST_TIMEOUT of SPEC.md:698 is lost: all of
    them are 30 s (`config.go:103-105`), the write deadline runs from the end of the
    request's header (`app.go:67`) and request_timeout from the call of Execute,
    which is no earlier. `EnoughTimeMeansAnAnswer` needs a write_timeout beyond
    read_timeout and request_timeout together.

### Fairness

The searches are sequential code that runs: weak fairness of the next step. In
Execution a goroutine that can go on does (`WF` of `Proceed`), the timer of a
request's context fires (`WF` of `Deadline`), and work ends when it does no I/O
or when its context has ended (`WF` of `GivesUp`): the HTTP client and
`exec.CommandContext` give up with the context. An upstream or a command under a
live context is *not* assumed to end, no request is assumed to be disconnected,
and nothing is assumed of reloads. In Exchange the server side goes on (`WF` of
`ExchangeNext`): code runs, time passes, net/http ends a read at its deadline,
Execute returns, which is what `EveryRequestEnds` establishes for it; that the
client goes away is not assumed. In Deployment the signal loop runs (`WF` of
`Loop`) and the timer of Shutdown fires (`WF` of `ShutdownTimeout`); no request
has to end, no signal has to come and no init-config has to proceed.

## 4. Proofs

All proofs are checked by TLAPS and hold for every value of the constants.
**StackLemmas** holds what both searches need about stacks without repetition
and about paths: pushing, popping, a path that leads back to itself is a cycle,
and finishing one more node keeps "no cycle among the finished ones".

**ExecutionPlan_proofs** has the two searches and their composition. For
`detectCycle` the invariant is `DetectInv`: types, gray is the set of active
calls, the calls form a path without repetition, black is closed and acyclic,
every edge a loop has taken leads to black or to the next active call, and a
verdict is backed by a cycle or by the absence of white nodes. `VerdictRight`
alone is not inductive: that accepting is right needs black to be acyclic, and
that refusing is right needs the calls to form a path. `TopoInv` is the same for
`topoForTarget`, with the order in place of black: `seen` is the range of `out`,
closed and acyclic, and everything met is reachable. Both hold of the
composition, in which each search leaves the variables of the other alone; a
refusal by the second would be backed by a cycle that the first has ruled out.
Proved: `DetectTypeCorrect`, `BlackStaysSafe`, `DetectCorrect`, `DetectLinear`;
`TopoTypeCorrect`, `TopoOrdered`, `TopoExact`, `TopoVerdict`; `PlanTypeCorrect`,
`PlanAgrees`. `TopoHandsOutAnOrder` joins this component to the next: a request of
Execution follows any `IsOrder` of DepGraph, no longer than there are filters,
and what a finished search hands out is always one.

**TTLCache_proofs.** `CacheInv` is the conjunction of the three invariants; none
is inductive alone, as an eviction is right only if the list has no repetition
and holds what the map holds. Proved from `CacheAssumption` (capacity a natural
number, durations integers): `CacheTypeCorrect`, `CacheEachKeyOnce`,
`CacheBounded`, and the refinement `CacheImplementsLRU`, in which each list
operation (push to the front, remove, drop the back) is shown to do to the
relation "comes before" what the abstract action does to "more recent".

**Execution_proofs.** `FlightInv` says that a call in a group's map is led by a
request that is inside of it and of the engine it took, and the other way round,
and that whoever waits waits for one of them; `KeyIsOfWrapped` that the key a
request looks up is one of those made for the filter its cache filter wraps.
From these follow `OneExecutionAtATime` and, with the nesting of calls
(`CallsNest`), `NoLostWakeUp` and `NoDeadlock`. The last two, and
`TheRightResults` below, have two hypotheses that the code does not check:

- `Layered(Under)`: the cache filters wrap along a transitive, well-founded
  relation, so that every leader that waits does so for a key strictly further
  down. Without it they are false: `execution_self` is the counterexample.
- `KeysAreUnambiguous`: no key is made for two wrapped filters. Without it
  "further down" means nothing, as a layered nest can meet its own key and wait
  for the call it leads, and a result can end in the wrong place:
  `execution_keys` is the counterexample. `KeysWithoutColons` proves that ids
  without a colon are enough, whatever the keys render to.

The same module proves what is computed. `DataInv` adds to `ExecutionInv` the types
of what is stored and passed on (a failure never reaches the cache);
`RegisterInv` that whoever is inside of a call has registered it, once. From them:

- `ExecutionTypeCorrect`, all of `TypeOK`;
- `CacheIsUsedAsACache`: Execution implements the specification of TTLCache for
  the keys requests use. With the refinement of TTLCache_proofs it follows that
  all requests together share one abstract LRU map (`RequestsShareAnLRUCache`);
- `FailuresAreShared`: the timeout or cancellation a request is answered with is
  its own or that of a request it shared a call with, directly or through others
  (`followed`). The invariant `FailureHasCause` adds that a failure on its way up
  the nested calls already has its cause among those;
- `ReferencesExecuted`, for configurations in which every recognised reference is
  a dependency and a cache depends on what the filter it wraps depends on. The
  latter is not checked by the code: without it a wrapped filter's template reads
  what has not been executed. The invariant `AtNeedsNoMore` carries the bound
  down the nested calls;
- `TheRightResults`, under both hypotheses. `OriginsAgree` says of every place a
  result can be in (cache, call, wait, return) whose result it is. `Origin` is
  recursive; that it satisfies its equation is shown by the smallest relation
  that leads from a filter to what it wraps (`OriginEquation`).

All these hypotheses hold in the configuration the run `execution` checks.

**Filters_proofs.** `AcceptedIsSound` goes through the nine types: the steps of
any filter that `Validate` accepts are sound, i.e. a check fails only for static
params nested too deep or for the duration of exec, a regex compiles, and the
check of the rendered url comes right after its rendering (`Guarded`). `FilterInv`
says the same of the steps each request has left, with what it rendered last;
`ProgramInv` that caches only grow, that a program failed just when its source
does not parse, and that whatever is in use is what the cache has. Proved:
`OnlyThisIsLeft`, `CompileCachesAreInvisible`.

**Exchange_proofs.** First about the operators: `Min` and `Max` of what matches
exist (`Least`, from the well-foundedness of the naturals), a path is described by
a pattern just when `matchPathPattern` takes it, so the two passes find the route
of the match policy (`BestRoute`); what is captured fills the pattern again
(`CapturedFills`); what the LimitReader lets through (`WhatIsRead`); and where
each header of a typed and of a compressed response comes from. `ExchangeInv` then
relates the route to the request, what Execute was given to the route and the
body, the answer to how the exchange ended (`Health`, `Refused`, `Returned`), and
the clock to the deadlines; the last is what makes `EnoughTimeMeansAnAnswer`
inductive. Proved: `RightRoute` (of methods up to case), `RightParams`,
`WholeBody`, `RightHeaders`, `DescribedCompression`, `InTimeForTheClient`, and
`StableErrors` under the assumption that every result can be encoded (without it
the statement is false: departure 6 above). The other assumptions are
that paths are non-empty sequences of segments (`strings.Split` returns no other),
that limits and timeouts are positive, as `Validate` demands, and that a segment
`{name}` has both braces.

**Deployment_proofs.** The invariant has the types, "what a request took is one
configuration", the relation between shutdown, `run` and `exit`, and where a
temporary file or a beginning of a file can be. Proved: `ServerTypeCorrect`,
`RequestsAreConsistent`, `CleanExitIsClean`, `HalfConfigsAreUnforced`,
`NoTempIsLeft`, `WholeFilesStayWhole`, and `ReloadsAreRejectedForAReason` for a
server without `--addr` (with it the statement is false: `server_override`).

**UnixSocket_proofs.** `SocketInv`: types; an overlap is remembered in `raced`;
and unless there was one, whoever listens owns the path and whoever starts is
alone (`Undisturbed`). Proved: `SocketTypeCorrect`, `SocketReachable`,
`SocketFailsForAReason`.

Proved without a run of their own, as they are steps towards properties that
have one: `BlackIsSafe` and `ColorsOnlyDarken` of DetectCycle, `EachKeyOnce` of
TTLCache, `TempsAreRemoved` of InitConfig.

Every invariant and every safety action property that a passing run checks is
proved.
Only model-checked are the liveness properties (`SearchEnds`, `DetectionEnds`,
`EveryRequestEnds`, `ExchangeEnds`, `TermEnds`, `HangupIsHonoured`), which are out
of the prover's reach, and of course the runs that find a violation.

## 5. Plan

1. *(done)* the graph and its searches, the cache and its abstraction, requests
   in flight, filters and compile caches, the exchange with routing and
   response, the process with init-config, the socket; proofs as listed.
2. *(done)* proofs of all invariants of Execution, Filters and Exchange; requests
   use the cache as TTLCache specifies.
3. **DataFlow**: what the templates of a *wrapped* filter read, which runs with
   the results of the cache filter's order and is executed again when that order
   holds it too, and what a filter named `req` does to the others.
4. `Config.Validate` of the single server, log and compression settings.

## 6. Not modelled

The content of results (templates, jq, regular expressions, base64, parsing of
query, cookies and bodies), the template functions, logging, command-line
parsing, rendering of the initial configuration: string computations without
state that a property here is about. `App.Check` and the `check` and
`--check-healthz` commands do once, in a process of their own, what a request
does. A dial that runs into the 30 s of `http.DefaultTransport` counts as a deadline
in the code, and in Exchange; in Execution it is a failure like others. The checks
of single settings in `Config.Validate` (ranges, enumerations)
restate SPEC.md line by line. The Go runtime, `net/http`, `os/exec` and
singleflight are modelled only as far as the code uses them; a process tree that
outlives its killed parent is not.
