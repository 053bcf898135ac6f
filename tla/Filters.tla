------------------------------ MODULE Filters -------------------------------
(***************************************************************************)
(* What each filter type checks, compiles and renders (exec*Filter of      *)
(* engine.go) next to what Config.Validate checked of it before the        *)
(* configuration was accepted (filter_validate.go), and the compile caches *)
(* that the requests of one engine share.                                  *)
(*                                                                         *)
(* A filter's run is the sequence of its checks, compilations and          *)
(* renderings, in the order of its function; what it does after them       *)
(* succeeds or fails.                                                      *)
(***************************************************************************)
EXTENDS Integers, Sequences, Functions, Overlay

CONSTANTS
    Request,            \* requests that execute the filter on one engine
    FilterConfig,       \* the filters a configuration may hold
    FilterIds           \* the ids it defines

(* A literal of the configuration: a value that is no string, a string that
   is empty, or without actions, or whose rendering depends on the request,
   or that does not parse as what it is used for. *)
Literal == {"absent", "number", "empty", "text", "varying", "broken"}

FilterType ==
    {"static", "env", "http", "exec", "file", "jq", "base64", "regex", "cache"}

(* What is read of the params of each type.  Those of a static filter are a
   leaf inside `nesting' containers. *)
Params(type) ==
    CASE type = "static" -> [leaf : Literal, nesting : Nat]
      [] type = "env"    -> [name : Literal]
      [] type = "http"   -> [unix_socket : Literal, method : Literal, url : Literal,
                             body : Literal, headers : Seq(Literal)]
      [] type = "exec"   -> [command : Seq(Literal), env : Seq(Literal),
                             timeout : Literal]
      [] type = "file"   -> [path : Literal]
      [] type = "jq"     -> [input : Literal, query : Literal]
      [] type = "base64" -> [input : Literal, op : STRING]
      [] type = "regex"  -> [input : Literal, pattern : Literal, op : STRING,
                             replace : Literal, multiline : BOOLEAN]
      [] type = "cache"  -> [filter : STRING, key : Literal, ttl : Literal]

ASSUME FiltersAssumption ==
    \A f \in FilterConfig :
        f.type \in FilterType /\ f.object \in BOOLEAN /\ f.params \in Params(f.type)

(* toString, and fmt.Sprint in toStringMap. *)
AsString(l) == IF l \in {"absent", "number"} THEN "empty" ELSE l
Sprint(l)   == IF l \in {"absent", "number"} THEN "text" ELSE l
Missing(l)  == AsString(l) = "empty"

-----------------------------------------------------------------------------
(* validateFilterParams, for params p of each type. *)
ValidExec(p)   == p.command # <<>> /\ Range(p.command) \cap {"absent", "number"} = {}

(* A variant of ValidRegex that leaves the pattern to the first request. *)
ValidRegexOp(p) == /\ p.op \in {"find", "find_all", "replace"}
                   /\ p.op = "replace" => ~ Missing(p.replace)

ValidRegex(p)  == /\ p.op \in {"find", "find_all", "replace"}
                  /\ p.pattern # "broken"
                  /\ p.op = "replace" => ~ Missing(p.replace)

ValidCache(p)  == ~ Missing(p.filter) /\ p.filter \in FilterIds /\ p.ttl # "broken"

ValidateFilterParams(f) ==
    \/ f.type = "static"
    \/ /\ f.object
       /\ CASE f.type = "env"    -> ~ Missing(f.params.name)
            [] f.type = "http"   -> ~ Missing(f.params.url)
            [] f.type = "exec"   -> ValidExec(f.params)
            [] f.type = "file"   -> ~ Missing(f.params.path)
            [] f.type = "jq"     -> ~ Missing(f.params.query)
            [] f.type = "base64" -> f.params.op \in {"encode", "decode"}
            [] f.type = "regex"  -> ValidRegex(f.params)
            [] f.type = "cache"  -> ValidCache(f.params)

Accepted == {f \in FilterConfig : ValidateFilterParams(f)}

-----------------------------------------------------------------------------
(* The steps of a filter. *)
Need(holds)     == <<[do |-> "check", holds |-> holds, error |-> "shape"]>>
Duration(l)     == <<[do |-> "check", holds |-> l # "broken", error |-> "duration"]>>
Compile(in, flags, l) ==
    <<[do |-> "compile", holds |-> l # "broken", error |-> in,
       key |-> <<in, flags, l>>]>>
Render(l)       == Compile("template", "", l) \o <<[do |-> "execute", literal |-> l]>>
NeedRendered    == <<[do |-> "checkRendered"]>>
Work            == <<[do |-> "work"]>>

(* Each in turn: Render is two steps. *)
RenderAll(ls) ==
    [i \in 1..(2 * Len(ls)) |-> Render(ls[(i + 1) \div 2])[2 - (i % 2)]]

(* staticExpansionMaxDepth. *)
MaxDepth == 10
ExpandStatic(p) ==
    Need(p.nesting <= MaxDepth)
        \o IF p.leaf \in {"absent", "number"} THEN <<>> ELSE Render(p.leaf)

HTTPFilter(p) ==
    Render(AsString(p.unix_socket)) \o Render(AsString(p.method))
        \o Render(AsString(p.url)) \o NeedRendered \o Render(AsString(p.body))
        \o Work \o RenderAll([i \in 1..Len(p.headers) |-> Sprint(p.headers[i])])
        \o Work

ExecFilter(p) ==
    Need(p.command # <<>>)
        \o RenderAll([i \in 1..Len(p.command) |-> AsString(p.command[i])])
        \o Duration(AsString(p.timeout))
        \o RenderAll([i \in 1..Len(p.env) |-> Sprint(p.env[i])]) \o Work

JQFilter(p) ==
    Need(~ Missing(p.query)) \o Render(AsString(p.input)) \o Work
        \o Compile("jq", "", p.query) \o Work

Base64Filter(p) ==
    Render(AsString(p.input)) \o Need(p.op \in {"encode", "decode"})
        \o IF p.op = "decode" THEN Work ELSE <<>>

RegexFilter(p) ==
    Compile("regex", IF p.multiline THEN "(?m)" ELSE "", AsString(p.pattern))
        \o Render(AsString(p.input))
        \o Need(p.op \in {"find", "find_all", "replace"})
        \o Need(p.op = "replace" => ~ Missing(p.replace))

CacheFilter(p) ==
    Need(~ Missing(p.filter)) \o Duration(p.ttl) \o Render(AsString(p.key))
        \o Need(p.filter \in FilterIds) \o Work

Steps(f) ==
    IF f.type = "static" THEN ExpandStatic(f.params)
    ELSE IF ~ f.object THEN Need(FALSE)
    ELSE CASE f.type = "env"    -> Need(~ Missing(f.params.name))
           [] f.type = "http"   -> HTTPFilter(f.params)
           [] f.type = "exec"   -> ExecFilter(f.params)
           [] f.type = "file"   -> Need(~ Missing(f.params.path)) \o Work
           [] f.type = "jq"     -> JQFilter(f.params)
           [] f.type = "base64" -> Base64Filter(f.params)
           [] f.type = "regex"  -> RegexFilter(f.params)
           [] f.type = "cache"  -> CacheFilter(f.params)

-----------------------------------------------------------------------------
VARIABLES
    filter,     \* the accepted filter the requests execute
    left,       \* the steps a request has still to do
    rendered,   \* what its last template gave
    outcome,
    programs,   \* the compile caches: key -> who compiled it, and if it failed
    inUse       \* what compile* returned: key -> the program, for each request

vars == <<filter, left, rendered, outcome, programs, inUse>>

FiltersInit ==
    /\ filter \in Accepted
    /\ left = [r \in Request |-> Steps(filter)]
    /\ rendered = [r \in Request |-> "empty"]
    /\ outcome = [r \in Request |-> "none"]
    /\ programs = <<>>
    /\ inUse = [r \in Request |-> <<>>]

At(r, do) == left[r] # <<>> /\ Head(left[r]).do = do
Step(r)   == Head(left[r])

Advance(r) ==
    /\ left' = [left EXCEPT ![r] = Tail(@)]
    /\ outcome' = [outcome EXCEPT ![r] = IF Len(left[r]) = 1 THEN "value" ELSE @]

Fail(r, error) ==
    /\ left' = [left EXCEPT ![r] = <<>>]
    /\ outcome' = [outcome EXCEPT ![r] = error]

Check(r) ==
    /\ At(r, "check")
    /\ IF Step(r).holds THEN Advance(r) ELSE Fail(r, Step(r).error)
    /\ UNCHANGED <<filter, rendered, programs, inUse>>

CheckRendered(r) ==
    /\ At(r, "checkRendered")
    /\ IF rendered[r] # "empty" THEN Advance(r) ELSE Fail(r, "shape")
    /\ UNCHANGED <<filter, rendered, programs, inUse>>

(* compileTemplate, compileRegex, compileJQ: what the cache has for the
   source is used, the error of a source that does not parse included. *)
Use(r, key, program) ==
    /\ inUse' = [inUse EXCEPT ![r] = (key :> program) @@ @]
    /\ IF program.failed THEN Fail(r, Step(r).error) ELSE Advance(r)

Load(r) ==
    /\ At(r, "compile")
    /\ Step(r).key \in DOMAIN programs
    /\ Use(r, Step(r).key, programs[Step(r).key])
    /\ UNCHANGED <<filter, rendered, programs>>

(* The source is not there: it is compiled, while others may do the same. *)
LoadMiss(r) ==
    /\ At(r, "compile")
    /\ Step(r).key \notin DOMAIN programs
    /\ left' = [left EXCEPT ![r][1].do = "loadOrStore"]
    /\ UNCHANGED <<filter, rendered, outcome, programs, inUse>>

Compiled(r) == [by |-> r, failed |-> ~ Step(r).holds]

(* A variant of LoadOrStore that stores and uses its own program. *)
StoreOwn(r) ==
    /\ At(r, "loadOrStore")
    /\ programs' = (Step(r).key :> Compiled(r)) @@ programs
    /\ Use(r, Step(r).key, Compiled(r))
    /\ UNCHANGED <<filter, rendered>>

LoadOrStore(r) ==
    /\ At(r, "loadOrStore")
    /\ programs' = programs @@ (Step(r).key :> Compiled(r))
    /\ Use(r, Step(r).key, programs'[Step(r).key])
    /\ UNCHANGED <<filter, rendered>>

(* Template.Execute: the data decides what an action gives, or that it
   fails. *)
Execute(r) ==
    /\ At(r, "execute")
    /\ \/ /\ \E out \in IF Step(r).literal = "varying" THEN {"empty", "text"}
                         ELSE {Step(r).literal} :
                rendered' = [rendered EXCEPT ![r] = out]
          /\ Advance(r)
       \/ /\ Step(r).literal = "varying"
          /\ Fail(r, "data")
          /\ rendered' = rendered
    /\ UNCHANGED <<filter, programs, inUse>>

(* The upstream, the process, the file, the input given
   to jq and to base64, the wrapped filter: they succeed or fail. *)
DoWork(r) ==
    /\ At(r, "work")
    /\ Advance(r) \/ Fail(r, "work")
    /\ UNCHANGED <<filter, rendered, programs, inUse>>

FiltersNext ==
    \E r \in Request :
        \/ Check(r) \/ CheckRendered(r)
        \/ Load(r) \/ LoadMiss(r) \/ LoadOrStore(r)
        \/ Execute(r) \/ DoWork(r)

FiltersSpec == FiltersInit /\ [][FiltersNext]_vars

-----------------------------------------------------------------------------
(***************************************************************************)
(* filter_validate.go: validation finds "the required fields execFilter    *)
(* would otherwise only discover at request time".  Of an accepted filter  *)
(* a request finds out about no field, pattern or ttl but these: a url     *)
(* that renders to nothing, static params nested too deep, and the source  *)
(* of a template, of a jq query and of exec.timeout, which nobody parsed.  *)
(***************************************************************************)
LeftToRequestTime ==
    \A r \in Request :
        /\ outcome[r] = "shape" =>
               \/ filter.type = "http" /\ filter.params.url = "varying"
               \/ filter.type = "static" /\ filter.params.nesting > MaxDepth
        /\ outcome[r] = "duration" => filter.type = "exec"
        /\ outcome[r] # "regex"

(***************************************************************************)
(* However requests that compile the same source interleave, they all end  *)
(* up with one program, or all with the same error: the compile caches are *)
(* invisible to the requests.                                              *)
(***************************************************************************)
OneProgramPerSource ==
    \A r \in Request : \A k \in DOMAIN inUse[r] : inUse[r][k] = programs[k]
=============================================================================
