------------------------------- MODULE Routing -------------------------------
(***************************************************************************)
(* Which route answers a request (request_context.go): exact routes before *)
(* routes with path parameters, and the first that matches.                *)
(*                                                                         *)
(* A path is the sequence of its segments.  A segment is told apart by its *)
(* text and by what its braces make of it: it is {name}, or has one or     *)
(* both of them without being that, like {} or v{1.                        *)
(***************************************************************************)
EXTENDS Naturals, Sequences, FiniteSetsExt, Functions

CONSTANTS
    ParamName,      \* segment of the form {name} -> its name
    Opening,        \* the segments with an opening brace
    Closing,        \* the segments with a closing brace
    AnyMethod,      \* "*"
    Folded          \* method -> the method without regard to case

Param == DOMAIN ParamName

ASSUME RoutingAssumption == Param \subseteq Opening \cap Closing

(* What strings.Split makes of a string is never empty. *)
Path == Seq(STRING) \ {<<>>}

(* methodMatches: strings.EqualFold. *)
MethodMatches(p, method) ==
    p.method = AnyMethod \/ Folded[p.method] = Folded[method]

(* The braces need not be in one segment. *)
HasPathParamPattern(path) ==
    Range(path) \cap Opening # {} /\ Range(path) \cap Closing # {}

(* A variant of MatchPathPattern that ignores what follows the pattern. *)
MatchPathPrefix(pattern, actual) ==
    /\ Len(pattern) <= Len(actual)
    /\ \A i \in DOMAIN pattern : pattern[i] \in Param \/ pattern[i] = actual[i]

MatchPathPattern(pattern, actual) ==
    /\ Len(pattern) = Len(actual)
    /\ \A i \in DOMAIN pattern : pattern[i] \in Param \/ pattern[i] = actual[i]

(* What matchPathPattern captures: of two segments with one name the last. *)
PathParams(pattern, actual) ==
    LET places(name) == {i \in DOMAIN pattern :
                             pattern[i] \in Param /\ ParamName[pattern[i]] = name}
    IN  [name \in {n \in Range(ParamName) : places(n) # {}} |->
             actual[Max(places(name))]]

(* A variant of MatchRoute with one loop over all routes. *)
MatchRouteOnce(paths, method, path) ==
    LET matching == {i \in DOMAIN paths :
                         /\ MethodMatches(paths[i], method)
                         /\ MatchPathPattern(paths[i].path, path)}
    IN  IF matching = {} THEN 0 ELSE Min(matching)

(* matchRouteWithParams: the index of the route, or 0. *)
MatchRoute(paths, method, path) ==
    LET eligible == {i \in DOMAIN paths : MethodMatches(paths[i], method)}
        patterns == {i \in eligible : HasPathParamPattern(paths[i].path)}
        exact    == {i \in eligible \ patterns : paths[i].path = path}
        matching == {i \in patterns : MatchPathPattern(paths[i].path, path)}
    IN  IF exact # {} THEN Min(exact)
        ELSE IF matching # {} THEN Min(matching)
        ELSE 0

-----------------------------------------------------------------------------
(* What SPEC.md "Match policy" promises, to compare MatchRoute with. *)

(* The path the pattern describes when its parameters have these values. *)
Filled(pattern, values) ==
    [i \in DOMAIN pattern |->
        IF pattern[i] \in Param THEN values[ParamName[pattern[i]]] ELSE pattern[i]]

OneNamePerSegment(pattern) ==
    \A i, j \in DOMAIN pattern :
        /\ {pattern[i], pattern[j]} \subseteq Param
        /\ ParamName[pattern[i]] = ParamName[pattern[j]]
        => i = j

(* Some values of the parameters turn the pattern into the path. *)
Describes(pattern, path) ==
    \E values \in [Range(ParamName) -> Range(path)] : Filled(pattern, values) = path

(* Route i comes before route j for a request with this path. *)
Precedes(paths, path, i, j) ==
    \/ paths[i].path = path /\ paths[j].path # path
    \/ i < j /\ (paths[i].path = path <=> paths[j].path = path)
=============================================================================
