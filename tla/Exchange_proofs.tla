--------------------------- MODULE Exchange_proofs --------------------------
(***************************************************************************)
(* Any configuration, request and result: the route that answers, the body *)
(* and the parameters Execute is given, what becomes of a result and of a  *)
(* failure, and that an answer in time is not lost.                        *)
(***************************************************************************)
EXTENDS Exchange, SequenceTheorems, WellFoundedInduction, TLAPS

(***************************************************************************)
(* Minima and maxima: Min and Max choose.                                  *)
(***************************************************************************)
LEMMA Least ==
    ASSUME NEW S \in SUBSET Nat, S # {}
    PROVE  Min(S) \in S /\ \A y \in S : Min(S) <= y
<1> DEFINE Less == {ss \in Nat \X Nat : ss[1] < ss[2]}
<1>1. IsWellFoundedOn(Less, Nat)
  BY NatLessThanWellFounded, Zenon DEF OpToRel
<1>2. PICK x \in S : \A y \in S : ~ (<<y, x>> \in Less)
  <2> HIDE DEF Less
  <2>2. QED
  BY ONLY <1>1, S \subseteq Nat, S # {}, WFMin
<1>3. ASSUME NEW y \in S PROVE x <= y
  <2>1. x \in Nat /\ y \in Nat
    OBVIOUS
  <2>2. <<y, x>> \notin Less
    BY <1>2
  <2>3. ~ (y < x)
    BY <2>1, <2>2
  <2>4. QED
    BY <2>1, <2>3
<1>4. QED
  BY <1>3 DEF Min

LEMMA MaxOfOne ==
    ASSUME NEW i \in Nat
    PROVE  Max({i}) = i
<1>1. i \in {i} /\ \A y \in {i} : i >= y
  OBVIOUS
<1>2. QED
  BY <1>1 DEF Max

(***************************************************************************)
(* Patterns.                                                               *)
(***************************************************************************)

(* Parameters with the values of the path give it back. *)
LEMMA FilledMatch ==
    ASSUME NEW pattern \in Path, NEW actual \in Path, NEW values,
           MatchPathPattern(pattern, actual),
           \A i \in DOMAIN pattern :
               pattern[i] \in Param => values[ParamName[pattern[i]]] = actual[i]
    PROVE  Filled(pattern, values) = actual
<1>1. /\ pattern \in Seq(STRING) /\ actual \in Seq(STRING)
      /\ DOMAIN pattern = 1..Len(pattern) /\ DOMAIN actual = 1..Len(actual)
      /\ Len(pattern) = Len(actual)
  BY DEF MatchPathPattern, Path
<1>2. \A i \in DOMAIN pattern : Filled(pattern, values)[i] = actual[i]
  BY DEF Filled, MatchPathPattern
<1>3. DOMAIN Filled(pattern, values) = DOMAIN actual
  BY <1>1 DEF Filled
<1>4. Filled(pattern, values) = [i \in DOMAIN pattern |-> actual[i]]
  BY <1>2 DEF Filled
<1>5. actual = [i \in DOMAIN actual |-> actual[i]]
  BY <1>1
<1>6. QED
  BY <1>1, <1>4, <1>5

(* The length of a sequence is known by its domain. *)
LEMMA SameInterval ==
    ASSUME NEW m \in Nat, NEW n \in Nat, 1..m = 1..n
    PROVE  m = n
<1>1. \A i \in Nat : i \in 1..m <=> i \in 1..n
  OBVIOUS
<1>2. m + 1 \in Nat /\ n + 1 \in Nat /\ m + 1 \notin 1..m /\ n + 1 \notin 1..n
  OBVIOUS
<1>3. m + 1 > n /\ n + 1 > m
  BY <1>1, <1>2
<1>4. QED
  BY <1>3

(* Whatever values give the path are captured by matchPathPattern ... *)
LEMMA DescribedMatches ==
    ASSUME NEW pattern \in Path, NEW actual \in Path, Describes(pattern, actual)
    PROVE  MatchPathPattern(pattern, actual)
<1>1. PICK values : Filled(pattern, values) = actual
  BY DEF Describes
<1>2. /\ DOMAIN pattern = 1..Len(pattern) /\ DOMAIN actual = 1..Len(actual)
      /\ Len(pattern) \in Nat /\ Len(actual) \in Nat
  BY DEF Path
<1>3. DOMAIN pattern = DOMAIN actual
  BY <1>1 DEF Filled
<1>4. Len(pattern) = Len(actual)
  BY <1>2, <1>3, SameInterval
<1>5. \A i \in DOMAIN pattern : pattern[i] \notin Param => pattern[i] = actual[i]
  BY <1>1 DEF Filled
<1>6. QED
  BY <1>4, <1>5 DEF MatchPathPattern

(* ... and what it matches has such values: one for each name. *)
LEMMA MatchIsDescribed ==
    ASSUME NEW pattern \in Path, NEW actual \in Path,
           OneNamePerSegment(pattern), MatchPathPattern(pattern, actual)
    PROVE  Describes(pattern, actual)
<1> DEFINE At(n) == {i \in DOMAIN pattern :
                         pattern[i] \in Param /\ ParamName[pattern[i]] = n}
           values == [n \in Range(ParamName) |->
                        IF At(n) = {} THEN actual[1]
                        ELSE actual[CHOOSE i \in At(n) : TRUE]]
<1>1. /\ DOMAIN pattern = 1..Len(pattern) /\ DOMAIN actual = 1..Len(actual)
      /\ Len(pattern) = Len(actual) /\ 1 \in DOMAIN actual
  BY DEF Path, MatchPathPattern
<1>2. values \in [Range(ParamName) -> Range(actual)]
  <2>1. ASSUME NEW n \in Range(ParamName)
        PROVE  (IF At(n) = {} THEN actual[1] ELSE actual[CHOOSE i \in At(n) : TRUE])
                   \in Range(actual)
    <3>1. At(n) # {} => (CHOOSE i \in At(n) : TRUE) \in DOMAIN actual
      <4>1. At(n) # {} => (CHOOSE i \in At(n) : TRUE) \in At(n)
        OBVIOUS
      <4>2. At(n) \subseteq DOMAIN actual
        BY <1>1
      <4>3. QED
        BY <4>1, <4>2
    <3>2. QED
      BY <1>1, <3>1 DEF Range
  <2>2. QED
    BY <2>1
<1>3. ASSUME NEW i \in DOMAIN pattern, pattern[i] \in Param
      PROVE  values[ParamName[pattern[i]]] = actual[i]
  <2> DEFINE n == ParamName[pattern[i]]
  <2>1. At(n) = {i}
    BY <1>3 DEF OneNamePerSegment
  <2>2. n \in Range(ParamName)
    BY <1>3 DEF Param, Range
  <2>3. (CHOOSE j \in {i} : TRUE) = i
    OBVIOUS
  <2> HIDE DEF At, n
  <2>4. QED
    BY <2>1, <2>2, <2>3 DEF n
<1> HIDE DEF values
<1>4. Filled(pattern, values) = actual
  BY <1>3, FilledMatch
<1>5. QED
  BY <1>2, <1>4 DEF Describes

(* What matchPathPattern captures gives the path back. *)
LEMMA CapturedFills ==
    ASSUME NEW pattern \in Path, NEW actual \in Path,
           OneNamePerSegment(pattern), MatchPathPattern(pattern, actual)
    PROVE  Filled(pattern, PathParams(pattern, actual)) = actual
<1> DEFINE places(n) == {i \in DOMAIN pattern :
                             pattern[i] \in Param /\ ParamName[pattern[i]] = n}
<1>1. ASSUME NEW i \in DOMAIN pattern, pattern[i] \in Param
      PROVE  PathParams(pattern, actual)[ParamName[pattern[i]]] = actual[i]
  <2> DEFINE n == ParamName[pattern[i]]
  <2>1. places(n) = {i} /\ i \in Nat
    BY <1>1 DEF OneNamePerSegment, Path
  <2>2. n \in {m \in Range(ParamName) : places(m) # {}}
    BY <1>1, <2>1 DEF Param, Range
  <2>3. PathParams(pattern, actual)[n] = actual[Max(places(n))]
    BY <2>2 DEF PathParams
  <2> HIDE DEF places
  <2>4. QED
    BY <2>1, <2>3, MaxOfOne
<1>2. QED
  BY <1>1, FilledMatch

(* A path without one of the braces fits only itself. *)
LEMMA ExactMatch ==
    ASSUME NEW pattern \in Path, NEW actual \in Path,
           ~ HasPathParamPattern(pattern), MatchPathPattern(pattern, actual)
    PROVE  pattern = actual
<1>1. ASSUME NEW i \in DOMAIN pattern PROVE pattern[i] \notin Param
  <2>1. pattern[i] \in Range(pattern)
    BY DEF Range
  <2>2. QED
    BY <2>1, RoutingAssumption DEF HasPathParamPattern
<1>2. \A i \in DOMAIN pattern : pattern[i] = actual[i]
  BY <1>1 DEF MatchPathPattern
<1>3. /\ pattern \in Seq(STRING) /\ actual \in Seq(STRING)
      /\ Len(pattern) = Len(actual)
  BY DEF MatchPathPattern, Path
<1>4. QED
  BY <1>2, <1>3

(* The exact match is a match. *)
LEMMA PathMatchesItself ==
    ASSUME NEW path \in Path
    PROVE  MatchPathPattern(path, path)
BY DEF MatchPathPattern, Path

(* matchRouteWithParams finds a route that the path fits, if there is one. *)
LEMMA RouteMatches ==
    ASSUME NEW paths, paths \in Seq(Range(paths)),
           \A p \in Range(paths) : p.path \in Path,
           NEW method, NEW path \in Path, MatchRoute(paths, method, path) # 0
    PROVE  LET i == MatchRoute(paths, method, path)
           IN  /\ i \in DOMAIN paths /\ MethodMatches(paths[i], method)
               /\ MatchPathPattern(paths[i].path, path)
<1> DEFINE eligible == {i \in DOMAIN paths : MethodMatches(paths[i], method)}
           patterns == {i \in eligible : HasPathParamPattern(paths[i].path)}
           exact    == {i \in eligible \ patterns : paths[i].path = path}
           matching == {i \in patterns : MatchPathPattern(paths[i].path, path)}
           chosen   == MatchRoute(paths, method, path)
<1>1. exact \in SUBSET Nat /\ matching \in SUBSET Nat
  <2>1. DOMAIN paths \subseteq Nat
    OBVIOUS
  <2>2. QED
    BY <2>1
<1>2. chosen = IF exact # {} THEN Min(exact)
               ELSE IF matching # {} THEN Min(matching) ELSE 0
  BY DEF MatchRoute
<1> HIDE DEF chosen, exact, matching
<1>3. chosen \in exact \cup matching
  BY <1>1, <1>2, Least DEF chosen
<1>4. QED
  BY <1>3, PathMatchesItself DEF exact, matching, chosen

(* The route that is chosen is the one SPEC.md promises. *)
LEMMA BestRoute ==
    ASSUME NEW paths, paths \in Seq(Range(paths)),
           \A p \in Range(paths) : p.path \in Path /\ OneNamePerSegment(p.path),
           NEW method, NEW path \in Path, ~ HasPathParamPattern(path)
    PROVE  LET chosen == MatchRoute(paths, method, path)
               fits   == {i \in DOMAIN paths :
                              /\ MethodMatches(paths[i], method)
                              /\ Describes(paths[i].path, path)}
           IN  /\ chosen = 0 => fits = {}
               /\ chosen # 0 =>
                     /\ chosen \in fits
                     /\ \A i \in fits \ {chosen} : Precedes(paths, path, chosen, i)
<1> DEFINE fits     == {i \in DOMAIN paths :
                            /\ MethodMatches(paths[i], method)
                            /\ Describes(paths[i].path, path)}
           eligible == {i \in DOMAIN paths : MethodMatches(paths[i], method)}
           patterns == {i \in eligible : HasPathParamPattern(paths[i].path)}
           exact    == {i \in eligible \ patterns : paths[i].path = path}
           matching == {i \in patterns : MatchPathPattern(paths[i].path, path)}
           chosen   == MatchRoute(paths, method, path)
<1>1. ASSUME NEW i \in DOMAIN paths
      PROVE  /\ paths[i].path \in Path /\ OneNamePerSegment(paths[i].path)
             /\ Describes(paths[i].path, path) <=> MatchPathPattern(paths[i].path, path)
  <2>1. paths[i] \in Range(paths)
    BY DEF Range
  <2>2. paths[i].path \in Path /\ OneNamePerSegment(paths[i].path)
    BY <2>1
  <2>3. QED
    BY <2>2, DescribedMatches, MatchIsDescribed
<1>2. exact \in SUBSET Nat /\ matching \in SUBSET Nat
  <2>1. DOMAIN paths \subseteq Nat
    OBVIOUS
  <2>2. QED
    BY <2>1
<1>3. exact = {i \in fits : paths[i].path = path}
  BY <1>1, PathMatchesItself
<1>4. matching = {i \in fits : paths[i].path # path}
  <2>1. ASSUME NEW i \in DOMAIN paths, MatchPathPattern(paths[i].path, path)
        PROVE  HasPathParamPattern(paths[i].path) <=> paths[i].path # path
    BY <1>1, <2>1, ExactMatch
  <2>2. QED
    BY <1>1, <2>1
<1>5. chosen = IF exact # {} THEN Min(exact)
               ELSE IF matching # {} THEN Min(matching) ELSE 0
  BY DEF MatchRoute
<1>6. fits = exact \cup matching
  BY <1>3, <1>4
<1>7. 0 \notin DOMAIN paths
  OBVIOUS
<1>8. fits \subseteq DOMAIN paths /\ DOMAIN paths \subseteq Nat
  OBVIOUS
<1> SUFFICES /\ chosen = 0 => fits = {}
             /\ chosen # 0 =>
                   /\ chosen \in fits
                   /\ \A i \in fits \ {chosen} : Precedes(paths, path, chosen, i)
  OBVIOUS
<1> HIDE DEF chosen, exact, matching, fits
<1>9. CASE exact # {}
  <2>1. chosen \in exact /\ \A i \in exact : chosen <= i
    BY <1>2, <1>5, <1>9, Least
  <2>2. chosen \in fits /\ paths[chosen].path = path /\ chosen # 0
    BY <1>3, <1>7, <1>8, <2>1
  <2>3. ASSUME NEW i \in fits \ {chosen} PROVE Precedes(paths, path, chosen, i)
    <3>1. CASE i \in exact
      BY <1>3, <1>8, <2>1, <2>2, <2>3, <3>1 DEF Precedes
    <3>2. CASE i \notin exact
      BY <1>3, <2>2, <2>3, <3>2 DEF Precedes
    <3>3. QED
      BY <3>1, <3>2
  <2>4. QED
    BY <2>2, <2>3
<1>10. CASE exact = {} /\ matching # {}
  <2>1. chosen \in matching /\ \A i \in matching : chosen <= i
    BY <1>2, <1>5, <1>10, Least
  <2>2. chosen \in fits /\ paths[chosen].path # path /\ chosen # 0
    BY <1>4, <1>7, <1>8, <2>1
  <2>3. ASSUME NEW i \in fits \ {chosen} PROVE Precedes(paths, path, chosen, i)
    <3>1. i \in matching
      BY <1>6, <1>10
    <3>2. QED
      BY <1>4, <1>8, <2>1, <2>2, <2>3, <3>1 DEF Precedes
  <2>4. QED
    BY <2>2, <2>3
<1>11. CASE exact = {} /\ matching = {}
  BY <1>5, <1>6, <1>11
<1>12. QED
  BY <1>9, <1>10, <1>11

(***************************************************************************)
(* Headers.                                                                *)
(***************************************************************************)
LEMMA Overlaid ==
    ASSUME NEW f, NEW g
    PROVE  /\ DOMAIN (f @@ g) = DOMAIN f \cup DOMAIN g
           /\ \A x \in DOMAIN f : (f @@ g)[x] = f[x]
           /\ \A x \in DOMAIN g : x \notin DOMAIN f => (f @@ g)[x] = g[x]
BY DEF @@

LEMMA One ==
    ASSUME NEW k, NEW v
    PROVE  DOMAIN (k :> v) = {k} /\ (k :> v)[k] = v
BY DEF :>

(* Which header SetHeaders leaves in force. *)
LEMMA InForce ==
    ASSUME NEW h, NEW res, NEW rte, NEW n
    PROVE  LET set      == SetHeaders(h, res, rte)
               ofRoute  == DOMAIN rte.headers
               ofResult == DOMAIN res.headers
           IN  /\ n \in DOMAIN set <=> n \in ofRoute \/ n \in ofResult \/ n \in DOMAIN h
               /\ n \in ofRoute => set[n] = rte.headers[n]
               /\ n \notin ofRoute /\ n \in ofResult => set[n] = res.headers[n]
               /\ n \notin ofRoute /\ n \notin ofResult /\ n \in DOMAIN h => set[n] = h[n]
BY DEF SetHeaders, @@

(* What WithContentType adds to them. *)
LEMMA Typed ==
    ASSUME NEW h, NEW res
    PROVE  LET typed == WithContentType(h, res)
           IN  /\ DOMAIN typed = DOMAIN h \cup {"Content-Type"}
               /\ \A n \in DOMAIN h : n # "Content-Type" => typed[n] = h[n]
               /\ typed["Content-Type"] =
                      IF HeaderGet(h, "Content-Type") = "" THEN Detected(res)
                                                           ELSE h["Content-Type"]
BY DEF WithContentType, HeaderGet, @@, :>

(* What compression does to headers. *)
LEMMA CompressedHeaders ==
    ASSUME NEW h
    PROVE  /\ DOMAIN Compressed(h) = (DOMAIN h \cup {"Vary", "Content-Encoding"})
                                         \ {"Content-Length"}
           /\ Compressed(h)["Content-Encoding"] = "gzip"
           /\ "Accept-Encoding" \in Compressed(h)["Vary"]
           /\ "Vary" \in DOMAIN h => h["Vary"] \subseteq Compressed(h)["Vary"]
           /\ \A n \in DOMAIN h \ {"Content-Length", "Vary", "Content-Encoding"} :
                  Compressed(h)[n] = h[n]
BY DEF Compressed, Without, AppendVary, @@, :>

(***************************************************************************)
(* What is answered: as long as the exchange goes on, nothing; then that   *)
(* all is well, or an error, or what Execute returned.                     *)
(***************************************************************************)
Fields == {"status", "headers", "body", "size"}

ErrorHeaders == "Content-Type" :> JSONType @@ BaseHeaders

Health ==
    /\ result = NoResult /\ answer.status = 200
    /\ answer.body = "health" /\ answer.code = "OK"

Refused ==
    /\ result = NoResult /\ answer.body = "error" /\ answer.rid = RequestId
    /\ answer.headers = ErrorHeaders
    /\ answer.code = "ROUTE_NOT_FOUND" => Matched = 0
    /\ answer.status = 413 => BodyRead > config.maxBody

Returned ==
    /\ result \in Result /\ result # NoResult /\ route # 0 /\ answer.code = "OK"
    /\ LET response == ResultResponse(request, Route, config.compression,
                                      BaseHeaders, result)
       IN  \A f \in Fields : answer[f] = response[f]

OfTheCase == \E c \in Case : config = c.config /\ request = c.request

RouteInv == route # 0 => route = Matched

GivenInv ==
    given # NotGiven =>
        /\ route # 0 /\ BodyRead <= config.maxBody
        /\ given.body = BodyRead
        /\ given.params = PathParams(Route.path, request.path)

AnswerInv ==
    /\ pc \in {"start", "reading", "executing", "ended"}
    /\ pc \in {"reading", "executing"} => route # 0
    /\ pc # "ended" => answer = NoAnswer /\ result = NoResult
    /\ pc = "ended" => Health \/ Refused \/ Returned

TimeInv ==
    /\ {now, deadline} \subseteq Nat
    /\ pc = "start" => now = 0
    /\ pc = "reading" => now <= config.read
    /\ pc = "executing" =>
           /\ deadline <= config.read + config.timeout
           /\ now <= deadline + Overrun
    /\ EnoughTimeMeansAnAnswer

ExchangeInv == OfTheCase /\ RouteInv /\ GivenInv /\ AnswerInv /\ TimeInv

(* The parts of an answer. *)
LEMMA AnswerIs ==
    ASSUME NEW response, DOMAIN response = Fields, NEW code, NEW rid,
           Answer(response, code, rid)
    PROVE  /\ pc' = "ended"
           /\ \A f \in Fields : answer'[f] = response[f]
           /\ answer'.code = code /\ answer'.rid = rid
           /\ answer'.sent = "lost" => now >= WriteDeadline
<1> DEFINE sent == IF now >= WriteDeadline THEN "lost"
                   ELSE IF LengthAgrees(response) THEN "whole" ELSE "cut"
           rest == [code |-> code, rid |-> rid, sent |-> sent]
<1>1. pc' = "ended" /\ answer' = response @@ rest
  BY DEF Answer
<1>2. /\ DOMAIN rest = {"code", "rid", "sent"}
      /\ rest["code"] = code /\ rest["rid"] = rid /\ rest["sent"] = sent
  OBVIOUS
<1> HIDE DEF rest
<1>3. /\ \A x \in DOMAIN response : answer'[x] = response[x]
      /\ \A x \in DOMAIN rest : x \notin DOMAIN response => answer'[x] = rest[x]
  BY <1>1 DEF @@
<1>4. \A x \in DOMAIN rest : x \notin DOMAIN response
  BY <1>2 DEF Fields
<1>5. answer'["code"] = code /\ answer'["rid"] = rid /\ answer'["sent"] = sent
  <2>1. {"code", "rid", "sent"} \subseteq DOMAIN rest
    BY <1>2
  <2>2. QED
    BY <1>2, <1>3, <1>4, <2>1, Zenon
<1>6. answer'.code = code /\ answer'.rid = rid /\ answer'.sent = sent
  BY <1>5
<1>7. sent = "lost" => now >= WriteDeadline
  OBVIOUS
<1> HIDE DEF sent
<1>8. QED
  BY <1>1, <1>3, <1>6, <1>7, Zenon

(* writeError sets the request id the access log has set already. *)
LEMMA ErrorIs ==
    ASSUME NEW status
    PROVE  LET e == ErrorResponse(BaseHeaders, status, RequestId)
           IN  /\ DOMAIN e = Fields /\ e.status = status /\ e.body = "error"
               /\ e.headers = ErrorHeaders
<1> DEFINE id == IF RequestId = "" THEN BaseHeaders
                 ELSE "X-Request-ID" :> RequestId @@ BaseHeaders
<1>1. "X-Request-ID" :> RequestId @@ BaseHeaders = BaseHeaders
  BY DEF BaseHeaders, @@, :>
<1>2. id = BaseHeaders
  BY <1>1
<1>3. QED
  BY <1>2 DEF ErrorResponse, Fields, ErrorHeaders

(* Answer is called in time, unless WriteDeadline has passed. *)
LEMMA InTime ==
    ASSUME ExchangeInv, pc # "ended", UNCHANGED <<config, now, deadline>>,
           NEW response, DOMAIN response = Fields, NEW code, NEW rid,
           Answer(response, code, rid)
    PROVE  TimeInv'
<1>1. pc' = "ended" /\ (answer'.sent = "lost" => now >= config.write)
  BY AnswerIs DEF WriteDeadline
<1>2. PICK c \in Case : config = c.config
  BY DEF ExchangeInv, OfTheCase
<1>3. {config.read, config.timeout, config.write} \subseteq Nat \ {0} /\ Overrun \in Nat
  BY <1>2, ExchangeAssumption
<1>4. {now, deadline} \subseteq Nat /\ now <= config.read + config.timeout + Overrun
  BY <1>3 DEF ExchangeInv, AnswerInv, TimeInv
<1>5. EnoughTimeMeansAnAnswer'
  BY <1>1, <1>3, <1>4 DEF EnoughTimeMeansAnAnswer
<1>6. QED
  BY <1>1, <1>4, <1>5 DEF TimeInv

(* The configuration, the request and the route stay. *)
LEMMA RouteStays ==
    ASSUME ExchangeInv, UNCHANGED <<config, request, route>>
    PROVE  /\ OfTheCase' /\ RouteInv'
           /\ UNCHANGED <<given, now>> => GivenInv'
BY DEF ExchangeInv, OfTheCase, RouteInv, GivenInv, Matched, Route, BodyRead, Limit, NotGiven

(* The handler refuses the request. *)
LEMMA RefuseKeeps ==
    ASSUME ExchangeInv, pc # "ended",
           UNCHANGED <<config, request, now, route, deadline, given, result>>,
           NEW status, NEW code, Refuse(status, code, RequestId),
           code = "ROUTE_NOT_FOUND" => Matched = 0,
           status = 413 => BodyRead > config.maxBody
    PROVE  ExchangeInv'
<1> DEFINE e == ErrorResponse(BaseHeaders, status, RequestId)
<1>1. Answer(e, code, RequestId) /\ DOMAIN e = Fields
  BY ErrorIs DEF Refuse
<1>2. e.status = status /\ e.body = "error" /\ e.headers = ErrorHeaders
  BY ErrorIs
<1> HIDE DEF e
<1>3. /\ pc' = "ended" /\ answer'.code = code /\ answer'.rid = RequestId
      /\ answer'.status = status /\ answer'.body = "error"
      /\ answer'.headers = ErrorHeaders
  <2>1. /\ pc' = "ended" /\ answer'.code = code /\ answer'.rid = RequestId
        /\ \A f \in Fields : answer'[f] = e[f]
    BY <1>1, AnswerIs
  <2>2. {"status", "body", "headers"} \subseteq Fields
    BY DEF Fields
  <2>3. QED
    BY <1>2, <2>1, <2>2
<1>4. result' = NoResult'
  BY DEF ExchangeInv, AnswerInv, NoResult
<1>5. /\ RequestId' = RequestId /\ ErrorHeaders' = ErrorHeaders
      /\ Matched' = Matched /\ BodyRead' = BodyRead
  BY DEF RequestId, ErrorHeaders, BaseHeaders, Matched, BodyRead, Limit
<1>6. Refused'
  BY <1>3, <1>4, <1>5 DEF Refused
<1>7. AnswerInv'
  BY <1>3, <1>6 DEF AnswerInv
<1>8. TimeInv'
  BY <1>1, InTime
<1>9. QED
  BY <1>7, <1>8, RouteStays DEF ExchangeInv

(* The other ways to end: /healthz, and a result. *)
LEMMA HealthzKeeps ==
    ASSUME ExchangeInv, Healthz
    PROVE  ExchangeInv'
<1> DEFINE e == [status |-> 200, headers |-> "Content-Type" :> JSONType @@ BaseHeaders,
                 body |-> "health", size |-> 1]
<1>1. /\ pc = "start" /\ Answer(e, "OK", RequestId)
      /\ UNCHANGED <<config, request, now, route, deadline, given, result>>
  BY DEF Healthz
<1>2. DOMAIN e = Fields /\ e.status = 200 /\ e.body = "health"
  BY DEF Fields
<1> HIDE DEF e
<1>3. /\ pc' = "ended" /\ answer'.code = "OK"
      /\ answer'.status = 200 /\ answer'.body = "health"
  <2>1. /\ pc' = "ended" /\ answer'.code = "OK"
        /\ \A f \in Fields : answer'[f] = e[f]
    BY <1>1, <1>2, AnswerIs
  <2>2. {"status", "body"} \subseteq Fields
    BY DEF Fields
  <2>3. QED
    BY <1>2, <2>1, <2>2
<1>4. result' = NoResult'
  BY <1>1 DEF ExchangeInv, AnswerInv, NoResult
<1>5. Health'
  BY <1>3, <1>4 DEF Health
<1>6. AnswerInv'
  BY <1>3, <1>5 DEF AnswerInv
<1>7. TimeInv'
  BY <1>1, <1>2, InTime
<1>8. QED
  BY <1>1, <1>6, <1>7, RouteStays DEF ExchangeInv

LEMMA ReturnsKeeps ==
    ASSUME ExchangeInv, NEW res \in Result, ExecuteReturns(res)
    PROVE  ExchangeInv'
<1> DEFINE e == ResultResponse(request, Route, config.compression, BaseHeaders, res)
<1>1. /\ pc = "executing" /\ Answer(e, "OK", RequestId) /\ result' = res
      /\ UNCHANGED <<config, request, now, route, deadline, given>>
  BY DEF ExecuteReturns
<1>2. DOMAIN e = Fields
  BY DEF ResultResponse, Fields
<1> HIDE DEF e
<1>3. /\ pc' = "ended" /\ answer'.code = "OK" /\ \A f \in Fields : answer'[f] = e[f]
  BY <1>1, <1>2, AnswerIs
<1>4. ResultResponse(request, Route, config.compression, BaseHeaders, result)' = e
  <2>1. /\ request' = request /\ Route' = Route /\ BaseHeaders' = BaseHeaders
        /\ config' = config /\ result' = res
    BY <1>1 DEF Route, BaseHeaders, RequestId
  <2>2. QED
    BY <2>1, Zenon DEF e
<1>5. result' \in Result /\ result' # NoResult' /\ route' # 0
  BY <1>1, ExchangeAssumption DEF NoResult, ExchangeInv, AnswerInv
<1>6. Returned'
  BY <1>3, <1>4, <1>5 DEF Returned
<1>7. AnswerInv'
  BY <1>3, <1>6 DEF AnswerInv
<1>8. TimeInv'
  BY <1>1, <1>2, InTime
<1>9. QED
  BY <1>1, <1>7, <1>8, RouteStays DEF ExchangeInv

(* The steps after which the exchange goes on. *)
LEMMA RouteFoundKeeps ==
    ASSUME ExchangeInv, RouteFound
    PROVE  ExchangeInv'
<1>1. /\ pc = "start" /\ pc' = "reading" /\ Matched # 0 /\ route' = Matched
      /\ UNCHANGED <<config, request, now, deadline, given, result, answer>>
  BY DEF RouteFound
<1>2. PICK c \in Case : config = c.config
  BY DEF ExchangeInv, OfTheCase
<1>3. config.read \in Nat
  BY <1>2, ExchangeAssumption
<1>4. OfTheCase' /\ RouteInv'
  BY <1>1 DEF ExchangeInv, OfTheCase, RouteInv, Matched
<1>5. GivenInv'
  <2>1. given # NotGiven => route = Matched
    BY DEF ExchangeInv, GivenInv, RouteInv
  <2>2. given # NotGiven => route' = route
    BY <1>1, <2>1
  <2>3. given' # NotGiven' => given # NotGiven
    BY <1>1 DEF NotGiven
  <2>4. given # NotGiven => GivenInv'
    BY <1>1, <2>2, RouteStays
  <2>5. QED
    BY <2>3, <2>4 DEF GivenInv
<1>6. AnswerInv'
  BY <1>1 DEF ExchangeInv, AnswerInv, NoAnswer, NoResult
<1>7. TimeInv'
  BY <1>1, <1>3 DEF ExchangeInv, TimeInv, EnoughTimeMeansAnAnswer, Ended
<1>8. QED
  BY <1>4, <1>5, <1>6, <1>7 DEF ExchangeInv

LEMMA BodyFitsKeeps ==
    ASSUME ExchangeInv, BodyFits
    PROVE  ExchangeInv'
<1>1. /\ pc = "reading" /\ pc' = "executing" /\ BodyRead <= config.maxBody
      /\ deadline' = now + config.timeout
      /\ given' = [params |-> PathParams(Route.path, request.path), body |-> BodyRead]
      /\ UNCHANGED <<config, request, now, route, result, answer>>
  BY DEF BodyFits
<1>2. PICK c \in Case : config = c.config
  BY DEF ExchangeInv, OfTheCase
<1>3. {config.read, config.timeout, Overrun} \subseteq Nat
  BY <1>2, ExchangeAssumption
<1>4. GivenInv'
  <2>1. /\ Route' = Route /\ BodyRead' = BodyRead /\ route # 0
        /\ PathParams(Route.path, request.path)' = PathParams(Route.path, request.path)
    BY <1>1 DEF Route, BodyRead, Limit, PathParams, ExchangeInv, AnswerInv
  <2>2. QED
    BY <1>1, <2>1 DEF GivenInv
<1>5. AnswerInv'
  BY <1>1 DEF ExchangeInv, AnswerInv, NoAnswer, NoResult
<1>6. TimeInv'
  <2>1. /\ now \in Nat /\ now <= config.read
    BY <1>1 DEF ExchangeInv, TimeInv
  <2>2. QED
    BY <1>1, <1>3, <2>1 DEF TimeInv, EnoughTimeMeansAnAnswer, Ended
<1>7. QED
  BY <1>1, <1>4, <1>5, <1>6, RouteStays DEF ExchangeInv

LEMMA TickKeeps ==
    ASSUME ExchangeInv, Tick
    PROVE  ExchangeInv'
<1>1. /\ pc \in {"reading", "executing"} /\ now' = now + 1
      /\ pc = "reading" => now < config.read
      /\ pc = "executing" => now < deadline + Overrun
      /\ UNCHANGED <<config, request, pc, route, deadline, given, result, answer>>
  BY DEF Tick, ReadDeadline
<1>2. PICK c \in Case : config = c.config
  BY DEF ExchangeInv, OfTheCase
<1>3. {config.read, config.timeout, Overrun} \subseteq Nat
  BY <1>2, ExchangeAssumption
<1>4. GivenInv'
  BY <1>1 DEF ExchangeInv, GivenInv, Route, BodyRead, Limit, NotGiven
<1>5. AnswerInv'
  BY <1>1 DEF ExchangeInv, AnswerInv, NoAnswer, NoResult
<1>6. TimeInv'
  <2>1. {now, deadline} \subseteq Nat
    BY DEF ExchangeInv, TimeInv
  <2>2. pc = "reading" => now + 1 <= config.read
    BY <1>1, <1>3, <2>1
  <2>3. pc = "executing" => /\ deadline <= config.read + config.timeout
                            /\ now + 1 <= deadline + Overrun
    BY <1>1, <1>3, <2>1 DEF ExchangeInv, TimeInv
  <2>4. QED
    BY <1>1, <2>1, <2>2, <2>3 DEF TimeInv, EnoughTimeMeansAnAnswer, Ended
<1>7. QED
  BY <1>1, <1>4, <1>5, <1>6, RouteStays DEF ExchangeInv

(* No step of the exchange leaves the invariant. *)
LEMMA ExchangeStep ==
    ExchangeInv /\ [ExchangeNext \/ Disconnect]_exchangeVars => ExchangeInv'
<1> SUFFICES ASSUME ExchangeInv, [ExchangeNext \/ Disconnect]_exchangeVars
             PROVE  ExchangeInv'
  OBVIOUS
<1>1. CASE RouteNotFound
  BY <1>1, RefuseKeeps DEF RouteNotFound
<1>2. ASSUME ReadFails PROVE ExchangeInv'
  BY <1>2, RefuseKeeps DEF ReadFails
<1>3. CASE BodyTooLarge
  BY <1>3, RefuseKeeps DEF BodyTooLarge
<1>4. CASE ExecuteEnds
  <2>1. ASSUME NEW code \in {"REQUEST_TIMEOUT", "FILTER_OUTPUT_TOO_LARGE",
                             "FILTER_EXECUTION_FAILED"}, ExecuteFails(code)
        PROVE  ExchangeInv'
    BY <2>1, RefuseKeeps DEF ExecuteFails
  <2>2. CASE ExecutePanics
    BY <2>2, RefuseKeeps DEF ExecutePanics, LoggedId
  <2>3. QED
    BY <1>4, <2>1, <2>2, ReturnsKeeps DEF ExecuteEnds
<1>5. CASE UNCHANGED exchangeVars
  <2>1. GivenInv' /\ OfTheCase' /\ RouteInv'
    BY <1>5, RouteStays DEF exchangeVars
  <2>2. TimeInv'
    BY <1>5 DEF exchangeVars, ExchangeInv, TimeInv, EnoughTimeMeansAnAnswer, Ended
  <2>3. AnswerInv'
    <3>1. /\ Route' = Route /\ BaseHeaders' = BaseHeaders /\ RequestId' = RequestId
          /\ ErrorHeaders' = ErrorHeaders /\ Matched' = Matched /\ BodyRead' = BodyRead
          /\ NoAnswer' = NoAnswer /\ NoResult' = NoResult
      BY <1>5 DEF exchangeVars, Route, BaseHeaders, RequestId, ErrorHeaders, Matched,
                  BodyRead, Limit, NoAnswer, NoResult
    <3>2. ResultResponse(request, Route, config.compression, BaseHeaders, result)'
              = ResultResponse(request, Route, config.compression, BaseHeaders, result)
      BY <1>5, <3>1, Zenon DEF exchangeVars
    <3>3. QED
      BY <1>5, <3>1, <3>2 DEF exchangeVars, ExchangeInv, AnswerInv, Health, Refused, Returned
  <2>4. QED
    BY <2>1, <2>2, <2>3 DEF ExchangeInv
<1>6. QED
  BY <1>1, <1>2, <1>3, <1>4, <1>5, HealthzKeeps, RouteFoundKeeps, BodyFitsKeeps, TickKeeps
     DEF ExchangeNext, Disconnect, ReadTimesOut

LEMMA ExchangeInvariant == ExchangeSpec => []ExchangeInv
<1>1. ExchangeInit => ExchangeInv
  BY DEF ExchangeInit, ExchangeInv, OfTheCase, RouteInv, GivenInv, AnswerInv, TimeInv,
         EnoughTimeMeansAnAnswer, Ended
<1>2. QED
  BY <1>1, ExchangeStep, PTL DEF ExchangeSpec

(***************************************************************************)
(* What follows.                                                           *)
(***************************************************************************)
LEMMA OneOfTheCases ==
    ASSUME OfTheCase
    PROVE  /\ config.paths \in Seq(Range(config.paths))
           /\ \A p \in Range(config.paths) : p.path \in Path
           /\ request.path \in Path /\ request.body \in Nat
           /\ config.maxBody \in 1..MaxInt /\ MaxInt \in Nat
<1>1. PICK c \in Case : config = c.config /\ request = c.request
  BY DEF OfTheCase
<1>2. QED
  BY <1>1, ExchangeAssumption

(* The route of a request, for any configuration and path. *)
THEOREM RightRoute == ExchangeSpec => []RouteIsTheDocumentedOne
<1>1. ExchangeInv => RouteIsTheDocumentedOne
  <2> DEFINE fits == {i \in DOMAIN config.paths :
                          /\ MethodMatches(config.paths[i], request.method)
                          /\ Describes(config.paths[i].path, request.path)}
  <2> SUFFICES ASSUME ExchangeInv,
                      \A p \in Range(config.paths) : OneNamePerSegment(p.path),
                      ~ HasPathParamPattern(request.path)
               PROVE  /\ answer # NoAnswer /\ answer.code = "ROUTE_NOT_FOUND" => fits = {}
                      /\ route # 0 =>
                            /\ route \in fits
                            /\ \A i \in fits \ {route} :
                                   Precedes(config.paths, request.path, route, i)
    BY DEF RouteIsTheDocumentedOne
  <2>1. /\ Matched = 0 => fits = {}
        /\ Matched # 0 =>
              /\ Matched \in fits
              /\ \A i \in fits \ {Matched} :
                     Precedes(config.paths, request.path, Matched, i)
    <3>1. /\ config.paths \in Seq(Range(config.paths)) /\ request.path \in Path
          /\ \A p \in Range(config.paths) : p.path \in Path /\ OneNamePerSegment(p.path)
      BY OneOfTheCases DEF ExchangeInv
    <3>2. QED
      BY <3>1, BestRoute DEF Matched
  <2> HIDE DEF fits
  <2>2. answer # NoAnswer /\ answer.code = "ROUTE_NOT_FOUND" => Matched = 0
    BY DEF ExchangeInv, AnswerInv, Health, Refused, Returned
  <2>3. route # 0 => route = Matched
    BY DEF ExchangeInv, RouteInv
  <2>4. QED
    BY <2>1, <2>2, <2>3
<1>2. QED
  BY <1>1, ExchangeInvariant, PTL

(* The path parameters of a request, for any pattern and path. *)
THEOREM RightParams == ExchangeSpec => []ParamsExplainThePath
<1>1. ExchangeInv => ParamsExplainThePath
  <2> SUFFICES ASSUME ExchangeInv, given # NotGiven, OneNamePerSegment(Route.path)
               PROVE  Filled(Route.path, given.params) = request.path
    BY DEF ParamsExplainThePath
  <2>1. /\ config.paths \in Seq(Range(config.paths)) /\ request.path \in Path
        /\ \A p \in Range(config.paths) : p.path \in Path
    BY OneOfTheCases DEF ExchangeInv
  <2>2. route = Matched /\ route # 0
    BY DEF ExchangeInv, GivenInv, RouteInv
  <2>3. route \in DOMAIN config.paths /\ MatchPathPattern(Route.path, request.path)
    BY <2>1, <2>2, RouteMatches DEF Matched, Route
  <2>4. Route.path \in Path
    BY <2>1, <2>3 DEF Route, Range
  <2>5. QED
    BY <2>1, <2>3, <2>4, CapturedFills DEF ExchangeInv, GivenInv
<1>2. QED
  BY <1>1, ExchangeInvariant, PTL

(* What the LimitReader lets through. *)
LEMMA WhatIsRead ==
    ASSUME OfTheCase
    PROVE  /\ config.maxBody < MaxInt =>
                  BodyRead = IF request.body <= config.maxBody
                             THEN request.body ELSE config.maxBody + 1
           /\ config.maxBody = MaxInt => BodyRead = 0
<1> DEFINE n == request.body
           m == config.maxBody
<1>1. n \in Nat /\ m \in Nat /\ MaxInt \in Nat /\ m <= MaxInt
  BY OneOfTheCases
<1> HIDE DEF n, m
<1>2. ASSUME NEW i \in Int, NEW j \in Int
      PROVE  /\ Min({i, j}) = IF i <= j THEN i ELSE j
             /\ Max({i, j}) = IF i >= j THEN i ELSE j
  <2>1. \E x \in {i, j} : \A y \in {i, j} : x <= y
    OBVIOUS
  <2>2. \E x \in {i, j} : \A y \in {i, j} : x >= y
    OBVIOUS
  <2>3. Min({i, j}) \in {i, j} /\ \A y \in {i, j} : Min({i, j}) <= y
    BY <2>1 DEF Min
  <2>4. Max({i, j}) \in {i, j} /\ \A y \in {i, j} : Max({i, j}) >= y
    BY <2>2 DEF Max
  <2>5. QED
    BY <2>3, <2>4
<1>3. CASE m < MaxInt
  <2>1. Limit = m + 1
    BY <1>1, <1>3 DEF Limit, Wrap, m
  <2>2. BodyRead = Max({0, Min({m + 1, n})})
    BY <2>1 DEF BodyRead, n
  <2>3. Min({m + 1, n}) = IF n <= m THEN n ELSE m + 1
    BY <1>1, <1>2
  <2>4. BodyRead = IF n <= m THEN n ELSE m + 1
    BY <1>1, <1>2, <2>2, <2>3
  <2>5. QED
    BY <1>1, <1>3, <2>4 DEF n, m
<1>4. CASE m = MaxInt
  <2>1. Limit = -1 - MaxInt
    BY <1>1, <1>4 DEF Limit, Wrap, m
  <2>2. BodyRead = Max({0, Min({-1 - MaxInt, n})})
    BY <2>1 DEF BodyRead, n
  <2>3. Min({-1 - MaxInt, n}) = -1 - MaxInt
    BY <1>1, <1>2
  <2>4. BodyRead = 0
    BY <1>1, <1>2, <2>2, <2>3
  <2>5. QED
    BY <1>1, <1>4, <2>4 DEF m
<1>5. QED
  BY <1>1, <1>3, <1>4 DEF m

(* A result is sent with 200, or with 500 because it has no encoding. *)
LEMMA ResultStatus ==
    ASSUME NEW req, NEW rte, NEW c, NEW h, NEW res
    PROVE  LET r == ResultResponse(req, rte, c, h, res)
           IN  /\ r.status \in {200, 500} /\ r.body \in {"none", "gzip", "plain"}
               /\ r.status = 500 => ~ Encodable(res)
BY DEF ResultResponse

(* The body, for any limit and any size. *)
THEOREM WholeBody == ExchangeSpec => []BodyIsWholeOrRefused
<1>1. ExchangeInv => BodyIsWholeOrRefused
  <2> SUFFICES ASSUME ExchangeInv PROVE BodyIsWholeOrRefused
    OBVIOUS
  <2>1. /\ request.body \in Nat /\ config.maxBody \in Nat
        /\ config.maxBody < MaxInt =>
               BodyRead = IF request.body <= config.maxBody
                          THEN request.body ELSE config.maxBody + 1
        /\ config.maxBody = MaxInt => BodyRead = 0
    BY OneOfTheCases, WhatIsRead DEF ExchangeInv
  <2>2. given # NotGiven => given.body = BodyRead /\ BodyRead <= config.maxBody
    BY DEF ExchangeInv, GivenInv
  <2>3. Ended /\ answer.status = 413 => BodyRead > config.maxBody
    <3>1. Returned => answer.status \in {200, 500}
      <4>1. ASSUME Returned
            PROVE  answer.status = ResultResponse(request, Route, config.compression,
                                                  BaseHeaders, result).status
        BY <4>1 DEF Returned, Fields
      <4>2. QED
        BY <4>1, ResultStatus
    <3>2. QED
      BY <3>1 DEF Ended, ExchangeInv, AnswerInv, Health, Refused
  <2>4. QED
    BY <2>1, <2>2, <2>3 DEF BodyIsWholeOrRefused
<1>2. QED
  BY <1>1, ExchangeInvariant, PTL

(* Where results can all be encoded, an error tells the client the code and
   the id, and nothing else.  Without that it does not: see ErrorsAreStable. *)
THEOREM StableErrors ==
    ASSUME \A res \in Result : Encodable(res)
    PROVE  ExchangeSpec => []ErrorsAreStable
<1>1. ExchangeInv => ErrorsAreStable
  <2> SUFFICES ASSUME ExchangeInv, Ended, answer.status # 200
               PROVE  /\ answer.body = "error" /\ answer.rid = RequestId
                      /\ answer.headers = ErrorHeaders
    BY DEF ErrorsAreStable, ErrorHeaders
  <2>1. CASE Health \/ Refused
    BY <2>1 DEF Health, Refused
  <2>2. CASE Returned
    <3>1. /\ Encodable(result)
          /\ answer.status = ResultResponse(request, Route, config.compression,
                                            BaseHeaders, result).status
      BY <2>2 DEF Returned, Fields
    <3>2. QED
      BY <3>1, ResultStatus
  <2>3. QED
    BY <2>1, <2>2 DEF Ended, ExchangeInv, AnswerInv
<1>2. QED
  BY <1>1, ExchangeInvariant, PTL

(* No answer is lost, for any timeouts of which write_timeout is enough. *)
THEOREM InTimeForTheClient == ExchangeSpec => []EnoughTimeMeansAnAnswer
<1>1. ExchangeInv => EnoughTimeMeansAnAnswer
  BY DEF ExchangeInv, TimeInv
<1>2. QED
  BY <1>1, ExchangeInvariant, PTL

(* The headers and body of a result that can be encoded. *)
LEMMA ResultIs ==
    ASSUME ExchangeInv, result # NoResult
    PROVE  LET set   == SetHeaders(BaseHeaders, result, Route)
               typed == WithContentType(set, result)
           IN  /\ pc = "ended"
               /\ Encodable(result) =>
                     \/ /\ answer.body = "gzip" /\ answer.headers = Compressed(typed)
                        /\ ShouldCompress(request, Route, config.compression, typed, result)
                     \/ answer.body = "plain" /\ answer.headers = typed
               /\ ~ Encodable(result) => answer.body = "none"
<1> DEFINE response == ResultResponse(request, Route, config.compression,
                                      BaseHeaders, result)
<1>1. pc = "ended" /\ Returned
  BY DEF ExchangeInv, AnswerInv, Health, Refused
<1>2. answer.body = response.body /\ answer.headers = response.headers
  BY <1>1 DEF Returned, Fields
<1>3. QED
  BY <1>1, <1>2 DEF ResultResponse

(* Which header is sent, for any route, result and compression. *)
THEOREM RightHeaders == ExchangeSpec => []HeadersHavePrecedence
<1>1. ExchangeInv => HeadersHavePrecedence
  <2> DEFINE of(n) ==
                CASE n \in DOMAIN Route.headers -> Route.headers[n]
                  [] n \in DOMAIN result.headers \ DOMAIN Route.headers ->
                         result.headers[n]
                  [] OTHER -> IF n = "X-Request-ID" THEN RequestId ELSE ""
             promised(n) == IF n = "Content-Type" /\ of(n) = ""
                            THEN Detected(result) ELSE of(n)
             names == DOMAIN Route.headers \cup DOMAIN result.headers
                         \cup {"Content-Type", "X-Request-ID"}
             set   == SetHeaders(BaseHeaders, result, Route)
             typed == WithContentType(set, result)
  <2> SUFFICES ASSUME ExchangeInv, Succeeded, NEW n \in names
               PROVE  CASE answer.body = "gzip" /\ n = "Content-Length" ->
                               n \notin DOMAIN answer.headers
                        [] answer.body = "gzip" /\ n = "Content-Encoding" ->
                               answer.headers[n] = "gzip"
                        [] answer.body = "gzip" /\ n = "Vary" ->
                               promised(n) \subseteq answer.headers[n]
                        [] OTHER -> answer.headers[n] = promised(n)
    BY DEF HeadersHavePrecedence
  <2>1. DOMAIN BaseHeaders = {"X-Request-ID"} /\ BaseHeaders["X-Request-ID"] = RequestId
    BY One DEF BaseHeaders
  <2>2. /\ set = SetHeaders(BaseHeaders, result, Route)
        /\ typed = WithContentType(set, result)
    OBVIOUS
  <2> HIDE DEF set, typed
  <2>3. n \in DOMAIN typed /\ typed[n] = promised(n)
    <3> DEFINE given_by == DOMAIN Route.headers \cup DOMAIN result.headers
    <3>0. /\ n \in DOMAIN set <=> n \in given_by \/ n = "X-Request-ID"
          /\ n \in DOMAIN Route.headers => set[n] = Route.headers[n]
          /\ n \notin DOMAIN Route.headers /\ n \in DOMAIN result.headers =>
                 set[n] = result.headers[n]
          /\ n \notin given_by /\ n = "X-Request-ID" => set[n] = RequestId
      BY <2>1, <2>2, InForce
    <3>1. /\ n \in DOMAIN set => set[n] = of(n)
          /\ n \notin DOMAIN set => of(n) = "" /\ n = "Content-Type"
      BY <3>0
    <3>5. /\ DOMAIN typed = DOMAIN set \cup {"Content-Type"}
          /\ n \in DOMAIN set /\ n # "Content-Type" => typed[n] = set[n]
          /\ typed["Content-Type"] =
                 IF HeaderGet(set, "Content-Type") = "" THEN Detected(result)
                                                        ELSE set["Content-Type"]
      BY <2>2, Typed
    <3>2. CASE n # "Content-Type"
      BY <3>1, <3>2, <3>5
    <3>3. CASE n = "Content-Type"
      <4>1. HeaderGet(set, "Content-Type") = of(n)
        BY <3>1, <3>3 DEF HeaderGet
      <4>2. typed[n] = IF of(n) = "" THEN Detected(result) ELSE set[n]
        BY <3>3, <3>5, <4>1
      <4>3. of(n) # "" => set[n] = of(n)
        BY <3>1
      <4>4. n \in DOMAIN typed
        BY <3>3, <3>5
      <4> HIDE DEF of
      <4>5. QED
        BY <3>3, <4>2, <4>3, <4>4
    <3>4. QED
      BY <3>2, <3>3
  <2>4. \/ answer.body = "gzip" /\ answer.headers = Compressed(typed)
        \/ answer.body = "plain" /\ answer.headers = typed
    BY <2>2, ResultIs DEF Succeeded
  <2> HIDE DEF names, promised
  <2>5. CASE answer.body = "plain" /\ answer.headers = typed
    BY <2>3, <2>5
  <2>6. CASE answer.body = "gzip" /\ answer.headers = Compressed(typed)
    <3>1. /\ DOMAIN answer.headers = (DOMAIN typed \cup {"Vary", "Content-Encoding"})
                                         \ {"Content-Length"}
          /\ answer.headers["Content-Encoding"] = "gzip"
          /\ "Vary" \in DOMAIN typed => typed["Vary"] \subseteq answer.headers["Vary"]
          /\ \A m \in DOMAIN typed \ {"Content-Length", "Vary", "Content-Encoding"} :
                 answer.headers[m] = typed[m]
      BY <2>6, CompressedHeaders
    <3>2. CASE n \in {"Content-Length", "Vary", "Content-Encoding"}
      BY <2>3, <2>6, <3>1, <3>2
    <3>3. CASE n \notin {"Content-Length", "Vary", "Content-Encoding"}
      BY <2>3, <2>6, <3>1, <3>3
    <3>4. QED
      BY <3>2, <3>3
  <2>7. QED
    BY <2>4, <2>5, <2>6
<1>2. QED
  BY <1>1, ExchangeInvariant, PTL

(* What is said of a compressed body, and to whom one is sent. *)
THEOREM DescribedCompression == ExchangeSpec => []CompressedIsDescribed
<1>1. ExchangeInv => CompressedIsDescribed
  <2> DEFINE set   == SetHeaders(BaseHeaders, result, Route)
             typed == WithContentType(set, result)
             over  == Route.headers @@ result.headers
  <2> SUFFICES ASSUME ExchangeInv, answer # NoAnswer, answer.body = "gzip"
               PROVE  /\ answer.headers["Content-Encoding"] = "gzip"
                      /\ "Accept-Encoding" \in answer.headers["Vary"]
                      /\ LengthAgrees(answer)
                      /\ HeaderGet(over, "Content-Encoding") = ""
                      /\ ~ request.range
                      /\ \E e \in request.encodings : e.name \in {"gzip", "*"} /\ e.q # "0"
    BY DEF CompressedIsDescribed
  <2>1. result # NoResult
    BY DEF ExchangeInv, AnswerInv, Health, Refused, Returned
  <2>2. /\ answer.headers = Compressed(typed)
        /\ ShouldCompress(request, Route, config.compression, typed, result)
    BY <2>1, ResultIs
  <2>3. /\ set = SetHeaders(BaseHeaders, result, Route)
        /\ typed = WithContentType(set, result)
        /\ over = Route.headers @@ result.headers
    OBVIOUS
  <2> HIDE DEF set, typed, over
  <2>4. /\ HeaderGet(typed, "Content-Encoding") = "" /\ ~ request.range
        /\ AcceptsGzip(request.encodings)
    BY <2>2 DEF ShouldCompress
  <2>5. HeaderGet(over, "Content-Encoding") = ""
    <3> DEFINE ce == "Content-Encoding"
    <3>1. ce \in DOMAIN over => ce \in DOMAIN set /\ set[ce] = over[ce]
      <4>1. /\ DOMAIN over = DOMAIN Route.headers \cup DOMAIN result.headers
            /\ ce \in DOMAIN Route.headers => over[ce] = Route.headers[ce]
            /\ ce \in DOMAIN result.headers /\ ce \notin DOMAIN Route.headers =>
                   over[ce] = result.headers[ce]
        <5>1. /\ DOMAIN over = DOMAIN Route.headers \cup DOMAIN result.headers
              /\ \A x \in DOMAIN Route.headers : over[x] = Route.headers[x]
              /\ \A x \in DOMAIN result.headers :
                     x \notin DOMAIN Route.headers => over[x] = result.headers[x]
          <6>1. /\ DOMAIN (Route.headers @@ result.headers)
                         = DOMAIN Route.headers \cup DOMAIN result.headers
                /\ \A x \in DOMAIN Route.headers :
                       (Route.headers @@ result.headers)[x] = Route.headers[x]
                /\ \A x \in DOMAIN result.headers : x \notin DOMAIN Route.headers =>
                       (Route.headers @@ result.headers)[x] = result.headers[x]
            BY Overlaid
          <6>2. QED
            BY <2>3, <6>1, Zenon
        <5>2. QED
          BY <5>1
      <4>2. /\ ce \in DOMAIN set <=> \/ ce \in DOMAIN Route.headers
                                     \/ ce \in DOMAIN result.headers
                                     \/ ce \in DOMAIN BaseHeaders
            /\ ce \in DOMAIN Route.headers => set[ce] = Route.headers[ce]
            /\ ce \notin DOMAIN Route.headers /\ ce \in DOMAIN result.headers =>
                   set[ce] = result.headers[ce]
        BY <2>3, InForce
      <4>3. QED
        BY <4>1, <4>2
    <3>2. ce \in DOMAIN set => ce \in DOMAIN typed /\ typed[ce] = set[ce]
      <4>1. /\ DOMAIN typed = DOMAIN set \cup {"Content-Type"}
            /\ \A n \in DOMAIN set : n # "Content-Type" => typed[n] = set[n]
        BY <2>3, Typed
      <4>2. QED
        BY <4>1
    <3>3. QED
      BY <2>4, <3>1, <3>2 DEF HeaderGet
  <2>6. /\ "Content-Length" \notin DOMAIN answer.headers
        /\ answer.headers["Content-Encoding"] = "gzip"
        /\ "Accept-Encoding" \in answer.headers["Vary"]
    BY <2>2, CompressedHeaders
  <2>7. \E e \in request.encodings : e.name \in {"gzip", "*"} /\ e.q # "0"
    BY <2>4 DEF AcceptsGzip
  <2>8. QED
    BY <2>4, <2>5, <2>6, <2>7 DEF LengthAgrees
<1>2. QED
  BY <1>1, ExchangeInvariant, PTL
=============================================================================
