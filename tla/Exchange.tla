------------------------------- MODULE Exchange ------------------------------
(***************************************************************************)
(* One HTTP exchange, from the moment the server has read the request's    *)
(* header: the access log and recovery around the mux, handleRequest       *)
(* (app.go), the body under its limit (request_context.go), and the        *)
(* deadlines net/http and the request's context put on all of it.          *)
(*                                                                         *)
(* What Engine.Execute does is in module Execution; here it returns some   *)
(* result or failure, or panics, at some time.  Time passes while the body *)
(* arrives and while filters execute; the handler's own steps take none.   *)
(***************************************************************************)
EXTENDS Integers, Routing, Response

CONSTANTS
    Case,           \* pairs of a configuration and a request
    Result,         \* what Execute may return
    MaxInt,         \* the largest value of max_body_size, an int64
    Overrun,        \* how long Execute may go on past its deadline, for the
                    \* singleflight leader it waits for (see Execution)
    NoId            \* the request has no X-Request-ID

ASSUME ExchangeAssumption ==
    /\ {MaxInt, Overrun} \subseteq Nat
    /\ \A res \in Result : res # [form |-> "none"]
    /\ \A c \in Case :
          /\ c.config.paths \in Seq(Range(c.config.paths))
          /\ \A p \in Range(c.config.paths) \cup {c.request} : p.path \in Path
          /\ c.config.maxBody \in 1..MaxInt
          /\ {c.config.read, c.config.write, c.config.timeout} \subseteq Nat \ {0}
          /\ {c.request.body, c.request.arrives} \subseteq Nat
          /\ c.request.alone \in BOOLEAN

VARIABLES
    config, request,
    now,            \* time since the header was read
    pc,             \* start, reading, executing, ended
    route,          \* the index of its route, or 0
    deadline,       \* when its context ends
    given,          \* the request context Execute was called with
    result,         \* what it returned
    answer          \* what was handed to net/http, and what became of it

exchangeVars == <<config, request, now, pc, route, deadline, given, result, answer>>

Route    == config.paths[route]
NotGiven == [params |-> <<>>, body |-> -1]
NoAnswer == [sent |-> "none"]
NoResult == [form |-> "none"]

(* withAccessLog: the id of the client, or a new one. *)
RequestId   == IF request.id = NoId THEN "fresh" ELSE request.id
BaseHeaders == "X-Request-ID" :> RequestId

(* requestIDFromContext in withRecovery, which the access log surrounds. *)
LoggedId == RequestId

(* A variant of ReadDeadline for a server without a ReadTimeout. *)
ReadDeadlineUnset == 9

ReadDeadline  == config.read
WriteDeadline == config.write

ExchangeInit ==
    /\ \E c \in Case : config = c.config /\ request = c.request
    /\ now = 0 /\ pc = "start" /\ route = 0 /\ deadline = 0
    /\ given = NotGiven
    /\ result = NoResult
    /\ answer = NoAnswer

(* The handler returns.  Nothing that is written at or after the deadline
   reaches the client; of what comes before, the body has to be as long as
   Content-Length says. *)
Answer(response, code, rid) ==
    /\ pc' = "ended"
    /\ answer' = response @@
          [code |-> code, rid |-> rid,
           sent |-> IF now >= WriteDeadline THEN "lost"
                    ELSE IF LengthAgrees(response) THEN "whole" ELSE "cut"]

Refuse(status, code, rid) ==
    Answer(ErrorResponse(BaseHeaders, status, rid), code, rid)

-----------------------------------------------------------------------------
(* The mux: handleHealthz. *)
Healthz ==
    /\ pc = "start" /\ request.healthz
    /\ Answer([status |-> 200, headers |-> "Content-Type" :> JSONType @@ BaseHeaders,
               body |-> "health", size |-> 1], "OK", RequestId)
    /\ UNCHANGED <<config, request, now, route, deadline, given, result>>

Matched == MatchRoute(config.paths, request.method, request.path)

RouteNotFound ==
    /\ pc = "start" /\ ~ request.healthz
    /\ Matched = 0
    /\ Refuse(404, "ROUTE_NOT_FOUND", RequestId)
    /\ UNCHANGED <<config, request, now, route, deadline, given, result>>

RouteFound ==
    /\ pc = "start" /\ ~ request.healthz
    /\ Matched # 0
    /\ route' = Matched
    /\ pc' = "reading"
    /\ UNCHANGED <<config, request, now, deadline, given, result, answer>>

(* Two's complement in as few bits as hold MaxInt. *)
Wrap(n) == IF n > MaxInt THEN n - 2 * (MaxInt + 1) ELSE n

(* A variant of Limit without the byte that shows there is more. *)
LimitExact == config.maxBody

(* The N of io.LimitReader: maxBytes + 1. *)
Limit == Wrap(config.maxBody + 1)

(* What io.Copy gets through the LimitReader. *)
BodyRead == Max({0, Min({Limit, request.body})})

BodyArrived == request.arrives <= now

ReadFails ==
    /\ pc = "reading"
    /\ Refuse(500, "FILTER_EXECUTION_FAILED", RequestId)
    /\ UNCHANGED <<config, request, now, route, deadline, given, result>>

(* A variant of ReadTimesOut for a connection without a deadline. *)
ReadForever == FALSE /\ UNCHANGED exchangeVars

(* io.Copy fails: at the deadline of the connection, or as the client went
   away first. *)
ReadTimesOut == now = ReadDeadline /\ ReadFails
Disconnect   == ~ BodyArrived /\ ReadFails

BodyTooLarge ==
    /\ pc = "reading" /\ BodyArrived
    /\ BodyRead > config.maxBody
    /\ Refuse(413, "REQUEST_BODY_TOO_LARGE", RequestId)
    /\ UNCHANGED <<config, request, now, route, deadline, given, result>>

(* The context of the request begins with its call of Execute. *)
BodyFits ==
    /\ pc = "reading" /\ BodyArrived
    /\ BodyRead <= config.maxBody
    /\ pc' = "executing"
    /\ deadline' = now + config.timeout
    /\ given' = [params |-> PathParams(Route.path, request.path), body |-> BodyRead]
    /\ UNCHANGED <<config, request, now, route, result, answer>>

(* errors.Is on what Execute returned.  The deadline that has passed is its
   own, unless the request is not alone: it then shares a call with another
   one and its deadline, or dials, which has a deadline too. *)
ExecuteFails(code) ==
    /\ pc = "executing"
    /\ code = "REQUEST_TIMEOUT" => now >= deadline \/ ~ request.alone
    /\ Refuse(500, code, RequestId)
    /\ UNCHANGED <<config, request, now, route, deadline, given, result>>

ExecutePanics ==
    /\ pc = "executing"
    /\ Refuse(500, "FILTER_EXECUTION_FAILED", LoggedId)
    /\ UNCHANGED <<config, request, now, route, deadline, given, result>>

ExecuteReturns(res) ==
    /\ pc = "executing"
    /\ Answer(ResultResponse(request, Route, config.compression, BaseHeaders, res),
              "OK", RequestId)
    /\ result' = res
    /\ UNCHANGED <<config, request, now, route, deadline, given>>

(* Time passes while there is something to wait for. *)
Tick ==
    /\ \/ pc = "reading" /\ ~ BodyArrived /\ now < ReadDeadline
       \/ pc = "executing" /\ now < deadline + Overrun
    /\ now' = now + 1
    /\ UNCHANGED <<config, request, pc, route, deadline, given, result, answer>>

ExecuteEnds ==
    \/ \E code \in {"REQUEST_TIMEOUT", "FILTER_OUTPUT_TOO_LARGE",
                    "FILTER_EXECUTION_FAILED"} : ExecuteFails(code)
    \/ ExecutePanics
    \/ \E res \in Result : ExecuteReturns(res)

ExchangeNext ==
    \/ Healthz \/ RouteNotFound \/ RouteFound
    \/ BodyTooLarge \/ BodyFits \/ ReadTimesOut
    \/ ExecuteEnds
    \/ Tick

(* Code runs, time passes, net/http ends a read at its deadline, and Execute
   returns (see Execution); a client does not have to go away. *)
ExchangeSpec ==
    /\ ExchangeInit
    /\ [][ExchangeNext \/ Disconnect]_exchangeVars
    /\ WF_exchangeVars(ExchangeNext)

-----------------------------------------------------------------------------
Ended     == pc = "ended"
Succeeded == result # NoResult /\ Encodable(result)

(***************************************************************************)
(* SPEC.md "Match policy": the route is one the path fits, after which no  *)
(* other is to be preferred; there is none only if the path fits none.     *)
(* Methods are the same here whatever their case, as in the code; SPEC.md  *)
(* has "method exact match or `*`", which is not what it does.  (A route   *)
(* whose path has both braces counts as one with parameters, so the one    *)
(* the path of such a request spells out is not the exact one.)            *)
(***************************************************************************)
RouteIsTheDocumentedOne ==
    LET fits == {i \in DOMAIN config.paths :
                     /\ MethodMatches(config.paths[i], request.method)
                     /\ Describes(config.paths[i].path, request.path)}
    IN  /\ \A p \in Range(config.paths) : OneNamePerSegment(p.path)
        /\ ~ HasPathParamPattern(request.path)
        => /\ answer # NoAnswer /\ answer.code = "ROUTE_NOT_FOUND" => fits = {}
           /\ route # 0 =>
                 /\ route \in fits
                 /\ \A i \in fits \ {route} :
                        Precedes(config.paths, request.path, route, i)

(***************************************************************************)
(* What the filters see as path parameters, put into the pattern of the    *)
(* route, gives the path of the request back.                              *)
(***************************************************************************)
ParamsExplainThePath ==
    given # NotGiven /\ OneNamePerSegment(Route.path) =>
        Filled(Route.path, given.params) = request.path

(***************************************************************************)
(* SPEC.md "Request body size limit": filters get all of a body within the *)
(* limit, and none of one beyond it; for the limit the size of an int64    *)
(* every body is taken for empty.                                          *)
(***************************************************************************)
BodyIsWholeOrRefused ==
    /\ config.maxBody < MaxInt =>
          /\ given # NotGiven => given.body = request.body
          /\ Ended /\ answer.status = 413 => request.body > config.maxBody
    /\ config.maxBody = MaxInt /\ given # NotGiven => given.body = 0

(***************************************************************************)
(* SPEC.md "Response headers": those of the route before those of the      *)
(* result before the server's own; compression adds to Vary, removes       *)
(* Content-Length, names itself as the encoding and leaves the others      *)
(* alone.  The content type is detected when neither sets one, or the one  *)
(* that counts is empty, as in the code; SPEC.md has it detected "If       *)
(* Content-Type is not specified in paths[].headers", whatever the headers *)
(* of the result.                                                          *)
(***************************************************************************)
HeadersHavePrecedence ==
    Succeeded =>
        LET set(n) ==
                CASE n \in DOMAIN Route.headers -> Route.headers[n]
                  [] n \in DOMAIN result.headers \ DOMAIN Route.headers ->
                         result.headers[n]
                  [] OTHER -> IF n = "X-Request-ID" THEN RequestId ELSE ""
            promised(n) == IF n = "Content-Type" /\ set(n) = ""
                           THEN Detected(result) ELSE set(n)
        IN  \A n \in DOMAIN Route.headers \cup DOMAIN result.headers
                        \cup {"Content-Type", "X-Request-ID"} :
                CASE answer.body = "gzip" /\ n = "Content-Length" ->
                         n \notin DOMAIN answer.headers
                  [] answer.body = "gzip" /\ n = "Content-Encoding" ->
                         answer.headers[n] = "gzip"
                  [] answer.body = "gzip" /\ n = "Vary" ->
                         promised(n) \subseteq answer.headers[n]
                  [] OTHER -> answer.headers[n] = promised(n)

(***************************************************************************)
(* A compressed body is announced as such and as varying, is not taken for *)
(* one that was encoded already, has no length but its own, and goes only  *)
(* to a client that takes gzip in some way and asked for no range.         *)
(***************************************************************************)
CompressedIsDescribed ==
    answer # NoAnswer /\ answer.body = "gzip" =>
        /\ answer.headers["Content-Encoding"] = "gzip"
        /\ "Accept-Encoding" \in answer.headers["Vary"]
        /\ LengthAgrees(answer)
        /\ HeaderGet(Route.headers @@ result.headers, "Content-Encoding") = ""
        /\ ~ request.range
        /\ \E e \in request.encodings : e.name \in {"gzip", "*"} /\ e.q # "0"

(***************************************************************************)
(* When write_timeout is more than read_timeout and request_timeout, and   *)
(* what Execute may take past its deadline, no answer is lost.             *)
(***************************************************************************)
EnoughTimeMeansAnAnswer ==
    /\ Ended
    /\ config.write > config.read + config.timeout + Overrun
    => answer.sent # "lost"

(* Every exchange ends, also when the body never arrives. *)
ExchangeEnds == <>Ended

-----------------------------------------------------------------------------
(* What SPEC.md says and the code does not always keep to. *)

(* SPEC.md "HTTP error payload must be stable and minimal: error, code,
   request_id", with "the same request_id" in the log: whatever goes wrong,
   and wherever, the client is told a code and the id under which the log has
   it, and nothing of a result.  The code keeps to it but for a result that has
   no encoding, whose headers it sends with a status 500 and no payload: the
   theorem StableErrors is about the others. *)
ErrorsAreStable ==
    Ended /\ answer.status # 200 =>
        /\ answer.body = "error"
        /\ answer.rid = RequestId
        /\ answer.headers = "Content-Type" :> JSONType @@ BaseHeaders

(* SPEC.md "Response body: filter result": all of it, encoded as announced. *)
BodyIsDelivered ==
    Succeeded /\ answer.sent # "lost" =>
        /\ answer.sent = "whole"
        /\ "Content-Encoding" \in DOMAIN answer.headers => answer.body = "gzip"
=============================================================================
