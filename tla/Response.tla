------------------------------ MODULE Response -------------------------------
(***************************************************************************)
(* How a result becomes a response (app.go): the order in which headers    *)
(* are set, the choice of the content type and of compression, and what    *)
(* net/http makes of a header that contradicts the body.                   *)
(*                                                                         *)
(* Headers are a function from the names that are set to their values;     *)
(* that of Vary is the set of its tokens.  A result is its form, the       *)
(* .headers it carries if it is an object, and the length of its encoding. *)
(***************************************************************************)
EXTENDS Naturals, Sequences, Overlay

TextType == "text/plain"
JSONType == "application/json"

(* A variant of SetHeaders in the other order. *)
SetHeadersReversed(h, res, route) == res.headers @@ route.headers @@ h

(* applyFilterResponseHeaders, then the headers of the route. *)
SetHeaders(h, res, route) == route.headers @@ res.headers @@ h

(* encodeResult: NaN and infinity, which jq can return, have no JSON form. *)
Encodable(res) == res.form # "unencodable"
Detected(res)  == IF res.form = "text" THEN TextType ELSE JSONType

(* http.Header.Get: "" for what is not set. *)
HeaderGet(h, name) == IF name \in DOMAIN h THEN h[name] ELSE ""

WithContentType(h, res) ==
    IF HeaderGet(h, "Content-Type") = "" THEN "Content-Type" :> Detected(res) @@ h
                                         ELSE h

(* acceptsGzip.  A weight is found by looking for the text "q=0", which is
   how 0.5 begins too. *)
AcceptsGzip(encodings) ==
    \E e \in encodings : e.name \in {"gzip", "*"} /\ e.q \notin {"0", "0.5"}

IsCompressionEnabled(compression, route) ==
    IF route.compression = "unset" THEN compression.enabled
                                   ELSE route.compression = "on"

(* matchesCompressionType.  A wildcard stands for the types it covers. *)
MatchesType(contentType, types) == types = {} \/ contentType \in types

(* A variant of ShouldCompress that does not look at Content-Encoding. *)
ShouldCompressTwice(request, route, compression, h, res) ==
    /\ IsCompressionEnabled(compression, route)
    /\ res.size >= compression.minSize
    /\ ~ request.range
    /\ AcceptsGzip(request.encodings)
    /\ compression.gzip
    /\ MatchesType(h["Content-Type"], compression.types)

(* shouldCompressResponse. *)
ShouldCompress(request, route, compression, h, res) ==
    /\ IsCompressionEnabled(compression, route)
    /\ res.size >= compression.minSize
    /\ HeaderGet(h, "Content-Encoding") = ""
    /\ ~ request.range
    /\ AcceptsGzip(request.encodings)
    /\ compression.gzip
    /\ MatchesType(h["Content-Type"], compression.types)

Without(h, name) == [n \in DOMAIN h \ {name} |-> h[n]]

AppendVary(h, token) ==
    LET old == IF "Vary" \in DOMAIN h THEN h["Vary"] ELSE {}
    IN  "Vary" :> (old \cup {token}) @@ h

(* The headers of a compressed response. *)
Compressed(h) ==
    "Content-Encoding" :> "gzip"
        @@ Without(AppendVary(h, "Accept-Encoding"), "Content-Length")

(* writeResultWithCompression.  Without an encoding the status is sent with
   the headers set so far.  Nothing announces the length gzip arrives at. *)
ResultResponse(request, route, compression, h, res) ==
    LET set   == SetHeaders(h, res, route)
        typed == WithContentType(set, res)
    IN  IF ~ Encodable(res)
        THEN [status |-> 500, headers |-> set, body |-> "none", size |-> 0]
        ELSE IF ShouldCompress(request, route, compression, typed, res)
        THEN [status |-> 200, headers |-> Compressed(typed), body |-> "gzip",
              size |-> 0]
        ELSE [status |-> 200, headers |-> typed, body |-> "plain",
              size |-> res.size]

(* writeError, without what its payload says. *)
ErrorResponse(h, status, rid) ==
    LET id == IF rid = "" THEN h ELSE "X-Request-ID" :> rid @@ h
    IN  [status |-> status, headers |-> "Content-Type" :> JSONType @@ id,
         body |-> "error", size |-> 1]

(* net/http delivers the body a Content-Length announces, and fails when the
   handler writes more, or less. *)
LengthAgrees(r) ==
    "Content-Length" \in DOMAIN r.headers => r.headers["Content-Length"] = r.size
=============================================================================
