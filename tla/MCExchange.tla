------------------------------ MODULE MCExchange -----------------------------
(***************************************************************************)
(* Three families of configurations and requests, one per concern: which   *)
(* route a request gets, how its body and the deadlines meet, and what is  *)
(* made of the result.  In the other respects each is as simple as can be. *)
(***************************************************************************)
EXTENDS Exchange

Names == "{x}" :> "x" @@ "{y}" :> "y"
Fold  == "GET" :> "get" @@ "get" :> "get" @@ "POST" :> "post"

NoHeaders == [n \in {} |-> {}]

Plain == [method |-> AnyMethod, path |-> <<"a">>, headers |-> NoHeaders,
          compression |-> "unset"]
Off   == [enabled |-> FALSE, minSize |-> 0, gzip |-> TRUE, types |-> {}]

Config(paths, maxBody, write, compression) ==
    [paths |-> paths, maxBody |-> maxBody, read |-> 1, write |-> write,
     timeout |-> 1, compression |-> compression]

Get == [healthz |-> FALSE, method |-> "GET", path |-> <<"a">>, id |-> NoId,
        body |-> 0, arrives |-> 0, alone |-> TRUE, encodings |-> {}, range |-> FALSE]

(* Every list of three of these routes, for every request. *)
RoutingCases ==
    LET patterns == {<<"a">>, <<"a", "b">>, <<"a", "{x}">>, <<"{x}", "b">>,
                     <<"{x}", "{x}">>, <<"{x}", "{y}">>, <<"a", "{}">>, <<"{a", "b}">>}
        routes   == {[Plain EXCEPT !.path = p] : p \in patterns}
                        \cup {[Plain EXCEPT !.path = <<"a", "b">>, !.method = "GET"]}
        requests == {[Get EXCEPT !.path = p, !.method = m] :
                         p \in {<<"a">>, <<"b">>, <<"a", "b">>, <<"a", "">>,
                                <<"b", "a">>, <<"a", "{}">>, <<"{a", "b}">>,
                                <<"a", "b", "c">>},
                         m \in {"GET", "get", "POST"}}
    IN  {[config |-> Config(paths, 1, 1, Off), request |-> q] :
             paths \in [1..3 -> routes], q \in requests}

(* Limits up to MaxInt, bodies beyond it that come at once, later or never,
   requests that are alone or not, and a write_timeout that is too short, or
   long enough. *)
TimingCases ==
    {[config  |-> Config(<<Plain>>, max, write, Off),
      request |-> [Get EXCEPT !.body = b, !.arrives = t, !.alone = alone,
                              !.id = id, !.healthz = h]] :
         max \in 1..MaxInt, write \in {1, 2, 3, 4}, b \in 0..(MaxInt + 2),
         t \in 0..2, alone \in BOOLEAN, id \in {NoId, "client"}, h \in BOOLEAN}

(* Headers a route, or an upstream, may set. *)
HeaderSets ==
    {NoHeaders, "Content-Type" :> "text/html", "Vary" :> {"Origin"},
     "X-Request-ID" :> "theirs", "Content-Length" :> 1,
     "Content-Encoding" :> "br", "Content-Encoding" :> "", "Content-Type" :> "",
     "Content-Length" :> 2 @@ "Content-Type" :> TextType}

Encodings ==
    {{}} \cup {{[name |-> "gzip", q |-> q]} : q \in {"none", "0", "0.5"}}
        \cup {{[name |-> "gzip", q |-> "0"], [name |-> "*", q |-> "none"]},
              {[name |-> "br", q |-> "none"]}}

ResponseCases ==
    {[config  |-> Config(<<[Plain EXCEPT !.headers = h, !.compression = on]>>, 1, 4,
                         [enabled |-> e, minSize |-> 2, gzip |-> TRUE, types |-> types]),
      request |-> [Get EXCEPT !.encodings = enc, !.range = range]] :
         h \in HeaderSets, on \in {"unset", "on", "off"}, e \in BOOLEAN,
         types \in {{}, {JSONType, TextType}}, enc \in Encodings, range \in BOOLEAN}

Cases == RoutingCases \cup TimingCases \cup ResponseCases

Results ==
    {[form |-> "text", headers |-> NoHeaders, size |-> n] : n \in {1, 2}}
        \cup {[form |-> f, headers |-> h, size |-> 2] :
                  f \in {"object", "unencodable"}, h \in HeaderSets}

(* An upstream behind an http filter announced the length of its own body. *)
LongCase == {[config |-> Config(<<Plain>>, 1, 4, Off), request |-> Get]}
Upstream == {[form |-> "object", headers |-> "Content-Length" :> 1, size |-> 2]}
=============================================================================
