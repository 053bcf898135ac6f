--------------------------- MODULE Filters_proofs ---------------------------
(***************************************************************************)
(* Any filter that Validate accepts and any number of requests: what is    *)
(* left to the time of a request, and that the compile caches are          *)
(* invisible.                                                              *)
(***************************************************************************)
EXTENDS Filters, SequenceTheorems, TLAPS

(***************************************************************************)
(* The steps an accepted filter f may be made of: its checks hold, but for *)
(* the nesting of static params and the duration of exec, and its regex    *)
(* compiles.                                                               *)
(***************************************************************************)
Flags == {"", "(?m)"}

AnyStep ==
    [do : {"check"}, holds : BOOLEAN, error : {"shape", "duration"}]
        \cup [do : {"compile", "loadOrStore"}, holds : BOOLEAN,
              error : {"template", "jq", "regex"},
              key : {"template", "jq", "regex"} \X Flags \X Literal]
        \cup [do : {"execute"}, literal : Literal]
        \cup [do : {"work", "checkRendered"}]

TooDeep(f) == f.type = "static" /\ f.params.nesting > MaxDepth

Sound(f, s) ==
    /\ s.do = "check" /\ s.error = "shape" => s.holds \/ TooDeep(f)
    /\ s.do = "check" /\ s.error = "duration" => s.holds \/ f.type = "exec"
    /\ s.do \in {"compile", "loadOrStore"} =>
           /\ s.holds <=> s.key[3] # "broken"
           /\ s.error = "regex" => s.holds

SoundSteps(f) == {s \in AnyStep : Sound(f, s)}
Unguarded(f)  == {s \in SoundSteps(f) : s.do # "checkRendered"}

(* Each kind of step, and each function of steps, is sound. *)
LEMMA NeedHolds ==
    ASSUME NEW f
    PROVE  Need(TRUE) \in Seq(Unguarded(f))
<1>1. [do |-> "check", holds |-> TRUE, error |-> "shape"] \in Unguarded(f)
  BY DEF Unguarded, SoundSteps, Sound, AnyStep
<1>2. QED
  BY <1>1 DEF Need

LEMMA DurationSteps ==
    ASSUME NEW f, NEW l, l # "broken" \/ f.type = "exec"
    PROVE  Duration(l) \in Seq(Unguarded(f))
<1>1. [do |-> "check", holds |-> l # "broken", error |-> "duration"] \in Unguarded(f)
  <2>1. CASE l # "broken"
    BY <2>1 DEF Unguarded, SoundSteps, Sound, AnyStep
  <2>2. CASE l = "broken"
    BY <2>2 DEF Unguarded, SoundSteps, Sound, AnyStep
  <2>3. QED
    BY <2>1, <2>2
<1>2. QED
  BY <1>1 DEF Duration

LEMMA CompileSteps ==
    ASSUME NEW f, NEW in \in {"template", "jq", "regex"}, NEW flags \in Flags,
           NEW l \in Literal, in = "regex" => l # "broken"
    PROVE  Compile(in, flags, l) \in Seq(Unguarded(f))
<1> DEFINE s == [do |-> "compile", holds |-> l # "broken", error |-> in,
                 key |-> <<in, flags, l>>]
<1>1. <<in, flags, l>> \in {"template", "jq", "regex"} \X Flags \X Literal
  OBVIOUS
<1>2. s \in Unguarded(f)
  <2>1. CASE l # "broken"
    BY <1>1, <2>1 DEF Unguarded, SoundSteps, Sound, AnyStep
  <2>2. CASE l = "broken"
    BY <1>1, <2>2 DEF Unguarded, SoundSteps, Sound, AnyStep
  <2>3. QED
    BY <2>1, <2>2
<1>3. Compile(in, flags, l) = <<s>>
  BY Zenon DEF Compile
<1> HIDE DEF s
<1>4. <<s>> \in Seq(Unguarded(f))
  BY <1>2
<1>5. QED
  BY <1>3, <1>4, Zenon

LEMMA RenderSteps ==
    ASSUME NEW f, NEW l \in Literal
    PROVE  /\ Render(l) \in Seq(Unguarded(f))
           /\ Len(Render(l)) = 2
           /\ Render(l)[2] = [do |-> "execute", literal |-> l]
<1> DEFINE c == Compile("template", "", l)
           e == [do |-> "execute", literal |-> l]
<1>1. c \in Seq(Unguarded(f)) /\ Len(c) = 1
  <2>1. c \in Seq(Unguarded(f))
    BY CompileSteps DEF Flags
  <2>2. Len(c) = 1
    BY DEF Compile
  <2>3. QED
    BY <2>1, <2>2
<1>2. e \in Unguarded(f)
  BY DEF Unguarded, SoundSteps, Sound, AnyStep
<1>3. Render(l) = c \o <<e>>
  BY Zenon DEF Render
<1> HIDE DEF c, e
<1>4. <<e>> \in Seq(Unguarded(f)) /\ Len(<<e>>) = 1 /\ <<e>>[1] = e
  BY <1>2
<1>5. /\ c \o <<e>> \in Seq(Unguarded(f)) /\ Len(c \o <<e>>) = 2
      /\ (c \o <<e>>)[2] = e
  BY <1>1, <1>4, ConcatProperties
<1>6. QED
  BY <1>3, <1>5, Zenon DEF e

LEMMA RenderedStep ==
    ASSUME NEW f, NEW l \in Literal, NEW n \in 1..2
    PROVE  Render(l)[n] \in Unguarded(f)
<1>1. Render(l) \in Seq(Unguarded(f)) /\ Len(Render(l)) = 2
  BY RenderSteps
<1>2. QED
  BY <1>1

LEMMA RenderAllSteps ==
    ASSUME NEW f, NEW ls \in Seq(Literal)
    PROVE  RenderAll(ls) \in Seq(Unguarded(f))
<1>1. Len(ls) \in Nat
  OBVIOUS
<1>2. ASSUME NEW i \in 1..(2 * Len(ls))
      PROVE  Render(ls[(i + 1) \div 2])[2 - (i % 2)] \in Unguarded(f)
  <2> DEFINE l == ls[(i + 1) \div 2]
             n == 2 - (i % 2)
  <2>1. n \in 1..2
    OBVIOUS
  <2>2. l \in Literal
    <3>1. (i + 1) \div 2 \in 1..Len(ls)
      BY <1>1
    <3>2. QED
      BY <3>1
  <2>3. QED
    BY <2>1, <2>2, RenderedStep, Zenon
<1>3. QED
  BY <1>1, <1>2 DEF RenderAll

LEMMA WorkSteps == ASSUME NEW f PROVE Work \in Seq(Unguarded(f))
<1>1. [do |-> "work"] \in Unguarded(f)
  BY DEF Unguarded, SoundSteps, Sound, AnyStep
<1>2. QED
  BY <1>1 DEF Work

LEMMA LiteralStrings ==
    ASSUME NEW l \in Literal
    PROVE  /\ AsString(l) \in Literal /\ Sprint(l) \in Literal
           /\ AsString(l) = "varying" <=> l = "varying"
           /\ AsString(l) = "broken" <=> l = "broken"
  BY DEF AsString, Sprint, Literal

(* Sequences of sound steps are joined to such sequences. *)
LEMMA Joined ==
    ASSUME NEW S, NEW s \in Seq(S), NEW t \in Seq(S)
    PROVE  /\ s \o t \in Seq(S) /\ Len(s) \in Nat /\ Len(t) \in Nat
           /\ Len(s \o t) = Len(s) + Len(t)
           /\ \A i \in 1..(Len(s) + Len(t)) :
                  (s \o t)[i] = IF i <= Len(s) THEN s[i] ELSE t[i - Len(s)]
  BY ConcatProperties

(***************************************************************************)
(* The one check of what was rendered comes right after the rendering of   *)
(* the url.                                                                *)
(***************************************************************************)
Url(f)       == AsString(f.params.url)
RenderUrl(f) == [do |-> "execute", literal |-> Url(f)]

Guarded(f, s) ==
    \A i \in 1..Len(s) : s[i].do = "checkRendered" =>
        f.type = "http" /\ i > 1 /\ s[i - 1] = RenderUrl(f)

LEMMA UnguardedSteps ==
    ASSUME NEW f, NEW s \in Seq(Unguarded(f))
    PROVE  s \in Seq(SoundSteps(f)) /\ Guarded(f, s)
<1>1. \A i \in 1..Len(s) : s[i] \in SoundSteps(f) /\ s[i].do # "checkRendered"
  <2>1. \A i \in 1..Len(s) : s[i] \in Unguarded(f)
    OBVIOUS
  <2>2. QED
    BY <2>1 DEF Unguarded
<1>2. QED
  BY <1>1 DEF Guarded

LEMMA GuardedThen ==
    ASSUME NEW f, NEW s \in Seq(SoundSteps(f)), Guarded(f, s),
           NEW t \in Seq(Unguarded(f))
    PROVE  s \o t \in Seq(SoundSteps(f)) /\ Guarded(f, s \o t)
<1>1. t \in Seq(SoundSteps(f)) /\ \A i \in 1..Len(t) : t[i].do # "checkRendered"
  <2>1. \A i \in 1..Len(t) : t[i] \in Unguarded(f)
    OBVIOUS
  <2>2. QED
    BY <2>1, UnguardedSteps DEF Unguarded
<1>2. /\ s \o t \in Seq(SoundSteps(f)) /\ Len(s \o t) = Len(s) + Len(t)
      /\ \A i \in 1..(Len(s) + Len(t)) :
             (s \o t)[i] = IF i <= Len(s) THEN s[i] ELSE t[i - Len(s)]
  BY <1>1, ConcatProperties
<1>3. Len(s) \in Nat /\ Len(t) \in Nat
  OBVIOUS
<1> DEFINE u == s \o t
<1> HIDE DEF u
<1>4. ASSUME NEW i \in 1..Len(u), u[i].do = "checkRendered"
      PROVE  f.type = "http" /\ i > 1 /\ u[i - 1] = RenderUrl(f)
  <2>0. /\ Len(u) = Len(s) + Len(t)
        /\ \A j \in 1..(Len(s) + Len(t)) :
               u[j] = IF j <= Len(s) THEN s[j] ELSE t[j - Len(s)]
    BY <1>2 DEF u
  <2>1. CASE i <= Len(s)
    <3>1. i \in 1..Len(s) /\ u[i] = s[i]
      BY <1>3, <2>0, <2>1
    <3>2. f.type = "http" /\ i > 1 /\ s[i - 1] = RenderUrl(f)
      BY <1>4, <3>1 DEF Guarded
    <3>3. u[i - 1] = s[i - 1]
      BY <1>3, <2>0, <3>1, <3>2
    <3>4. QED
      BY <3>2, <3>3
  <2>2. CASE i > Len(s)
    <3>1. i - Len(s) \in 1..Len(t) /\ u[i] = t[i - Len(s)]
      BY <1>3, <2>0, <2>2
    <3>2. QED
      BY <1>1, <1>4, <3>1
  <2>3. QED
    BY <1>3, <2>1, <2>2
<1>5. QED
  BY <1>2, <1>4 DEF Guarded, u

(* The last of a join is the last of what comes last. *)
LEMMA JoinedLast ==
    ASSUME NEW S, NEW s \in Seq(S), NEW t \in Seq(S), Len(t) = 2
    PROVE  /\ s \o t \in Seq(S) /\ Len(s \o t) \in Nat \ {0}
           /\ (s \o t)[Len(s \o t)] = t[2]
<1> DEFINE u == s \o t
<1>1. /\ u \in Seq(S) /\ Len(s) \in Nat /\ Len(u) = Len(s) + Len(t)
      /\ \A i \in 1..(Len(s) + Len(t)) :
             u[i] = IF i <= Len(s) THEN s[i] ELSE t[i - Len(s)]
  BY Joined
<1> HIDE DEF u
<1>2. /\ Len(u) \in 1..(Len(s) + Len(t)) /\ ~ (Len(u) <= Len(s))
      /\ Len(u) - Len(s) = 2
  BY <1>1
<1>3. u[Len(u)] = t[2]
  BY <1>1, <1>2
<1>4. QED
  BY <1>1, <1>3 DEF u

LEMMA GuardedCheck ==
    ASSUME NEW f, f.type = "http", NEW s \in Seq(Unguarded(f)),
           Len(s) \in Nat \ {0}, s[Len(s)] = RenderUrl(f)
    PROVE  s \o NeedRendered \in Seq(SoundSteps(f)) /\ Guarded(f, s \o NeedRendered)
<1> DEFINE c == [do |-> "checkRendered"]
           u == s \o NeedRendered
<1>1. c \in SoundSteps(f)
  BY DEF SoundSteps, Sound, AnyStep
<1>2. s \in Seq(SoundSteps(f)) /\ Guarded(f, s)
  BY UnguardedSteps
<1>3. NeedRendered = <<c>>
  BY DEF NeedRendered
<1> HIDE DEF c
<1>4. NeedRendered \in Seq(SoundSteps(f)) /\ Len(NeedRendered) = 1
  BY <1>1, <1>3
<1>5. /\ u \in Seq(SoundSteps(f)) /\ Len(u) = Len(s) + 1
      /\ \A i \in 1..Len(s) : u[i] = s[i]
  <2>1. /\ u \in Seq(SoundSteps(f)) /\ Len(u) = Len(s) + Len(NeedRendered)
        /\ \A i \in 1..(Len(s) + Len(NeedRendered)) :
               u[i] = IF i <= Len(s) THEN s[i] ELSE NeedRendered[i - Len(s)]
    BY <1>2, <1>4, Joined
  <2> HIDE DEF u
  <2>2. QED
    BY <1>4, <2>1
<1> HIDE DEF u
<1>6. ASSUME NEW i \in 1..Len(u), u[i].do = "checkRendered"
      PROVE  i > 1 /\ u[i - 1] = RenderUrl(f)
  <2>1. CASE i <= Len(s)
    <3>1. i \in 1..Len(s) /\ u[i] = s[i]
      BY <1>5, <2>1
    <3>2. i > 1 /\ s[i - 1] = RenderUrl(f)
      BY <1>2, <1>6, <3>1 DEF Guarded
    <3>3. u[i - 1] = s[i - 1]
      BY <1>5, <3>1, <3>2
    <3>4. QED
      BY <3>2, <3>3
  <2>2. CASE i > Len(s)
    <3>1. i = Len(s) + 1
      BY <1>5, <2>2
    <3>2. u[i - 1] = s[Len(s)] /\ i > 1
      BY <1>5, <3>1
    <3>3. QED
      BY <3>2
  <2>3. QED
    BY <2>1, <2>2
<1>7. QED
  BY <1>5, <1>6 DEF Guarded, u

LEMMA GuardedHTTP ==
    ASSUME NEW f, f.type = "http", f.params \in Params("http")
    PROVE  /\ HTTPFilter(f.params) \in Seq(SoundSteps(f))
           /\ Guarded(f, HTTPFilter(f.params))
<1> DEFINE p == f.params
           U == Seq(Unguarded(f))
           start == Render(AsString(p.unix_socket)) \o Render(AsString(p.method))
           url == Render(Url(f))
           headers == RenderAll([i \in 1..Len(p.headers) |-> Sprint(p.headers[i])])
<1>1. /\ p.unix_socket \in Literal /\ p.method \in Literal /\ p.url \in Literal
      /\ p.body \in Literal /\ p.headers \in Seq(Literal)
  BY DEF Params
<1>2. start \in U
  <2>1. AsString(p.unix_socket) \in Literal /\ AsString(p.method) \in Literal
    BY <1>1, LiteralStrings
  <2>2. Render(AsString(p.unix_socket)) \in U /\ Render(AsString(p.method)) \in U
    BY <2>1, RenderSteps
  <2>3. QED
    BY <2>2, Joined
<1>3. url \in U /\ Len(url) = 2 /\ url[2] = RenderUrl(f)
  <2>1. Url(f) \in Literal
    BY <1>1, LiteralStrings DEF Url
  <2>2. QED
    BY <2>1, RenderSteps DEF RenderUrl
<1>4. Render(AsString(p.body)) \in U /\ headers \in U /\ Work \in U
  <2>1. AsString(p.body) \in Literal
    BY <1>1, LiteralStrings
  <2>2. [i \in 1..Len(p.headers) |-> Sprint(p.headers[i])] \in Seq(Literal)
    BY <1>1, LiteralStrings
  <2>3. QED
    BY <2>1, <2>2, RenderSteps, RenderAllSteps, WorkSteps
<1> DEFINE begun == start \o url
           checked == begun \o NeedRendered
           body == Render(AsString(p.body))
<1>5. HTTPFilter(p) = (((checked \o body) \o Work) \o headers) \o Work
  BY Zenon DEF HTTPFilter, Url
<1> HIDE DEF start, url, headers, body, p
<1>6. /\ begun \in U /\ Len(begun) \in Nat \ {0}
      /\ begun[Len(begun)] = RenderUrl(f)
  BY <1>2, <1>3, JoinedLast
<1> HIDE DEF begun
<1>7. checked \in Seq(SoundSteps(f)) /\ Guarded(f, checked)
  BY <1>6, GuardedCheck
<1> HIDE DEF checked
<1>8. body \in U
  BY <1>4 DEF body, p
<1> DEFINE a == checked \o body
           b == a \o Work
           h == b \o headers
<1>9. a \in Seq(SoundSteps(f)) /\ Guarded(f, a)
  BY <1>7, <1>8, GuardedThen
<1> HIDE DEF a
<1>10. b \in Seq(SoundSteps(f)) /\ Guarded(f, b)
  BY <1>4, <1>9, GuardedThen
<1> HIDE DEF b
<1>11. h \in Seq(SoundSteps(f)) /\ Guarded(f, h)
  BY <1>4, <1>10, GuardedThen
<1> HIDE DEF h
<1>12. h \o Work \in Seq(SoundSteps(f)) /\ Guarded(f, h \o Work)
  BY <1>4, <1>11, GuardedThen
<1>13. QED
  BY <1>5, <1>12, Zenon DEF h, b, a, p

(* The steps of the filters of each type that validation accepts. *)
LEMMA SoundExec ==
    ASSUME NEW f, f.type = "exec", f.params \in Params("exec"), ValidExec(f.params)
    PROVE  ExecFilter(f.params) \in Seq(Unguarded(f))
<1> DEFINE p == f.params
           U == Seq(Unguarded(f))
           command == RenderAll([i \in 1..Len(p.command) |-> AsString(p.command[i])])
           env == RenderAll([i \in 1..Len(p.env) |-> Sprint(p.env[i])])
           duration == Duration(AsString(p.timeout))
<1>1. /\ p.command \in Seq(Literal) /\ p.env \in Seq(Literal)
      /\ p.timeout \in Literal /\ p.command # <<>>
  BY DEF Params, ValidExec
<1>2. command \in U
  <2>1. [i \in 1..Len(p.command) |-> AsString(p.command[i])] \in Seq(Literal)
    BY <1>1, LiteralStrings
  <2>2. QED
    BY <2>1, RenderAllSteps
<1>3. env \in U
  <2>1. [i \in 1..Len(p.env) |-> Sprint(p.env[i])] \in Seq(Literal)
    BY <1>1, LiteralStrings
  <2>2. QED
    BY <2>1, RenderAllSteps
<1>4. Need(p.command # <<>>) \in U
  <2>1. Need(p.command # <<>>) = Need(TRUE)
    BY <1>1 DEF Need
  <2>2. QED
    BY <2>1, NeedHolds, Zenon
<1>5. duration \in U /\ Work \in U
  BY DurationSteps, WorkSteps
<1>6. ExecFilter(p) = (((Need(p.command # <<>>) \o command) \o duration) \o env) \o Work
  BY Zenon DEF ExecFilter
<1> HIDE DEF command, env, duration, p
<1>7. (((Need(p.command # <<>>) \o command) \o duration) \o env) \o Work \in U
  BY <1>2, <1>3, <1>4, <1>5, Joined
<1>8. QED
  BY <1>6, <1>7, Zenon DEF p

LEMMA SoundJQ ==
    ASSUME NEW f, f.params \in Params("jq"), ~ Missing(f.params.query)
    PROVE  JQFilter(f.params) \in Seq(Unguarded(f))
<1> DEFINE p == f.params
           U == Seq(Unguarded(f))
<1>1. p.input \in Literal /\ p.query \in Literal
  BY DEF Params
<1>2. Render(AsString(p.input)) \in U
  BY <1>1, LiteralStrings, RenderSteps
<1>3. Compile("jq", "", p.query) \in U
  BY <1>1, CompileSteps DEF Flags
<1>4. Need(~ Missing(p.query)) \in U
  <2>1. Need(~ Missing(p.query)) = Need(TRUE)
    BY DEF Need
  <2>2. QED
    BY <2>1, NeedHolds, Zenon
<1>5. Work \in U
  BY WorkSteps
<1>6. JQFilter(p) = (((Need(~ Missing(p.query)) \o Render(AsString(p.input))) \o Work)
                        \o Compile("jq", "", p.query)) \o Work
  BY Zenon DEF JQFilter
<1> DEFINE n == Need(~ Missing(p.query))
           i == Render(AsString(p.input))
           c == Compile("jq", "", p.query)
<1>7. (((n \o i) \o Work) \o c) \o Work \in U
  <2>1. n \in U /\ i \in U /\ c \in U
    BY <1>2, <1>3, <1>4
  <2> HIDE DEF n, i, c
  <2>2. QED
    BY <1>5, <2>1, Joined
<1>8. QED
  BY <1>6, <1>7, Zenon

LEMMA SoundBase64 ==
    ASSUME NEW f, f.params \in Params("base64"), f.params.op \in {"encode", "decode"}
    PROVE  Base64Filter(f.params) \in Seq(Unguarded(f))
<1> DEFINE p == f.params
           U == Seq(Unguarded(f))
           i == Render(AsString(p.input))
           n == Need(p.op \in {"encode", "decode"})
           w == IF p.op = "decode" THEN Work ELSE <<>>
<1>1. i \in U
  <2>1. p.input \in Literal
    BY DEF Params
  <2>2. QED
    BY <2>1, LiteralStrings, RenderSteps
<1>2. n \in U
  <2>1. n = Need(TRUE)
    BY DEF Need
  <2>2. QED
    BY <2>1, NeedHolds, Zenon
<1>3. w \in U
  <2>1. Work \in U /\ <<>> \in U
    BY WorkSteps
  <2>2. QED
    BY <2>1
<1>4. Base64Filter(p) = (i \o n) \o w
  BY Zenon DEF Base64Filter
<1> HIDE DEF i, n, w
<1>5. (i \o n) \o w \in U
  BY <1>1, <1>2, <1>3, Joined
<1>6. QED
  BY <1>4, <1>5, Zenon

LEMMA SoundRegex ==
    ASSUME NEW f, f.params \in Params("regex"), ValidRegex(f.params)
    PROVE  RegexFilter(f.params) \in Seq(Unguarded(f))
<1> DEFINE p == f.params
           U == Seq(Unguarded(f))
           flags == IF p.multiline THEN "(?m)" ELSE ""
           c == Compile("regex", flags, AsString(p.pattern))
           i == Render(AsString(p.input))
           n == Need(p.op \in {"find", "find_all", "replace"})
           m == Need(p.op = "replace" => ~ Missing(p.replace))
<1>1. /\ p.input \in Literal /\ p.pattern \in Literal /\ p.pattern # "broken"
      /\ p.op \in {"find", "find_all", "replace"}
      /\ p.op = "replace" => ~ Missing(p.replace)
  BY DEF Params, ValidRegex
<1>2. c \in U
  <2>1. flags \in Flags
    BY Zenon DEF Flags
  <2>2. AsString(p.pattern) \in Literal /\ AsString(p.pattern) # "broken"
    BY <1>1, LiteralStrings
  <2> HIDE DEF flags
  <2>3. QED
    BY <2>1, <2>2, CompileSteps
<1>3. i \in U
  BY <1>1, LiteralStrings, RenderSteps
<1>4. n \in U
  <2>1. n = Need(TRUE)
    BY <1>1 DEF Need
  <2>2. QED
    BY <2>1, NeedHolds, Zenon
<1>5. m \in U
  <2>1. m = Need(TRUE)
    BY <1>1 DEF Need
  <2>2. QED
    BY <2>1, NeedHolds, Zenon
<1>6. RegexFilter(p) = ((c \o i) \o n) \o m
  BY Zenon DEF RegexFilter
<1> HIDE DEF c, i, n, m
<1>7. ((c \o i) \o n) \o m \in U
  BY <1>2, <1>3, <1>4, <1>5, Joined
<1>8. QED
  BY <1>6, <1>7, Zenon

LEMMA SoundCache ==
    ASSUME NEW f, f.params \in Params("cache"), ValidCache(f.params)
    PROVE  CacheFilter(f.params) \in Seq(Unguarded(f))
<1> DEFINE p == f.params
           U == Seq(Unguarded(f))
           n == Need(~ Missing(p.filter))
           d == Duration(p.ttl)
           k == Render(AsString(p.key))
           m == Need(p.filter \in FilterIds)
<1>1. /\ p.key \in Literal /\ p.ttl # "broken"
      /\ ~ Missing(p.filter) /\ p.filter \in FilterIds
  BY DEF Params, ValidCache
<1>2. n \in U
  <2>1. n = Need(TRUE)
    BY <1>1 DEF Need
  <2>2. QED
    BY <2>1, NeedHolds, Zenon
<1>3. m \in U
  <2>1. m = Need(TRUE)
    BY <1>1 DEF Need
  <2>2. QED
    BY <2>1, NeedHolds, Zenon
<1>4. d \in U
  BY <1>1, DurationSteps
<1>5. k \in U /\ Work \in U
  BY <1>1, LiteralStrings, RenderSteps, WorkSteps
<1>6. CacheFilter(p) = (((n \o d) \o k) \o m) \o Work
  BY Zenon DEF CacheFilter
<1> HIDE DEF n, d, k, m
<1>7. (((n \o d) \o k) \o m) \o Work \in U
  BY <1>2, <1>3, <1>4, <1>5, Joined
<1>8. QED
  BY <1>6, <1>7, Zenon

LEMMA SoundStatic ==
    ASSUME NEW f, f.type = "static", f.params \in Params("static")
    PROVE  ExpandStatic(f.params) \in Seq(Unguarded(f))
<1> DEFINE p == f.params
           U == Seq(Unguarded(f))
           n == Need(p.nesting <= MaxDepth)
           l == IF p.leaf \in {"absent", "number"} THEN <<>> ELSE Render(p.leaf)
<1>1. p.leaf \in Literal /\ p.nesting \in Nat /\ MaxDepth \in Nat
  BY DEF Params, MaxDepth
<1>2. n \in U
  <2>1. CASE p.nesting <= MaxDepth
    <3>1. n = Need(TRUE)
      BY <2>1 DEF Need
    <3>2. QED
      BY <3>1, NeedHolds, Zenon
  <2>2. CASE ~ (p.nesting <= MaxDepth)
    <3> DEFINE s == [do |-> "check", holds |-> FALSE, error |-> "shape"]
    <3>1. TooDeep(f)
      BY <1>1, <2>2 DEF TooDeep
    <3>2. s \in Unguarded(f)
      BY <3>1 DEF Unguarded, SoundSteps, Sound, AnyStep
    <3>3. n = Need(FALSE)
      <4>1. (p.nesting <= MaxDepth) = FALSE
        BY <2>2
      <4>2. QED
        BY <4>1, Zenon
    <3>4. Need(FALSE) = <<s>>
      BY Zenon DEF Need
    <3> HIDE DEF s, n
    <3>5. <<s>> \in U
      BY <3>2
    <3>6. QED
      BY <3>3, <3>4, <3>5, Zenon
  <2>3. QED
    BY <2>1, <2>2
<1>3. l \in U
  <2>1. Render(p.leaf) \in U /\ <<>> \in U
    <3>1. Render(p.leaf) \in U
      BY <1>1, RenderSteps
    <3>2. <<>> \in U
      OBVIOUS
    <3>3. QED
      BY <3>1, <3>2
  <2>2. CASE p.leaf \in {"absent", "number"}
    <3>1. l = <<>>
      BY <2>2
    <3>2. QED
      BY <2>1, <3>1, Zenon
  <2>3. CASE p.leaf \notin {"absent", "number"}
    <3>1. l = Render(p.leaf)
      BY <2>3
    <3>2. QED
      BY <2>1, <3>1, Zenon
  <2>4. QED
    BY <2>2, <2>3
<1>4. ExpandStatic(p) = n \o l
  BY Zenon DEF ExpandStatic
<1> HIDE DEF n, l
<1>5. QED
  BY <1>2, <1>3, <1>4, Joined

(* env and file. *)
LEMMA SoundNames ==
    ASSUME NEW f, NEW l, ~ Missing(l)
    PROVE  /\ Need(~ Missing(l)) \in Seq(Unguarded(f))
           /\ Need(~ Missing(l)) \o Work \in Seq(Unguarded(f))
<1>1. Need(~ Missing(l)) = Need(TRUE)
  BY DEF Need
<1>2. Need(~ Missing(l)) \in Seq(Unguarded(f))
  BY <1>1, NeedHolds, Zenon
<1>3. QED
  BY <1>2, WorkSteps, Joined

(* What validation accepts has only sound steps. *)
LEMMA AcceptedIsSound ==
    ASSUME NEW f \in Accepted
    PROVE  Steps(f) \in Seq(SoundSteps(f)) /\ Guarded(f, Steps(f))
<1>1. /\ f \in FilterConfig /\ ValidateFilterParams(f) /\ f.type \in FilterType
      /\ f.params \in Params(f.type)
  BY FiltersAssumption DEF Accepted
<1>2. CASE f.type = "http"
  <2>1. f.params \in Params("http") /\ f.object
    BY <1>1, <1>2 DEF ValidateFilterParams
  <2>2. Steps(f) = HTTPFilter(f.params)
    BY <1>2, <2>1 DEF Steps
  <2>3. QED
    BY <1>2, <2>1, <2>2, GuardedHTTP
<1>3. CASE f.type # "http"
  <2>1. CASE f.type = "static"
    <3>1. Steps(f) = ExpandStatic(f.params)
      BY <2>1 DEF Steps
    <3>2. f.params \in Params("static")
      BY <1>1, <2>1
    <3>3. QED
      BY <2>1, <3>1, <3>2, SoundStatic, UnguardedSteps
  <2>2. CASE f.type = "env"
    <3>1. f.object /\ ~ Missing(f.params.name)
      BY <1>1, <2>2 DEF ValidateFilterParams
    <3>2. Steps(f) = Need(~ Missing(f.params.name))
      BY <2>2, <3>1 DEF Steps
    <3>3. QED
      BY <3>1, <3>2, SoundNames, UnguardedSteps
  <2>3. CASE f.type = "exec"
    <3>1. f.object /\ ValidExec(f.params) /\ f.params \in Params("exec")
      BY <1>1, <2>3 DEF ValidateFilterParams
    <3>2. Steps(f) = ExecFilter(f.params)
      BY <2>3, <3>1 DEF Steps
    <3>3. QED
      BY <2>3, <3>1, <3>2, SoundExec, UnguardedSteps
  <2>4. CASE f.type = "file"
    <3>1. f.object /\ ~ Missing(f.params.path)
      BY <1>1, <2>4 DEF ValidateFilterParams
    <3>2. Steps(f) = Need(~ Missing(f.params.path)) \o Work
      BY <2>4, <3>1 DEF Steps
    <3>3. QED
      BY <3>1, <3>2, SoundNames, UnguardedSteps
  <2>5. CASE f.type = "jq"
    <3>1. f.object /\ ~ Missing(f.params.query) /\ f.params \in Params("jq")
      BY <1>1, <2>5 DEF ValidateFilterParams
    <3>2. Steps(f) = JQFilter(f.params)
      BY <2>5, <3>1 DEF Steps
    <3>3. QED
      BY <3>1, <3>2, SoundJQ, UnguardedSteps
  <2>6. CASE f.type = "base64"
    <3>1. /\ f.object /\ f.params.op \in {"encode", "decode"}
          /\ f.params \in Params("base64")
      BY <1>1, <2>6 DEF ValidateFilterParams
    <3>2. Steps(f) = Base64Filter(f.params)
      BY <2>6, <3>1 DEF Steps
    <3>3. QED
      BY <3>1, <3>2, SoundBase64, UnguardedSteps
  <2>7. CASE f.type = "regex"
    <3>1. f.object /\ ValidRegex(f.params) /\ f.params \in Params("regex")
      BY <1>1, <2>7 DEF ValidateFilterParams
    <3>2. Steps(f) = RegexFilter(f.params)
      BY <2>7, <3>1 DEF Steps
    <3>3. QED
      BY <3>1, <3>2, SoundRegex, UnguardedSteps
  <2>8. CASE f.type = "cache"
    <3>1. f.object /\ ValidCache(f.params) /\ f.params \in Params("cache")
      BY <1>1, <2>8 DEF ValidateFilterParams
    <3>2. Steps(f) = CacheFilter(f.params)
      BY <2>8, <3>1 DEF Steps
    <3>3. QED
      BY <3>1, <3>2, SoundCache, UnguardedSteps
  <2>9. QED
    BY <1>1, <1>3, <2>1, <2>2, <2>3, <2>4, <2>5, <2>6, <2>7, <2>8 DEF FilterType
<1>4. QED
  BY <1>2, <1>3

-----------------------------------------------------------------------------
(***************************************************************************)
(* What a request has still to do is sound, and its check of the rendered  *)
(* url finds what the url rendered to.                                     *)
(***************************************************************************)
Outcomes == {"none", "value", "shape", "duration", "template", "jq", "regex",
             "data", "work"}

UrlRendered(r) == filter.params.url = "varying" \/ rendered[r] # "empty"

GuardedNow(r) ==
    \A i \in 1..Len(left[r]) : left[r][i].do = "checkRendered" =>
        /\ filter.type = "http"
        /\ i = 1 => UrlRendered(r)
        /\ i > 1 => left[r][i - 1] = RenderUrl(filter)

FilterInv ==
    /\ filter \in Accepted
    /\ left \in [Request -> Seq(SoundSteps(filter))]
    /\ rendered \in [Request -> Literal]
    /\ outcome \in [Request -> Outcomes]
    /\ \A r \in Request : GuardedNow(r)
    /\ LeftToRequestTime

(* What an outcome says of the filter. *)
Explained(e) ==
    /\ e = "shape" => \/ filter.type = "http" /\ filter.params.url = "varying"
                      \/ filter.type = "static" /\ filter.params.nesting > MaxDepth
    /\ e = "duration" => filter.type = "exec"
    /\ e # "regex"

(* The property, one request and one outcome at a time. *)
LEMMA Explains == LeftToRequestTime <=> \A r \in Request : Explained(outcome[r])
  BY DEF LeftToRequestTime, Explained

LEMMA FirstStep ==
    ASSUME FilterInv, NEW r \in Request, left[r] # <<>>
    PROVE  /\ Step(r) = left[r][1] /\ Step(r) \in SoundSteps(filter)
           /\ Len(left[r]) \in Nat \ {0}
           /\ Tail(left[r]) \in Seq(SoundSteps(filter))
           /\ Len(Tail(left[r])) = Len(left[r]) - 1
           /\ \A i \in 1..(Len(left[r]) - 1) : Tail(left[r])[i] = left[r][i + 1]
<1>1. left[r] \in Seq(SoundSteps(filter))
  BY DEF FilterInv
<1>2. QED
  BY <1>1 DEF Step

(* A request goes on, or it fails for a reason that is left to it. *)
LEMMA AdvanceKeeps ==
    ASSUME FilterInv, NEW r \in Request, left[r] # <<>>, Advance(r),
           filter' = filter, rendered' \in [Request -> Literal],
           \A q \in Request \ {r} : rendered'[q] = rendered[q],
           filter.type = "http" /\ Step(r) = RenderUrl(filter) => UrlRendered(r)'
    PROVE  FilterInv'
<1> DEFINE s == left[r]
<1>1. /\ left \in [Request -> Seq(SoundSteps(filter))]
      /\ outcome \in [Request -> Outcomes] /\ filter \in Accepted
      /\ \A q \in Request : GuardedNow(q)
      /\ \A q \in Request : Explained(outcome[q])
  BY Explains DEF FilterInv
<1>2. /\ Step(r) = s[1] /\ Len(s) \in Nat \ {0}
      /\ Tail(s) \in Seq(SoundSteps(filter)) /\ Len(Tail(s)) = Len(s) - 1
      /\ \A i \in 1..(Len(s) - 1) : Tail(s)[i] = s[i + 1]
  BY FirstStep
<1>3. /\ left' = [left EXCEPT ![r] = Tail(s)]
      /\ outcome' = [outcome EXCEPT ![r] = IF Len(s) = 1 THEN "value" ELSE outcome[r]]
  BY DEF Advance
<1>4. /\ left' \in [Request -> Seq(SoundSteps(filter))]
      /\ outcome' \in [Request -> Outcomes]
  BY <1>1, <1>2, <1>3 DEF Outcomes
<1>5. ASSUME NEW q \in Request PROVE Explained(outcome[q])'
  <2>1. outcome'[q] = outcome[q] \/ outcome'[q] = "value"
    BY <1>1, <1>3
  <2>2. Explained(outcome[q])
    BY <1>1
  <2>3. QED
    BY <2>1, <2>2 DEF Explained
<1>6. ASSUME NEW q \in Request PROVE GuardedNow(q)'
  <2>1. CASE q = r
    <3>1. left'[r] = Tail(s)
      BY <1>1, <1>3
    <3> SUFFICES ASSUME NEW i \in 1..Len(Tail(s)), Tail(s)[i].do = "checkRendered"
                 PROVE  /\ filter.type = "http"
                        /\ i = 1 => UrlRendered(r)'
                        /\ i > 1 => Tail(s)[i - 1] = RenderUrl(filter)
      BY <2>1, <3>1 DEF GuardedNow
    <3>2. i \in 1..(Len(s) - 1) /\ i + 1 \in 1..Len(s) /\ Tail(s)[i] = s[i + 1]
      BY <1>2
    <3>3. filter.type = "http" /\ s[i] = RenderUrl(filter)
      <4>1. GuardedNow(r) /\ s[i + 1].do = "checkRendered"
        BY <1>1, <3>2
      <4>2. i + 1 > 1 /\ i + 1 - 1 = i
        BY <3>2
      <4>3. QED
        BY <3>2, <4>1, <4>2 DEF GuardedNow
    <3>4. i = 1 => UrlRendered(r)'
      BY <1>2, <3>3
    <3>5. ASSUME i > 1 PROVE Tail(s)[i - 1] = s[i]
      <4>1. i - 1 \in 1..(Len(s) - 1) /\ i - 1 + 1 = i
        BY <1>2, <3>2, <3>5
      <4>2. QED
        BY <1>2, <4>1
    <3>6. QED
      BY <3>3, <3>4, <3>5
  <2>2. CASE q # r
    <3>1. left'[q] = left[q] /\ rendered'[q] = rendered[q]
      BY <1>1, <1>3, <2>2
    <3>2. GuardedNow(q)
      BY <1>1
    <3>3. QED
      BY <3>1, <3>2 DEF GuardedNow, UrlRendered
  <2>3. QED
    BY <2>1, <2>2
<1>7. LeftToRequestTime'
  BY <1>5 DEF Explained, LeftToRequestTime
<1>8. QED
  BY <1>1, <1>4, <1>6, <1>7 DEF FilterInv

LEMMA FailKeeps ==
    ASSUME FilterInv, NEW r \in Request, NEW e \in Outcomes, Explained(e), Fail(r, e),
           filter' = filter, rendered' = rendered
    PROVE  FilterInv'
<1>1. /\ left \in [Request -> Seq(SoundSteps(filter))]
      /\ outcome \in [Request -> Outcomes] /\ filter \in Accepted
      /\ rendered \in [Request -> Literal]
      /\ \A q \in Request : GuardedNow(q)
      /\ \A q \in Request : Explained(outcome[q])
  BY Explains DEF FilterInv
<1>2. left' = [left EXCEPT ![r] = <<>>] /\ outcome' = [outcome EXCEPT ![r] = e]
  BY DEF Fail
<1>3. /\ left' \in [Request -> Seq(SoundSteps(filter))]
      /\ outcome' \in [Request -> Outcomes]
  BY <1>1, <1>2
<1>4. ASSUME NEW q \in Request PROVE Explained(outcome[q])'
  <2>1. outcome'[q] = outcome[q] \/ outcome'[q] = e
    BY <1>1, <1>2
  <2>2. Explained(outcome[q])
    BY <1>1
  <2>3. QED
    BY <2>1, <2>2 DEF Explained
<1>5. ASSUME NEW q \in Request PROVE GuardedNow(q)'
  <2>1. CASE q = r
    <3>1. left'[r] = <<>> /\ Len(left'[r]) = 0
      BY <1>1, <1>2
    <3>2. QED
      BY <2>1, <3>1 DEF GuardedNow
  <2>2. CASE q # r
    <3>1. left'[q] = left[q] /\ GuardedNow(q)
      BY <1>1, <1>2, <2>2
    <3>2. QED
      BY <3>1 DEF GuardedNow, UrlRendered
  <2>3. QED
    BY <2>1, <2>2
<1>6. LeftToRequestTime'
  BY <1>4 DEF Explained, LeftToRequestTime
<1>7. QED
  BY <1>1, <1>3, <1>5, <1>6 DEF FilterInv

(* A program in use: its error is the one of what is compiled. *)
LEMMA UseKeeps ==
    ASSUME FilterInv, NEW r \in Request, left[r] # <<>>, NEW key, NEW program,
           Step(r).do \in {"compile", "loadOrStore"},
           program.failed => ~ Step(r).holds,
           Use(r, key, program), filter' = filter, rendered' = rendered
    PROVE  FilterInv'
<1>1. Step(r) \in SoundSteps(filter)
  BY FirstStep
<1>2. CASE program.failed
  <2>1. Step(r).error \in {"template", "jq"}
    BY <1>1, <1>2 DEF SoundSteps, AnyStep, Sound
  <2>2. Step(r).error \in Outcomes /\ Explained(Step(r).error)
    BY <2>1 DEF Outcomes, Explained
  <2>3. Fail(r, Step(r).error)
    BY <1>2 DEF Use
  <2>4. QED
    BY <2>2, <2>3, FailKeeps
<1>3. CASE ~ program.failed
  <2>1. Advance(r)
    BY <1>3 DEF Use
  <2>2. Step(r) # RenderUrl(filter)
    BY DEF RenderUrl
  <2>3. rendered' \in [Request -> Literal]
    BY DEF FilterInv
  <2>4. QED
    BY <2>1, <2>2, <2>3, AdvanceKeeps
<1>4. QED
  BY <1>2, <1>3

(***************************************************************************)
(* The compile caches only grow, a program fails if its source does not    *)
(* parse, and what is in use is what they hold.                            *)
(***************************************************************************)
ProgramInv ==
    /\ DOMAIN inUse = Request
    /\ \A k \in DOMAIN programs : programs[k].failed <=> k[3] = "broken"
    /\ \A r \in Request : \A k \in DOMAIN inUse[r] :
           k \in DOMAIN programs /\ inUse[r][k] = programs[k]

(* The compile caches: a program is found, stored, or compiled first. *)
LEMMA LoadKeeps ==
    ASSUME FilterInv, ProgramInv, NEW r \in Request, Load(r)
    PROVE  FilterInv' /\ ProgramInv'
<1> DEFINE k == Step(r).key
           p == programs[k]
<1>1. /\ left[r] # <<>> /\ Step(r).do = "compile" /\ k \in DOMAIN programs
      /\ Use(r, k, p) /\ UNCHANGED <<filter, rendered, programs>>
  BY DEF Load, At, Step
<1>2. Step(r) \in SoundSteps(filter)
  BY <1>1, FirstStep
<1>3. p.failed => ~ Step(r).holds
  BY <1>1, <1>2 DEF ProgramInv, SoundSteps, Sound
<1>4. FilterInv'
  BY <1>1, <1>3, UseKeeps
<1>5. inUse' = [inUse EXCEPT ![r] = (k :> p) @@ inUse[r]]
  BY <1>1 DEF Use
<1>6. ProgramInv'
  <2>1. DOMAIN inUse' = Request
    BY <1>5 DEF ProgramInv
  <2>2. ASSUME NEW q \in Request, NEW l \in DOMAIN inUse'[q]
        PROVE  l \in DOMAIN programs /\ inUse'[q][l] = programs[l]
    <3>1. CASE q = r
      BY <1>1, <1>5, <3>1 DEF ProgramInv, @@, :>
    <3>2. CASE q # r
      BY <1>5, <3>2 DEF ProgramInv
    <3>3. QED
      BY <3>1, <3>2
  <2>3. QED
    BY <1>1, <2>1, <2>2 DEF ProgramInv
<1>7. QED
  BY <1>4, <1>6

LEMMA LoadOrStoreKeeps ==
    ASSUME FilterInv, ProgramInv, NEW r \in Request, LoadOrStore(r)
    PROVE  FilterInv' /\ ProgramInv'
<1> DEFINE k == Step(r).key
           p == programs'[k]
<1>1. /\ left[r] # <<>> /\ Step(r).do = "loadOrStore"
      /\ programs' = programs @@ (k :> Compiled(r))
      /\ Use(r, k, p) /\ UNCHANGED <<filter, rendered>>
  BY DEF LoadOrStore, At, Step
<1>2. /\ DOMAIN programs' = DOMAIN programs \cup {k}
      /\ \A l \in DOMAIN programs : programs'[l] = programs[l]
      /\ k \notin DOMAIN programs => p = Compiled(r)
  BY <1>1 DEF @@, :>
<1>3. Step(r) \in SoundSteps(filter)
  BY <1>1, FirstStep
<1>4. ASSUME NEW l \in DOMAIN programs' PROVE programs'[l].failed <=> l[3] = "broken"
  <2>1. CASE l \in DOMAIN programs
    BY <1>2, <2>1 DEF ProgramInv
  <2>2. CASE l \notin DOMAIN programs
    <3>1. l = k /\ programs'[l] = Compiled(r)
      BY <1>2, <2>2
    <3>2. Compiled(r).failed <=> ~ Step(r).holds
      BY DEF Compiled
    <3>3. Step(r).holds <=> k[3] # "broken"
      BY <1>1, <1>3 DEF SoundSteps, Sound
    <3>4. QED
      BY <3>1, <3>2, <3>3
  <2>3. QED
    BY <2>1, <2>2
<1>5. p.failed => ~ Step(r).holds
  <2>1. k \in DOMAIN programs'
    BY <1>2
  <2>2. p.failed <=> k[3] = "broken"
    BY <1>4, <2>1
  <2>3. QED
    BY <1>1, <1>3, <2>2 DEF SoundSteps, Sound
<1>6. FilterInv'
  BY <1>1, <1>5, UseKeeps
<1>7. inUse' = [inUse EXCEPT ![r] = (k :> p) @@ inUse[r]]
  BY <1>1 DEF Use
<1>8. ProgramInv'
  <2>1. DOMAIN inUse' = Request
    BY <1>7 DEF ProgramInv
  <2>2. ASSUME NEW q \in Request, NEW l \in DOMAIN inUse'[q]
        PROVE  l \in DOMAIN programs' /\ inUse'[q][l] = programs'[l]
    <3> HIDE DEF p
    <3>1. CASE q = r
      <4>1. inUse'[r] = (k :> p) @@ inUse[r]
        BY <1>7 DEF ProgramInv
      <4>2. CASE l = k
        <5>1. inUse'[r][l] = p
          BY <4>1, <4>2 DEF @@, :>
        <5>2. QED
          BY <1>2, <3>1, <4>2, <5>1 DEF p
      <4>3. CASE l # k
        <5>1. l \in DOMAIN inUse[r] /\ inUse'[r][l] = inUse[r][l]
          BY <3>1, <4>1, <4>3 DEF @@, :>
        <5>2. QED
          BY <1>2, <3>1, <5>1 DEF ProgramInv
      <4>4. QED
        BY <4>2, <4>3
    <3>2. CASE q # r
      <4>1. inUse'[q] = inUse[q]
        BY <1>7, <3>2 DEF ProgramInv
      <4>2. QED
        BY <1>2, <4>1 DEF ProgramInv
    <3>3. QED
      BY <3>1, <3>2
  <2>3. QED
    BY <1>4, <2>1, <2>2 DEF ProgramInv
<1>9. QED
  BY <1>6, <1>8

LEMMA LoadMissKeeps ==
    ASSUME FilterInv, ProgramInv, NEW r \in Request, LoadMiss(r)
    PROVE  FilterInv' /\ ProgramInv'
<1> DEFINE s == left[r]
           t == [s EXCEPT ![1] = [s[1] EXCEPT !.do = "loadOrStore"]]
<1>1. /\ s # <<>> /\ Step(r).do = "compile"
      /\ left' = [left EXCEPT ![r][1].do = "loadOrStore"]
      /\ UNCHANGED <<filter, rendered, outcome, programs, inUse>>
  BY DEF LoadMiss, At, Step
<1>2. left \in [Request -> Seq(SoundSteps(filter))]
      /\ \A q \in Request : GuardedNow(q)
  BY DEF FilterInv
<1>3. /\ s \in Seq(SoundSteps(filter)) /\ Len(s) \in Nat \ {0} /\ Step(r) = s[1]
      /\ s[1] \in SoundSteps(filter)
  BY <1>1, <1>2, FirstStep
<1>4. left' = [left EXCEPT ![r] = t]
  BY <1>1
<1>5. [s[1] EXCEPT !.do = "loadOrStore"] \in SoundSteps(filter)
      /\ [s[1] EXCEPT !.do = "loadOrStore"].do = "loadOrStore"
  BY <1>1, <1>3 DEF SoundSteps, AnyStep, Sound
<1>6. /\ t \in Seq(SoundSteps(filter)) /\ Len(t) = Len(s)
      /\ t[1].do = "loadOrStore" /\ \A i \in 1..Len(s) : i # 1 => t[i] = s[i]
  <2> DEFINE e == [s[1] EXCEPT !.do = "loadOrStore"]
  <2> HIDE DEF e
  <2>1. t = [s EXCEPT ![1] = e]
    BY DEF e
  <2>2. e \in SoundSteps(filter) /\ e.do = "loadOrStore"
    BY <1>5 DEF e
  <2> HIDE DEF t
  <2>3. QED
    BY <1>3, <2>1, <2>2
<1> HIDE DEF t
<1>7. left' \in [Request -> Seq(SoundSteps(filter))]
  BY <1>2, <1>4, <1>6
<1>8. ASSUME NEW q \in Request PROVE GuardedNow(q)'
  <2>1. CASE q = r
    <3>1. left'[r] = t /\ GuardedNow(r)
      BY <1>2, <1>4
    <3> SUFFICES ASSUME NEW i \in 1..Len(t), t[i].do = "checkRendered"
                 PROVE  /\ filter.type = "http"
                        /\ i = 1 => UrlRendered(r)
                        /\ i > 1 => t[i - 1] = RenderUrl(filter)
      BY <1>1, <2>1, <3>1 DEF GuardedNow, UrlRendered
    <3>2. i # 1 /\ i \in 1..Len(s) /\ i > 1 /\ t[i] = s[i]
      BY <1>6
    <3>3. filter.type = "http" /\ s[i - 1] = RenderUrl(filter)
      BY <3>1, <3>2 DEF GuardedNow
    <3>4. i - 1 # 1
      BY <1>1, <1>3, <3>3 DEF RenderUrl
    <3>5. i - 1 \in 1..Len(s)
      BY <3>2
    <3>6. t[i - 1] = s[i - 1]
      BY <1>6, <3>4, <3>5
    <3>7. QED
      BY <3>2, <3>3, <3>6
  <2>2. CASE q # r
    <3>1. left'[q] = left[q] /\ GuardedNow(q)
      BY <1>2, <1>4, <2>2
    <3>2. QED
      BY <1>1, <3>1 DEF GuardedNow, UrlRendered
  <2>3. QED
    BY <2>1, <2>2
<1>9. FilterInv'
  BY <1>1, <1>7, <1>8 DEF FilterInv, LeftToRequestTime
<1>10. QED
  BY <1>1, <1>9 DEF ProgramInv

(* An accepted http filter has a url; what it renders to depends on the
   request only if it varies. *)
LEMMA UrlIsThere ==
    ASSUME NEW f \in Accepted, f.type = "http"
    PROVE  /\ Url(f) \in Literal /\ Url(f) # "empty"
           /\ Url(f) = "varying" <=> f.params.url = "varying"
<1>1. /\ f.params \in Params("http") /\ ~ Missing(f.params.url)
  BY FiltersAssumption DEF Accepted, ValidateFilterParams
<1>2. f.params.url \in Literal
  BY <1>1 DEF Params
<1>3. QED
  BY <1>1, <1>2, LiteralStrings DEF Url, Missing

LEMMA ExecuteKeeps ==
    ASSUME FilterInv, NEW r \in Request, Execute(r)
    PROVE  FilterInv'
<1> DEFINE l == Step(r).literal
           Out == IF l = "varying" THEN {"empty", "text"} ELSE {l}
<1>1. /\ left[r] # <<>> /\ Step(r).do = "execute" /\ filter' = filter
      /\ rendered \in [Request -> Literal] /\ filter \in Accepted
  BY DEF Execute, At, Step, FilterInv
<1>2. Step(r) \in SoundSteps(filter) /\ l \in Literal
  BY <1>1, FirstStep DEF SoundSteps, AnyStep
<1>3. ASSUME NEW out \in Out, rendered' = [rendered EXCEPT ![r] = out], Advance(r)
      PROVE  FilterInv'
  <2>1. out \in Literal
    BY <1>2, <1>3 DEF Literal
  <2>2. /\ rendered' \in [Request -> Literal] /\ rendered'[r] = out
        /\ \A q \in Request \ {r} : rendered'[q] = rendered[q]
    BY <1>1, <1>3, <2>1
  <2>3. ASSUME filter.type = "http", Step(r) = RenderUrl(filter)
        PROVE  UrlRendered(r)'
    <3>1. l = Url(filter)
      BY <2>3 DEF RenderUrl
    <3>2. Url(filter) # "empty" /\ (Url(filter) = "varying" <=> filter.params.url = "varying")
      BY <1>1, <2>3, UrlIsThere
    <3>3. filter.params.url = "varying" \/ out # "empty"
      BY <1>3, <3>1, <3>2
    <3>4. QED
      BY <1>1, <2>2, <3>3 DEF UrlRendered
  <2>4. QED
    BY <1>1, <1>3, <2>2, <2>3, AdvanceKeeps
<1>4. ASSUME Fail(r, "data"), rendered' = rendered PROVE FilterInv'
  <2>1. "data" \in Outcomes /\ Explained("data")
    BY DEF Outcomes, Explained
  <2>2. QED
    BY <1>1, <1>4, <2>1, FailKeeps
<1>5. QED
  BY <1>3, <1>4 DEF Execute

LEMMA CheckKeeps ==
    ASSUME FilterInv, NEW r \in Request,
           Check(r) \/ CheckRendered(r) \/ DoWork(r)
    PROVE  FilterInv'
<1>1. /\ left[r] # <<>> /\ Step(r).do \in {"check", "checkRendered", "work"}
      /\ filter' = filter /\ rendered' = rendered
      /\ rendered \in [Request -> Literal]
  BY DEF Check, CheckRendered, DoWork, At, Step, FilterInv
<1>2. /\ Step(r) = left[r][1] /\ Step(r) \in SoundSteps(filter)
      /\ Len(left[r]) \in Nat \ {0}
  BY <1>1, FirstStep
<1>3. ASSUME Advance(r) PROVE FilterInv'
  <2>1. Step(r) # RenderUrl(filter)
    BY <1>1 DEF RenderUrl
  <2>2. QED
    BY <1>1, <1>3, <2>1, AdvanceKeeps
<1>4. CASE Check(r)
  <2>1. ASSUME ~ Step(r).holds, Fail(r, Step(r).error) PROVE FilterInv'
    <3>1. Step(r).do = "check" /\ Step(r).error \in {"shape", "duration"}
      BY <1>2, <1>4 DEF Check, At, Step, SoundSteps, AnyStep
    <3>2. Step(r).error \in Outcomes /\ Explained(Step(r).error)
      BY <1>2, <2>1, <3>1 DEF Outcomes, Explained, SoundSteps, Sound, TooDeep
    <3>3. QED
      BY <1>1, <2>1, <3>2, FailKeeps
  <2>2. QED
    BY <1>3, <1>4, <2>1 DEF Check
<1>5. CASE CheckRendered(r)
  <2>1. ASSUME rendered[r] = "empty", Fail(r, "shape") PROVE FilterInv'
    <3>1. 1 \in 1..Len(left[r]) /\ left[r][1].do = "checkRendered"
      BY <1>2, <1>5 DEF CheckRendered, At, Step
    <3>2. GuardedNow(r)
      BY DEF FilterInv
    <3>3. filter.type = "http" /\ filter.params.url = "varying"
      BY <2>1, <3>1, <3>2 DEF GuardedNow, UrlRendered
    <3>4. "shape" \in Outcomes /\ Explained("shape")
      BY <3>3 DEF Outcomes, Explained
    <3>5. QED
      BY <1>1, <2>1, <3>4, FailKeeps
  <2>2. QED
    BY <1>3, <1>5, <2>1 DEF CheckRendered
<1>6. CASE DoWork(r)
  <2>1. "work" \in Outcomes /\ Explained("work")
    BY DEF Outcomes, Explained
  <2>2. QED
    BY <1>1, <1>3, <1>6, <2>1, FailKeeps DEF DoWork
<1>7. QED
  BY <1>4, <1>5, <1>6

(* No step of a request leaves the invariants. *)
LEMMA FiltersStep ==
    FilterInv /\ ProgramInv /\ [FiltersNext]_vars => FilterInv' /\ ProgramInv'
<1> SUFFICES ASSUME FilterInv, ProgramInv, [FiltersNext]_vars
             PROVE  FilterInv' /\ ProgramInv'
  OBVIOUS
<1>1. ASSUME NEW r \in Request,
             Check(r) \/ CheckRendered(r) \/ DoWork(r) \/ Execute(r)
      PROVE  FilterInv' /\ ProgramInv'
  <2>1. UNCHANGED <<programs, inUse>>
    BY <1>1 DEF Check, CheckRendered, DoWork, Execute
  <2>2. ProgramInv'
    BY <2>1 DEF ProgramInv
  <2>3. QED
    BY <1>1, <2>2, CheckKeeps, ExecuteKeeps
<1>2. CASE UNCHANGED vars
  BY <1>2 DEF vars, FilterInv, ProgramInv, GuardedNow, UrlRendered, LeftToRequestTime
<1>3. QED
  BY <1>1, <1>2, LoadKeeps, LoadMissKeeps, LoadOrStoreKeeps DEF FiltersNext

LEMMA FiltersInvariant == FiltersSpec => [](FilterInv /\ ProgramInv)
<1>1. FiltersInit => FilterInv /\ ProgramInv
  <2> SUFFICES ASSUME FiltersInit PROVE FilterInv /\ ProgramInv
    OBVIOUS
  <2>1. /\ filter \in Accepted /\ left = [r \in Request |-> Steps(filter)]
        /\ Steps(filter) \in Seq(SoundSteps(filter)) /\ Guarded(filter, Steps(filter))
    BY AcceptedIsSound DEF FiltersInit
  <2>2. /\ left \in [Request -> Seq(SoundSteps(filter))]
        /\ \A r \in Request : GuardedNow(r)
    BY <2>1 DEF Guarded, GuardedNow
  <2>3. FilterInv
    BY <2>1, <2>2 DEF FiltersInit, FilterInv, LeftToRequestTime, Outcomes, Literal
  <2>4. ProgramInv
    BY DEF FiltersInit, ProgramInv
  <2>5. QED
    BY <2>3, <2>4
<1>2. QED
  BY <1>1, FiltersStep, PTL DEF FiltersSpec

(* What a request may find wrong with any filter that was accepted. *)
THEOREM OnlyThisIsLeft == FiltersSpec => []LeftToRequestTime
<1>1. FilterInv => LeftToRequestTime
  BY DEF FilterInv
<1>2. QED
  BY <1>1, FiltersInvariant, PTL

(* Any number of requests that compile any sources: one program each. *)
THEOREM CompileCachesAreInvisible == FiltersSpec => []OneProgramPerSource
<1>1. ProgramInv => OneProgramPerSource
  BY DEF ProgramInv, OneProgramPerSource
<1>2. QED
  BY <1>1, FiltersInvariant, PTL
=============================================================================
