------------------------------- MODULE Server -------------------------------
(***************************************************************************)
(* The server process: the signal loop of the server command (main.go),    *)
(* the goroutine that runs App.Run, App.Reload and App.Shutdown (app.go),  *)
(* and the requests as far as these see them.                              *)
(*                                                                         *)
(* A configuration is its server section, in which the address is apart    *)
(* from the rest because --addr overrides it, and its content: filters,    *)
(* paths and log settings.  A file LoadConfig fails on is one of           *)
(* `Unloadable': Validate refuses it, YAML cannot parse it, or it is not   *)
(* there.                                                                  *)
(***************************************************************************)
EXTENDS Naturals

CONSTANTS
    Request,
    Addr, Limits,           \* values of server.addr and of the other settings
    Content,
    Unloadable, NoFlag,
    EditedTo,               \* the files the operator may put in place
    FirstFile,              \* the file the process is started with
    AddrOverride,           \* --addr, or NoFlag
    MaxEdits, MaxHangups    \* bounds of what the operator does

Config == [server : [addr : Addr, limits : Limits], content : Content]

ASSUME ServerAssumption ==
    /\ FirstFile \in Config
    /\ Unloadable \cap Config = {}
    /\ EditedTo \subseteq Config \cup Unloadable
    /\ AddrOverride \in Addr \cup {NoFlag}
    /\ NoFlag \notin Addr
    /\ MaxEdits \in Nat /\ MaxHangups \in Nat

VARIABLES
    file,               \* what --config names, now
    edits, hangups,     \* how often the operator did what
    asked,              \* ghost: a hangup was sent and the file not edited since
    hup,                \* hupCh, of capacity one: is a signal in it?
    term,               \* ctx of NotifyContext has ended
    main,               \* where the signal loop is
    next,               \* nextCfg, of LoadConfig
    cfg, engine,        \* App.cfg; the content App.engine was made of
    closing,            \* http.Server.Shutdown was called
    run,                \* App.Run: starting, serving, failed, closed, received
    stage,              \* Request -> idle, open (its connection is), accepted,
                        \* running, done, cut
    routed, executed,   \* content of the cfg and of the engine a request took
    exit                \* how the process ended

operatorVars == <<file, edits, hangups, asked>>
appVars      == <<cfg, engine>>
requestVars  == <<stage, routed, executed>>
serverVars   == <<operatorVars, hup, term, main, next, appVars, closing, run,
                  requestVars, exit>>

InFlight == {r \in Request : stage[r] \in {"accepted", "running"}}

(* newServerCmd up to its loop: the flag overrides what the file says. *)
Launched ==
    IF AddrOverride = NoFlag
    THEN FirstFile
    ELSE [server  |-> [addr   |-> AddrOverride,
                       limits |-> FirstFile.server.limits],
          content |-> FirstFile.content]

ServerInit ==
    /\ file = FirstFile /\ edits = 0 /\ hangups = 0 /\ asked = FALSE
    /\ hup = FALSE /\ term = FALSE
    /\ main = "select" /\ next = Launched
    /\ cfg = Launched /\ engine = Launched.content
    /\ closing = FALSE /\ run = "starting"
    /\ stage = [r \in Request |-> "idle"]
    /\ routed = [r \in Request |-> FirstFile.content]
    /\ executed = [r \in Request |-> FirstFile.content]
    /\ exit = "none"

-----------------------------------------------------------------------------
(* The operator. *)
Edit(f) ==
    /\ edits < MaxEdits
    /\ f # file
    /\ file' = f
    /\ edits' = edits + 1
    /\ asked' = FALSE
    /\ UNCHANGED <<hangups, hup, term, main, next, appVars, closing, run,
                   requestVars, exit>>

(* A variant of Hangup for a channel without a buffer: the signal is dropped
   unless the loop is at its select. *)
HangupUnbuffered ==
    /\ hangups < MaxHangups
    /\ main # "exited"
    /\ hangups' = hangups + 1
    /\ asked' = TRUE
    /\ hup' = (hup \/ main = "select")
    /\ UNCHANGED <<file, edits, term, main, next, appVars, closing, run,
                   requestVars, exit>>

(* SIGHUP: put into hupCh, or dropped when there is one in it already. *)
Hangup ==
    /\ hangups < MaxHangups
    /\ main # "exited"
    /\ hangups' = hangups + 1
    /\ asked' = TRUE
    /\ hup' = TRUE
    /\ UNCHANGED <<file, edits, term, main, next, appVars, closing, run,
                   requestVars, exit>>

(* SIGINT or SIGTERM. *)
Terminate ==
    /\ main # "exited"
    /\ ~ term
    /\ term' = TRUE
    /\ UNCHANGED <<operatorVars, hup, main, next, appVars, closing, run,
                   requestVars, exit>>

-----------------------------------------------------------------------------
(* The signal loop: one case of its select per action. *)
TakeHangup ==
    /\ main = "select"
    /\ hup
    /\ hup' = FALSE
    /\ main' = "load"
    /\ UNCHANGED <<operatorVars, term, next, appVars, closing, run,
                   requestVars, exit>>

(* LoadConfig, which validates, and the --log-level override, which cannot
   fail as it did not at the start.  --addr is not applied again. *)
Load ==
    /\ main = "load"
    /\ IF file \in Unloadable
       THEN main' = "select" /\ UNCHANGED next
       ELSE main' = "reload" /\ next' = file
    /\ UNCHANGED <<operatorVars, hup, term, appVars, closing, run,
                   requestVars, exit>>

(* A variant of RejectReload that compares the whole configuration. *)
RejectAnyChange ==
    /\ main = "reload"
    /\ cfg # next
    /\ main' = "select"
    /\ UNCHANGED <<operatorVars, hup, term, next, appVars, closing, run,
                   requestVars, exit>>

(* Reload finds the server settings changed: an error, and nothing else. *)
RejectReload ==
    /\ main = "reload"
    /\ cfg.server # next.server
    /\ main' = "select"
    /\ UNCHANGED <<operatorVars, hup, term, next, appVars, closing, run,
                   requestVars, exit>>

(* A variant of ApplyReload that does not set App.cfg. *)
ApplyToEngineOnly ==
    /\ main = "reload"
    /\ cfg.server = next.server
    /\ engine' = next.content
    /\ main' = "select"
    /\ UNCHANGED <<operatorVars, hup, term, next, cfg, closing, run,
                   requestVars, exit>>

(* Reload under the write lock. *)
ApplyReload ==
    /\ main = "reload"
    /\ cfg.server = next.server
    /\ cfg' = next
    /\ engine' = next.content
    /\ main' = "select"
    /\ UNCHANGED <<operatorVars, hup, term, next, closing, run, requestVars,
                   exit>>

(* ctx.Done: Shutdown closes the listener and starts to wait. *)
TakeTerm ==
    /\ main = "select"
    /\ term
    /\ main' = "stopping"
    /\ closing' = TRUE
    /\ UNCHANGED <<operatorVars, hup, term, next, appVars, run, requestVars,
                   exit>>

(* A variant of ShutdownDone that loses the status. *)
ShutdownSilent ==
    /\ main = "stopping"
    /\ InFlight = {}
    /\ main' = "exited"
    /\ UNCHANGED <<operatorVars, hup, term, next, appVars, closing, run,
                   requestVars, exit>>

(* Shutdown finds no request in flight, and closes the connections without. *)
ShutdownDone ==
    /\ main = "stopping"
    /\ InFlight = {}
    /\ main' = "exited"
    /\ exit' = "ok"
    /\ UNCHANGED <<operatorVars, hup, term, next, appVars, closing, run,
                   requestVars>>

(* A variant of ShutdownTimeout for a Shutdown without a deadline. *)
ShutdownForever == FALSE /\ UNCHANGED serverVars

(* server.shutdown_timeout has passed: its error ends the process, and what
   is in flight with it. *)
ShutdownTimeout ==
    /\ main = "stopping"
    /\ main' = "exited"
    /\ exit' = "error"
    /\ stage' = [r \in Request |-> IF r \in InFlight THEN "cut" ELSE stage[r]]
    /\ UNCHANGED <<operatorVars, hup, term, next, appVars, closing, run,
                   routed, executed>>

Received(places) ==
    /\ main \in places
    /\ run \in {"failed", "closed"}
    /\ main' = "exited"
    /\ exit' = IF run = "failed" THEN "error" ELSE "ok"
    /\ run' = "received"
    /\ stage' = [r \in Request |-> IF r \in InFlight THEN "cut" ELSE stage[r]]
    /\ UNCHANGED <<operatorVars, hup, term, next, appVars, closing,
                   routed, executed>>

(* A variant of RunReturned that is heard during Shutdown as well. *)
RunReturnedEarly == Received({"select", "stopping"})

(* errCh: the result of Run ends the process with what is in flight. *)
RunReturned == Received({"select"})

-----------------------------------------------------------------------------
(* App.Run.  A server that was shut down before does not start, and serving
   ends when it is shut down; listening, or accepting, may fail. *)
RunStep(from, to) ==
    /\ main # "exited"
    /\ run = from
    /\ run' = to
    /\ UNCHANGED <<operatorVars, hup, term, main, next, appVars, closing,
                   requestVars, exit>>

Listen      == ~ closing /\ RunStep("starting", "serving")
ServeClosed == closing /\ (RunStep("starting", "closed") \/ RunStep("serving", "closed"))
ListenFails == RunStep("starting", "failed")
ServeFails  == ~ closing /\ RunStep("serving", "failed")

(* A client connects, or keeps its connection from an earlier request. *)
Connect(r) ==
    /\ run = "serving"
    /\ ~ closing
    /\ main # "exited"
    /\ stage[r] = "idle"
    /\ stage' = [stage EXCEPT ![r] = "open"]
    /\ UNCHANGED <<operatorVars, hup, term, main, next, appVars, closing, run,
                   routed, executed, exit>>

(* A request reaches its handler, also when Shutdown has begun. *)
Accept(r) ==
    /\ main # "exited"
    /\ stage[r] = "open"
    /\ stage' = [stage EXCEPT ![r] = "accepted"]
    /\ UNCHANGED <<operatorVars, hup, term, main, next, appVars, closing, run,
                   routed, executed, exit>>

(* handleRequest takes cfg and engine under one read lock. *)
Begin(r) ==
    /\ main # "exited"
    /\ stage[r] = "accepted"
    /\ stage' = [stage EXCEPT ![r] = "running"]
    /\ routed' = [routed EXCEPT ![r] = cfg.content]
    /\ executed' = [executed EXCEPT ![r] = engine]
    /\ UNCHANGED <<operatorVars, hup, term, main, next, appVars, closing, run,
                   exit>>

Finish(r) ==
    /\ main # "exited"
    /\ stage[r] = "running"
    /\ stage' = [stage EXCEPT ![r] = "done"]
    /\ UNCHANGED <<operatorVars, hup, term, main, next, appVars, closing, run,
                   routed, executed, exit>>

Loop == \/ TakeHangup \/ Load \/ RejectReload \/ ApplyReload \/ TakeTerm
        \/ ShutdownDone \/ RunReturned

Running == Listen \/ ServeClosed \/ ListenFails \/ ServeFails

ServerNext ==
    \/ \E f \in EditedTo : Edit(f)
    \/ Hangup \/ Terminate
    \/ Loop \/ ShutdownTimeout
    \/ Running
    \/ \E r \in Request : Connect(r) \/ Accept(r) \/ Begin(r) \/ Finish(r)

ServerSpec == ServerInit /\ [][ServerNext]_serverVars

(* The loop runs and the timer of Shutdown fires.  No request has to end. *)
ServerFairSpec ==
    ServerSpec /\ WF_serverVars(Loop) /\ WF_serverVars(ShutdownTimeout)

-----------------------------------------------------------------------------
(* The variables have their types; the process has exited with a status. *)
ServerTypeOK ==
    /\ file \in Config \cup Unloadable
    /\ edits \in 0..MaxEdits /\ hangups \in 0..MaxHangups
    /\ asked \in BOOLEAN /\ hup \in BOOLEAN
    /\ term \in BOOLEAN /\ closing \in BOOLEAN
    /\ main \in {"select", "load", "reload", "stopping", "exited"}
    /\ next \in Config /\ cfg \in Config
    /\ engine \in Content
    /\ run \in {"starting", "serving", "failed", "closed", "received"}
    /\ stage \in [Request -> {"idle", "open", "accepted", "running", "done", "cut"}]
    /\ routed \in [Request -> Content] /\ executed \in [Request -> Content]
    /\ exit \in {"none", "ok", "error"}
    /\ main = "exited" <=> exit # "none"

(***************************************************************************)
(* SPEC.md "atomically apply": however many reloads happen meanwhile, a    *)
(* request is routed by the configuration whose filters it executes.       *)
(***************************************************************************)
OneConfiguration == \A r \in Request : routed[r] = executed[r]

(***************************************************************************)
(* SPEC.md "Graceful Shutdown": when the process ends well no request that *)
(* reached its handler was cut off, though Run returns before the requests *)
(* are through.                                                            *)
(***************************************************************************)
CleanExit ==
    exit = "ok" => \A r \in Request : stage[r] \in {"idle", "open", "done"}

(* SIGTERM ends the process, even if a request never does. *)
TermEnds == term ~> main = "exited"

(* What a reload may bring: anything but a change of the server section. *)
HotReloadable(f) == f \notin Unloadable /\ f.server = FirstFile.server

(***************************************************************************)
(* Hangups are merged while one is handled; still, when the operator has   *)
(* edited the file and then sent one, that file comes into force, unless   *)
(* it is edited again or the process is ending.                            *)
(***************************************************************************)
HangupIsHonoured ==
    (asked /\ HotReloadable(file)) ~>
        (cfg = file \/ ~ asked \/ main \in {"stopping", "exited"})

(***************************************************************************)
(* SPEC.md "Hot-reloadable fields": a file that differs in nothing else    *)
(* from the one the process was started with is not rejected.              *)
(***************************************************************************)
RejectedForAReason ==
    [][main = "reload" /\ main' = "select" /\ cfg' # next
           => ~ HotReloadable(next)]_serverVars
=============================================================================
