------------------------------ MODULE UnixSocket -----------------------------
(***************************************************************************)
(* Server processes that come and go on one unix socket path: the probe    *)
(* and the removal of a stale socket in prepareUnixListener, the listener, *)
(* and what App.Run does to the path when serving ends (app.go).           *)
(*                                                                         *)
(* All of this goes by the name of the file.  The file is identified with  *)
(* the process that bound it, and each process runs once.                  *)
(***************************************************************************)
CONSTANTS Process, NoFile

ASSUME UnixSocketAssumption == NoFile \notin Process

VARIABLES
    socket,     \* the process whose file server.unix_socket names, or NoFile
    at,         \* where each process is
    raced       \* ghost: a start overlapped another start, or a stop, or
                \* took a process that was too busy to answer for dead

socketVars == <<socket, at, raced>>

Starting(p) == at[p] \in {"stat", "dial", "remove", "bind", "listen"}
Stopping(p) == at[p] \in {"close", "cleanup"}

(* From the return of net.Listen on, the kernel takes connections; Serve,
   which registers the listener with the server, comes a little later. *)
Listening(p) == at[p] \in {"listening", "serving"}
Alive(p)     == Starting(p) \/ Listening(p) \/ Stopping(p)

(* A dial gets an answer: the file belongs to a process that listens. *)
Answered == socket \in {p \in Process : Listening(p)}

Overlap == \E p, q \in Process :
               p # q /\ Starting(p) /\ (Starting(q) \/ Stopping(q))

Goto(p, place) == at' = [at EXCEPT ![p] = place] /\ raced' = (raced \/ Overlap')

SocketInit ==
    /\ socket = NoFile
    /\ at = [p \in Process |-> "off"]
    /\ raced = FALSE

Start(p) ==
    /\ at[p] = "off"
    /\ Goto(p, "stat")
    /\ UNCHANGED socket

(* A variant of Stat that does not look for what a crash has left. *)
StatNothing(p) ==
    /\ at[p] = "stat"
    /\ Goto(p, "bind")
    /\ UNCHANGED socket

(* os.Stat: a socket file is probed first. *)
Stat(p) ==
    /\ at[p] = "stat"
    /\ Goto(p, IF socket = NoFile THEN "bind" ELSE "dial")
    /\ UNCHANGED socket

(* A variant of DialAnswered that removes the socket all the same. *)
DialAnsweredIgnored(p) ==
    /\ at[p] = "dial"
    /\ Answered
    /\ Goto(p, "remove")
    /\ UNCHANGED socket

(* net.DialTimeout: somebody answers, and the start fails. *)
DialAnswered(p) ==
    /\ at[p] = "dial"
    /\ Answered
    /\ Goto(p, "failed")
    /\ UNCHANGED socket

(* Nobody listens, the file is gone, or the dial is refused. *)
DialRefused(p) ==
    /\ at[p] = "dial"
    /\ ~ Answered
    /\ Goto(p, "remove")
    /\ UNCHANGED socket

(* A process that listens, but answers too slowly for unixSocketProbeTimeout. *)
DialTimesOut(p) ==
    /\ at[p] = "dial"
    /\ Answered
    /\ at' = [at EXCEPT ![p] = "remove"]
    /\ raced' = TRUE
    /\ UNCHANGED socket

(* os.Remove: of whatever file has the name now; it fails if none has. *)
Remove(p) ==
    /\ at[p] = "remove"
    /\ Goto(p, IF socket = NoFile THEN "failed" ELSE "bind")
    /\ socket' = NoFile

(* net.Listen binds, which makes the file unless there is one, and listens. *)
Bind(p) ==
    /\ at[p] = "bind"
    /\ IF socket = NoFile
       THEN Goto(p, "listen") /\ socket' = p
       ELSE Goto(p, "failed") /\ UNCHANGED socket

Listen(p) ==
    /\ at[p] = "listen"
    /\ Goto(p, "listening")
    /\ UNCHANGED socket

(* Run has come to Serve, which registers the listener. *)
Serve(p) ==
    /\ at[p] = "listening"
    /\ Goto(p, "serving")
    /\ UNCHANGED socket

(* A variant of Close for a listener that does not unlink, and no removal. *)
CloseOnly(p) ==
    /\ Listening(p)
    /\ Goto(p, "exited")
    /\ UNCHANGED socket

(* The listener is closed, which unlinks the name first, whoever's it is by
   now: by Shutdown, if it is registered, by Serve after an error of Accept,
   or by Serve when it finds that Shutdown came before it. *)
Close(p) ==
    /\ Listening(p)
    /\ Goto(p, "close")
    /\ socket' = NoFile

StopListening(p) ==
    /\ at[p] = "close"
    /\ Goto(p, "cleanup")
    /\ UNCHANGED socket

(* The deferred os.Remove of Run, which the process may exit without, as it
   waits for Shutdown only. *)
Cleanup(p) ==
    /\ at[p] = "cleanup"
    /\ Goto(p, "exited")
    /\ socket' \in {NoFile, socket}

(* SIGTERM before Serve: Shutdown has no listener to close and returns at
   once, and the process exits without anything of Run's, its deferred
   removal included. *)
Quit(p) ==
    /\ Starting(p) \/ at[p] = "listening"
    /\ Goto(p, "quit")
    /\ UNCHANGED socket

Crash(p) ==
    /\ Alive(p)
    /\ Goto(p, "crashed")
    /\ UNCHANGED socket

SocketNext ==
    \E p \in Process :
        \/ Start(p)
        \/ Stat(p) \/ DialAnswered(p) \/ DialRefused(p) \/ DialTimesOut(p)
        \/ Remove(p) \/ Bind(p) \/ Listen(p) \/ Serve(p)
        \/ Close(p) \/ StopListening(p) \/ Cleanup(p)
        \/ Quit(p) \/ Crash(p)

SocketSpec == SocketInit /\ [][SocketNext]_socketVars

-----------------------------------------------------------------------------
(* The variables have their types; a file nobody will use is one a process
   left that crashed or was told to stop before it served: a process that has
   served and exits, or fails to start, leaves none. *)
SocketTypeOK ==
    /\ socket \in Process \cup {NoFile}
    /\ at \in [Process -> {"off", "stat", "dial", "remove", "bind", "listen",
                           "listening", "serving", "close", "cleanup",
                           "exited", "failed", "quit", "crashed"}]
    /\ raced \in BOOLEAN
    /\ socket # NoFile =>
           at[socket] \in {"listen", "listening", "serving", "quit", "crashed"}

(***************************************************************************)
(* SPEC.md "a process is still using it; startup fails": unless starts and *)
(* stops overlap, or a busy process does not answer in time, a process     *)
(* that listens can be reached, and so there is never a second one,        *)
(* however many start, stop and crash, wherever in its start one is        *)
(* stopped.                                                                *)
(***************************************************************************)
ReachableUnlessRaced ==
    ~ raced => \A p \in Process : Listening(p) => socket = p

(***************************************************************************)
(* SPEC.md "socket is stale; delete it and create new listener": a start   *)
(* fails for the sake of a process that listens, or in a race, and never   *)
(* because of what a crash, or a SIGTERM before Serve, has left behind.    *)
(***************************************************************************)
FailsOnlyForAnother ==
    [][\A p \in Process : at[p] # "failed" /\ at'[p] = "failed" =>
           raced' \/ \E q \in Process \ {p} : Listening(q)]_socketVars
=============================================================================
