------------------------------ MODULE InitConfig -----------------------------
(***************************************************************************)
(* writeConfigFile of the init-config command (main.go), run by several    *)
(* processes on one output file that others read meanwhile: in place when  *)
(* the file must not exist, and through a temporary file with --force.     *)
(*                                                                         *)
(* A file is what LoadConfig makes of it.  While a process writes in place *)
(* the file is a beginning of the whole one: not parsed, or parsed as a    *)
(* configuration with less in it.  A name may come to mean another file    *)
(* while the first is still being written: `inPlace' is the process whose  *)
(* file it is, if one has made it.                                         *)
(***************************************************************************)
CONSTANTS
    Writer, Forced,     \* the init-config processes; those with --force
    Absent,             \* the file does not exist
    Fresh,              \* the configuration init-config writes
    Cut,                \* what beginnings of it are taken for
    Nobody

VARIABLES
    file,               \* what --output names
    inPlace,
    temps,              \* processes whose temporary file exists
    progress            \* where each process is

initConfigVars == <<file, inPlace, temps, progress>>

Goto(w, place) == progress' = [progress EXCEPT ![w] = place]

(* Everything of InitConfig but the file itself. *)
InitConfigInit ==
    /\ inPlace = Nobody
    /\ temps = {}
    /\ progress = [w \in Writer |-> "idle"]

(* A variant of Create that truncates what is there. *)
CreateAnyway(w) ==
    /\ progress[w] = "idle" /\ w \notin Forced
    /\ file' \in Cut
    /\ inPlace' = w
    /\ Goto(w, "writing")
    /\ UNCHANGED temps

(* O_CREATE | O_EXCL. *)
Create(w) ==
    /\ progress[w] = "idle" /\ w \notin Forced
    /\ file = Absent
    /\ file' \in Cut
    /\ inPlace' = w
    /\ Goto(w, "writing")
    /\ UNCHANGED temps

CreateRefused(w) ==
    /\ progress[w] = "idle" /\ w \notin Forced
    /\ file # Absent
    /\ Goto(w, "refused")
    /\ UNCHANGED <<file, inPlace, temps>>

(* Part of the Write, which is not one step for who reads the file. *)
WriteSome(w) ==
    /\ progress[w] = "writing"
    /\ inPlace = w
    /\ file' \in Cut
    /\ UNCHANGED <<inPlace, temps, progress>>

(* Write, Sync and Close, which leave what they have done if they fail. *)
WriteInPlace(w) ==
    /\ progress[w] = "writing" /\ w \notin Forced
    /\ \/ Goto(w, "done") /\ file' = IF inPlace = w THEN Fresh ELSE file
       \/ Goto(w, "failed") /\ file' \in IF inPlace = w THEN Cut \cup {Fresh}
                                                        ELSE {file}
    /\ UNCHANGED <<inPlace, temps>>

(* A variant of CreateTemp that opens the output itself. *)
CreateTempInPlace(w) ==
    /\ progress[w] = "idle" /\ w \in Forced
    /\ file' \in Cut
    /\ inPlace' = Nobody
    /\ Goto(w, "writing")
    /\ UNCHANGED temps

CreateTemp(w) ==
    /\ progress[w] = "idle" /\ w \in Forced
    /\ \/ temps' = temps \cup {w} /\ Goto(w, "writing")
       \/ temps' = temps /\ Goto(w, "failed")
    /\ UNCHANGED <<file, inPlace>>

(* Chmod, Write, Sync and Close of the temporary file. *)
WriteTemp(w) ==
    /\ progress[w] = "writing" /\ w \in Forced
    /\ Goto(w, "written") \/ Goto(w, "failing")
    /\ UNCHANGED <<file, inPlace, temps>>

Rename(w) ==
    /\ progress[w] = "written"
    /\ \/ file' = Fresh /\ inPlace' = Nobody /\ temps' = temps \ {w}
             /\ Goto(w, "renamed")
       \/ Goto(w, "failing") /\ UNCHANGED <<file, inPlace, temps>>

(* The deferred os.Remove of the temporary file's name. *)
RemoveTemp(w) ==
    /\ progress[w] \in {"renamed", "failing"}
    /\ temps' = temps \ {w}
    /\ Goto(w, IF progress[w] = "renamed" THEN "done" ELSE "failed")
    /\ UNCHANGED <<file, inPlace>>

CrashWriter(w) ==
    /\ progress[w] \in {"writing", "written", "renamed", "failing"}
    /\ Goto(w, "crashed")
    /\ UNCHANGED <<file, inPlace, temps>>

InitConfigNext ==
    \E w \in Writer :
        \/ Create(w) \/ CreateRefused(w) \/ WriteSome(w) \/ WriteInPlace(w)
        \/ CreateTemp(w) \/ WriteTemp(w) \/ Rename(w) \/ RemoveTemp(w)
        \/ CrashWriter(w)

-----------------------------------------------------------------------------
(***************************************************************************)
(* Whatever fails, a temporary file stays only where a process was killed. *)
(***************************************************************************)
TempsAreRemoved ==
    \A w \in temps : progress[w] \in {"writing", "written", "failing", "crashed"}

(***************************************************************************)
(* A file that is whole is replaced by a whole one: only where there was   *)
(* none does another process ever meet a beginning.                        *)
(***************************************************************************)
WholeStaysWhole ==
    [][file' \in Cut => file \in Cut \cup {Absent}]_initConfigVars
=============================================================================
