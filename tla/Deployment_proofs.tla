-------------------------- MODULE Deployment_proofs -------------------------
(***************************************************************************)
(* The server process and any number of requests and init-config           *)
(* processes.  The invariant has a part for each of what a reload keeps    *)
(* together, what ends the process, and what becomes of the file.          *)
(***************************************************************************)
EXTENDS Deployment, TLAPS

USE ServerAssumption, DeploymentAssumption

(* A reload replaces the configuration and the engine together. *)
EngineIsOfCfg == engine = cfg.content

(* The server settings are those the process was started with. *)
SettingsStay == AddrOverride = NoFlag => cfg.server = FirstFile.server

(* Run returns well after Shutdown only, and then nobody hears of it. *)
EndsInOrder ==
    /\ closing => main \in {"stopping", "exited"}
    /\ run = "closed" => closing
    /\ main # "exited" => \A r \in Request : stage[r] # "cut"

ServerInv ==
    /\ ServerTypeOK
    /\ EngineIsOfCfg /\ OneConfiguration
    /\ SettingsStay
    /\ EndsInOrder /\ CleanExit

(* An init-config without --force has begun to write. *)
WroteInPlace == \E w \in Writer \ Forced : progress[w] \notin {"idle", "refused"}

WritersTyped ==
    /\ progress \in [Writer -> {"idle", "refused", "writing", "written",
                                "renamed", "failing", "done", "failed",
                                "crashed"}]
    /\ temps \subseteq Forced
    /\ inPlace \in (Writer \ Forced) \cup {Nobody}

(* Whose file it is that another one is a beginning of. *)
CutIsInPlace ==
    /\ inPlace # Nobody /\ progress[inPlace] = "writing" => file \in Cut
    /\ file \in Cut \/ next \in Cut \/ cfg \in Cut => WroteInPlace

FileInv == WritersTyped /\ CutIsInPlace /\ TempsAreRemoved

-----------------------------------------------------------------------------
LEMMA LaunchedTyped ==
    /\ Launched \in Config
    /\ AddrOverride = NoFlag => Launched = FirstFile
  BY DEF Launched, Config

LEMMA ServerInitInv == DeploymentInit => ServerInv
<1> SUFFICES ASSUME ServerInit PROVE ServerInv
  BY DEF DeploymentInit
<1>1. FirstFile.content \in Content /\ Launched.content \in Content
  BY LaunchedTyped DEF Config
<1>2. ServerTypeOK
  <2>1. /\ asked \in BOOLEAN /\ hup \in BOOLEAN
        /\ term \in BOOLEAN /\ closing \in BOOLEAN
    BY DEF ServerInit
  <2>2. edits \in 0..MaxEdits /\ hangups \in 0..MaxHangups
    BY DEF ServerInit
  <2>3. /\ stage \in [Request -> {"idle", "open", "accepted", "running", "done",
                               "cut"}]
        /\ routed \in [Request -> Content] /\ executed \in [Request -> Content]
    BY <1>1 DEF ServerInit
  <2>4. QED
    BY <1>1, <2>1, <2>2, <2>3, LaunchedTyped DEF ServerInit, ServerTypeOK
<1>3. EngineIsOfCfg /\ OneConfiguration /\ SettingsStay
  BY LaunchedTyped DEF ServerInit, EngineIsOfCfg, OneConfiguration, SettingsStay
<1>4. EndsInOrder /\ CleanExit
  BY DEF ServerInit, EndsInOrder, CleanExit
<1>5. QED
  BY <1>2, <1>3, <1>4 DEF ServerInv

LEMMA FileInitInv == DeploymentInit => FileInv
  BY DEF DeploymentInit, ServerInit, InitConfigInit, FileInv, WritersTyped,
         CutIsInPlace, TempsAreRemoved

(* The steps that leave the configurations and the requests alone. *)
LEMMA QuietStepInv ==
    ASSUME ServerInv,
           \/ \E f \in EditedTo : Edit(f)
           \/ Hangup \/ Terminate \/ TakeHangup \/ RejectReload \/ TakeTerm
           \/ Running
    PROVE  ServerInv'
<1>1. ServerTypeOK'
  <2> USE DEF ServerInv, ServerTypeOK, operatorVars, appVars, requestVars
  <2>1. CASE \E f \in EditedTo : Edit(f)
    <3>1. PICK f \in EditedTo : Edit(f)
      BY <2>1
    <3>2. file' \in Config \cup Unloadable
      BY <3>1 DEF Edit
    <3>3. edits' \in 0..MaxEdits
      BY <3>1 DEF Edit
    <3>4. QED
      BY <3>1, <3>2, <3>3 DEF Edit
  <2>2. CASE Hangup
    <3>1. hangups' \in 0..MaxHangups
      BY <2>2 DEF Hangup
    <3>2. QED
      BY <2>2, <3>1 DEF Hangup
  <2>3. CASE Terminate
    BY <2>3 DEF Terminate
  <2>4. CASE TakeHangup \/ RejectReload
    BY <2>4 DEF TakeHangup, RejectReload
  <2>5. CASE TakeTerm
    BY <2>5 DEF TakeTerm
  <2>6. CASE Running
    BY <2>6 DEF Running, Listen, ServeClosed, ListenFails, ServeFails, RunStep
  <2>7. QED
    BY <2>1, <2>2, <2>3, <2>4, <2>5, <2>6
<1>2. EngineIsOfCfg' /\ OneConfiguration' /\ SettingsStay'
  BY DEF ServerInv, EngineIsOfCfg, OneConfiguration, SettingsStay, Edit, Hangup,
         Terminate, TakeHangup, RejectReload, TakeTerm, Running, Listen,
         ServeClosed, ListenFails, ServeFails, RunStep, appVars, requestVars
<1>3. EndsInOrder' /\ CleanExit'
  <2> USE DEF ServerInv, EndsInOrder, CleanExit, requestVars
  <2>1. CASE (\E f \in EditedTo : Edit(f)) \/ Hangup \/ Terminate
    BY <2>1 DEF Edit, Hangup, Terminate
  <2>2. CASE TakeHangup \/ RejectReload
    BY <2>2 DEF TakeHangup, RejectReload
  <2>3. CASE TakeTerm
    BY <2>3 DEF TakeTerm
  <2>4. CASE Running
    BY <2>4 DEF Running, Listen, ServeClosed, ListenFails, ServeFails, RunStep
  <2>5. QED
    BY <2>1, <2>2, <2>3, <2>4
<1>4. QED
  BY <1>1, <1>2, <1>3 DEF ServerInv

(* The steps of a reload, of a request, and those that end the process. *)
LEMMA ServerNextInv == ASSUME ServerInv, ServerNext PROVE ServerInv'
<1> USE DEF ServerInv, ServerTypeOK, EngineIsOfCfg, OneConfiguration,
            SettingsStay, EndsInOrder, CleanExit, operatorVars, appVars,
            requestVars
<1>1. CASE Load
  BY <1>1 DEF Load
<1>2. CASE ApplyReload
  <2>1. engine' \in Content
    BY <1>2 DEF ApplyReload, Config
  <2>2. QED
    BY <1>2, <2>1 DEF ApplyReload
<1>3. CASE ShutdownDone
  BY <1>3 DEF ShutdownDone, InFlight
<1>4. CASE ShutdownTimeout
  BY <1>4 DEF ShutdownTimeout, InFlight
<1>5. CASE RunReturned
  BY <1>5 DEF RunReturned, Received, InFlight
<1>6. ASSUME NEW r \in Request, Connect(r) \/ Accept(r) \/ Begin(r) \/ Finish(r)
      PROVE  ServerInv'
  <2>1. CASE Connect(r) \/ Accept(r)
    BY <2>1 DEF Connect, Accept
  <2>2. CASE Begin(r)
    <3>1. cfg.content \in Content
      BY DEF Config
    <3>2. QED
      BY <2>2, <3>1 DEF Begin
  <2>3. CASE Finish(r)
    BY <2>3 DEF Finish
  <2>4. QED
    BY <1>6, <2>1, <2>2, <2>3
<1>7. QED
  BY QuietStepInv, <1>1, <1>2, <1>3, <1>4, <1>5, <1>6 DEF ServerNext, Loop

(* A writer changes nothing of the server but the file. *)
LEMMA WriterServerInv == ASSUME ServerInv, WriterStep PROVE ServerInv'
<1>1. file' \in Config \cup Unloadable /\ asked' \in BOOLEAN
  BY DEF ServerInv, ServerTypeOK, WriterStep, InitConfigNext, Create,
         CreateRefused, WriteSome, WriteInPlace, CreateTemp, WriteTemp,
         Rename, RemoveTemp, CrashWriter
<1>2. QED
  BY <1>1
     DEF ServerInv, ServerTypeOK, EngineIsOfCfg, OneConfiguration,
         SettingsStay, EndsInOrder, CleanExit, WriterStep, appVars, requestVars

(* The file is the operator's, and configurations come from nowhere else. *)
LEMMA FileOfServerStep ==
    ASSUME ServerStep
    PROVE  /\ file' = file \/ (file' \in EditedTo /\ file' \notin Cut)
           /\ next' = next \/ next' = file
           /\ cfg' = cfg \/ cfg' = next
  BY DEF ServerStep, ServerNext, Loop, Running, Edit, Hangup, Terminate,
         TakeHangup, Load, RejectReload, ApplyReload, TakeTerm, ShutdownDone,
         ShutdownTimeout, RunReturned, Received, Listen, ServeClosed,
         ListenFails, ServeFails, RunStep, Connect, Accept, Begin, Finish,
         operatorVars, appVars, requestVars

LEMMA ServerFileInv == ASSUME FileInv, ServerStep PROVE FileInv'
  BY FileOfServerStep
     DEF ServerStep, FileInv, WritersTyped, CutIsInPlace, WroteInPlace,
         TempsAreRemoved

LEMMA WriterFileInv ==
    ASSUME FileInv, WriterStep
    PROVE  FileInv' /\ (file' \in Cut => file \in Cut \cup {Absent})
<1> USE DEF FileInv, WritersTyped, CutIsInPlace, WroteInPlace, TempsAreRemoved,
            Goto
<1>1. next' = next /\ cfg' = cfg
  BY DEF WriterStep, appVars
<1>2. PICK w \in Writer :
          \/ Create(w) \/ CreateRefused(w) \/ WriteSome(w) \/ WriteInPlace(w)
          \/ CreateTemp(w) \/ WriteTemp(w) \/ Rename(w) \/ RemoveTemp(w)
          \/ CrashWriter(w)
  BY DEF WriterStep, InitConfigNext
<1>3. CASE Create(w) \/ CreateRefused(w)
  BY <1>1, <1>3 DEF Create, CreateRefused
<1>4. CASE WriteSome(w)
  BY <1>1, <1>4 DEF WriteSome
<1>5. CASE WriteInPlace(w)
  BY <1>1, <1>5 DEF WriteInPlace
<1>6. CASE CreateTemp(w) \/ WriteTemp(w)
  BY <1>1, <1>6 DEF CreateTemp, WriteTemp
<1>7. CASE Rename(w) \/ RemoveTemp(w)
  BY <1>1, <1>7 DEF Rename, RemoveTemp
<1>8. CASE CrashWriter(w)
  BY <1>1, <1>8 DEF CrashWriter
<1>9. QED
  BY <1>2, <1>3, <1>4, <1>5, <1>6, <1>7, <1>8

LEMMA DeploymentInvariant == DeploymentSpec => [](ServerInv /\ FileInv)
<1>1. ServerInv /\ FileInv /\ [ServerStep \/ WriterStep]_deploymentVars
          => (ServerInv /\ FileInv)'
  <2> SUFFICES ASSUME ServerInv, FileInv,
                      [ServerStep \/ WriterStep]_deploymentVars
               PROVE  (ServerInv /\ FileInv)'
    OBVIOUS
  <2>1. CASE ServerStep
    BY <2>1, ServerNextInv, ServerFileInv DEF ServerStep
  <2>2. CASE WriterStep
    BY <2>2, WriterServerInv, WriterFileInv
  <2>3. CASE UNCHANGED deploymentVars
    BY <2>3
       DEF deploymentVars, serverVars, operatorVars, appVars, requestVars,
           ServerInv, ServerTypeOK, EngineIsOfCfg, OneConfiguration,
           SettingsStay, EndsInOrder, CleanExit, FileInv, WritersTyped,
           CutIsInPlace, WroteInPlace, TempsAreRemoved
  <2>4. QED
    BY <2>1, <2>2, <2>3
<1>2. QED
  BY <1>1, ServerInitInv, FileInitInv, PTL DEF DeploymentSpec

-----------------------------------------------------------------------------
(* Types: the process has a status from the moment it has exited. *)
THEOREM ServerTypeCorrect == DeploymentSpec => []ServerTypeOK
<1>1. ServerInv => ServerTypeOK
  BY DEF ServerInv
<1>2. QED
  BY <1>1, DeploymentInvariant, PTL

(* SPEC.md "atomically apply": any number of requests and reloads. *)
THEOREM RequestsAreConsistent == DeploymentSpec => []OneConfiguration
<1>1. ServerInv => OneConfiguration
  BY DEF ServerInv
<1>2. QED
  BY <1>1, DeploymentInvariant, PTL

(* SPEC.md "Graceful Shutdown": status 0 means that no request was cut off,
   though Run returns before Shutdown does. *)
THEOREM CleanExitIsClean == DeploymentSpec => []CleanExit
<1>1. ServerInv => CleanExit
  BY DEF ServerInv
<1>2. QED
  BY <1>1, DeploymentInvariant, PTL

(* Without --force, and only without it, the server may take up a beginning
   of a file. *)
THEOREM HalfConfigsAreUnforced == DeploymentSpec => []HalfAConfigIsUnforced
<1>1. FileInv => HalfAConfigIsUnforced
  BY DEF FileInv, CutIsInPlace, WroteInPlace, HalfAConfigIsUnforced
<1>2. QED
  BY <1>1, DeploymentInvariant, PTL

(* Temporary files are removed on every path but that of a crash. *)
THEOREM NoTempIsLeft == DeploymentSpec => []TempsAreRemoved
<1>1. FileInv => TempsAreRemoved
  BY DEF FileInv
<1>2. QED
  BY <1>1, DeploymentInvariant, PTL

(* No process, server or writer, turns a whole file into a part of one. *)
THEOREM WholeFilesStayWhole == DeploymentSpec => WholeStaysWhole
<1> DEFINE Whole == file' \in Cut => file \in Cut \cup {Absent}
<1>1. ServerInv /\ FileInv /\ [ServerStep \/ WriterStep]_deploymentVars
          => [Whole]_initConfigVars
  <2> SUFFICES ASSUME FileInv, ServerStep \/ WriterStep PROVE Whole
    BY DEF deploymentVars, serverVars, operatorVars, initConfigVars
  <2>1. CASE ServerStep
    BY <2>1, FileOfServerStep
  <2>2. CASE WriterStep
    BY <2>2, WriterFileInv
  <2>3. QED
    BY <2>1, <2>2
<1>2. QED
  BY <1>1, DeploymentInvariant, PTL DEF DeploymentSpec, WholeStaysWhole

(* SPEC.md "Hot-reloadable fields": unless --addr was given, a reload is
   rejected only if the server section is not the one of the first file. *)
THEOREM ReloadsAreRejectedForAReason ==
    ASSUME AddrOverride = NoFlag
    PROVE  DeploymentSpec => RejectedForAReason
<1> DEFINE ForAReason == main = "reload" /\ main' = "select" /\ cfg' # next
                             => ~ HotReloadable(next)
<1>1. ServerInv /\ FileInv /\ [ServerStep \/ WriterStep]_deploymentVars
          => [ForAReason]_serverVars
  <2> SUFFICES ASSUME ServerInv, ServerStep \/ WriterStep, main = "reload",
                      main' = "select", cfg' # next
               PROVE  ~ HotReloadable(next)
    BY DEF deploymentVars
  <2>1. RejectReload
    BY DEF ServerStep, ServerNext, Loop, Running, Edit, Hangup, Terminate,
           TakeHangup, Load, RejectReload, ApplyReload, TakeTerm, ShutdownDone,
           ShutdownTimeout, RunReturned, Received, Listen, ServeClosed,
           ListenFails, ServeFails, RunStep, Connect, Accept, Begin, Finish,
           WriterStep
  <2>2. QED
    BY <2>1 DEF RejectReload, ServerInv, SettingsStay, HotReloadable
<1>2. QED
  BY <1>1, DeploymentInvariant, PTL DEF DeploymentSpec, RejectedForAReason
=============================================================================
