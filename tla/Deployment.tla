----------------------------- MODULE Deployment -----------------------------
(***************************************************************************)
(* The server process of Server and the init-config processes of           *)
(* InitConfig on one configuration file.  The name of a file the operator  *)
(* puts in place is a new file; so is that of a renamed one.               *)
(***************************************************************************)
EXTENDS Server

CONSTANTS Writer, Forced, Absent, Fresh, Cut, Nobody

ASSUME DeploymentAssumption ==
    /\ Forced \subseteq Writer /\ Nobody \notin Writer
    /\ Absent \in Unloadable /\ Fresh \in Config
    /\ Cut \subseteq Config \cup Unloadable
    /\ (EditedTo \cup {FirstFile, Launched, Fresh, Absent}) \cap Cut = {}

VARIABLES inPlace, temps, progress

INSTANCE InitConfig

deploymentVars == <<serverVars, inPlace, temps, progress>>

DeploymentInit == ServerInit /\ InitConfigInit

ServerStep ==
    /\ ServerNext
    /\ inPlace' = IF file' = file THEN inPlace ELSE Nobody
    /\ UNCHANGED <<temps, progress>>

WriterStep ==
    /\ InitConfigNext
    /\ asked' = (asked /\ file' = file)
    /\ UNCHANGED <<edits, hangups, hup, term, main, next, appVars, closing, run,
                   requestVars, exit>>

DeploymentSpec ==
    /\ DeploymentInit /\ [][ServerStep \/ WriterStep]_deploymentVars
    /\ WF_deploymentVars(Loop /\ ServerStep)
    /\ WF_deploymentVars(ShutdownTimeout /\ ServerStep)

-----------------------------------------------------------------------------
(***************************************************************************)
(* An empty file is the default configuration to LoadConfig, which loads   *)
(* and is hot-reloadable.  A reload can put such a beginning of a file     *)
(* into force only if init-config was run without --force.                 *)
(***************************************************************************)
HalfAConfigIsUnforced ==
    cfg \in Cut => \E w \in Writer \ Forced : progress[w] \notin {"idle", "refused"}
=============================================================================
