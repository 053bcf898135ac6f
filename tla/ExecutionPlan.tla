--------------------------- MODULE ExecutionPlan ----------------------------
(***************************************************************************)
(* The two searches of the validate command (main.go) on one graph: the    *)
(* detectCycle of LoadConfig and of BuildDependencyGraph, and then the     *)
(* topoForTarget of one path, as printValidationExecutionPlan makes it and *)
(* every request to that path makes it again.                              *)
(*                                                                         *)
(* The program asks for an order only of a graph it has accepted.  Here it *)
(* is asked for in any case, so that the verdict of the order, which the   *)
(* program never sees on a circular graph, is checked there as well.       *)
(***************************************************************************)
EXTENDS DetectCycle, TopoForTarget

planVars == <<detectVars, topoVars>>

PlanInit == DetectInit /\ TopoInit /\ g = graph

PlanNext ==
    \/ DetectNext /\ UNCHANGED topoVars
    \/ verdict # "running" /\ TopoNext /\ UNCHANGED detectVars

PlanSpec == PlanInit /\ [][PlanNext]_planVars /\ WF_planVars(PlanNext)

-----------------------------------------------------------------------------
(* Types; gray are the active calls of detectCycle, and `visiting' those of
   topoForTarget. *)
PlanTypeOK == DetectTypeOK /\ TopoTypeOK

(***************************************************************************)
(* SPEC.md counts on three cycle detections to agree: what was accepted at *)
(* load time is refused neither by `validate' nor by a request.            *)
(***************************************************************************)
AcceptedIsOrdered == verdict = "accepted" => topo # "cycle"
=============================================================================
