--------------------------- MODULE MCExecutionPlan --------------------------
(* Every graph over the nodes of the .cfg, self-loops included, every root, *)
(* and every order of the three loops.                                      *)
EXTENDS ExecutionPlan
=============================================================================
