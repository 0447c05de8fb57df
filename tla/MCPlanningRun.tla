--------------------------- MODULE MCPlanningRun ---------------------------
(***************************************************************************)
(* PlanningRun for TLC.  The configurations give the constants the values  *)
(* of PlanningConstants.ts, or values at which a given branch is reached.  *)
(***************************************************************************)
EXTENDS PlanningRefinement
=============================================================================
