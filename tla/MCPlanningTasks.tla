--------------------------- MODULE MCPlanningTasks ---------------------------
(***************************************************************************)
(* PlanningTasks for TLC.  The bounds MaxRuns and MaxViews are in the cfgs. *)
(***************************************************************************)
EXTENDS PlanningTasks
=============================================================================
