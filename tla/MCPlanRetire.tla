----------------------------- MODULE MCPlanRetire ----------------------------
(* Instances of PlanRetire for TLC. *)
EXTENDS PlanRetire, TLC

CONSTANTS p1, p2

=============================================================================
