----------------------------- MODULE MCPlanStore -----------------------------
(* Small instances of PlanStore for TLC. *)
EXTENDS PlanStore
CONSTANTS i1, i2, x, y
=============================================================================
