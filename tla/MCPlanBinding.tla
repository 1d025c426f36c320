---------------------------- MODULE MCPlanBinding ----------------------------
(* PlanBinding with two patterns, one for the program and one for documents, *)
(* among which is the PLAN.md.                                               *)
EXTENDS PlanBinding

MCCovers == [x \in Patterns |-> IF x = "cli/**" THEN {"code"} ELSE {"doc", "PLAN"}]
=============================================================================
