---------------------------- MODULE MCPlanOrder ----------------------------
(* Every graph over three manifests of two teams, a name no manifest has,   *)
(* and at most one valueFrom reference per manifest.                        *)
EXTENDS PlanOrder

MCOwnerOf == [n \in Node |-> IF n = 2 THEN "web" ELSE "ops"]
=============================================================================
