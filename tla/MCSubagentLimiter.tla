------------------------- MODULE MCSubagentLimiter -------------------------
(***************************************************************************)
(* Small instance of SubagentLimiter: two executors, a child of each, and  *)
(* workers of a coordinator.                                               *)
(***************************************************************************)
EXTENDS SubagentLimiter

CONSTANTS e1, e2, c1, c2, a1, a2

SomeAgents   == {e1, e2, c1, c2, a1, a2}
TwoExecutors == [a \in SomeAgents |-> CASE a = c1 -> e1 [] a = c2 -> e2 [] OTHER -> Nobody]
=============================================================================
