--------------------------- MODULE MCRollbackNet ---------------------------
(* Small instances of RollbackNet. *)
EXTENDS RollbackNet

CONSTANTS p1

MCPredictFrom(v, d) == IF d > 2 THEN "none" ELSE v
MCPressable == [p \in Player |-> IF p = p1 THEN {"none"} ELSE {"none", "move"}]
MCPressableMove == [p \in Player |-> IF p = p1 THEN {"none"} ELSE {"move"}]
============================================================================
