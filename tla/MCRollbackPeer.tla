-------------------------- MODULE MCRollbackPeer --------------------------
(***************************************************************************)
(* Small instances of RollbackPeer.  An input is a held direction or none; *)
(* the prediction repeats it for two frames and then goes neutral          *)
(* (maxDirectionPredictionFrames).                                         *)
(***************************************************************************)
EXTENDS RollbackPeer

MCPredictFrom(v, d) == IF d > 2 THEN "none" ELSE v

MCPressable == [q \in Player |-> IF q = Local THEN {"none"} ELSE {"none", "move"}]
MCEquivalent == {<<"none", "move">>}
===========================================================================
