-------------------------- MODULE MCSpectatorStream --------------------------
(* Small instances of SpectatorStream: an input that clears the stage, with *)
(* a boss registered by the tick that does.                                 *)
EXTENDS SpectatorStream

MCStage(played) == 1 + Len(SelectSeq(played, LAMBDA i : i = "clear"))
MCBoss(played) == Last(played) = "clear"
=============================================================================
