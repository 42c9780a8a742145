-------------------------- MODULE MCSessionChannel --------------------------
(* Small instances of SessionChannel. *)
EXTENDS SessionChannel

CONSTANTS p1, p2

MCSame == [p \in Player |-> "abi"]
MCContracts == {MCSame, [MCSame EXCEPT ![p1] = "old"]}
MCOneContract == {MCSame}

MCOneFastLink == {<<p1, p2>>}
===========================================================================
