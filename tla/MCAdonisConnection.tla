------------------------ MODULE MCAdonisConnection ------------------------
(* Small instances of AdonisConnection. *)
EXTENDS AdonisConnection

CONSTANTS p1, p2

Hybrid == [session |-> 1, mode |-> "Hybrid", requested |-> Automatic, reserve |-> 2]
Manual == [session |-> 1, mode |-> "Delay", requested |-> 0, reserve |-> 0]

Alike(c) == [p \in Player |-> c]
MCConfigs == {Alike(Hybrid), [Alike(Hybrid) EXCEPT ![p2] = Manual]}

(* What is left of the session before: its calibration and its input. *)
Old(kind) == [kind |-> kind, config |-> [Hybrid EXCEPT !.session = 0]]
MCTails == {<<Old("Commit"), Old("input")>>}

(* A round trip whose half is the first that needs two frames, and one     *)
(* whose half takes ten.                                                   *)
MCRtts == [Alike({33334}) EXCEPT ![p2] = {33334, 300002}]
=============================================================================
