---------------------------- MODULE SpectatorRun ----------------------------
(***************************************************************************)
(* What the spectator stream promises: the run that was published is the   *)
(* confirmed one, it only grows, and a viewer is shown the world after     *)
(* some prefix of it, never one the players did not play.                  *)
(***************************************************************************)
EXTENDS Sequences, Naturals

CONSTANTS Input, Nothing

VARIABLES
  confirmed,  \* the inputs the players agree on
  run,        \* those published so far
  shown       \* the inputs behind the world a viewer sees, or Nothing

Init == confirmed = << >> /\ run = << >> /\ shown = Nothing

Confirm(i) == confirmed' = Append(confirmed, i) /\ UNCHANGED <<run, shown>>
Extend ==
  /\ Len(run) < Len(confirmed)
  /\ run' = Append(run, confirmed[Len(run) + 1])
  /\ UNCHANGED <<confirmed, shown>>
Show(n) == shown' = SubSeq(run, 1, n) /\ UNCHANGED <<confirmed, run>>

Next == \/ \E i \in Input : Confirm(i)
        \/ Extend
        \/ \E n \in 0 .. Len(run) : Show(n)

Spec == Init /\ [][Next]_<<confirmed, run, shown>>
=============================================================================
