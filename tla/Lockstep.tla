----------------------------- MODULE Lockstep -----------------------------
(***************************************************************************)
(* What a netplay session promises, without prediction, rollback or a      *)
(* network: every player presses one input per frame, and every peer plays *)
(* the frames in order, each with the inputs all players pressed for it.   *)
(* A startup frame may be amended as long as nobody has played it.         *)
(***************************************************************************)
EXTENDS Integers, Sequences

CONSTANTS Player, Input,
          Peer      \* the players whose games are observed

VARIABLES
  pressed,   \* pressed[q][f + 1] is the input of player q for frame f
  played     \* played[p][f + 1] are the inputs peer p played frame f with

lockstepVars == <<pressed, played>>

LockstepInit ==
  /\ pressed \in [Player -> Seq(Input)]
  /\ played = [p \in Peer |-> << >>]

Press(q, v) ==
  /\ pressed' = [pressed EXCEPT ![q] = Append(@, v)]
  /\ UNCHANGED played

Amend(q, f, v) ==
  /\ f < Len(pressed[q])
  /\ \A p \in Peer : Len(played[p]) <= f
  /\ pressed' = [pressed EXCEPT ![q][f + 1] = v]
  /\ UNCHANGED played

Play(p) ==
  LET f == Len(played[p])
  IN  /\ \A q \in Player : f < Len(pressed[q])
      /\ played' = [played EXCEPT ![p] =
                      Append(@, [q \in Player |-> pressed[q][f + 1]])]
      /\ UNCHANGED pressed

LockstepNext ==
  \/ \E q \in Player, v \in Input : Press(q, v)
  \/ \E q \in Player, v \in Input : \E f \in 0 .. Len(pressed[q]) - 1 :
       Amend(q, f, v)
  \/ \E p \in Peer : Play(p)

LockstepSpec == LockstepInit /\ [][LockstepNext]_lockstepVars
===========================================================================
