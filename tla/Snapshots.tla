------------------------------ MODULE Snapshots ------------------------------
(***************************************************************************)
(* What an undo journal promises the simulation: every checkpoint is a     *)
(* whole copy of the memory as it was when the checkpoint began.  A        *)
(* checkpoint covers consecutive frames, a new one may push out the        *)
(* oldest, and an undo restores the copy and forgets the checkpoint and    *)
(* all newer ones.                                                         *)
(***************************************************************************)
EXTENDS Integers, Sequences

CONSTANTS Cell, Value, Frame,
          Adjusted(_),       \* a value plus a correction
          MaxCheckpoints

VARIABLES
  memory,       \* the memory of the simulation
  checkpoints,  \* records [start, end, image], the oldest first
  open          \* a frame is being simulated

snapshotVars == <<memory, checkpoints, open>>

Newest == checkpoints[Len(checkpoints)]

SnapshotsInit ==
  /\ memory \in [Cell -> Value] /\ checkpoints = << >> /\ ~open

Checkpoint(frame) ==
  /\ ~open
  /\ checkpoints # << >> => frame > Newest.end
  /\ checkpoints' =
       Append(IF Len(checkpoints) = MaxCheckpoints THEN Tail(checkpoints)
                                                   ELSE checkpoints,
              [start |-> frame, end |-> frame, image |-> memory])
  /\ open' = TRUE
  /\ UNCHANGED memory

ExtendNewest ==
  /\ ~open /\ checkpoints # << >>
  /\ checkpoints' = [checkpoints EXCEPT ![Len(checkpoints)].end = @ + 1]
  /\ open' = TRUE
  /\ UNCHANGED memory

Simulate ==
  /\ open
  /\ memory' \in [Cell -> Value]
  /\ UNCHANGED <<checkpoints, open>>

Seal == open /\ open' = FALSE /\ UNCHANGED <<memory, checkpoints>>

Restore(i) ==
  /\ ~open
  /\ memory' = checkpoints[i].image
  /\ checkpoints' = SubSeq(checkpoints, 1, i - 1)
  /\ UNCHANGED open

Forget(i) ==
  /\ ~open
  /\ checkpoints' = SubSeq(checkpoints, i + 1, Len(checkpoints))
  /\ UNCHANGED <<memory, open>>

(* A value that a later input makes a little different, in some copies. *)
Adjust(after, through, c) ==
  /\ ~open
  /\ checkpoints' =
       [i \in DOMAIN checkpoints |->
          IF checkpoints[i].start \in after + 1 .. through
          THEN [checkpoints[i] EXCEPT !.image[c] = Adjusted(@)]
          ELSE checkpoints[i]]
  /\ UNCHANGED <<memory, open>>

Restart == checkpoints' = << >> /\ open' = FALSE /\ UNCHANGED memory

SnapshotsNext ==
  \/ Simulate \/ Seal \/ Restart \/ ExtendNewest
  \/ \E frame \in Frame : Checkpoint(frame)
  \/ \E i \in DOMAIN checkpoints : Restore(i) \/ Forget(i)
  \/ \E after, through \in Frame, c \in Cell : Adjust(after, through, c)

SnapshotsSpec == SnapshotsInit /\ [][SnapshotsNext]_snapshotVars
===========================================================================
