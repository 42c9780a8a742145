------------------------ MODULE PartitionedPoolJournal ------------------------
(***************************************************************************)
(* The undo journal of a fixed pool of slots in parts                      *)
(* (src/include/eagler/netplay/PartitionedPoolJournal.hpp).  Every part of *)
(* every slot has a key; a checkpoint saves a part before its first write, *)
(* and an undo takes, part by part, the oldest copy it finds.              *)
(***************************************************************************)
EXTENDS Integers, Sequences, FiniteSetsExt

CONSTANTS
  Slots, Parts,  \* Count and Parts of the template
  PartValue,     \* what a part may hold
  Missing,       \* a part that a checkpoint has not saved
  MaxPoolRecords,    \* the checkpoints Reset was asked for
  MaxPoolFrame       \* bound: the frames that are simulated

ASSUME PoolAssumption ==
  /\ Slots \in Nat /\ Parts \in Nat /\ MaxPoolRecords \in Nat \ {0}
  /\ MaxPoolFrame \in Nat /\ Missing \notin PartValue

VARIABLES
  pool,         \* the memory of the pool, part by part
  poolRecords,  \* records_ from head_ on, the oldest first
  poolOpen,     \* open_
  poolFailed    \* failed_

poolVars == <<pool, poolRecords, poolOpen, poolFailed>>

Key == 0 .. Slots * Parts - 1
KeyOf(slot, part) == slot * Parts + part
PoolFrame == 0 .. MaxPoolFrame

Back == poolRecords[Len(poolRecords)]

PoolFail ==
  /\ poolFailed' = TRUE /\ UNCHANGED <<pool, poolRecords, poolOpen>>

PoolCanBegin(frame, extend) ==
  IF extend THEN poolRecords # << >> /\ frame = Back.last + 1
            ELSE poolRecords # << >> => frame > Back.last

PoolRoom(ring) == IF Len(ring) = MaxPoolRecords THEN Tail(ring) ELSE ring

PoolBegun(frame, extend) ==
  IF extend THEN [poolRecords EXCEPT ![Len(poolRecords)].last = frame]
  ELSE Append(PoolRoom(poolRecords),
              [first |-> frame, last |-> frame,
               saved |-> [k \in Key |-> Missing]])

PoolBeginFrame(frame, extend) ==
  /\ ~poolOpen /\ ~poolFailed
  /\ IF PoolCanBegin(frame, extend)
     THEN /\ poolRecords' = PoolBegun(frame, extend)
          /\ poolOpen' = TRUE /\ UNCHANGED <<pool, poolFailed>>
     ELSE PoolFail

(* Mutant: a part that was saved is saved again. *)
PlannedAgain(saved, keys) ==
  [k \in Key |-> IF k \in keys THEN pool[k] ELSE saved[k]]

(* PlanTouch and CopyBatch for all parts at once. *)
Planned(saved, keys) ==
  [k \in Key |-> IF k \in keys /\ saved[k] = Missing THEN pool[k] ELSE saved[k]]

PoolSave(keys) ==
  IF poolOpen /\ ~poolFailed
  THEN /\ poolRecords' = [poolRecords EXCEPT
                            ![Len(poolRecords)].saved = Planned(@, keys)]
       /\ UNCHANGED <<pool, poolOpen, poolFailed>>
  ELSE PoolFail

(* Touch of some parts of a slot, and CaptureMasks of parts of all slots,  *)
(* which refuses without failing when no frame is open.                    *)
PoolTouch(slot, parts) == PoolSave({KeyOf(slot, part) : part \in parts})
CaptureMasks(keys) == poolOpen /\ ~poolFailed /\ PoolSave(keys)

(* The title writes a part it has touched. *)
PoolWrite(k, v) ==
  /\ poolOpen /\ ~poolFailed /\ Back.saved[k] # Missing
  /\ pool' = [pool EXCEPT ![k] = v]
  /\ UNCHANGED <<poolRecords, poolOpen, poolFailed>>

PoolEndFrame ==
  /\ poolOpen /\ ~poolFailed /\ poolOpen' = FALSE
  /\ UNCHANGED <<pool, poolRecords, poolFailed>>

(* Mutant: the undo begins with the checkpoint after the one asked for. *)
CopiesAfter(i, k) ==
  {j \in i + 1 .. Len(poolRecords) : poolRecords[j].saved[k] # Missing}

Copies(i, k) ==
  {j \in i .. Len(poolRecords) : poolRecords[j].saved[k] # Missing}

PoolRestored(i) ==
  [k \in Key |-> IF Copies(i, k) = {} THEN pool[k]
                 ELSE poolRecords[Min(Copies(i, k))].saved[k]]

PoolUndoTo(frame) ==
  /\ ~poolOpen /\ ~poolFailed
  /\ \E i \in DOMAIN poolRecords :
       /\ poolRecords[i].first <= frame /\ frame <= poolRecords[i].last
       /\ pool' = PoolRestored(i)
       /\ poolRecords' = SubSeq(poolRecords, 1, i - 1)
  /\ UNCHANGED <<poolOpen, poolFailed>>

PoolDiscardBefore(frame) ==
  /\ ~poolOpen
  /\ \E n \in 0 .. Len(poolRecords) :
       /\ \A i \in 1 .. n : poolRecords[i].last < frame
       /\ n < Len(poolRecords) => poolRecords[n + 1].last >= frame
       /\ poolRecords' = SubSeq(poolRecords, n + 1, Len(poolRecords))
  /\ UNCHANGED <<pool, poolOpen, poolFailed>>

PoolReset ==
  /\ poolRecords' = << >> /\ poolOpen' = FALSE /\ poolFailed' = FALSE
  /\ UNCHANGED pool

PoolInit ==
  /\ pool \in [Key -> PartValue] /\ poolRecords = << >>
  /\ poolOpen = FALSE /\ poolFailed = FALSE

PoolNext ==
  \/ \E frame \in PoolFrame : \/ \E extend \in BOOLEAN : PoolBeginFrame(frame, extend)
                              \/ PoolUndoTo(frame) \/ PoolDiscardBefore(frame)
  \/ \E slot \in 0 .. Slots - 1, parts \in SUBSET (0 .. Parts - 1) :
       PoolTouch(slot, parts)
  \/ \E keys \in SUBSET Key : CaptureMasks(keys)
  \/ \E k \in Key, v \in PartValue : PoolWrite(k, v)
  \/ PoolEndFrame \/ PoolReset

PoolSpec == PoolInit /\ [][PoolNext]_poolVars

---------------------------------------------------------------------------
(* The checkpoints by what an undo to each of them would restore. *)
PoolCheckpoints ==
  [i \in DOMAIN poolRecords |->
     [start |-> poolRecords[i].first, end |-> poolRecords[i].last,
      image |-> PoolRestored(i)]]

(* This journal corrects no checkpoint. *)
Uncorrected(v) == v

(* First-write copies, of which an undo takes the oldest, restore what     *)
(* whole copies of the pool would.                                         *)
WholePool == INSTANCE Snapshots
               WITH Cell <- Key, Value <- PartValue, Frame <- PoolFrame,
                    Adjusted <- Uncorrected, MaxCheckpoints <- MaxPoolRecords,
                    memory <- pool, open <- poolOpen,
                    checkpoints <- PoolCheckpoints
PoolImplementsSnapshots == WholePool!SnapshotsSpec
===========================================================================
