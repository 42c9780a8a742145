------------------------------- MODULE Journals -------------------------------
(***************************************************************************)
(* A title whose pool is kept by both journals, as one that moves from the *)
(* first to the second would: the pool is a copy of the first cells of the *)
(* memory, and the same frames, touches, writes and undos go to both.      *)
(***************************************************************************)
EXTENDS RollbackJournal, PartitionedPoolJournal

ASSUME SharedAssumption ==
  /\ Slots * Parts <= Cells /\ PartValue = Value
  /\ MaxPoolRecords = MaxRecords /\ MaxPoolFrame = MaxFrame

vars == <<journalVars, poolVars>>

KeysOf(b) == {c - 1 : c \in Span(b)} \cap Key

BothBegin(frame, extend) ==
  /\ PoolBeginFrame(frame, extend)
  /\ \/ ~extend /\ BeginFrame(frame)
     \/ extend /\ ExtendFrame(frame)
     \/ RejectFrame(frame, extend)

(* The pool is saved at once, also in the capture window; outside it by a  *)
(* Touch of every slot the block reaches.                                  *)
BothTouch(b) ==
  /\ IF window.open THEN CaptureMasks(KeysOf(b)) ELSE PoolSave(KeysOf(b))
  /\ TouchAgain(b) \/ \E grows \in BOOLEAN : Touch(b, grows)

BothWrite(c, v) ==
  /\ Write(c, v)
  /\ IF c - 1 \in Key THEN PoolWrite(c - 1, v) ELSE UNCHANGED poolVars

OnlyJournal ==
  /\ \/ BeginReadOnlyCapture \/ EndReadOnlyCapture \/ TouchNothing
     \/ \E b \in Touchable : RejectTouch(b)
     \/ \E after, through \in Frame, c \in Cell :
          c - 1 \notin Key /\ AddFloatPairToSnapshots(after, through, c)
  /\ UNCHANGED poolVars

(* A part is touched outside any frame: only the pool's journal fails. *)
OnlyPool == ~frameOpen /\ PoolTouch(0, {0}) /\ UNCHANGED journalVars

BothInit == Init /\ PoolInit /\ \A k \in Key : pool[k] = memory[k + 1]

BothNext ==
  \/ \E frame \in Frame : \/ \E extend \in BOOLEAN : BothBegin(frame, extend)
                          \/ UndoTo(frame) /\ PoolUndoTo(frame)
                          \/ DiscardBefore(frame) /\ PoolDiscardBefore(frame)
  \/ EndFrame /\ PoolEndFrame
  \/ \E b \in Touchable : BothTouch(b)
  \/ \E c \in Cell, v \in Value : BothWrite(c, v)
  \/ OnlyJournal \/ OnlyPool
  \/ Reset /\ PoolReset

BothSpec == BothInit /\ [][BothNext]_vars

(* Both journals restore the same pool, though one goes through its        *)
(* checkpoints from the newest to the oldest and skips what an older one   *)
(* covers, and the other from the oldest and skips what it has restored.   *)
JournalsAgree == \A k \in Key : pool[k] = memory[k + 1]
===========================================================================
