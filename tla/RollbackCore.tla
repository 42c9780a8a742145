--------------------------- MODULE RollbackCore ---------------------------
(***************************************************************************)
(* The rollback core of one peer (src/src/netplay/NetplayCore.cpp): the    *)
(* ring of inputs per player, the ring of decisions the simulation used,   *)
(* the confirmed frontiers, the frontiers the peers acknowledged, the last *)
(* simulated frame and the pending rollback request.                       *)
(*                                                                         *)
(* A core is a record, and every method of the class RollbackCore that     *)
(* changes it is an operator from a core to a core, with its early returns *)
(* as a separate predicate.  RollbackPeer drives one core against an       *)
(* arbitrary honest environment, RollbackNet several cores over a lossy    *)
(* network.                                                                *)
(*                                                                         *)
(* A definition introduced as a mutant is a version of the next one with a *)
(* plausible bug, which the properties must notice; nothing else uses it.  *)
(*                                                                         *)
(* INVALID_FRAME (0xffffffff) is None, which is below every frame: the     *)
(* comparisons `x == INVALID_FRAME || x < f' of the code become `x < f'.   *)
(***************************************************************************)
EXTENDS Integers, Sequences

CONSTANTS
  Player,            \* the seats of the session
  Input,             \* the FrameInput values
  Neutral,           \* FrameInput{}: no button held, no touch
  PredictFrom(_, _), \* PredictFrom(v, d): what PredictInput repeats of a
                     \* sample v that is d frames old
  History,           \* INPUT_HISTORY_SIZE
  MaxRollback,       \* CoreConfig::maxRollbackFrames
  InputDelay,        \* CoreConfig::inputDelay
  MaxRedundant,      \* MAX_REDUNDANT_INPUTS
  AllowPrediction    \* CoreConfig::allowPrediction

None == -1
FrameOrNone == Nat \cup {None}

(* What Reset accepts, and what the two array bounds of the protocol are. *)
ASSUME CoreAssumption ==
  /\ Neutral \in Input
  /\ \A v \in Input, d \in 1 .. History : PredictFrom(v, d) \in Input
  /\ History \in Nat /\ MaxRollback \in Nat /\ InputDelay \in Nat
  /\ MaxRollback > 0 /\ 2 * MaxRollback < History
  /\ 4 * InputDelay < History
  /\ MaxRedundant \in Nat /\ MaxRedundant > 0 /\ MaxRedundant < History
  /\ AllowPrediction \in BOOLEAN

Slots == 0 .. History - 1
InputSlot == [frame : FrameOrNone, present : BOOLEAN, input : Input]
UsedSlot  == [frame : FrameOrNone, inputs : [Player -> Input],
              predicted : SUBSET Player]

Ring == [Slots -> InputSlot]

Core == [me        : Player,
         inputs    : [Player -> Ring],
         used      : [Slots -> UsedSlot],
         confirmed : [Player -> FrameOrNone],
         peerAck   : [Player -> FrameOrNone],
         last      : FrameOrNone,     \* lastSimulatedFrame_
         rollback  : FrameOrNone]     \* rollbackFrame_

Smaller(a, b) == IF a <= b THEN a ELSE b
Larger(a, b)  == IF a >= b THEN a ELSE b

---------------------------------------------------------------------------
(* The rings. *)

EmptySlot == [frame |-> None, present |-> FALSE, input |-> Neutral]
EmptyUsed == [frame |-> None, inputs |-> [q \in Player |-> Neutral],
              predicted |-> {}]

(* FindInputSlot: the slot of frame f still belongs to f and is filled. *)
Present(ring, f) ==
  LET s == ring[f % History] IN s.frame = f /\ s.present

InputAt(ring, f) == ring[f % History].input

(* GetInputSlot, then the assignments of input and present: whatever older *)
(* or newer frame the slot held is gone.                                   *)
Store(ring, f, v) ==
  [ring EXCEPT ![f % History] = [frame |-> f, present |-> TRUE, input |-> v]]

(* GetInputSlot alone: the slot is reset when it belongs to another frame. *)
Claim(ring, f) ==
  IF ring[f % History].frame = f THEN ring
  ELSE [ring EXCEPT ![f % History] = [EmptySlot EXCEPT !.frame = f]]

(* AdvanceConfirmedThrough: the end of the run of present frames after     *)
(* `from'.  Two frames of a run longer than History would share a slot.    *)
Advanced(ring, from) ==
  CHOOSE n \in from .. from + History :
    /\ \A f \in from + 1 .. n : Present(ring, f)
    /\ ~Present(ring, n + 1)

HasUsed(c, f) == c.used[f % History].frame = f
UsedInput(c, q, f) == c.used[f % History].inputs[q]
WasPredicted(c, q, f) == q \in c.used[f % History].predicted

FrameIsTooOld(c, f) == f <= c.last /\ c.last - f >= History

---------------------------------------------------------------------------
(* Reset, and the two methods that record the local player's input. *)

ResetCore(me) ==
  [me        |-> me,
   inputs    |-> [q \in Player |-> [s \in Slots |->
                   IF q = me /\ s < InputDelay
                   THEN [frame |-> s, present |-> TRUE, input |-> Neutral]
                   ELSE EmptySlot]],
   used      |-> [s \in Slots |-> EmptyUsed],
   confirmed |-> [q \in Player |-> IF q = me THEN InputDelay - 1 ELSE None],
   peerAck   |-> [q \in Player |-> None],
   last      |-> None,
   rollback  |-> None]

LocalFrameForCapture(f) == f + InputDelay

HasLocalCapture(c, captureFrame) ==
  Present(c.inputs[c.me], LocalFrameForCapture(captureFrame))

CanSchedule(c, captureFrame, v) ==
  LET f == LocalFrameForCapture(captureFrame)
  IN  Present(c.inputs[c.me], f) => InputAt(c.inputs[c.me], f) = v

ScheduleLocalInput(c, captureFrame, v) ==
  LET ring == Store(c.inputs[c.me], LocalFrameForCapture(captureFrame), v)
  IN  [c EXCEPT !.inputs[c.me]    = ring,
                !.confirmed[c.me] = Advanced(ring, @)]

CanSetLeadIn(c, f, v) ==
  /\ f < InputDelay /\ c.last = None
  /\ \A q \in Player \ {c.me} : c.peerAck[q] = None
  /\ Present(c.inputs[c.me], f)
  /\ InputAt(c.inputs[c.me], f) \in {Neutral, v}

SetLocalLeadInInput(c, f, v) == [c EXCEPT !.inputs[c.me] = Store(@, f, v)]

---------------------------------------------------------------------------
(* Prediction and simulation. *)

(* The distances at which PredictInput finds a sample of player q. *)
KnownDistances(c, q, f) ==
  {d \in 1 .. Smaller(f, History) : Present(c.inputs[q], f - d)}

PredictInput(c, q, f) ==
  LET known == KnownDistances(c, q, f)
      d     == CHOOSE d \in known : \A e \in known : d <= e
  IN  IF known = {} THEN Neutral
      ELSE PredictFrom(InputAt(c.inputs[q], f - d), d)

(* Mutant: one frame beyond the rollback window. *)
CanAdvanceOneMore(c, f) ==
  \A q \in Player :
    /\ ~AllowPrediction => c.confirmed[q] >= f
    /\ q # c.me => f - c.confirmed[q] <= MaxRollback + 1
    /\ ~Present(c.inputs[q], f) => q # c.me /\ f > c.confirmed[q]

CanAdvance(c, f) ==
  \A q \in Player :
    /\ ~AllowPrediction => c.confirmed[q] >= f
    /\ q # c.me => f - c.confirmed[q] <= MaxRollback
    /\ ~Present(c.inputs[q], f) => q # c.me /\ f > c.confirmed[q]

PrepareFrame(c, f) ==
  [frame     |-> f,
   inputs    |-> [q \in Player |-> IF Present(c.inputs[q], f)
                                   THEN InputAt(c.inputs[q], f)
                                   ELSE PredictInput(c, q, f)],
   predicted |-> {q \in Player : ~Present(c.inputs[q], f)}]

(* MarkSimulated of the decision PrepareFrame(c, f) just made. *)
MarkSimulated(c, f) ==
  [c EXCEPT !.used[f % History] = PrepareFrame(c, f),
            !.last              = Larger(@, f)]

CanRewind(c, first) ==
  /\ AllowPrediction
  /\ first \in 0 .. c.last /\ c.last - first < History
  /\ c.rollback # None => first <= c.rollback
  /\ \A f \in first .. c.last : HasUsed(c, f)

(* Mutant: the frontier goes one frame too far. *)
RewindTooFar(c, first) ==
  [c EXCEPT !.used     = [s \in Slots |-> IF @[s].frame >= first
                                          THEN EmptyUsed ELSE @[s]],
            !.last     = first - 2,
            !.rollback = None]

RewindSimulationTo(c, first) ==
  [c EXCEPT !.used     = [s \in Slots |-> IF @[s].frame >= first
                                          THEN EmptyUsed ELSE @[s]],
            !.last     = first - 1,
            !.rollback = None]

(* Mutants: no reconciliation is asked for; no confirmation is. *)
CanExportUnreconciled(c, f) ==
  /\ f <= c.last /\ HasUsed(c, f)
  /\ \A q \in Player : c.confirmed[q] >= f /\ Present(c.inputs[q], f)
CanExportUnconfirmed(c, f) ==
  /\ f <= c.last /\ HasUsed(c, f)
  /\ c.rollback # None => c.rollback > f
  /\ \A q \in Player : InputAt(c.inputs[q], f) = UsedInput(c, q, f)

(* ConfirmedInputs: what a replay or a spectator may read of frame f. *)
CanExport(c, f) ==
  /\ f <= c.last
  /\ c.rollback # None => c.rollback > f
  /\ HasUsed(c, f)
  /\ \A q \in Player : /\ c.confirmed[q] >= f
                       /\ Present(c.inputs[q], f)
                       /\ InputAt(c.inputs[q], f) = UsedInput(c, q, f)

ConfirmedInputs(c, f) == [q \in Player |-> InputAt(c.inputs[q], f)]

---------------------------------------------------------------------------
(* Remote input.  A packet carries the samples of the frames first ..      *)
(* first + Len(inputs) - 1 of player `from' and acknowledges `ack'.        *)

(* Frame f was simulated with a prediction that v contradicts. *)
Mispredicted(c, q, f, v) ==
  /\ HasUsed(c, f) /\ f <= c.last
  /\ WasPredicted(c, q, f) /\ UsedInput(c, q, f) # v

(* Mutant: a later misprediction replaces an earlier request. *)
SubmitKeepsLatest(c, q, f, v) ==
  IF FrameIsTooOld(c, f) \/ Present(c.inputs[q], f) THEN c
  ELSE LET ring == Store(c.inputs[q], f, v)
       IN  [c EXCEPT !.inputs[q]    = ring,
                     !.confirmed[q] = Advanced(ring, @),
                     !.rollback     = IF Mispredicted(c, q, f, v)
                                      THEN f ELSE @]

SubmitRemoteInput(c, q, f, v) ==
  IF FrameIsTooOld(c, f) \/ Present(c.inputs[q], f) THEN c
  ELSE LET ring == Store(c.inputs[q], f, v)
       IN  [c EXCEPT !.inputs[q]    = ring,
                     !.confirmed[q] = Advanced(ring, @),
                     !.rollback     = IF /\ Mispredicted(c, q, f, v)
                                         /\ @ = None \/ f < @
                                      THEN f ELSE @]

(* SubmitEquivalentRemoteInput: the slot is claimed before the checks that *)
(* may refuse the sample.                                                  *)
IsPredicted(c, q, f) ==
  HasUsed(c, f) /\ f <= c.last /\ WasPredicted(c, q, f)

SubmitEquivalentRemoteInput(c, q, f, v) ==
  IF FrameIsTooOld(c, f) \/ Present(c.inputs[q], f) THEN c
  ELSE IF ~IsPredicted(c, q, f)
       THEN [c EXCEPT !.inputs[q] = Claim(@, f)]
       ELSE LET ring == Store(c.inputs[q], f, v)
            IN  [c EXCEPT !.inputs[q]    = ring,
                          !.confirmed[q] = Advanced(ring, @)]

PacketFrames(pkt) == pkt.first .. pkt.first + Len(pkt.inputs) - 1
Sample(pkt, f) == pkt.inputs[f - pkt.first + 1]

(* The first frame a rollback may still have to simulate again. *)
OldestRecoverable(c) ==
  IF c.last < MaxRollback THEN 0 ELSE c.last - MaxRollback + 1

(* Mutant: no check of the slot's occupant. *)
NeverCollides(c, q, f) == FALSE

(* Storing frame f of player q would drop a frame that is still needed. *)
Collides(c, q, f) ==
  LET s == c.inputs[q][f % History]
  IN  /\ s.present /\ s.frame # f
      /\ s.frame >= OldestRecoverable(c) \/ s.frame = c.confirmed[q]

Conflicts(c, q, f, v) ==
  IF Present(c.inputs[q], f) THEN InputAt(c.inputs[q], f) # v
  ELSE /\ HasUsed(c, f) /\ f <= c.last
       /\ ~WasPredicted(c, q, f) /\ UsedInput(c, q, f) # v

(* Mutant: only the prediction budget is admitted ahead. *)
AcceptsWithinBudget(c, pkt) ==
  /\ pkt.ack <= c.confirmed[c.me]
  /\ \A f \in PacketFrames(pkt) :
       /\ f <= c.last + MaxRollback
       /\ ~FrameIsTooOld(c, f) =>
            /\ ~Collides(c, pkt.from, f)
            /\ ~Conflicts(c, pkt.from, f, Sample(pkt, f))

(* The validation of ApplyInputPacket, before it changes anything. *)
AcceptsPacket(c, pkt) ==
  /\ pkt.ack <= c.confirmed[c.me]
  /\ \A f \in PacketFrames(pkt) :
       /\ f < c.last + 1 + History
       /\ ~FrameIsTooOld(c, f) =>
            /\ ~Collides(c, pkt.from, f)
            /\ ~Conflicts(c, pkt.from, f, Sample(pkt, f))

(* The loop over SubmitRemoteInput, for all samples at once: an accepted   *)
(* packet is shorter than the ring, so its samples go to different slots.  *)
(* SamplesOneByOne below is the loop itself; BatchIsSampleLoop compares.   *)
FreshFrames(c, pkt) ==
  {f \in PacketFrames(pkt) :
     ~FrameIsTooOld(c, f) /\ ~Present(c.inputs[pkt.from], f)}

StoreAll(ring, frames, pkt) ==
  [s \in Slots |->
     LET here == {f \in frames : f % History = s}
         f    == CHOOSE f \in here : TRUE
     IN  IF here = {} THEN ring[s]
         ELSE [frame |-> f, present |-> TRUE, input |-> Sample(pkt, f)]]

Least(S) == CHOOSE x \in S : \A y \in S : x <= y

(* Mutant: a pending request is kept, even for an earlier misprediction. *)
ApplyKeepsRequest(c, pkt) ==
  LET q     == pkt.from
      fresh == FreshFrames(c, pkt)
      ring  == StoreAll(c.inputs[q], fresh, pkt)
      wrong == {f \in fresh : Mispredicted(c, q, f, Sample(pkt, f))}
  IN  [c EXCEPT !.peerAck[q]   = Larger(@, pkt.ack),
                !.inputs[q]    = ring,
                !.confirmed[q] = Advanced(ring, @),
                !.rollback     = IF wrong = {} \/ @ # None THEN @
                                 ELSE Least(wrong)]

ApplyInputPacket(c, pkt) ==
  LET q     == pkt.from
      fresh == FreshFrames(c, pkt)
      ring  == StoreAll(c.inputs[q], fresh, pkt)
      wrong == {f \in fresh : Mispredicted(c, q, f, Sample(pkt, f))}
  IN  [c EXCEPT !.peerAck[q]   = Larger(@, pkt.ack),
                !.inputs[q]    = ring,
                !.confirmed[q] = Advanced(ring, @),
                !.rollback     = IF wrong = {} THEN @
                                 ELSE Least(wrong \cup ({@} \ {None}))]

(* The loop of ApplyInputPacket itself: the core after the acknowledgement *)
(* and one SubmitRemoteInput per sample.                                   *)
SamplesOneByOne(c, pkt) ==
  LET after[k \in 0 .. Len(pkt.inputs)] ==
        IF k = 0 THEN [c EXCEPT !.peerAck[pkt.from] = Larger(@, pkt.ack)]
        ELSE SubmitRemoteInput(after[k - 1], pkt.from, pkt.first + k - 1,
                               Sample(pkt, pkt.first + k - 1))
  IN  after[Len(pkt.inputs)]

---------------------------------------------------------------------------
(* BuildInputPacket: the unacknowledged tail of the local input for one    *)
(* peer, at most MaxRedundant samples of it, up to the latest capture.     *)

(* Mutant: only the newest sample is sent. *)
NewestOnly(c, peer, latest) == latest

FirstUnacknowledged(c, peer, latest) ==
  IF c.peerAck[peer] = None THEN Larger(0, latest + 1 - MaxRedundant)
  ELSE c.peerAck[peer] + 1

(* Mutants: acknowledges a count, or the wrong player; shifts the samples. *)
AcksOneMore(c, peer) == c.confirmed[peer] + 1
AcksOwnFrontier(c, peer) == c.confirmed[c.me]
ShiftedSample(c, f) == InputAt(c.inputs[c.me], f + 1)

Acknowledgement(c, peer) == c.confirmed[peer]
LocalSample(c, f) == InputAt(c.inputs[c.me], f)

BuildInputPacket(c, peer, latest) ==
  LET first == FirstUnacknowledged(c, peer, latest)
      upTo  == Smaller(Advanced(c.inputs[c.me], first - 1),
                       Smaller(latest, first + MaxRedundant - 1))
  IN  [from   |-> c.me,
       first  |-> IF upTo < first THEN None ELSE first,
       inputs |-> [i \in 1 .. upTo - first + 1 |->
                     LocalSample(c, first + i - 1)],
       ack    |-> Acknowledgement(c, peer)]
===========================================================================
