--------------------------- MODULE RollbackPeer ---------------------------
(***************************************************************************)
(* One peer: its rollback core, driven by the title's frame loop and by    *)
(* the packets of the other players.                                       *)
(*                                                                         *)
(* The title is not in this repository.  Its loop is the one of            *)
(* src/tests/session-channel-test.cpp (capture, reconcile, PrepareFrame,   *)
(* MarkSimulated), with two liberties a title has: it may capture          *)
(* CaptureLead frames ahead of its simulation, and it may rewind to any    *)
(* frame it still has a snapshot of, MaxRollback frames back.              *)
(*                                                                         *)
(* The other players are honest and the network is arbitrary: a packet     *)
(* holds a window of what its sender captured, and may arrive late, twice, *)
(* after newer ones, or never.  RollbackNet provides this environment to   *)
(* each of its peers (EveryPeerIsARollbackPeer in RollbackNetProofs).      *)
(***************************************************************************)
EXTENDS RollbackCore

CONSTANTS
  Local,           \* the seat of this peer
  CaptureLead,     \* how far the title captures ahead of its simulation
  Equivalent,      \* pairs <<used, actual>> the title proves interchangeable
  Pressable,       \* bound: Pressable[q] are the inputs player q may press
  MaxFrame,        \* bound: no player captures more frames than this
  AckedFrames      \* bound: packets acknowledge only frames below this

ASSUME PeerAssumption ==
  /\ Local \in Player
  /\ CaptureLead \in Nat /\ MaxFrame \in Nat /\ AckedFrames \in Nat
  /\ MaxRollback + InputDelay + CaptureLead < History
  /\ Equivalent \subseteq Input \X Input
  /\ Pressable \in [Player -> SUBSET Input]

VARIABLES
  core,      \* this peer's RollbackCore
  stream,    \* what each player really captured: frame f at index f + 1
  peak,      \* the last frame the title ever simulated; it keeps snapshots
             \* of the MaxRollback frames up to this one
  exported   \* the confirmed inputs a replay or a spectator has read

vars == <<core, stream, peak, exported>>

Remote == Player \ {Local}
Captured(q) == Len(stream[q])
Pressed(q, f) == stream[q][f + 1]
NextFrame == core.last + 1

---------------------------------------------------------------------------
(* The frames before InputDelay have no capture: they are neutral, unless  *)
(* their player replaces them.                                             *)
Init ==
  /\ core = ResetCore(Local)
  /\ stream = [q \in Player |-> [i \in 1 .. InputDelay |-> Neutral]]
  /\ peak = None
  /\ exported = << >>

(* The title captures the next frame of the local player. *)
Capture(v) ==
  LET captureFrame == Captured(Local) - InputDelay
  IN  /\ Captured(Local) < MaxFrame
      /\ captureFrame <= NextFrame + CaptureLead
      /\ CanSchedule(core, captureFrame, v)
      /\ core' = ScheduleLocalInput(core, captureFrame, v)
      /\ stream' = [stream EXCEPT ![Local] = Append(@, v)]
      /\ UNCHANGED <<peak, exported>>

(* Before it starts, the title may replace a neutral startup frame by      *)
(* agreed bootstrap data.                                                  *)
Bootstrap(f, v) ==
  /\ peak = None /\ Captured(Local) = InputDelay
  /\ CanSetLeadIn(core, f, v)
  /\ core' = SetLocalLeadInInput(core, f, v)
  /\ stream' = [stream EXCEPT ![Local][f + 1] = v]
  /\ UNCHANGED <<peak, exported>>

(* Another player replaces its startup frames, before its first capture,   *)
(* and captures.  It needs our inputs to advance, which bounds how far     *)
(* ahead of our own captures it can be.                                    *)
RemoteBootstrap(q, f, v) ==
  /\ Captured(q) = InputDelay
  /\ stream' = [stream EXCEPT ![q][f + 1] = v]
  /\ UNCHANGED <<core, peak, exported>>

RemoteLead == MaxRollback + CaptureLead + InputDelay + 1

RemoteCapture(q, v) ==
  /\ Captured(q) < Smaller(MaxFrame, Captured(Local) + RemoteLead)
  /\ stream' = [stream EXCEPT ![q] = Append(@, v)]
  /\ UNCHANGED <<core, peak, exported>>

(* The packets some state of player q may have sent once it has captured:  *)
(* a window of its stream, possibly empty, and an acknowledgement of a     *)
(* frame we captured.                                                      *)
Window(q, first, count, ack) ==
  [from   |-> q,
   first  |-> IF count = 0 THEN None ELSE first,
   inputs |-> [i \in 1 .. count |-> Pressed(q, first + i - 1)],
   ack    |-> ack]

HonestPackets(q) ==
  {Window(q, w[1], w[2], w[3]) :
     w \in {x \in (0 .. Captured(q)) \X (0 .. MaxRedundant)
                                     \X (None .. Smaller(AckedFrames, Captured(Local)) - 1) :
              Captured(q) > InputDelay /\ x[1] + x[2] <= Captured(q)}}

Deliver(pkt) ==
  /\ AcceptsPacket(core, pkt)
  /\ core' = ApplyInputPacket(core, pkt)
  /\ UNCHANGED <<stream, peak, exported>>

(* The title proves that a sample it received cannot change what it        *)
(* simulated, and confirms it without a rollback.  The core does not ask   *)
(* that the sample be new; a title that proposed a confirmed one could     *)
(* take the slot of a newer frame.                                         *)
ConfirmEquivalent(q, f) ==
  /\ Captured(q) > InputDelay /\ f > core.confirmed[q]
  /\ IsPredicted(core, q, f)
  /\ <<UsedInput(core, q, f), Pressed(q, f)>> \in Equivalent
  /\ core' = SubmitEquivalentRemoteInput(core, q, f, Pressed(q, f))
  /\ UNCHANGED <<stream, peak, exported>>

(* The next frame.  The title reconciles first: with a rollback pending it  *)
(* could run past the snapshots the rollback needs.                        *)
Simulate ==
  /\ core.rollback = None
  /\ CanAdvance(core, NextFrame)
  /\ core' = MarkSimulated(core, NextFrame)
  /\ peak' = Larger(peak, NextFrame)
  /\ UNCHANGED <<stream, exported>>

(* A rollback: the title restores a snapshot and retires every later       *)
(* decision; the frames are then simulated again by Simulate.              *)
Rewind(first) ==
  /\ core.rollback # None
  /\ first > peak - MaxRollback
  /\ first <= core.rollback
  /\ CanRewind(core, first)
  /\ core' = RewindSimulationTo(core, first)
  /\ UNCHANGED <<stream, peak, exported>>

(* A replay or a spectator publisher reads the next confirmed frame. *)
Export ==
  LET f == Len(exported)
  IN  /\ CanExport(core, f)
      /\ exported' = Append(exported, ConfirmedInputs(core, f))
      /\ UNCHANGED <<core, stream, peak>>

Next ==
  \/ \E v \in Pressable[Local] : Capture(v)
  \/ \E f \in 0 .. InputDelay - 1, v \in Pressable[Local] : Bootstrap(f, v)
  \/ \E q \in Remote : \E f \in 0 .. InputDelay - 1, v \in Pressable[q] :
       RemoteBootstrap(q, f, v)
  \/ \E q \in Remote : \E v \in Pressable[q] : RemoteCapture(q, v)
  \/ \E q \in Remote : \E pkt \in HonestPackets(q) : Deliver(pkt)
  \/ \E q \in Remote : \E f \in 0 .. Captured(q) - 1 : ConfirmEquivalent(q, f)
  \/ Simulate
  \/ \E first \in 0 .. core.last : Rewind(first)
  \/ Export

Spec == Init /\ [][Next]_vars

---------------------------------------------------------------------------
(* Properties. *)

TypeOK ==
  /\ core \in Core /\ core.me = Local
  /\ stream \in [Player -> Seq(Input)]
  /\ peak \in FrameOrNone
  /\ exported \in Seq([Player -> Input])

(* Two inputs with which a simulated frame is the same. *)
Agree(used, actual) == used = actual \/ <<used, actual>> \in Equivalent

(* A simulated frame whose input is known for sure was simulated with this *)
(* input, or a rollback to this frame or an earlier one is pending: no     *)
(* order of predictions, late packets and rewinds lets a misprediction     *)
(* survive.                                                                *)
ConfirmedFramesReconciled ==
  \A q \in Player : \A f \in 0 .. core.last :
    (HasUsed(core, f) /\ f <= core.confirmed[q]) =>
      \/ Agree(UsedInput(core, q, f), Pressed(q, f))
      \/ core.rollback # None /\ core.rollback <= f

(* What a replay or a spectator has read is what the players pressed, and  *)
(* no later rollback makes the peer simulate such a frame otherwise.       *)
ExportsAreFinal ==
  \A f \in 0 .. Len(exported) - 1 : \A q \in Player :
    /\ exported[f + 1][q] = Pressed(q, f)
    /\ HasUsed(core, f) => UsedInput(core, q, f) = Pressed(q, f)

(* A rollback never asks for a frame the title has no snapshot of, and     *)
(* the core accepts to rewind to it.                                       *)
RollbackIsPossible ==
  core.rollback # None =>
    core.rollback > peak - MaxRollback /\ CanRewind(core, core.rollback)

(* The ring never drops an input that a frame still to be simulated needs: *)
(* otherwise PrepareFrame finds a hole in confirmed history and the peer   *)
(* is stuck for good.                                                      *)
NoHoleInConfirmedHistory ==
  \A q \in Player : \A f \in NextFrame .. core.confirmed[q] :
    Present(core.inputs[q], f)

(* A sample whose slot was taken by a frame History later. *)
Evicted(q, f) ==
  ~FrameIsTooOld(core, f) /\ core.inputs[q][f % History].frame > f

(* The session fails when a packet is refused.  A packet of an honest      *)
(* player, however late, is refused only if it repeats a frame that is     *)
(* not yet expired but whose slot a newer frame already took.              *)
RefusedOnlyIfEvicted ==
  \A q \in Remote : \A pkt \in HonestPackets(q) :
    \/ AcceptsPacket(core, pkt)
    \/ \E f \in PacketFrames(pkt) : f <= core.confirmed[q] /\ Evicted(q, f)

(* ApplyInputPacket stores all samples of an accepted packet at once; this *)
(* is what its loop over SubmitRemoteInput computes.                       *)
BatchIsSampleLoop ==
  \A q \in Remote : \A pkt \in HonestPackets(q) :
    AcceptsPacket(core, pkt) =>
      ApplyInputPacket(core, pkt) = SamplesOneByOne(core, pkt)

(* "Benign expired retransmissions retain their prior TooOld result"       *)
(* (src/README.md:153), "benign expired retransmission"                    *)
(* (src/src/netplay/NetplayCore.cpp:502): a late copy of samples this peer *)
(* confirmed long ago is never refused.                                    *)
ExpiredRetransmissionIsBenign ==
  \A q \in Remote : \A pkt \in HonestPackets(q) :
    (\A f \in PacketFrames(pkt) : f <= core.confirmed[q]) =>
      AcceptsPacket(core, pkt)
===========================================================================
