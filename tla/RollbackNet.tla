---------------------------- MODULE RollbackNet ----------------------------
(***************************************************************************)
(* A netplay session after its handshake: one rollback core per player,    *)
(* and the input packets SessionChannel moves between them                 *)
(* (src/src/netplay/SessionChannel.cpp, SendInputs and Receive).           *)
(*                                                                         *)
(* The input lane is an unordered, unreliable data channel, doubled by a   *)
(* reliable repair lane and a relay: a packet may be lost, overtaken and   *)
(* received twice.  A peer that refuses a packet fails for good.           *)
(***************************************************************************)
EXTENDS RollbackCore, FiniteSets

CONSTANTS
  CaptureLead,     \* how far a title captures ahead of its simulation
  BootstrapEarly,  \* titles replace startup frames before they start
  Readers,         \* the peers where a replay or a spectator host reads
  Observer,        \* any peer: properties of one peer speak of this one
  Pressable,       \* bound: Pressable[q] are the inputs player q may press
  MaxFrame,        \* bound: no player captures more frames than this
  Capacity         \* bound: packets in flight from one peer to another

ASSUME NetAssumption ==
  /\ CaptureLead \in Nat /\ MaxFrame \in Nat /\ Capacity \in Nat \ {0}
  /\ MaxRollback + InputDelay + CaptureLead < History
  /\ BootstrapEarly \in BOOLEAN /\ Readers \subseteq Player
  /\ Observer \in Player
  /\ Pressable \in [Player -> SUBSET Input]

VARIABLES
  cores,     \* cores[p]: the RollbackCore of peer p
  latest,    \* latest[p]: SessionChannel::latestCapture_, as a frame count
  peaks,     \* peaks[p]: the last frame the title of p ever simulated
  stream,    \* stream[q]: what player q captured, frame f at f + 1
  exported,  \* exported[p]: the confirmed inputs read at peer p
  wire,      \* wire[p][q]: the packets in flight from p to q
  failed     \* the peers whose session failed (SessionChannel::failure_)

vars == <<cores, latest, peaks, stream, exported, wire, failed>>

Running(p) == p \notin failed
NextFrame(p) == cores[p].last + 1
Captured(p) == Len(stream[p])

---------------------------------------------------------------------------
Init ==
  /\ cores = [p \in Player |-> ResetCore(p)]
  /\ latest = [p \in Player |-> 0]
  /\ peaks = [p \in Player |-> None]
  /\ stream = [p \in Player |-> [i \in 1 .. InputDelay |-> Neutral]]
  /\ exported = [p \in Readers |-> << >>]
  /\ wire = [p \in Player |-> [q \in Player |-> {}]]
  /\ failed = {}

(* The title captures its next frame and notifies LocalCaptured. *)
Capture(p, v) ==
  /\ Running(p) /\ Captured(p) < MaxFrame
  /\ latest[p] <= NextFrame(p) + CaptureLead
  /\ CanSchedule(cores[p], latest[p], v)
  /\ cores' = [cores EXCEPT ![p] = ScheduleLocalInput(@, latest[p], v)]
  /\ stream' = [stream EXCEPT ![p] = Append(@, v)]
  /\ latest' = [latest EXCEPT ![p] = @ + 1]
  /\ UNCHANGED <<peaks, exported, wire, failed>>

Bootstrap(p, f, v) ==
  /\ Running(p) /\ CanSetLeadIn(cores[p], f, v)
  /\ BootstrapEarly => latest[p] = 0 /\ peaks[p] = None
  /\ cores' = [cores EXCEPT ![p] = SetLocalLeadInInput(@, f, v)]
  /\ stream' = [stream EXCEPT ![p][f + 1] = v]
  /\ UNCHANGED <<latest, peaks, exported, wire, failed>>

Simulate(p) ==
  /\ Running(p) /\ cores[p].rollback = None
  /\ CanAdvance(cores[p], NextFrame(p))
  /\ cores' = [cores EXCEPT ![p] = MarkSimulated(@, NextFrame(p))]
  /\ peaks' = [peaks EXCEPT ![p] = Larger(@, NextFrame(p))]
  /\ UNCHANGED <<latest, stream, exported, wire, failed>>

Rewind(p) ==
  LET first == cores[p].rollback
  IN  /\ Running(p) /\ first # None /\ CanRewind(cores[p], first)
      /\ first > peaks[p] - MaxRollback
      /\ cores' = [cores EXCEPT ![p] = RewindSimulationTo(@, first)]
      /\ UNCHANGED <<latest, peaks, stream, exported, wire, failed>>

Export(p) ==
  LET f == Len(exported[p])
  IN  /\ CanExport(cores[p], f)
      /\ exported' = [exported EXCEPT ![p] =
                        Append(@, ConfirmedInputs(cores[p], f))]
      /\ UNCHANGED <<cores, latest, peaks, stream, wire, failed>>

---------------------------------------------------------------------------
(* Mutant: nothing is sent when every own input is acknowledged. *)
SendUnacknowledged(p, q) ==
  LET pkt == BuildInputPacket(cores[p], q, LocalFrameForCapture(latest[p] - 1))
  IN  /\ Running(p) /\ latest[p] > 0 /\ pkt.inputs # << >>
      /\ pkt \notin wire[p][q] /\ Cardinality(wire[p][q]) < Capacity
      /\ wire' = [wire EXCEPT ![p][q] = @ \cup {pkt}]
      /\ UNCHANGED <<cores, latest, peaks, stream, exported, failed>>

(* SendInputs, for one peer: the resend timer runs for ever, so a packet   *)
(* may be sent whenever something was captured.                            *)
Send(p, q) ==
  LET pkt == BuildInputPacket(cores[p], q, LocalFrameForCapture(latest[p] - 1))
  IN  /\ Running(p) /\ latest[p] > 0
      /\ pkt \notin wire[p][q] /\ Cardinality(wire[p][q]) < Capacity
      /\ wire' = [wire EXCEPT ![p][q] = @ \cup {pkt}]
      /\ UNCHANGED <<cores, latest, peaks, stream, exported, failed>>

(* Receive: a refused packet is a session failure (InputConflict). *)
Accept(q, pkt) ==
  /\ Running(q)
  /\ IF AcceptsPacket(cores[q], pkt)
     THEN /\ cores' = [cores EXCEPT ![q] = ApplyInputPacket(@, pkt)]
          /\ UNCHANGED failed
     ELSE /\ failed' = failed \cup {q}
          /\ UNCHANGED cores
  /\ UNCHANGED <<latest, peaks, stream, exported>>

Receive(p, q) ==
  \E pkt \in wire[p][q] :
    /\ Accept(q, pkt)
    /\ wire' = [wire EXCEPT ![p][q] = @ \ {pkt}]

(* A copy arrives, another one is still under way. *)
ReceiveCopy(p, q) ==
  \E pkt \in wire[p][q] : Accept(q, pkt) /\ UNCHANGED wire

Lose(p, q) ==
  \E pkt \in wire[p][q] :
    /\ wire' = [wire EXCEPT ![p][q] = @ \ {pkt}]
    /\ UNCHANGED <<cores, latest, peaks, stream, exported, failed>>

Links == {l \in Player \X Player : l[1] # l[2]}

Next ==
  \/ \E p \in Player : \E v \in Pressable[p] : Capture(p, v)
  \/ \E p \in Player : \E f \in 0 .. InputDelay - 1, v \in Pressable[p] :
       Bootstrap(p, f, v)
  \/ \E p \in Player : Simulate(p) \/ Rewind(p)
  \/ \E p \in Readers : Export(p)
  \/ \E l \in Links : \/ Send(l[1], l[2]) \/ Receive(l[1], l[2])
                      \/ ReceiveCopy(l[1], l[2]) \/ Lose(l[1], l[2])

Spec == Init /\ [][Next]_vars

(* The title's loop and the resend timer keep running, and a link does not *)
(* lose every packet: the repair lane is reliable.  Nothing obliges a      *)
(* packet to be lost or copied.                                            *)
Fairness ==
  /\ \A p \in Player : /\ WF_vars(\E v \in Pressable[p] : Capture(p, v))
                       /\ WF_vars(Simulate(p)) /\ WF_vars(Rewind(p))
  /\ \A p \in Readers : WF_vars(Export(p))
  /\ \A l \in Links : WF_vars(Send(l[1], l[2])) /\ SF_vars(Receive(l[1], l[2]))

FairSpec == Spec /\ Fairness

---------------------------------------------------------------------------
(* Properties. *)

(* No packet an honest peer sent ever makes the receiver fail. *)
NoHonestFailure == failed = {}

(* An acknowledgement is never ahead of what the peer really confirmed:    *)
(* the sender drops no input the peer still waits for.                     *)
AcksAreConfirmed ==
  \A p, q \in Player :
    p # q => cores[p].peerAck[q] <= cores[q].confirmed[p]

(* Every peer plays every frame with the inputs all players pressed.       *)
Session == INSTANCE Lockstep
             WITH pressed <- stream, played <- exported, Peer <- Readers
ImplementsLockstep == Session!LockstepSpec

(* Seen from one peer, the session is a RollbackPeer: the other players    *)
(* and the network are one of the environments RollbackPeer allows, so     *)
(* what holds of RollbackPeer holds of every peer of a session.            *)
ObservedPeer == INSTANCE RollbackPeer
                  WITH Local <- Observer, core <- cores[Observer],
                       peak <- peaks[Observer],
                       exported <- IF Observer \in Readers
                                   THEN exported[Observer] ELSE << >>,
                       Equivalent <- {}, AckedFrames <- MaxFrame
ImplementsRollbackPeer == ObservedPeer!Spec

(* Every frame is eventually captured, confirmed, reconciled and read at   *)
(* every peer, whatever was lost on the way.                               *)
EveryFrameIsPlayed ==
  \A p \in Readers : <>(Len(exported[p]) = MaxFrame)

(* Every peer learns that the others have all of its input: CanRetire can  *)
(* become true.                                                            *)
EveryInputIsAcknowledged ==
  \A p, q \in Player : p # q => <>(cores[p].peerAck[q] = MaxFrame - 1)
===========================================================================
