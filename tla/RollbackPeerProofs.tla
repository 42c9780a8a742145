------------------------ MODULE RollbackPeerProofs ------------------------
(***************************************************************************)
(* Safety of one peer, for every value of the constants: its type          *)
(* invariant, that no misprediction survives a confirmation without a      *)
(* pending rollback, that what a replay or a spectator read is final, and  *)
(* that its rings are wide enough.                                         *)
(*                                                                         *)
(* The first three follow from one inductive invariant, IInv.  It adds     *)
(* what the properties leave implicit: where every sample in the rings     *)
(* and every decision of the simulation comes from, that the local input   *)
(* is never predicted, and that a pending rollback starts after the        *)
(* exported frames.                                                        *)
(***************************************************************************)
EXTENDS RollbackPeer, RollbackCoreProofs, SequenceTheorems

(* A remote player sends nothing before its first capture. *)
Started(q) == q # Local => Captured(q) > InputDelay

(* Every sample in a ring is what its player pressed. *)
SamplesHonest ==
  \A q \in Player, f \in Nat : Present(core.inputs[q], f) =>
    f < Captured(q) /\ InputAt(core.inputs[q], f) = Pressed(q, f) /\ Started(q)

(* No frontier is ahead of the captures. *)
FrontiersHonest ==
  \A q \in Player :
    /\ Captured(q) >= InputDelay /\ core.confirmed[q] < Captured(q)
    /\ core.confirmed[q] # None => Started(q)

(* An input the simulation did not predict is what its player pressed. *)
DecisionsHonest ==
  \A q \in Player, f \in Nat :
    HasUsed(core, f) /\ ~WasPredicted(core, q, f) =>
      f < Captured(q) /\ UsedInput(core, q, f) = Pressed(q, f) /\ Started(q)

LocalNeverPredicted ==
  \A f \in Nat : HasUsed(core, f) => ~WasPredicted(core, Local, f)

(* No decision is newer than the simulation, nothing was exported that was *)
(* never simulated.                                                        *)
Ordered ==
  /\ \A s \in Slots : core.used[s].frame <= core.last
  /\ core.last <= peak /\ Len(exported) <= peak + 1

(* ConfirmedFramesReconciled, also for samples beyond the frontier. *)
Reconciled ==
  \A q \in Player, f \in Nat :
    HasUsed(core, f) /\ (f <= core.confirmed[q] \/ Present(core.inputs[q], f)) =>
      \/ Agree(UsedInput(core, q, f), Pressed(q, f))
      \/ core.rollback # None /\ core.rollback <= f

(* ExportsAreFinal, of confirmed frames. *)
ExportsHonest ==
  \A f \in 0 .. Len(exported) - 1, q \in Player :
    /\ exported[f + 1][q] = Pressed(q, f)
    /\ f <= core.confirmed[q]
    /\ HasUsed(core, f) => UsedInput(core, q, f) = Pressed(q, f)

RequestAfterExports ==
  core.rollback # None => core.rollback >= Len(exported)

IInv ==
  /\ TypeOK /\ SamplesHonest /\ FrontiersHonest /\ DecisionsHonest
  /\ LocalNeverPredicted /\ Ordered /\ Reconciled /\ ExportsHonest
  /\ RequestAfterExports

---------------------------------------------------------------------------
(* Consequences. *)

LEMMA ConstantFacts ==
  /\ Local \in Player /\ Neutral \in Input
  /\ History \in Nat /\ History > 0 /\ InputDelay \in Nat /\ MaxRollback \in Nat
  /\ Remote \subseteq Player /\ Pressable \in [Player -> SUBSET Input]
  BY CoreAssumption, PeerAssumption DEF Remote

LEMMA StreamFacts ==
  ASSUME TypeOK
  PROVE  /\ \A q \in Player : Captured(q) \in Nat
         /\ \A q \in Player, f \in Nat : f < Captured(q) => Pressed(q, f) \in Input
  BY DEF TypeOK, Captured, Pressed

(* The fields of the core, with their types. *)
LEMMA CoreFacts ==
  ASSUME TypeOK
  PROVE  /\ core \in Core /\ core.me = Local
         /\ core.last \in FrameOrNone /\ core.rollback \in FrameOrNone
         /\ core.inputs \in [Player -> Ring]
         /\ core.used \in [Slots -> UsedSlot]
         /\ core.confirmed \in [Player -> FrameOrNone]
         /\ peak \in FrameOrNone
         /\ Len(exported) \in Nat
  BY DEF TypeOK, Core

(* A stream that grows keeps what it holds. *)
LEMMA AppendKeeps ==
  ASSUME TypeOK, NEW p \in Player, NEW v \in Input,
         stream' = [stream EXCEPT ![p] = Append(@, v)]
  PROVE  /\ stream' \in [Player -> Seq(Input)]
         /\ \A q \in Player : Captured(q)' \in Nat /\ Captured(q)' >= Captured(q)
         /\ \A q \in Player, f \in Nat : f < Captured(q) =>
              f < Captured(q)' /\ Pressed(q, f)' = Pressed(q, f)
         /\ Captured(p)' = Captured(p) + 1
         /\ \A f \in Nat : f = Captured(p) => Pressed(p, f)' = v
<1>1. stream \in [Player -> Seq(Input)]
  BY DEF TypeOK
<1>2. /\ stream'[p] = Append(stream[p], v)
      /\ \A q \in Player : q # p => stream'[q] = stream[q]
      /\ stream' \in [Player -> Seq(Input)]
  BY <1>1
<1>3. stream[p] \in Seq(Input)
  BY <1>1
<1>4. /\ Len(stream'[p]) = Len(stream[p]) + 1
      /\ \A i \in 1 .. Len(stream[p]) : stream'[p][i] = stream[p][i]
      /\ stream'[p][Len(stream[p]) + 1] = v
  BY <1>2, <1>3
<1>5. \A q \in Player : Len(stream[q]) \in Nat /\ Len(stream'[q]) \in Nat
  BY <1>1, <1>2
<1>6. ASSUME NEW q \in Player, NEW f \in Nat, f < Len(stream[q])
      PROVE  f < Len(stream'[q]) /\ stream'[q][f + 1] = stream[q][f + 1]
  <2>1. f + 1 \in 1 .. Len(stream[q])
    BY <1>5, <1>6
  <2> QED
    BY <1>2, <1>4, <1>5, <1>6, <2>1
<1>7. \A q \in Player : Len(stream'[q]) >= Len(stream[q])
  BY <1>2, <1>4, <1>5
<1>8. /\ Captured(p)' = Captured(p) + 1
      /\ \A f \in Nat : f = Captured(p) => Pressed(p, f)' = v
  BY <1>4 DEF Captured, Pressed
<1>9. \A q \in Player : Captured(q)' \in Nat /\ Captured(q)' >= Captured(q)
  BY <1>5, <1>7 DEF Captured
<1>10. \A q \in Player, f \in Nat : f < Captured(q) =>
         f < Captured(q)' /\ Pressed(q, f)' = Pressed(q, f)
  BY <1>6 DEF Captured, Pressed
<1> QED
  BY <1>2, <1>8, <1>9, <1>10

(* ConfirmedFramesReconciled and ExportsAreFinal are parts of IInv. *)
LEMMA InvariantImplies ==
  IInv => TypeOK /\ ConfirmedFramesReconciled /\ ExportsAreFinal
<1> SUFFICES ASSUME IInv
             PROVE  ConfirmedFramesReconciled /\ ExportsAreFinal
  BY DEF IInv
<1>1. TypeOK /\ Reconciled /\ ExportsHonest
  BY DEF IInv
<1>2. core.last \in Int /\ Len(exported) \in Nat
  BY <1>1, CoreFacts DEF FrameOrNone, None
<1>3. ConfirmedFramesReconciled
  BY <1>1, <1>2 DEF ConfirmedFramesReconciled, Reconciled
<1>4. ExportsAreFinal
  BY <1>1, <1>2 DEF ExportsAreFinal, ExportsHonest
<1> QED
  BY <1>3, <1>4

---------------------------------------------------------------------------
(* The initial state. *)

LEMMA InitInvariant == Init => IInv
<1> SUFFICES ASSUME Init PROVE IInv
  OBVIOUS
<1> USE ConstantFacts
<1>1. core = ResetCore(Local) /\ peak = None /\ exported = << >>
      /\ stream = [q \in Player |-> [i \in 1 .. InputDelay |-> Neutral]]
  BY DEF Init
<1>2. /\ \A q \in Player : stream[q] \in Seq(Input) /\ Len(stream[q]) = InputDelay
      /\ \A q \in Player, f \in Nat : f < InputDelay => Pressed(q, f) = Neutral
  <2>1. \A q \in Player : stream[q] = [i \in 1 .. InputDelay |-> Neutral]
    BY <1>1
  <2>2. [i \in 1 .. InputDelay |-> Neutral] \in Seq(Input)
    OBVIOUS
  <2>3. Len([i \in 1 .. InputDelay |-> Neutral]) = InputDelay
    OBVIOUS
  <2>4. \A f \in Nat : f < InputDelay => f + 1 \in 1 .. InputDelay
    OBVIOUS
  <2> QED
    BY <2>1, <2>2, <2>3, <2>4 DEF Pressed
<1>3. TypeOK
  <2>1. core \in Core /\ core.me = Local
    BY <1>1, ResetCoreType DEF ResetCore
  <2>2. stream \in [Player -> Seq(Input)]
    BY <1>1, <1>2
  <2> QED
    BY <1>1, <2>1, <2>2 DEF TypeOK, FrameOrNone
<1>4. SamplesHonest
  <2>1. ASSUME NEW q \in Player, NEW f \in Nat, Present(core.inputs[q], f)
        PROVE  q = Local /\ f < InputDelay /\ InputAt(core.inputs[q], f) = Neutral
    BY <1>1, <2>1, ResetCoreType
  <2> QED
    BY <1>2, <2>1 DEF SamplesHonest, Captured, Started
<1>5. /\ \A q \in Player : core.confirmed[q] = IF q = Local THEN InputDelay - 1
                                               ELSE None
      /\ core.used = [s \in Slots |-> EmptyUsed]
      /\ core.last = None /\ core.rollback = None
  BY <1>1 DEF ResetCore
<1>6. FrontiersHonest
  <2> SUFFICES ASSUME NEW q \in Player
               PROVE  /\ Captured(q) >= InputDelay
                      /\ core.confirmed[q] < Captured(q)
                      /\ core.confirmed[q] # None => Started(q)
    BY DEF FrontiersHonest
  <2>1. Captured(q) = InputDelay
    BY <1>2 DEF Captured
  <2>2. CASE q = Local
    BY <1>5, <2>1, <2>2 DEF Started
  <2>3. CASE q # Local
    BY <1>5, <2>1, <2>3 DEF Started, None
  <2> QED
    BY <2>2, <2>3
<1>7. \A f \in Nat : ~ HasUsed(core, f)
  <2>1. ASSUME NEW f \in Nat PROVE ~ HasUsed(core, f)
    <3>1. f % History \in Slots
      BY SlotOf
    <3>2. core.used[f % History].frame = None
      BY <1>5, <3>1 DEF EmptyUsed
    <3> QED
      BY <3>2 DEF HasUsed, None
  <2> QED
    BY <2>1
<1>8. DecisionsHonest /\ LocalNeverPredicted /\ Reconciled
  BY <1>7 DEF DecisionsHonest, LocalNeverPredicted, Reconciled
<1>9. Ordered
  BY <1>1, <1>5 DEF Ordered, EmptyUsed, None
<1>10. ExportsHonest /\ RequestAfterExports
  BY <1>1, <1>5 DEF ExportsHonest, RequestAfterExports
<1> QED
  BY <1>3, <1>4, <1>6, <1>8, <1>9, <1>10 DEF IInv

---------------------------------------------------------------------------
(* The actions of the other players.  Both change one stream only: what    *)
(* this peer holds of it stays what was pressed.                           *)

StreamKept ==
  /\ stream' \in [Player -> Seq(Input)]
  /\ \A q \in Player : Captured(q)' \in Nat /\ Captured(q)' >= Captured(q)
  /\ \A q \in Player, f \in Nat : f < Captured(q) /\ Started(q) =>
       f < Captured(q)' /\ Pressed(q, f)' = Pressed(q, f)

LEMMA StreamKeptInvariant ==
  ASSUME IInv, StreamKept, UNCHANGED <<core, peak, exported>>
  PROVE  IInv'
<1> USE ConstantFacts
<1>1. core' = core /\ peak' = peak /\ exported' = exported
  OBVIOUS
<1>2. TypeOK /\ TypeOK'
  BY <1>1 DEF IInv, TypeOK, StreamKept
<1>3. \A q \in Player : Captured(q) \in Nat /\ core.confirmed[q] \in FrameOrNone
  BY <1>2, StreamFacts, CoreFacts
<1>4. ASSUME NEW q \in Player, Started(q) PROVE Started(q)'
  BY <1>3, <1>4 DEF Started, StreamKept
<1>5. ASSUME NEW q \in Player, NEW f \in Nat,
             f < Captured(q) /\ Started(q)
      PROVE  f < Captured(q)' /\ Pressed(q, f)' = Pressed(q, f) /\ Started(q)'
  BY <1>4, <1>5 DEF StreamKept
<1>6. SamplesHonest'
  <2> SUFFICES ASSUME NEW q \in Player, NEW f \in Nat,
                      Present(core.inputs[q], f)
               PROVE  /\ f < Captured(q)'
                      /\ InputAt(core.inputs[q], f) = Pressed(q, f)'
                      /\ Started(q)'
    BY <1>1 DEF SamplesHonest
  <2>1. f < Captured(q) /\ InputAt(core.inputs[q], f) = Pressed(q, f) /\ Started(q)
    BY DEF IInv, SamplesHonest
  <2> QED
    BY <2>1, <1>5
<1>7. FrontiersHonest'
  <2> SUFFICES ASSUME NEW q \in Player
               PROVE  /\ Captured(q)' >= InputDelay
                      /\ core.confirmed[q] < Captured(q)'
                      /\ core.confirmed[q] # None => Started(q)'
    BY <1>1 DEF FrontiersHonest
  <2>1. /\ Captured(q) >= InputDelay /\ core.confirmed[q] < Captured(q)
        /\ core.confirmed[q] # None => Started(q)
    BY DEF IInv, FrontiersHonest
  <2>2. Captured(q)' \in Nat /\ Captured(q)' >= Captured(q)
    BY DEF StreamKept
  <2> QED
    BY <2>1, <2>2, <1>3, <1>4 DEF FrameOrNone, None
<1>8. DecisionsHonest'
  <2> SUFFICES ASSUME NEW q \in Player, NEW f \in Nat,
                      HasUsed(core, f), ~ WasPredicted(core, q, f)
               PROVE  /\ f < Captured(q)'
                      /\ UsedInput(core, q, f) = Pressed(q, f)'
                      /\ Started(q)'
    BY <1>1 DEF DecisionsHonest
  <2>1. f < Captured(q) /\ UsedInput(core, q, f) = Pressed(q, f) /\ Started(q)
    BY DEF IInv, DecisionsHonest
  <2> QED
    BY <2>1, <1>5
<1>9. LocalNeverPredicted' /\ Ordered' /\ RequestAfterExports'
  BY <1>1 DEF IInv, LocalNeverPredicted, Ordered, RequestAfterExports
<1>10. ASSUME NEW q \in Player, NEW f \in Nat, f <= core.confirmed[q]
       PROVE  f < Captured(q) /\ Started(q)
  <2>1. core.confirmed[q] < Captured(q) /\ (core.confirmed[q] # None => Started(q))
    BY DEF IInv, FrontiersHonest
  <2> QED
    BY <1>3, <1>10, <2>1 DEF FrameOrNone, None
<1>11. Reconciled'
  <2> SUFFICES ASSUME NEW q \in Player, NEW f \in Nat, HasUsed(core, f),
                      f <= core.confirmed[q] \/ Present(core.inputs[q], f)
               PROVE  \/ Agree(UsedInput(core, q, f), Pressed(q, f)')
                      \/ core.rollback # None /\ core.rollback <= f
    BY <1>1 DEF Reconciled, Agree
  <2>1. f < Captured(q) /\ Started(q)
    BY <1>10 DEF IInv, SamplesHonest
  <2>2. \/ Agree(UsedInput(core, q, f), Pressed(q, f))
        \/ core.rollback # None /\ core.rollback <= f
    BY DEF IInv, Reconciled
  <2> QED
    BY <2>1, <2>2, <1>5
<1>12. ExportsHonest'
  <2> SUFFICES ASSUME NEW f \in 0 .. Len(exported) - 1, NEW q \in Player
               PROVE  /\ exported[f + 1][q] = Pressed(q, f)'
                      /\ f <= core.confirmed[q]
                      /\ HasUsed(core, f) => UsedInput(core, q, f) = Pressed(q, f)'
    BY <1>1 DEF ExportsHonest
  <2>1. /\ exported[f + 1][q] = Pressed(q, f)
        /\ f <= core.confirmed[q]
        /\ HasUsed(core, f) => UsedInput(core, q, f) = Pressed(q, f)
    BY DEF IInv, ExportsHonest
  <2>2. f \in Nat
    BY CoreFacts, <1>2
  <2> QED
    BY <2>1, <2>2, <1>5, <1>10
<1> QED
  BY <1>2, <1>6, <1>7, <1>8, <1>9, <1>11, <1>12 DEF IInv

LEMMA RemoteCaptureStep ==
  ASSUME IInv, NEW q \in Remote, NEW v \in Pressable[q], RemoteCapture(q, v)
  PROVE  IInv'
<1>1. TypeOK /\ q \in Player /\ v \in Input
  BY ConstantFacts DEF IInv
<1>2. stream' = [stream EXCEPT ![q] = Append(@, v)]
  BY DEF RemoteCapture
<1>3. StreamKept
  BY <1>1, <1>2, AppendKeeps DEF StreamKept
<1> QED
  BY <1>3, StreamKeptInvariant DEF RemoteCapture

LEMMA RemoteBootstrapStep ==
  ASSUME IInv, NEW q \in Remote, NEW f \in 0 .. InputDelay - 1,
         NEW v \in Pressable[q], RemoteBootstrap(q, f, v)
  PROVE  IInv'
<1>1. /\ TypeOK /\ q \in Player /\ q # Local /\ v \in Input /\ f \in Nat
      /\ f + 1 \in 1 .. InputDelay
  BY ConstantFacts DEF IInv, Remote
<1>2. /\ Captured(q) = InputDelay
      /\ stream' = [stream EXCEPT ![q][f + 1] = v]
  BY DEF RemoteBootstrap
<1>3. stream \in [Player -> Seq(Input)]
  BY <1>1 DEF TypeOK
<1>4. /\ stream'[q] = [stream[q] EXCEPT ![f + 1] = v]
      /\ \A r \in Player : r # q => stream'[r] = stream[r]
  BY <1>1, <1>2, <1>3
<1>5. stream'[q] \in Seq(Input) /\ Len(stream'[q]) = Len(stream[q])
  <2> DEFINE old == stream[q]
  <2>1. old \in Seq(Input) /\ f + 1 \in 1 .. Len(old)
    BY <1>1, <1>2, <1>3 DEF Captured
  <2>2. stream'[q] = [old EXCEPT ![f + 1] = v]
    BY <1>4
  <2> HIDE DEF old
  <2>3. stream'[q] \in Seq(Input) /\ Len(stream'[q]) = Len(old)
    BY <1>1, <2>1, <2>2
  <2> QED
    BY <2>3 DEF old
<1>6. stream' \in [Player -> Seq(Input)]
  BY <1>2, <1>3, <1>4, <1>5
<1>7. ~ Started(q)
  BY <1>1, <1>2, ConstantFacts DEF Started
<1>8. StreamKept
  <2>1. \A r \in Player : Captured(r)' = Captured(r) /\ Captured(r) \in Nat
    BY <1>1, <1>4, <1>5, StreamFacts DEF Captured
  <2>2. \A r \in Player, g \in Nat : g < Captured(r) /\ Started(r) =>
          g < Captured(r)' /\ Pressed(r, g)' = Pressed(r, g)
    BY <1>4, <1>7, <2>1 DEF Pressed
  <2> QED
    BY <1>6, <2>1, <2>2 DEF StreamKept
<1> QED
  BY <1>8, StreamKeptInvariant DEF RemoteBootstrap

---------------------------------------------------------------------------
(* The actions that put samples of one player q into its ring.  The        *)
(* invariant holds after them if the ring is honest, the frontier passed   *)
(* only present frames, and a rollback is requested no later than the      *)
(* first new sample that contradicts a decision.                           *)

Arrival(q) ==
  /\ core' \in Core /\ core'.me = core.me
  /\ core'.used = core.used /\ core'.last = core.last
  /\ \A r \in Player \ {q} : /\ core'.inputs[r] = core.inputs[r]
                             /\ core'.confirmed[r] = core.confirmed[r]
  /\ UNCHANGED <<peak, exported>>

RingHonest(q) ==
  \A f \in Nat : Present(core'.inputs[q], f) =>
    /\ f < Captured(q)' /\ Started(q)'
    /\ InputAt(core'.inputs[q], f) = Pressed(q, f)'

FrontierOverPresent(q) ==
  /\ core'.confirmed[q] >= core.confirmed[q]
  /\ \A f \in core.confirmed[q] + 1 .. core'.confirmed[q] :
       Present(core'.inputs[q], f)

ContradictionsRequested(q) ==
  /\ \A f \in Nat :
       /\ HasUsed(core, f)
       /\ Present(core'.inputs[q], f) /\ ~ Present(core.inputs[q], f)
       => \/ Agree(UsedInput(core, q, f), Pressed(q, f)')
          \/ core'.rollback # None /\ core'.rollback <= f
  /\ core.rollback # None =>
       core'.rollback # None /\ core'.rollback <= core.rollback
  /\ core'.rollback # None => core'.rollback >= Len(exported)

LEMMA ArrivalInvariant ==
  ASSUME IInv, NEW q \in Player, Arrival(q), StreamKept, RingHonest(q),
         FrontierOverPresent(q), ContradictionsRequested(q)
  PROVE  IInv'
<1> USE ConstantFacts
<1>1. TypeOK /\ TypeOK'
  BY DEF IInv, TypeOK, Arrival, StreamKept
<1>2. /\ \A r \in Player : /\ Captured(r) \in Nat /\ Captured(r)' \in Nat
                           /\ core.confirmed[r] \in FrameOrNone
                           /\ core'.confirmed[r] \in FrameOrNone
      /\ core.rollback \in FrameOrNone /\ core'.rollback \in FrameOrNone
      /\ Len(exported) \in Nat
  BY <1>1, StreamFacts, CoreFacts DEF StreamKept, Arrival, Core
<1>3. ASSUME NEW r \in Player, NEW f \in Nat,
             f < Captured(r) /\ Started(r)
      PROVE  f < Captured(r)' /\ Pressed(r, f)' = Pressed(r, f) /\ Started(r)'
  BY <1>2, <1>3 DEF StreamKept, Started
<1>4. ASSUME NEW r \in Player, NEW f \in Nat, f <= core.confirmed[r]
      PROVE  f < Captured(r) /\ Started(r)
  <2>1. core.confirmed[r] < Captured(r) /\ (core.confirmed[r] # None => Started(r))
    BY DEF IInv, FrontiersHonest
  <2> QED
    BY <1>2, <1>4, <2>1 DEF FrameOrNone, None
<1>5. \A f : HasUsed(core, f)' <=> HasUsed(core, f)
  BY DEF Arrival, HasUsed
<1>6. \A r, f : /\ UsedInput(core, r, f)' = UsedInput(core, r, f)
                /\ WasPredicted(core, r, f)' <=> WasPredicted(core, r, f)
  BY DEF Arrival, UsedInput, WasPredicted
<1>7. SamplesHonest'
  <2> SUFFICES ASSUME NEW r \in Player, NEW f \in Nat,
                      Present(core'.inputs[r], f)
               PROVE  /\ f < Captured(r)'
                      /\ InputAt(core'.inputs[r], f) = Pressed(r, f)'
                      /\ Started(r)'
    BY DEF SamplesHonest
  <2>1. CASE r = q
    BY <2>1 DEF RingHonest
  <2>2. CASE r # q
    <3>1. core'.inputs[r] = core.inputs[r]
      BY <2>2 DEF Arrival
    <3>2. f < Captured(r) /\ InputAt(core.inputs[r], f) = Pressed(r, f) /\ Started(r)
      BY <3>1 DEF IInv, SamplesHonest
    <3> QED
      BY <3>1, <3>2, <1>3
  <2> QED
    BY <2>1, <2>2
<1>8. FrontiersHonest'
  <2> SUFFICES ASSUME NEW r \in Player
               PROVE  /\ Captured(r)' >= InputDelay
                      /\ core'.confirmed[r] < Captured(r)'
                      /\ core'.confirmed[r] # None => Started(r)'
    BY DEF FrontiersHonest
  <2>1. /\ Captured(r) >= InputDelay /\ core.confirmed[r] < Captured(r)
        /\ core.confirmed[r] # None => Started(r)
    BY DEF IInv, FrontiersHonest
  <2>2. Captured(r)' \in Nat /\ Captured(r)' >= Captured(r)
    BY DEF StreamKept
  <2>3. Started(r) => Started(r)'
    BY <1>2, <2>2 DEF Started
  <2>4. CASE core'.confirmed[r] = core.confirmed[r]
    BY <1>2, <2>1, <2>2, <2>3, <2>4 DEF FrameOrNone, None
  <2>5. CASE core'.confirmed[r] # core.confirmed[r]
    <3>1. r = q
      BY <2>5 DEF Arrival
    <3>2. /\ core'.confirmed[q] \in core.confirmed[q] + 1 .. core'.confirmed[q]
          /\ core'.confirmed[q] \in Nat
      BY <1>2, <2>5, <3>1, SMTT(30) DEF FrontierOverPresent, FrameOrNone, None
    <3>3. Present(core'.inputs[q], core'.confirmed[q])
      BY <3>2 DEF FrontierOverPresent
    <3> QED
      BY <2>1, <2>2, <1>2, <3>1, <3>2, <3>3 DEF RingHonest
  <2> QED
    BY <2>4, <2>5
<1>9. DecisionsHonest'
  <2> SUFFICES ASSUME NEW r \in Player, NEW f \in Nat,
                      HasUsed(core, f), ~ WasPredicted(core, r, f)
               PROVE  /\ f < Captured(r)'
                      /\ UsedInput(core, r, f) = Pressed(r, f)'
                      /\ Started(r)'
    BY <1>5, <1>6 DEF DecisionsHonest
  <2>1. f < Captured(r) /\ UsedInput(core, r, f) = Pressed(r, f) /\ Started(r)
    BY DEF IInv, DecisionsHonest
  <2> QED
    BY <2>1, <1>3
<1>10. LocalNeverPredicted'
  BY <1>5, <1>6 DEF IInv, LocalNeverPredicted
<1>11. Ordered'
  BY DEF IInv, Ordered, Arrival
<1>12. RequestAfterExports'
  BY DEF ContradictionsRequested, RequestAfterExports, Arrival
<1>13. Reconciled'
  <2> SUFFICES ASSUME NEW r \in Player, NEW f \in Nat, HasUsed(core, f),
                      f <= core'.confirmed[r] \/ Present(core'.inputs[r], f)
               PROVE  \/ Agree(UsedInput(core, r, f), Pressed(r, f)')
                      \/ core'.rollback # None /\ core'.rollback <= f
    BY <1>5, <1>6 DEF Reconciled, Agree
  <2>1. CASE f <= core.confirmed[r] \/ Present(core.inputs[r], f)
    <3>1. \/ Agree(UsedInput(core, r, f), Pressed(r, f))
          \/ core.rollback # None /\ core.rollback <= f
      BY <2>1 DEF IInv, Reconciled
    <3>2. f < Captured(r) /\ Started(r)
      BY <1>4, <2>1 DEF IInv, SamplesHonest
    <3>3. Pressed(r, f)' = Pressed(r, f)
      BY <3>2, <1>3
    <3>4. core.rollback # None /\ core.rollback <= f =>
            core'.rollback # None /\ core'.rollback <= f
      BY <1>2 DEF ContradictionsRequested, FrameOrNone, None
    <3> QED
      BY <3>1, <3>3, <3>4
  <2>2. CASE ~ (f <= core.confirmed[r] \/ Present(core.inputs[r], f))
    <3>1. r = q
      BY <2>2 DEF Arrival
    <3>2. Present(core'.inputs[q], f)
      BY <1>2, <2>2, <3>1 DEF FrontierOverPresent, FrameOrNone, None
    <3> QED
      BY <2>2, <3>1, <3>2 DEF ContradictionsRequested
  <2> QED
    BY <2>1, <2>2
<1>14. ExportsHonest'
  <2> SUFFICES ASSUME NEW f \in 0 .. Len(exported) - 1, NEW r \in Player
               PROVE  /\ exported[f + 1][r] = Pressed(r, f)'
                      /\ f <= core'.confirmed[r]
                      /\ HasUsed(core, f) => UsedInput(core, r, f) = Pressed(r, f)'
    BY <1>5, <1>6 DEF ExportsHonest, Arrival
  <2>1. /\ exported[f + 1][r] = Pressed(r, f)
        /\ f <= core.confirmed[r]
        /\ HasUsed(core, f) => UsedInput(core, r, f) = Pressed(r, f)
    BY DEF IInv, ExportsHonest
  <2>2. f \in Nat
    BY <1>2
  <2>3. Pressed(r, f)' = Pressed(r, f)
    BY <2>1, <2>2, <1>3, <1>4
  <2>4. core'.confirmed[r] >= core.confirmed[r]
    BY <1>2, SMTT(30) DEF Arrival, FrontierOverPresent, FrameOrNone, None
  <2>5. core.confirmed[r] \in Int /\ core'.confirmed[r] \in Int
    BY <1>2 DEF FrameOrNone, None
  <2>6. f <= core'.confirmed[r]
    BY <2>1, <2>2, <2>4, <2>5
  <2> QED
    BY <2>1, <2>3, <2>6
<1> QED
  BY <1>1, <1>7, <1>8, <1>9, <1>10, <1>11, <1>12, <1>13, <1>14 DEF IInv

(* An honest packet repeats what its sender captured. *)
LEMMA HonestPacketFacts ==
  ASSUME IInv, NEW q \in Remote, NEW pkt \in HonestPackets(q)
  PROVE  /\ pkt.from = q /\ pkt.ack \in FrameOrNone
         /\ Started(q)
         /\ \A f \in PacketFrames(pkt) :
              /\ f \in Nat /\ f < Captured(q)
              /\ Sample(pkt, f) = Pressed(q, f)
<1> USE ConstantFacts
<1>1. PICK first \in 0 .. Captured(q), count \in 0 .. MaxRedundant,
           ack \in None .. Smaller(AckedFrames, Captured(Local)) - 1 :
             /\ Captured(q) > InputDelay /\ first + count <= Captured(q)
             /\ pkt = Window(q, first, count, ack)
  BY DEF HonestPackets
<1>2. Captured(q) \in Nat /\ Captured(Local) \in Nat /\ AckedFrames \in Nat
      /\ first \in Nat /\ count \in Nat
  BY StreamFacts, PeerAssumption, CoreAssumption DEF IInv, Remote
<1>3. pkt.from = q /\ pkt.ack = ack
      /\ pkt.first = (IF count = 0 THEN None ELSE first)
      /\ pkt.inputs = [i \in 1 .. count |-> Pressed(q, first + i - 1)]
  BY <1>1 DEF Window
<1>4. ack \in FrameOrNone
  BY <1>2 DEF FrameOrNone, None, Smaller
<1>5. Len(pkt.inputs) = count
  BY <1>2, <1>3
<1>6. ASSUME NEW f \in PacketFrames(pkt)
      PROVE  f \in Nat /\ f < Captured(q) /\ Sample(pkt, f) = Pressed(q, f)
  <2>1. f \in pkt.first .. pkt.first + count - 1
    BY <1>5 DEF PacketFrames
  <2>2. count # 0 /\ pkt.first = first /\ f \in first .. first + count - 1
    BY <1>2, <1>3, <2>1 DEF None
  <2>3. f - first + 1 \in 1 .. count /\ first + (f - first + 1) - 1 = f
    BY <1>2, <2>2
  <2>4. Sample(pkt, f) = Pressed(q, first + (f - first + 1) - 1)
    BY <1>3, <2>2, <2>3 DEF Sample
  <2> QED
    BY <1>1, <1>2, <2>2, <2>3, <2>4
<1> QED
  BY <1>1, <1>3, <1>4, <1>6 DEF Started

LEMMA StreamUnchanged ==
  ASSUME TypeOK, stream' = stream
  PROVE  /\ StreamKept
         /\ \A q : Captured(q)' = Captured(q) /\ Started(q)' = Started(q)
         /\ \A q, f : Pressed(q, f)' = Pressed(q, f)
<1>1. \A q : Captured(q)' = Captured(q) /\ Started(q)' = Started(q)
  BY DEF Captured, Started
<1>2. \A q, f : Pressed(q, f)' = Pressed(q, f)
  BY DEF Pressed
<1>3. \A q \in Player : Captured(q) \in Nat
  BY StreamFacts
<1>4. stream' \in [Player -> Seq(Input)]
  BY DEF TypeOK
<1> QED
  BY <1>1, <1>2, <1>3, <1>4 DEF StreamKept

LEMMA DeliverStep ==
  ASSUME IInv, NEW q \in Remote, NEW pkt \in HonestPackets(q), Deliver(pkt)
  PROVE  IInv'
<1> USE ConstantFacts
<1> DEFINE fresh == FreshFrames(core, pkt)
           wrong == {f \in fresh : Mispredicted(core, q, f, Sample(pkt, f))}
<1>1. /\ TypeOK /\ core \in Core /\ q \in Player
      /\ core' = ApplyInputPacket(core, pkt)
      /\ stream' = stream /\ peak' = peak /\ exported' = exported
  BY CoreFacts DEF Deliver, IInv
<1>2. /\ pkt.from = q /\ pkt.ack \in FrameOrNone /\ Started(q)
      /\ \A f \in PacketFrames(pkt) : /\ f \in Nat /\ f < Captured(q)
                                      /\ Sample(pkt, f) = Pressed(q, f)
  BY HonestPacketFacts
<1>3. /\ StreamKept
      /\ \A r : Captured(r)' = Captured(r) /\ Started(r)' = Started(r)
      /\ \A r, f : Pressed(r, f)' = Pressed(r, f)
  BY <1>1, StreamUnchanged
<1>4. /\ PacketFrames(pkt) \subseteq Nat
      /\ \A f \in PacketFrames(pkt) : Sample(pkt, f) \in Input
  BY <1>1, <1>2, StreamFacts
<1>5. /\ core' \in Core
      /\ core'.me = core.me /\ core'.used = core.used /\ core'.last = core.last
      /\ \A r \in Player \ {q} : /\ core'.inputs[r] = core.inputs[r]
                                 /\ core'.confirmed[r] = core.confirmed[r]
      /\ core'.inputs[q] = StoreAll(core.inputs[q], fresh, pkt)
      /\ core'.confirmed[q] = Advanced(core'.inputs[q], core.confirmed[q])
      /\ core'.rollback = core.rollback \/ core'.rollback \in wrong
      /\ \A f \in wrong : core'.rollback # None /\ core'.rollback <= f
      /\ core.rollback # None =>
           core'.rollback # None /\ core'.rollback <= core.rollback
  BY <1>1, <1>2, <1>4, ApplyEffect
<1>6. /\ fresh \subseteq PacketFrames(pkt)
      /\ \A f \in fresh : ~ Present(core.inputs[q], f)
  BY <1>2 DEF FreshFrames
<1>7. /\ core.inputs[q] \in Ring /\ core.confirmed[q] \in FrameOrNone
      /\ core.last \in FrameOrNone /\ core.rollback \in FrameOrNone
      /\ Len(exported) \in Nat
  BY <1>1, CoreFacts
<1>8. ASSUME NEW f \in Nat, Present(core'.inputs[q], f)
      PROVE  \/ f \in fresh /\ InputAt(core'.inputs[q], f) = Sample(pkt, f)
             \/ /\ Present(core.inputs[q], f)
                /\ InputAt(core'.inputs[q], f) = InputAt(core.inputs[q], f)
  <2> DEFINE old == core.inputs[q]
             new == core'.inputs[q]
  <2>1. /\ old \in Ring /\ fresh \subseteq Nat /\ new = StoreAll(old, fresh, pkt)
        /\ \A g \in fresh : Sample(pkt, g) \in Input
    BY <1>4, <1>5, <1>6, <1>7
  <2>2. Present(new, f)
    BY <1>8
  <2> HIDE DEF old, new, fresh
  <2>3. \/ f \in fresh /\ InputAt(new, f) = Sample(pkt, f)
        \/ Present(old, f) /\ InputAt(new, f) = InputAt(old, f)
    BY <2>1, <2>2, StoreAllKeeps
  <2> QED
    BY <2>3 DEF old, new
<1>9. Arrival(q)
  BY <1>1, <1>5 DEF Arrival
<1>10. RingHonest(q)
  <2> SUFFICES ASSUME NEW f \in Nat, Present(core'.inputs[q], f)
               PROVE  /\ f < Captured(q) /\ Started(q)
                      /\ InputAt(core'.inputs[q], f) = Pressed(q, f)
    BY <1>3 DEF RingHonest
  <2>1. CASE f \in fresh /\ InputAt(core'.inputs[q], f) = Sample(pkt, f)
    BY <1>2, <1>6, <2>1
  <2>2. CASE /\ Present(core.inputs[q], f)
             /\ InputAt(core'.inputs[q], f) = InputAt(core.inputs[q], f)
    BY <2>2 DEF IInv, SamplesHonest
  <2> QED
    BY <1>8, <2>1, <2>2
<1>11. FrontierOverPresent(q)
  BY <1>5, <1>7, AdvancedRun DEF FrontierOverPresent, FrameOrNone, None
<1>12. ContradictionsRequested(q)
  <2>1. ASSUME NEW f \in Nat, HasUsed(core, f), Present(core'.inputs[q], f),
               ~ Present(core.inputs[q], f)
        PROVE  \/ Agree(UsedInput(core, q, f), Pressed(q, f))
               \/ core'.rollback # None /\ core'.rollback <= f
    <3>1. f \in fresh /\ Sample(pkt, f) = Pressed(q, f)
      BY <1>2, <1>6, <1>8, <2>1
    <3>2. CASE UsedInput(core, q, f) = Pressed(q, f)
      BY <3>2 DEF Agree
    <3>3. CASE UsedInput(core, q, f) # Pressed(q, f)
      <4>1. WasPredicted(core, q, f)
        BY <2>1, <3>3 DEF IInv, DecisionsHonest
      <4>2. f <= core.last
        <5>1. f % History \in Slots
          BY SlotOf
        <5> QED
          BY <2>1, <5>1 DEF IInv, Ordered, HasUsed
      <4>3. f \in wrong
        BY <2>1, <3>1, <3>3, <4>1, <4>2 DEF Mispredicted
      <4> QED
        BY <1>5, <4>3
    <3> QED
      BY <3>2, <3>3
  <2>2. ASSUME core'.rollback # None
        PROVE  core'.rollback >= Len(exported)
    <3>1. CASE core'.rollback = core.rollback
      BY <2>2, <3>1 DEF IInv, RequestAfterExports
    <3>2. CASE core'.rollback \in wrong
      <4> DEFINE f == core'.rollback
      <4>1. /\ f \in Nat /\ Sample(pkt, f) = Pressed(q, f)
            /\ HasUsed(core, f) /\ UsedInput(core, q, f) # Pressed(q, f)
        BY <1>2, <1>6, <3>2 DEF Mispredicted
      <4> HIDE DEF f
      <4>2. f \notin 0 .. Len(exported) - 1
        BY <4>1 DEF IInv, ExportsHonest
      <4>3. f >= Len(exported)
        BY <1>7, <4>1, <4>2
      <4> QED
        BY <4>3 DEF f
    <3> QED
      BY <1>5, <3>1, <3>2
  <2> QED
    BY <1>3, <1>5, <2>1, <2>2 DEF ContradictionsRequested, Agree
<1> QED
  BY <1>1, <1>3, <1>9, <1>10, <1>11, <1>12, ArrivalInvariant

LEMMA ConfirmEquivalentStep ==
  ASSUME IInv, NEW q \in Remote, NEW f \in 0 .. Captured(q) - 1,
         ConfirmEquivalent(q, f)
  PROVE  IInv'
<1> USE ConstantFacts
<1> DEFINE v == Pressed(q, f)
<1>1. /\ TypeOK /\ core \in Core /\ q \in Player
      /\ core' = SubmitEquivalentRemoteInput(core, q, f, v)
      /\ stream' = stream /\ peak' = peak /\ exported' = exported
      /\ IsPredicted(core, q, f) /\ f > core.confirmed[q]
      /\ Agree(UsedInput(core, q, f), v)
  BY CoreFacts DEF ConfirmEquivalent, IInv, Agree
<1>2. Captured(q) \in Nat /\ f \in Nat /\ f < Captured(q) /\ v \in Input
  BY <1>1, StreamFacts
<1>3. Started(q)
  BY DEF ConfirmEquivalent, Started
<1>4. /\ StreamKept
      /\ \A r : Captured(r)' = Captured(r) /\ Started(r)' = Started(r)
      /\ \A r, g : Pressed(r, g)' = Pressed(r, g)
  BY <1>1, StreamUnchanged
<1>5. CASE core' = core
  BY <1>1, <1>4, <1>5, StreamKeptInvariant
<1>6. CASE core' # core
  <2>1. /\ core' \in Core
        /\ core'.me = core.me /\ core'.used = core.used /\ core'.last = core.last
        /\ core'.rollback = core.rollback
        /\ \A r \in Player \ {q} : /\ core'.inputs[r] = core.inputs[r]
                                   /\ core'.confirmed[r] = core.confirmed[r]
        /\ core'.inputs[q] = Store(core.inputs[q], f, v)
        /\ core'.confirmed[q] = Advanced(core'.inputs[q], core.confirmed[q])
    <3> HIDE DEF v
    <3> QED
      BY <1>1, <1>2, <1>6, EquivalentEffect
  <2>2. /\ core.inputs[q] \in Ring /\ core.confirmed[q] \in FrameOrNone
        /\ core.rollback \in FrameOrNone
    BY <1>1, CoreFacts
  <2>3. /\ InputAt(core'.inputs[q], f) = v
        /\ \A g \in Nat : g # f /\ Present(core'.inputs[q], g) =>
             /\ Present(core.inputs[q], g)
             /\ InputAt(core'.inputs[q], g) = InputAt(core.inputs[q], g)
    <3> DEFINE old == core.inputs[q]
    <3>1. old \in Ring
      BY <2>2
    <3> HIDE DEF v, old
    <3>2. /\ InputAt(Store(old, f, v), f) = v
          /\ \A g \in Nat : g # f /\ Present(Store(old, f, v), g) =>
               Present(old, g) /\ InputAt(Store(old, f, v), g) = InputAt(old, g)
      BY <1>2, <3>1, StoreKeeps
    <3> QED
      BY <2>1, <3>2 DEF old
  <2>4. Arrival(q)
    BY <1>1, <2>1 DEF Arrival
  <2>5. RingHonest(q)
    <3> SUFFICES ASSUME NEW g \in Nat, Present(core'.inputs[q], g)
                 PROVE  /\ g < Captured(q) /\ Started(q)
                        /\ InputAt(core'.inputs[q], g) = Pressed(q, g)
      BY <1>4 DEF RingHonest
    <3>1. CASE g = f
      BY <1>2, <1>3, <2>3, <3>1
    <3>2. CASE g # f
      BY <2>3, <3>2 DEF IInv, SamplesHonest
    <3> QED
      BY <3>1, <3>2
  <2>6. FrontierOverPresent(q)
    BY <2>1, <2>2, AdvancedRun DEF FrontierOverPresent, FrameOrNone, None
  <2>7. ContradictionsRequested(q)
    <3>1. ASSUME NEW g \in Nat, HasUsed(core, g), Present(core'.inputs[q], g),
                 ~ Present(core.inputs[q], g)
          PROVE  Agree(UsedInput(core, q, g), Pressed(q, g))
      <4>1. g = f
        BY <2>3, <3>1
      <4> QED
        BY <1>1, <4>1
    <3>2. core'.rollback # None => core'.rollback >= Len(exported)
      BY <2>1 DEF IInv, RequestAfterExports
    <3>3. core.rollback # None => core'.rollback <= core.rollback
      BY <2>1, <2>2 DEF FrameOrNone, None
    <3> QED
      BY <1>4, <2>1, <3>1, <3>2, <3>3 DEF ContradictionsRequested, Agree
  <2> QED
    BY <1>1, <1>4, <2>4, <2>5, <2>6, <2>7, ArrivalInvariant
<1> QED
  BY <1>5, <1>6

(* The local player's samples are never contradicted: its decisions are    *)
(* never predictions.                                                      *)
LEMMA CaptureStep ==
  ASSUME IInv, NEW v \in Pressable[Local], Capture(v)
  PROVE  IInv'
<1> USE ConstantFacts
<1> DEFINE k == Captured(Local) - InputDelay
           f == Captured(Local)
<1>1. /\ TypeOK /\ core \in Core /\ core.me = Local /\ v \in Input
      /\ core' = ScheduleLocalInput(core, k, v)
      /\ stream' = [stream EXCEPT ![Local] = Append(@, v)]
      /\ peak' = peak /\ exported' = exported
  BY CoreFacts DEF Capture, IInv
<1>2. f \in Nat /\ k \in Nat /\ LocalFrameForCapture(k) = f
  <2>1. f \in Nat
    BY <1>1, StreamFacts
  <2>2. f >= InputDelay
    BY DEF IInv, FrontiersHonest
  <2> QED
    BY <2>1, <2>2 DEF LocalFrameForCapture
<1>3. /\ StreamKept
      /\ \A q \in Player, g \in Nat : g < Captured(q) =>
           g < Captured(q)' /\ Pressed(q, g)' = Pressed(q, g)
      /\ Captured(Local)' = Captured(Local) + 1
      /\ \A g \in Nat : g = f => Pressed(Local, g)' = v
  <2>1. /\ stream' \in [Player -> Seq(Input)]
        /\ \A q \in Player : Captured(q)' \in Nat /\ Captured(q)' >= Captured(q)
        /\ \A q \in Player, g \in Nat : g < Captured(q) =>
             g < Captured(q)' /\ Pressed(q, g)' = Pressed(q, g)
        /\ Captured(Local)' = Captured(Local) + 1
        /\ \A g \in Nat : g = Captured(Local) => Pressed(Local, g)' = v
    BY <1>1, AppendKeeps
  <2> QED
    BY <1>2, <2>1 DEF StreamKept
<1>4. /\ core' \in Core
      /\ core'.me = core.me /\ core'.used = core.used /\ core'.last = core.last
      /\ core'.rollback = core.rollback
      /\ \A r \in Player \ {Local} : /\ core'.inputs[r] = core.inputs[r]
                                     /\ core'.confirmed[r] = core.confirmed[r]
      /\ core'.inputs[Local] = Store(core.inputs[Local], f, v)
      /\ core'.confirmed[Local] =
           Advanced(core'.inputs[Local], core.confirmed[Local])
  <2> HIDE DEF k, f
  <2> QED
    BY <1>1, <1>2, ScheduleEffect
<1>5. /\ core.inputs[Local] \in Ring /\ core.confirmed[Local] \in FrameOrNone
      /\ core.rollback \in FrameOrNone
  BY <1>1, CoreFacts
<1>6. /\ InputAt(core'.inputs[Local], f) = v
      /\ \A g \in Nat : g # f /\ Present(core'.inputs[Local], g) =>
           /\ Present(core.inputs[Local], g)
           /\ InputAt(core'.inputs[Local], g) = InputAt(core.inputs[Local], g)
  <2> DEFINE old == core.inputs[Local]
  <2>1. old \in Ring
    BY <1>5
  <2> HIDE DEF k, f, old
  <2>2. /\ InputAt(Store(old, f, v), f) = v
        /\ \A g \in Nat : g # f /\ Present(Store(old, f, v), g) =>
             Present(old, g) /\ InputAt(Store(old, f, v), g) = InputAt(old, g)
    BY <1>1, <1>2, <2>1, StoreKeeps
  <2> QED
    BY <1>4, <2>2 DEF old
<1>7. Arrival(Local)
  BY <1>1, <1>4 DEF Arrival
<1>8. RingHonest(Local)
  <2> SUFFICES ASSUME NEW g \in Nat, Present(core'.inputs[Local], g)
               PROVE  /\ g < Captured(Local)' /\ Started(Local)'
                      /\ InputAt(core'.inputs[Local], g) = Pressed(Local, g)'
    BY DEF RingHonest
  <2>1. CASE g = f
    BY <1>2, <1>3, <1>6, <2>1 DEF Started
  <2>2. CASE g # f
    BY <1>3, <1>6, <2>2 DEF IInv, SamplesHonest, Started
  <2> QED
    BY <2>1, <2>2
<1>9. FrontierOverPresent(Local)
  BY <1>4, <1>5, AdvancedRun DEF FrontierOverPresent, FrameOrNone, None
<1>10. ContradictionsRequested(Local)
  <2>1. ASSUME NEW g \in Nat, HasUsed(core, g)
        PROVE  Agree(UsedInput(core, Local, g), Pressed(Local, g)')
    <3>1. ~ WasPredicted(core, Local, g)
      BY <2>1 DEF IInv, LocalNeverPredicted
    <3>2. g < Captured(Local) /\ UsedInput(core, Local, g) = Pressed(Local, g)
      BY <2>1, <3>1 DEF IInv, DecisionsHonest
    <3> QED
      BY <1>3, <3>2 DEF Agree
  <2>2. core'.rollback # None => core'.rollback >= Len(exported)
    BY <1>4 DEF IInv, RequestAfterExports
  <2>3. core.rollback # None => core'.rollback <= core.rollback
    BY <1>4, <1>5 DEF FrameOrNone, None
  <2> QED
    BY <1>4, <2>1, <2>2, <2>3 DEF ContradictionsRequested
<1> QED
  BY <1>3, <1>7, <1>8, <1>9, <1>10, ArrivalInvariant

(* A startup frame is replaced while nothing was simulated or exported.    *)
LEMMA BootstrapStep ==
  ASSUME IInv, NEW f \in 0 .. InputDelay - 1, NEW v \in Pressable[Local],
         Bootstrap(f, v)
  PROVE  IInv'
<1> USE ConstantFacts
<1>1. /\ TypeOK /\ core \in Core /\ core.me = Local /\ v \in Input /\ f \in Nat
      /\ core' = SetLocalLeadInInput(core, f, v)
      /\ stream' = [stream EXCEPT ![Local][f + 1] = v]
      /\ peak = None /\ peak' = peak /\ exported' = exported
      /\ Captured(Local) = InputDelay /\ f + 1 \in 1 .. InputDelay
  BY CoreFacts DEF Bootstrap, IInv
<1>2. stream \in [Player -> Seq(Input)]
  BY <1>1 DEF TypeOK
<1>3. /\ stream'[Local] = [stream[Local] EXCEPT ![f + 1] = v]
      /\ \A q \in Player : q # Local => stream'[q] = stream[q]
  BY <1>1, <1>2
<1>4. /\ stream'[Local] \in Seq(Input) /\ Len(stream'[Local]) = Len(stream[Local])
      /\ stream'[Local][f + 1] = v
      /\ \A i \in 1 .. InputDelay : i # f + 1 => stream'[Local][i] = stream[Local][i]
  <2> DEFINE old == stream[Local]
  <2>1. old \in Seq(Input) /\ f + 1 \in 1 .. Len(old) /\ Len(old) = InputDelay
    BY <1>1, <1>2 DEF Captured
  <2>2. stream'[Local] = [old EXCEPT ![f + 1] = v]
    BY <1>3
  <2> HIDE DEF old
  <2> DEFINE new == [old EXCEPT ![f + 1] = v]
             i0  == f + 1
  <2> HIDE DEF i0
  <2>3. i0 \in 1 .. Len(old)
    BY <2>1 DEF i0
  <2>4. /\ [old EXCEPT ![i0] = v] \in Seq(Input)
        /\ Len([old EXCEPT ![i0] = v]) = Len(old)
        /\ \A j \in 1 .. Len(old) : [old EXCEPT ![i0] = v][j] =
                                       IF j = i0 THEN v ELSE old[j]
    BY <1>1, <2>1, <2>3, ExceptSeq
  <2>5. [old EXCEPT ![i0] = v] = new
    BY DEF i0
  <2> HIDE DEF new
  <2>6. /\ new \in Seq(Input) /\ Len(new) = Len(old) /\ new[i0] = v
        /\ \A i \in 1 .. InputDelay : i # i0 => new[i] = old[i]
    BY <2>1, <2>3, <2>4, <2>5
  <2> QED
    BY <2>2, <2>6 DEF old, new, i0
<1>5. stream' \in [Player -> Seq(Input)]
  BY <1>1, <1>2, <1>3, <1>4
<1>6. /\ \A q : q \in Player => Captured(q)' = Captured(q)
      /\ \A q \in Player : Captured(q) \in Nat /\ (Started(q)' <=> Started(q))
  <2>1. \A q \in Player : Captured(q)' = Captured(q)
    BY <1>3, <1>4 DEF Captured
  <2> QED
    BY <1>1, <2>1, StreamFacts DEF Started
<1>7. /\ \A q \in Player, g \in Nat : q # Local => Pressed(q, g)' = Pressed(q, g)
      /\ \A g \in Nat : g < InputDelay /\ g # f =>
           Pressed(Local, g)' = Pressed(Local, g)
      /\ Pressed(Local, f)' = v
  <2>1. \A g \in Nat : g < InputDelay /\ g # f =>
          g + 1 \in 1 .. InputDelay /\ g + 1 # f + 1
    BY <1>1
  <2> QED
    BY <1>3, <1>4, <2>1 DEF Pressed
<1>8. /\ core' \in Core
      /\ core'.me = core.me /\ core'.used = core.used /\ core'.last = core.last
      /\ core'.rollback = core.rollback /\ core'.confirmed = core.confirmed
      /\ \A q \in Player \ {Local} : core'.inputs[q] = core.inputs[q]
      /\ core'.inputs[Local] = Store(core.inputs[Local], f, v)
  <2> DEFINE d == SetLocalLeadInInput(core, f, v)
  <2>1. core \in Core /\ f \in Nat /\ v \in Input
    BY <1>1
  <2>2. /\ d \in Core
        /\ d.me = core.me /\ d.used = core.used /\ d.last = core.last
        /\ d.rollback = core.rollback /\ d.confirmed = core.confirmed
        /\ \A q \in Player \ {core.me} : d.inputs[q] = core.inputs[q]
        /\ d.inputs[core.me] = Store(core.inputs[core.me], f, v)
    BY ONLY <2>1, LeadInEffect
  <2>3. core' = d /\ core.me = Local
    BY <1>1
  <2> HIDE DEF d
  <2> QED
    BY <2>2, <2>3
<1>9. TypeOK'
  BY <1>1, <1>5, <1>8 DEF IInv, TypeOK
<1>10. \A g \in Nat : ~ HasUsed(core, g) /\ ~ HasUsed(core, g)'
  <2>1. ASSUME NEW g \in Nat PROVE ~ HasUsed(core, g)
    <3>1. g % History \in Slots
      BY SlotOf
    <3>2. core.used[g % History].frame <= core.last /\ core.last <= peak
          /\ core.last \in FrameOrNone /\ core.used \in [Slots -> UsedSlot]
      BY <1>1, <3>1, CoreFacts DEF IInv, Ordered
    <3> QED
      BY <1>1, <3>1, <3>2 DEF HasUsed, UsedSlot, FrameOrNone, None
  <2>2. \A g : HasUsed(core, g)' <=> HasUsed(core, g)
    BY <1>8 DEF HasUsed
  <2> QED
    BY <2>1, <2>2
<1>11. SamplesHonest'
  <2> SUFFICES ASSUME NEW q \in Player, NEW g \in Nat,
                      Present(core'.inputs[q], g)
               PROVE  /\ g < Captured(q) /\ Started(q)
                      /\ InputAt(core'.inputs[q], g) = Pressed(q, g)'
    BY <1>6 DEF SamplesHonest
  <2>1. CASE q # Local
    <3>1. core'.inputs[q] = core.inputs[q]
      BY <1>8, <2>1
    <3> QED
      BY <1>7, <2>1, <3>1 DEF IInv, SamplesHonest
  <2>2. CASE q = Local
    <3> DEFINE old == core.inputs[Local]
    <3>1. old \in Ring /\ Present(Store(old, f, v), g)
          /\ core'.inputs[q] = Store(old, f, v)
      BY <1>1, <1>8, <2>2, CoreFacts
    <3>2. /\ InputAt(Store(old, f, v), f) = v
          /\ g # f => Present(old, g) /\ InputAt(Store(old, f, v), g) = InputAt(old, g)
      <4> HIDE DEF old
      <4> QED
        BY <1>1, <3>1, StoreKeeps
    <3>3. CASE g = f
      BY <1>1, <1>7, <2>2, <3>1, <3>2, <3>3 DEF Started
    <3>4. CASE g # f
      <4>1. g < InputDelay /\ InputAt(old, g) = Pressed(Local, g)
        BY <1>1, <3>2, <3>4 DEF IInv, SamplesHonest
      <4> QED
        BY <1>1, <1>7, <2>2, <3>1, <3>2, <3>4, <4>1 DEF Started
    <3> QED
      BY <3>3, <3>4
  <2> QED
    BY <2>1, <2>2
<1>12. FrontiersHonest'
  BY <1>6, <1>8 DEF IInv, FrontiersHonest
<1>13. DecisionsHonest' /\ LocalNeverPredicted' /\ Reconciled'
  BY <1>10 DEF DecisionsHonest, LocalNeverPredicted, Reconciled
<1>14. Ordered' /\ RequestAfterExports'
  BY <1>1, <1>8 DEF IInv, Ordered, RequestAfterExports
<1>15. ExportsHonest'
  <2>1. Len(exported) \in Nat /\ Len(exported) <= 0
    BY <1>1, CoreFacts DEF IInv, Ordered, None
  <2> QED
    BY <1>1, <2>1 DEF ExportsHonest
<1> QED
  BY <1>9, <1>11, <1>12, <1>13, <1>14, <1>15 DEF IInv

(* An exported frame is confirmed, present and simulated with its input.   *)
LEMMA ExportStep ==
  ASSUME IInv, Export
  PROVE  IInv'
<1> USE ConstantFacts
<1> DEFINE n == Len(exported)
           row == ConfirmedInputs(core, n)
<1>1. /\ TypeOK /\ CanExport(core, n) /\ exported' = Append(exported, row)
      /\ core' = core /\ stream' = stream /\ peak' = peak
  BY DEF Export, IInv
<1>2. n \in Nat /\ core.last \in FrameOrNone /\ peak \in FrameOrNone
      /\ core.rollback \in FrameOrNone
  BY <1>1, CoreFacts
<1>3. /\ n <= core.last /\ HasUsed(core, n)
      /\ core.rollback # None => core.rollback > n
      /\ \A q \in Player : /\ n <= core.confirmed[q]
                           /\ Present(core.inputs[q], n)
                           /\ InputAt(core.inputs[q], n) = UsedInput(core, q, n)
  <2>1. core.confirmed \in [Player -> FrameOrNone]
    BY <1>1, CoreFacts
  <2> QED
    BY <1>1, <1>2, <2>1 DEF CanExport, FrameOrNone, None
<1>4. \A q \in Player : /\ InputAt(core.inputs[q], n) = Pressed(q, n)
                        /\ row[q] = Pressed(q, n)
  <2>1. ASSUME NEW q \in Player PROVE InputAt(core.inputs[q], n) = Pressed(q, n)
    BY <1>2, <1>3 DEF IInv, SamplesHonest
  <2> QED
    BY <2>1 DEF ConfirmedInputs
<1>5. row \in [Player -> Input]
  <2>1. \A q \in Player : InputAt(core.inputs[q], n) \in Input
    BY <1>1, <1>2, <1>3, <1>4, StreamFacts DEF IInv, SamplesHonest
  <2> QED
    BY <2>1 DEF ConfirmedInputs
<1>6. /\ exported' \in Seq([Player -> Input]) /\ Len(exported') = n + 1
      /\ \A f \in 0 .. n - 1 : exported'[f + 1] = exported[f + 1]
      /\ exported'[n + 1] = row
  <2>1. exported \in Seq([Player -> Input])
    BY <1>1 DEF TypeOK
  <2> HIDE DEF row
  <2> QED
    BY <1>1, <1>5, <2>1
<1>7. TypeOK'
  BY <1>1, <1>6 DEF TypeOK
<1>8. SamplesHonest' /\ FrontiersHonest' /\ DecisionsHonest'
      /\ LocalNeverPredicted' /\ Reconciled'
  BY <1>1 DEF IInv, SamplesHonest, FrontiersHonest, DecisionsHonest,
              LocalNeverPredicted, Reconciled, Captured, Pressed, Started
<1>9. Ordered'
  <2>1. n + 1 <= peak + 1
    <3>1. core.last <= peak
      BY DEF IInv, Ordered
    <3> QED
      BY <1>2, <1>3, <3>1 DEF FrameOrNone, None
  <2> QED
    BY <1>1, <1>6, <2>1 DEF IInv, Ordered
<1>10. RequestAfterExports'
  BY <1>1, <1>2, <1>3, <1>6 DEF RequestAfterExports, FrameOrNone, None
<1>11. ExportsHonest'
  <2> SUFFICES ASSUME NEW f \in 0 .. n, NEW q \in Player
               PROVE  /\ exported'[f + 1][q] = Pressed(q, f)
                      /\ f <= core.confirmed[q]
                      /\ HasUsed(core, f) => UsedInput(core, q, f) = Pressed(q, f)
    BY <1>1, <1>2, <1>6 DEF ExportsHonest, Pressed
  <2>1. CASE f = n
    BY <1>3, <1>4, <1>6, <2>1
  <2>2. CASE f # n
    <3>1. f \in 0 .. n - 1
      BY <1>2, <2>2
    <3> QED
      BY <1>6, <3>1 DEF IInv, ExportsHonest
  <2> QED
    BY <2>1, <2>2
<1> QED
  BY <1>7, <1>8, <1>9, <1>10, <1>11 DEF IInv

(* A new decision takes every input it has, and predicts only inputs that  *)
(* are not confirmed.                                                      *)
LEMMA SimulateStep ==
  ASSUME IInv, Simulate
  PROVE  IInv'
<1> USE ConstantFacts
<1> DEFINE n == core.last + 1
           new == PrepareFrame(core, n)
<1>1. /\ TypeOK /\ core \in Core /\ core.me = Local /\ core.rollback = None
      /\ CanAdvance(core, n) /\ core' = MarkSimulated(core, n)
      /\ stream' = stream /\ exported' = exported
      /\ peak' = Larger(peak, n)
  BY CoreFacts DEF Simulate, IInv, NextFrame
<1>2. /\ core.last \in FrameOrNone /\ n \in Nat /\ peak \in FrameOrNone
      /\ Len(exported) \in Nat
  BY <1>1, CoreFacts DEF FrameOrNone, None
<1>3. /\ StreamKept
      /\ \A q : Captured(q)' = Captured(q) /\ Started(q)' = Started(q)
      /\ \A q, f : Pressed(q, f)' = Pressed(q, f)
  BY <1>1, StreamUnchanged
<1>4. /\ core' \in Core
      /\ core'.me = core.me /\ core'.inputs = core.inputs
      /\ core'.confirmed = core.confirmed /\ core'.rollback = core.rollback
      /\ core'.last = Larger(core.last, n)
      /\ core'.used = [core.used EXCEPT ![n % History] = new]
  <2> HIDE DEF n
  <2> QED
    BY <1>1, <1>2, MarkSimulatedEffect
<1>5. core'.last = n
  BY <1>2, <1>4 DEF Larger, FrameOrNone, None
<1>6. core.used \in [Slots -> UsedSlot] /\ n % History \in Slots
  BY <1>1, <1>2, CoreFacts, SlotOf
<1>7. /\ new.frame = n
      /\ \A q \in Player : Present(core.inputs[q], n) =>
           new.inputs[q] = InputAt(core.inputs[q], n) /\ q \notin new.predicted
      /\ \A q \in Player : ~ Present(core.inputs[q], n) => q \in new.predicted
  BY DEF PrepareFrame
<1>8. \A q \in Player : ~ Present(core.inputs[q], n) =>
        q # Local /\ n > core.confirmed[q]
  BY <1>1 DEF CanAdvance
<1>9. /\ HasUsed(core', n)
      /\ \A q : /\ UsedInput(core', q, n) = new.inputs[q]
                /\ WasPredicted(core', q, n) <=> q \in new.predicted
  <2> HIDE DEF n, new
  <2> QED
    BY <1>4, <1>6, <1>7 DEF HasUsed, UsedInput, WasPredicted
<1>10. \A f \in Nat : f # n /\ HasUsed(core', f) =>
         /\ HasUsed(core, f)
         /\ \A q : /\ UsedInput(core', q, f) = UsedInput(core, q, f)
                   /\ WasPredicted(core', q, f) <=> WasPredicted(core, q, f)
  <2> HIDE DEF n, new
  <2>1. ASSUME NEW f \in Nat, f # n, HasUsed(core', f)
        PROVE  f % History \in Slots /\ f % History # n % History
    <3>1. f % History \in Slots
      BY SlotOf
    <3>2. core'.used[n % History].frame = n
      BY <1>4, <1>6, <1>7
    <3> QED
      BY <2>1, <3>1, <3>2 DEF HasUsed
  <2> QED
    BY <1>4, <1>6, <2>1 DEF HasUsed, UsedInput, WasPredicted
<1>11. TypeOK'
  <2>1. peak' \in FrameOrNone
    BY <1>1, <1>2 DEF Larger, FrameOrNone
  <2> QED
    BY <1>1, <1>4, <2>1 DEF TypeOK
<1>12. SamplesHonest' /\ FrontiersHonest' /\ RequestAfterExports'
  BY <1>1, <1>3, <1>4
     DEF IInv, SamplesHonest, FrontiersHonest, RequestAfterExports
<1>13. ASSUME NEW q \in Player, Present(core.inputs[q], n)
       PROVE  /\ UsedInput(core', q, n) = Pressed(q, n)
              /\ n < Captured(q) /\ Started(q)
  BY <1>2, <1>7, <1>9, <1>13 DEF IInv, SamplesHonest
<1>14. DecisionsHonest'
  <2> SUFFICES ASSUME NEW q \in Player, NEW f \in Nat,
                      HasUsed(core', f), ~ WasPredicted(core', q, f)
               PROVE  /\ f < Captured(q) /\ Started(q)
                      /\ UsedInput(core', q, f) = Pressed(q, f)
    BY <1>3 DEF DecisionsHonest, HasUsed, UsedInput, WasPredicted
  <2> HIDE DEF n, new
  <2>1. CASE f = n
    BY <1>7, <1>9, <1>13, <2>1
  <2>2. CASE f # n
    BY <1>10, <2>2 DEF IInv, DecisionsHonest
  <2> QED
    BY <2>1, <2>2
<1>15. LocalNeverPredicted'
  <2> SUFFICES ASSUME NEW f \in Nat, HasUsed(core', f)
               PROVE  ~ WasPredicted(core', Local, f)
    BY DEF LocalNeverPredicted, HasUsed, WasPredicted
  <2> HIDE DEF n, new
  <2>1. CASE f = n
    BY <1>7, <1>8, <1>9, <2>1
  <2>2. CASE f # n
    BY <1>10, <2>2 DEF IInv, LocalNeverPredicted
  <2> QED
    BY <2>1, <2>2
<1>16. Ordered'
  <2>1. ASSUME NEW s \in Slots PROVE core'.used[s].frame <= n
    <3>1. CASE s = n % History
      BY <1>2, <1>4, <1>6, <1>7, <3>1
    <3>2. CASE s # n % History
      <4>1. core'.used[s] = core.used[s] /\ core.used[s].frame \in FrameOrNone
        BY <1>4, <1>6, <3>2 DEF UsedSlot
      <4>2. core.used[s].frame <= core.last
        BY DEF IInv, Ordered
      <4> QED
        BY <1>2, <4>1, <4>2 DEF FrameOrNone, None
    <3> QED
      BY <3>1, <3>2
  <2>2. n <= peak' /\ peak <= peak' /\ peak' \in Int /\ peak \in Int
    BY <1>1, <1>2 DEF Larger, FrameOrNone, None
  <2>3. Len(exported) <= peak + 1
    BY DEF IInv, Ordered
  <2>4. Len(exported) <= peak' + 1
    BY <1>2, <2>2, <2>3
  <2> QED
    BY <1>1, <1>5, <2>1, <2>2, <2>4 DEF Ordered
<1>17. Reconciled'
  <2> SUFFICES ASSUME NEW q \in Player, NEW f \in Nat, HasUsed(core', f),
                      f <= core.confirmed[q] \/ Present(core.inputs[q], f)
               PROVE  Agree(UsedInput(core', q, f), Pressed(q, f))
    BY <1>3, <1>4 DEF Reconciled, Agree, HasUsed, UsedInput
  <2> HIDE DEF new
  <2>1. CASE f = n
    <3>1. core.confirmed[q] \in FrameOrNone
      BY <1>1, CoreFacts
    <3>2. Present(core.inputs[q], n)
      BY <1>2, <1>8, <2>1, <3>1 DEF FrameOrNone, None
    <3> QED
      BY <1>13, <2>1, <3>2 DEF Agree
  <2>2. CASE f # n
    <3>1. HasUsed(core, f) /\ UsedInput(core', q, f) = UsedInput(core, q, f)
      BY <1>10, <2>2
    <3> QED
      BY <1>1, <3>1 DEF IInv, Reconciled
  <2> QED
    BY <2>1, <2>2
<1>18. ExportsHonest'
  <2> SUFFICES ASSUME NEW f \in 0 .. Len(exported) - 1, NEW q \in Player
               PROVE  /\ exported[f + 1][q] = Pressed(q, f)
                      /\ f <= core.confirmed[q]
                      /\ HasUsed(core', f) => UsedInput(core', q, f) = Pressed(q, f)
    BY <1>1, <1>3, <1>4 DEF ExportsHonest, HasUsed, UsedInput
  <2> HIDE DEF new
  <2>1. /\ exported[f + 1][q] = Pressed(q, f) /\ f <= core.confirmed[q]
        /\ HasUsed(core, f) => UsedInput(core, q, f) = Pressed(q, f)
    BY DEF IInv, ExportsHonest
  <2>2. f \in Nat
    BY <1>2
  <2>3. CASE f = n
    <3>1. core.confirmed[q] \in FrameOrNone
      BY <1>1, CoreFacts
    <3>2. Present(core.inputs[q], n)
      BY <1>2, <1>8, <2>1, <2>3, <3>1 DEF FrameOrNone, None
    <3> QED
      BY <1>13, <2>1, <2>3, <3>2
  <2>4. CASE f # n
    BY <1>10, <2>1, <2>2, <2>4
  <2> QED
    BY <2>3, <2>4
<1> QED
  BY <1>11, <1>12, <1>14, <1>15, <1>16, <1>17, <1>18 DEF IInv

(* A rewind keeps the decisions before its first frame, and those are      *)
(* before the pending rollback.                                            *)
LEMMA RewindStep ==
  ASSUME IInv, NEW first \in Nat, Rewind(first)
  PROVE  IInv'
<1> USE ConstantFacts
<1>1. /\ TypeOK /\ core \in Core /\ core' = RewindSimulationTo(core, first)
      /\ core.rollback # None /\ first <= core.rollback
      /\ CanRewind(core, first)
      /\ stream' = stream /\ peak' = peak /\ exported' = exported
  BY CoreFacts DEF Rewind, IInv
<1>2. /\ core.last \in FrameOrNone /\ core.rollback \in FrameOrNone
      /\ peak \in FrameOrNone /\ core.used \in [Slots -> UsedSlot]
      /\ Len(exported) \in Nat
  BY <1>1, CoreFacts
<1>3. /\ core' \in Core
      /\ core'.me = core.me /\ core'.inputs = core.inputs
      /\ core'.confirmed = core.confirmed
      /\ core'.rollback = None /\ core'.last = first - 1
      /\ \A s \in Slots :
           core'.used[s] = IF core.used[s].frame >= first THEN EmptyUsed
                           ELSE core.used[s]
  BY <1>1, RewindEffect
<1>4. /\ StreamKept
      /\ \A q : Captured(q)' = Captured(q) /\ Started(q)' = Started(q)
      /\ \A q, f : Pressed(q, f)' = Pressed(q, f)
  BY <1>1, StreamUnchanged
<1>5. \A f \in Nat : HasUsed(core', f) =>
        /\ HasUsed(core, f) /\ f < first
        /\ \A q : /\ UsedInput(core', q, f) = UsedInput(core, q, f)
                  /\ WasPredicted(core', q, f) <=> WasPredicted(core, q, f)
  <2>1. ASSUME NEW f \in Nat, HasUsed(core', f)
        PROVE  f < first /\ core'.used[f % History] = core.used[f % History]
    <3>1. f % History \in Slots
      BY SlotOf
    <3>2. core'.used[f % History].frame = f
      BY <2>1 DEF HasUsed
    <3>3. core'.used[f % History] # EmptyUsed
      BY <3>2 DEF EmptyUsed, None
    <3>4. /\ core'.used[f % History] = core.used[f % History]
          /\ ~ (core.used[f % History].frame >= first)
      BY <1>3, <3>1, <3>3
    <3> QED
      BY <3>2, <3>4
  <2> QED
    BY <2>1 DEF HasUsed, UsedInput, WasPredicted
<1>6. TypeOK'
  BY <1>1, <1>3 DEF TypeOK
<1>7. SamplesHonest' /\ FrontiersHonest' /\ RequestAfterExports'
  BY <1>1, <1>3, <1>4
     DEF IInv, SamplesHonest, FrontiersHonest, RequestAfterExports
<1>8. DecisionsHonest'
  <2> SUFFICES ASSUME NEW q \in Player, NEW f \in Nat,
                      HasUsed(core', f), ~ WasPredicted(core', q, f)
               PROVE  /\ f < Captured(q) /\ Started(q)
                      /\ UsedInput(core', q, f) = Pressed(q, f)
    BY <1>4 DEF DecisionsHonest, HasUsed, UsedInput, WasPredicted
  <2> QED
    BY <1>5 DEF IInv, DecisionsHonest
<1>9. LocalNeverPredicted'
  <2> SUFFICES ASSUME NEW f \in Nat, HasUsed(core', f)
               PROVE  ~ WasPredicted(core', Local, f)
    BY DEF LocalNeverPredicted, HasUsed, WasPredicted
  <2> QED
    BY <1>5 DEF IInv, LocalNeverPredicted
<1>10. Ordered'
  <2>1. ASSUME NEW s \in Slots PROVE core'.used[s].frame <= first - 1
    <3>1. core.used[s].frame \in FrameOrNone
      BY <1>2 DEF UsedSlot
    <3>2. CASE core.used[s].frame >= first
      BY <1>3, <3>2 DEF EmptyUsed, None
    <3>3. CASE ~ (core.used[s].frame >= first)
      BY <1>3, <3>1, <3>3 DEF FrameOrNone, None
    <3> QED
      BY <3>2, <3>3
  <2>2. first <= core.last
    BY <1>1, <1>2 DEF CanRewind, FrameOrNone, None
  <2>3. first - 1 <= peak
    <3>1. core.last <= peak
      BY DEF IInv, Ordered
    <3> QED
      BY <1>2, <2>2, <3>1 DEF FrameOrNone, None
  <2> QED
    BY <1>1, <1>3, <2>1, <2>3 DEF IInv, Ordered
<1>11. Reconciled'
  <2> SUFFICES ASSUME NEW q \in Player, NEW f \in Nat, HasUsed(core', f),
                      f <= core.confirmed[q] \/ Present(core.inputs[q], f)
               PROVE  Agree(UsedInput(core', q, f), Pressed(q, f))
    BY <1>3, <1>4 DEF Reconciled, Agree, HasUsed, UsedInput
  <2>1. /\ HasUsed(core, f) /\ f < first
        /\ UsedInput(core', q, f) = UsedInput(core, q, f)
    BY <1>5
  <2>2. ~ (core.rollback <= f)
    BY <1>1, <1>2, <2>1 DEF FrameOrNone, None
  <2> QED
    BY <2>1, <2>2 DEF IInv, Reconciled
<1>12. ExportsHonest'
  <2> SUFFICES ASSUME NEW f \in 0 .. Len(exported) - 1, NEW q \in Player
               PROVE  /\ exported[f + 1][q] = Pressed(q, f)
                      /\ f <= core.confirmed[q]
                      /\ HasUsed(core', f) => UsedInput(core', q, f) = Pressed(q, f)
    BY <1>1, <1>3, <1>4 DEF ExportsHonest, HasUsed, UsedInput
  <2>1. f \in Nat
    BY <1>2
  <2> QED
    BY <1>5, <2>1 DEF IInv, ExportsHonest
<1> QED
  BY <1>6, <1>7, <1>8, <1>9, <1>10, <1>11, <1>12 DEF IInv

---------------------------------------------------------------------------
(* The invariant, and what follows from it. *)

LEMMA StepInvariant ==
  IInv /\ [Next]_vars => IInv'
<1> SUFFICES ASSUME IInv, [Next]_vars PROVE IInv'
  OBVIOUS
<1> USE ConstantFacts
<1>1. CASE \E v \in Pressable[Local] : Capture(v)
  BY <1>1, CaptureStep
<1>2. CASE \E f \in 0 .. InputDelay - 1, v \in Pressable[Local] : Bootstrap(f, v)
  BY <1>2, BootstrapStep
<1>3. CASE \E q \in Remote : \E f \in 0 .. InputDelay - 1, v \in Pressable[q] :
             RemoteBootstrap(q, f, v)
  BY <1>3, RemoteBootstrapStep
<1>4. CASE \E q \in Remote : \E v \in Pressable[q] : RemoteCapture(q, v)
  BY <1>4, RemoteCaptureStep
<1>5. CASE \E q \in Remote : \E pkt \in HonestPackets(q) : Deliver(pkt)
  BY <1>5, DeliverStep
<1>6. CASE \E q \in Remote : \E f \in 0 .. Captured(q) - 1 :
             ConfirmEquivalent(q, f)
  BY <1>6, ConfirmEquivalentStep
<1>7. CASE Simulate
  BY <1>7, SimulateStep
<1>8. CASE \E first \in 0 .. core.last : Rewind(first)
  <2>1. core.last \in FrameOrNone
    BY CoreFacts DEF IInv
  <2>2. PICK first \in 0 .. core.last : Rewind(first)
    BY <1>8
  <2>3. first \in Nat
    BY <2>1 DEF FrameOrNone, None
  <2> QED
    BY <2>2, <2>3, RewindStep
<1>9. CASE Export
  BY <1>9, ExportStep
<1>10. CASE UNCHANGED vars
  <2>1. UNCHANGED <<core, peak, exported>> /\ stream' = stream /\ TypeOK
    BY <1>10 DEF vars, IInv
  <2>2. StreamKept
    BY <2>1, StreamUnchanged
  <2> QED
    BY <2>1, <2>2, StreamKeptInvariant
<1> QED
  BY <1>1, <1>2, <1>3, <1>4, <1>5, <1>6, <1>7, <1>8, <1>9, <1>10 DEF Next

(* IInv holds in every reachable state. *)
THEOREM Invariance == Spec => []IInv
<1> QED
  BY InitInvariant, StepInvariant, PTL DEF Spec

(* The core, the streams and the exports are what their declarations say:  *)
(* no operation of the core stores a frame or an input outside its type.   *)
THEOREM TypeCorrect == Spec => []TypeOK
<1>1. IInv => TypeOK
  BY InvariantImplies
<1> QED
  BY <1>1, Invariance, PTL

(* No misprediction survives the confirmation of the real input without a  *)
(* pending rollback to its frame or an earlier one.                        *)
THEOREM MispredictionsAreRequested == Spec => []ConfirmedFramesReconciled
<1>1. IInv => ConfirmedFramesReconciled
  BY InvariantImplies
<1> QED
  BY <1>1, Invariance, PTL

(* What ConfirmedInputs handed out is what the players pressed, and is     *)
(* never simulated otherwise again.                                        *)
THEOREM ExportsNeverChange == Spec => []ExportsAreFinal
<1>1. IInv => ExportsAreFinal
  BY InvariantImplies
<1> QED
  BY <1>1, Invariance, PTL

---------------------------------------------------------------------------
(***************************************************************************)
(* The windows.  The rings are wide enough: no confirmed input that may    *)
(* still have to be simulated is ever dropped, every pending rollback can  *)
(* be performed, and, in a ring as wide as WideRing asks, an honest packet *)
(* is refused only when it repeats a frame whose slot a newer frame took.  *)
(*                                                                         *)
(* The three follow from a second inductive invariant, WInv, which speaks  *)
(* of distances: how far the simulation fell back behind its peak, how far *)
(* the peak and the captures are ahead of the frontiers, and which frames  *)
(* a slot may hold.  IInv is used in every step.                           *)
(***************************************************************************)

(* The frames the title has no snapshot of any more end here. *)
Horizon == peak - MaxRollback

(* A slot holds frames of its own only, at least as new as every frame of  *)
(* the slot that is confirmed; no confirmed frame after `limit' is missing.*)
SoundRing(ring, front, limit) ==
  /\ \A s \in Slots : ring[s].present =>
       ring[s].frame \in Nat /\ ring[s].frame % History = s
  /\ \A f \in Nat : f <= front =>
       ring[f % History].present /\ ring[f % History].frame >= f
  /\ \A f \in Nat : f <= front /\ f > limit => Present(ring, f)

RingsSound ==
  \A q \in Player : SoundRing(core.inputs[q], core.confirmed[q], Horizon)

(* The simulation never falls back behind the oldest snapshot, and never   *)
(* ran further ahead of a frontier than there are snapshots.               *)
WithinSnapshots ==
  /\ core.last >= Horizon
  /\ \A q \in Remote : peak <= core.confirmed[q] + MaxRollback

DecisionsKept ==
  \A f \in Nat : f <= core.last /\ f > peak - History => HasUsed(core, f)

PredictionsAllowed ==
  \A q \in Player, f \in Nat :
    HasUsed(core, f) /\ WasPredicted(core, q, f) => AllowPrediction

RequestInWindow ==
  core.rollback # None => /\ core.rollback > Horizon
                          /\ core.rollback <= core.last /\ AllowPrediction

(* Every local capture is confirmed; nobody captures far ahead. *)
CapturesBounded ==
  /\ core.confirmed[Local] >= Captured(Local) - 1
  /\ Captured(Local) <= peak + 2 + CaptureLead + InputDelay
  /\ \A q \in Remote : Captured(q) <= Captured(Local) + RemoteLead

WInv ==
  /\ RingsSound /\ WithinSnapshots /\ DecisionsKept /\ PredictionsAllowed
  /\ RequestInWindow /\ CapturesBounded

---------------------------------------------------------------------------
(* Consequences. *)

LEMMA WindowConstants ==
  /\ MaxRollback \in Nat /\ MaxRollback > 0 /\ InputDelay \in Nat
  /\ CaptureLead \in Nat /\ History \in Nat /\ 2 * MaxRollback < History
  /\ MaxRollback + InputDelay + CaptureLead < History
  /\ RemoteLead \in Nat
  BY CoreAssumption, PeerAssumption DEF RemoteLead

(* The numbers of a state, with their types. *)
LEMMA WindowNumbers ==
  ASSUME TypeOK
  PROVE  /\ core.last \in Int /\ core.last >= -1
         /\ core.rollback \in Int /\ core.rollback >= -1
         /\ peak \in Int /\ peak >= -1 /\ Horizon \in Int
         /\ \A q \in Player : /\ core.confirmed[q] \in Int
                              /\ core.confirmed[q] >= -1
                              /\ Captured(q) \in Nat
<1>1. /\ core.last \in FrameOrNone /\ core.rollback \in FrameOrNone
      /\ peak \in FrameOrNone
      /\ \A q \in Player : core.confirmed[q] \in FrameOrNone
      /\ \A q \in Player : Captured(q) \in Nat
  BY CoreFacts, StreamFacts
<1> QED
  BY <1>1, WindowConstants DEF FrameOrNone, None, Horizon

(* NoHoleInConfirmedHistory and RollbackIsPossible follow from WInv. *)
LEMMA WindowImplies ==
  ASSUME IInv, WInv
  PROVE  NoHoleInConfirmedHistory /\ RollbackIsPossible
<1> USE WindowConstants
<1>1. TypeOK
  BY DEF IInv
<1>2. NoHoleInConfirmedHistory
  <2> SUFFICES ASSUME NEW q \in Player,
                      NEW f \in NextFrame .. core.confirmed[q]
               PROVE  Present(core.inputs[q], f)
    BY DEF NoHoleInConfirmedHistory
  <2>1. core.last >= Horizon
    BY DEF WInv, WithinSnapshots
  <2>2. f \in Nat /\ f <= core.confirmed[q] /\ f > Horizon
    BY <1>1, <2>1, WindowNumbers DEF NextFrame
  <2> QED
    BY <2>2 DEF WInv, RingsSound, SoundRing
<1>3. RollbackIsPossible
  <2> SUFFICES ASSUME core.rollback # None
               PROVE  /\ core.rollback > peak - MaxRollback
                      /\ CanRewind(core, core.rollback)
    BY DEF RollbackIsPossible
  <2>1. /\ core.rollback > Horizon /\ core.rollback <= core.last
        /\ AllowPrediction
    BY DEF WInv, RequestInWindow
  <2>2. core.rollback \in Nat
    BY <1>1, CoreFacts DEF FrameOrNone
  <2>3. core.last <= peak
    BY DEF IInv, Ordered
  <2>4. core.rollback \in 0 .. core.last /\ core.last - core.rollback < History
    BY <1>1, <2>1, <2>2, <2>3, WindowNumbers DEF Horizon
  <2>5. ASSUME NEW f \in core.rollback .. core.last PROVE HasUsed(core, f)
    <3>1. f \in Nat /\ f <= core.last /\ f > peak - History
      BY <1>1, <2>1, <2>2, WindowNumbers DEF Horizon
    <3> QED
      BY <3>1 DEF WInv, DecisionsKept
  <2> QED
    BY <2>1, <2>4, <2>5 DEF CanRewind, Horizon
<1> QED
  BY <1>2, <1>3

---------------------------------------------------------------------------
(* Rings. *)

(* A ring stays sound when every slot that changes gets a frame of its own *)
(* that is newer than every confirmed one it replaces, and when those it   *)
(* replaces are not after the limit.                                       *)
LEMMA SoundStep ==
  ASSUME NEW ring \in Ring, NEW new \in Ring, NEW limit \in Int,
         NEW front \in FrameOrNone, NEW front2 \in FrameOrNone,
         SoundRing(ring, front, limit),
         \A s \in Slots :
           \/ new[s] = ring[s]
           \/ /\ new[s].present /\ new[s].frame \in Nat
              /\ new[s].frame % History = s
              /\ ring[s].present /\ ring[s].frame <= front =>
                   /\ new[s].frame >= ring[s].frame
                   /\ ring[s].frame <= limit \/ ring[s].frame = new[s].frame
              /\ ring[s].present /\ ring[s].frame > front =>
                   new[s].frame > front \/ new[s].frame >= ring[s].frame,
         \A f \in front + 1 .. front2 : Present(new, f)
  PROVE  SoundRing(new, front2, limit)
<1>1. front \in Int /\ front2 \in Int
  BY DEF FrameOrNone, None
<1>3. \A s \in Slots : /\ ring[s].frame \in FrameOrNone
                       /\ new[s].frame \in FrameOrNone
  BY DEF Ring, InputSlot
<1>4. ASSUME NEW s \in Slots, new[s].present
      PROVE  new[s].frame \in Nat /\ new[s].frame % History = s
  BY <1>4 DEF SoundRing
<1>5. ASSUME NEW f \in Nat, f <= front2, ~ (f <= front)
      PROVE  new[f % History].present /\ new[f % History].frame = f
  <2>1. f \in front + 1 .. front2
    BY <1>1, <1>5
  <2> QED
    BY <2>1 DEF Present
<1>6. ASSUME NEW f \in Nat, f <= front
      PROVE  new[f % History].present /\ new[f % History].frame >= f
  <2> DEFINE s == f % History
  <2>1. s \in Slots
    BY SlotOf
  <2>2. ring[s].present /\ ring[s].frame >= f
    BY <1>6 DEF SoundRing
  <2> HIDE DEF s
  <2>3. new[s].present /\ new[s].frame >= f
    BY <1>1, <1>3, <1>6, <2>1, <2>2 DEF FrameOrNone, None
  <2> QED
    BY <2>3 DEF s
<1>7. ASSUME NEW f \in Nat, f <= front, f > limit
      PROVE  Present(new, f)
  <2> DEFINE s == f % History
  <2>1. s \in Slots
    BY SlotOf
  <2>2. ring[s].present /\ ring[s].frame = f
    BY <1>7 DEF SoundRing, Present
  <2> HIDE DEF s
  <2>3. new[s].present /\ new[s].frame = f
    BY <1>1, <1>7, <2>1, <2>2
  <2> QED
    BY <2>3 DEF s, Present
<1>8. ASSUME NEW f \in Nat, f <= front2
      PROVE  new[f % History].present /\ new[f % History].frame >= f
  <2>1. CASE f <= front
    BY <1>6, <2>1
  <2>2. CASE ~ (f <= front)
    BY <1>5, <1>8, <2>2
  <2> QED
    BY <2>1, <2>2
<1>9. ASSUME NEW f \in Nat, f <= front2, f > limit
      PROVE  Present(new, f)
  <2>1. CASE f <= front
    BY <1>7, <1>9, <2>1
  <2>2. CASE ~ (f <= front)
    BY <1>5, <1>9, <2>2 DEF Present
  <2> QED
    BY <2>1, <2>2
<1> QED
  BY <1>4, <1>8, <1>9 DEF SoundRing

(* A frame that is stored after the frontier replaces only frames at least *)
(* History older.                                                          *)
LEMMA StoreSound ==
  ASSUME NEW ring \in Ring, NEW front \in FrameOrNone, NEW limit \in Int,
         SoundRing(ring, front, limit),
         NEW f \in Nat, NEW v \in Input, f > front, f - History <= limit
  PROVE  SoundRing(Store(ring, f, v), Advanced(Store(ring, f, v), front), limit)
<1> DEFINE new == Store(ring, f, v)
           front2 == Advanced(new, front)
<1>1. new \in Ring
  BY StoreKeeps
<1>2. /\ front2 \in FrameOrNone
      /\ \A g \in front + 1 .. front2 : Present(new, g)
  BY AdvancedRun
<1>3. \A s \in Slots :
        \/ new[s] = ring[s]
        \/ s = f % History /\ new[s].frame = f /\ new[s].present
  BY StoreSlots
<1>4. front \in Int /\ History \in Nat /\ History > 0
  BY CoreAssumption DEF FrameOrNone, None
<1> HIDE DEF new, front2
<1>5. ASSUME NEW s \in Slots, new[s] # ring[s]
      PROVE  /\ new[s].present /\ new[s].frame \in Nat
             /\ new[s].frame % History = s
             /\ ring[s].present /\ ring[s].frame <= front =>
                  /\ new[s].frame >= ring[s].frame
                  /\ ring[s].frame <= limit \/ ring[s].frame = new[s].frame
             /\ ring[s].present /\ ring[s].frame > front =>
                  new[s].frame > front \/ new[s].frame >= ring[s].frame
  <2>1. s = f % History /\ new[s].frame = f /\ new[s].present
    BY <1>3, <1>5
  <2>2. ASSUME ring[s].present, ring[s].frame <= front
        PROVE  ring[s].frame < f /\ ring[s].frame <= limit
    <3> DEFINE h == ring[s].frame
    <3>1. h \in Nat /\ h % History = f % History
      BY <2>1, <2>2 DEF SoundRing
    <3> HIDE DEF h
    <3>2. h < f
      BY <1>4, <2>2, <3>1 DEF h
    <3>3. h + History <= f
      BY <3>1, <3>2, SameSlotFar
    <3>4. h < f /\ h <= limit
      BY <1>4, <3>1, <3>2, <3>3
    <3> QED
      BY <3>4 DEF h
  <2>3. ring[s].present => ring[s].frame \in Nat
    BY DEF SoundRing
  <2> QED
    BY <2>1, <2>2, <2>3
<1>6. SoundRing(new, front2, limit)
  BY <1>1, <1>2, <1>5, SoundStep
<1> QED
  BY <1>6 DEF new, front2
---------------------------------------------------------------------------
(* The actions that put samples of one player q into its ring. *)

LEMMA ArrivalWindow ==
  ASSUME IInv, WInv, NEW q \in Player, Arrival(q), TypeOK',
         core'.confirmed[q] >= core.confirmed[q],
         SoundRing(core'.inputs[q], core'.confirmed[q], Horizon),
         RequestInWindow', CapturesBounded'
  PROVE  WInv'
<1> USE WindowConstants
<1>1. /\ core'.used = core.used /\ core'.last = core.last /\ peak' = peak
      /\ \A r \in Player \ {q} : /\ core'.inputs[r] = core.inputs[r]
                                 /\ core'.confirmed[r] = core.confirmed[r]
  BY DEF Arrival
<1>2. Horizon' = Horizon
  BY <1>1 DEF Horizon
<1>3. RingsSound'
  <2> SUFFICES ASSUME NEW r \in Player
               PROVE  SoundRing(core'.inputs[r], core'.confirmed[r], Horizon)
    BY <1>2 DEF RingsSound
  <2>1. CASE r = q
    BY <2>1
  <2>2. CASE r # q
    <3>1. SoundRing(core.inputs[r], core.confirmed[r], Horizon)
      BY DEF WInv, RingsSound
    <3> QED
      BY <1>1, <2>2, <3>1
  <2> QED
    BY <2>1, <2>2
<1>4. WithinSnapshots'
  <2>1. core'.last >= Horizon'
    BY <1>1, <1>2 DEF WInv, WithinSnapshots
  <2>2. ASSUME NEW r \in Remote
        PROVE  peak' <= core'.confirmed[r] + MaxRollback
    <3>1. peak <= core.confirmed[r] + MaxRollback
      BY DEF WInv, WithinSnapshots
    <3>2. r \in Player /\ TypeOK
      BY DEF Remote, IInv
    <3>3. core.confirmed[r] \in Int /\ core'.confirmed[r] \in Int /\ peak \in Int
      <4>1. core' \in Core
        BY DEF Arrival
      <4>2. core'.confirmed[r] \in FrameOrNone
        BY <3>2, <4>1 DEF Core
      <4> QED
        BY <3>2, <4>2, WindowNumbers DEF FrameOrNone, None
    <3>4. core'.confirmed[r] >= core.confirmed[r]
      BY <1>1, <3>2, <3>3
    <3> QED
      BY <1>1, <3>1, <3>3, <3>4
  <2> QED
    BY <2>1, <2>2 DEF WithinSnapshots
<1>5. DecisionsKept' /\ PredictionsAllowed'
  BY <1>1 DEF WInv, DecisionsKept, PredictionsAllowed, HasUsed, WasPredicted
<1> QED
  BY <1>3, <1>4, <1>5 DEF WInv

(* The title captures few frames ahead of its simulation: the slot it      *)
(* takes is that of a frame beyond the horizon.                            *)
LEMMA CaptureWindow ==
  ASSUME IInv, WInv, IInv', NEW v \in Pressable[Local], Capture(v)
  PROVE  WInv'
<1> USE WindowConstants
<1> DEFINE k == Captured(Local) - InputDelay
           f == Captured(Local)
           front == core.confirmed[Local]
<1>1. /\ TypeOK /\ TypeOK' /\ core \in Core /\ core.me = Local
      /\ v \in Input /\ Local \in Player
      /\ core' = ScheduleLocalInput(core, k, v)
      /\ stream' = [stream EXCEPT ![Local] = Append(@, v)]
      /\ peak' = peak /\ exported' = exported
      /\ k <= core.last + 1 + CaptureLead
  BY CoreFacts, ConstantFacts DEF Capture, IInv, NextFrame
<1>2. /\ f \in Nat /\ k \in Nat /\ LocalFrameForCapture(k) = f
      /\ front < f /\ front \in FrameOrNone
  <2>1. f \in Nat /\ front \in FrameOrNone
    BY <1>1, StreamFacts, CoreFacts
  <2>2. f >= InputDelay /\ front < f
    BY <1>1 DEF IInv, FrontiersHonest
  <2> QED
    BY <2>1, <2>2 DEF LocalFrameForCapture
<1>3. /\ core' \in Core
      /\ core'.me = core.me /\ core'.used = core.used /\ core'.last = core.last
      /\ core'.rollback = core.rollback
      /\ \A r \in Player \ {Local} : /\ core'.inputs[r] = core.inputs[r]
                                     /\ core'.confirmed[r] = core.confirmed[r]
      /\ core'.inputs[Local] = Store(core.inputs[Local], f, v)
      /\ core'.confirmed[Local] = Advanced(core'.inputs[Local], front)
  <2>1. /\ core \in Core /\ core.me = Local /\ v \in Input
        /\ core' = ScheduleLocalInput(core, k, v)
        /\ k \in Nat /\ LocalFrameForCapture(k) = f
    BY <1>1, <1>2
  <2> HIDE DEF k, f
  <2> QED
    BY <2>1, ScheduleEffect
<1>4. Arrival(Local)
  BY <1>1, <1>3 DEF Arrival
<1>5. core.inputs[Local] \in Ring
  BY <1>1, CoreFacts
<1>6. /\ core'.confirmed[Local] \in FrameOrNone
      /\ core'.confirmed[Local] >= front
      /\ ~ Present(core'.inputs[Local], core'.confirmed[Local] + 1)
  <2> HIDE DEF front
  <2> QED
    BY <1>2, <1>3, AdvancedRun DEF FrameOrNone, None
<1>7. SoundRing(core'.inputs[Local], core'.confirmed[Local], Horizon)
  <2>1. core.last <= peak
    BY DEF IInv, Ordered
  <2>2. f - History <= Horizon
    BY <1>1, <1>2, <2>1, WindowNumbers, SMTT(30) DEF Horizon
  <2>3. SoundRing(core.inputs[Local], front, Horizon)
    BY <1>1 DEF WInv, RingsSound
  <2>4. Horizon \in Int
    BY <1>1, WindowNumbers
  <2> DEFINE ring == core.inputs[Local]
  <2>5. ring \in Ring /\ SoundRing(ring, front, Horizon)
    BY <1>5, <2>3
  <2> HIDE DEF f, front, ring, Horizon
  <2>6. SoundRing(Store(ring, f, v), Advanced(Store(ring, f, v), front), Horizon)
    BY <1>1, <1>2, <2>2, <2>4, <2>5, StoreSound
  <2> QED
    BY <1>3, <2>6 DEF ring
<1>8. RequestInWindow'
  BY <1>1, <1>3 DEF WInv, RequestInWindow, Horizon
<1>9. CapturesBounded'
  <2>1. /\ Captured(Local)' = f + 1
        /\ \A q \in Remote : Captured(q)' = Captured(q) /\ Captured(q) \in Nat
    <3>1. Captured(Local)' = f + 1
      BY <1>1, AppendKeeps
    <3>2. \A q \in Remote : stream'[q] = stream[q]
      BY <1>1 DEF Remote, TypeOK
    <3> QED
      BY <1>1, <3>1, <3>2, StreamFacts DEF Captured, Remote
  <2>2. core'.confirmed[Local] >= f
    <3>1. front >= f - 1
      BY DEF WInv, CapturesBounded
    <3>2. Present(core'.inputs[Local], f)
      <4> DEFINE ring == core.inputs[Local]
      <4>1. ring \in Ring
        BY <1>5
      <4> HIDE DEF f, ring
      <4>2. Present(Store(ring, f, v), f)
        BY <1>1, <1>2, <4>1, StoreKeeps
      <4> QED
        BY <1>3, <4>2 DEF ring
    <3>3. core'.confirmed[Local] + 1 # f
      BY <1>6, <3>2
    <3> HIDE DEF f, front
    <3> QED
      BY <1>2, <1>6, <3>1, <3>3 DEF FrameOrNone, None
  <2>3. f + 1 <= peak + 2 + CaptureLead + InputDelay
    <3>1. core.last <= peak
      BY DEF IInv, Ordered
    <3> QED
      BY <1>1, <1>2, <3>1, WindowNumbers, SMTT(30)
  <2>4. \A q \in Remote : Captured(q) <= f + RemoteLead
    BY DEF WInv, CapturesBounded
  <2>5. \A q \in Remote : Captured(q) <= f + 1 + RemoteLead
    BY <1>2, <2>1, <2>4
  <2>6. core'.confirmed[Local] >= (f + 1) - 1
    BY <1>2, <2>2
  <2> QED
    BY <1>1, <2>1, <2>3, <2>5, <2>6 DEF CapturesBounded, RemoteLead
<1> QED
  BY <1>1, <1>4, <1>6, <1>7, <1>8, <1>9, ArrivalWindow

(* A startup frame is replaced in its own slot. *)
LEMMA BootstrapWindow ==
  ASSUME IInv, WInv, IInv', NEW f \in 0 .. InputDelay - 1,
         NEW v \in Pressable[Local], Bootstrap(f, v)
  PROVE  WInv'
<1> USE WindowConstants
<1> DEFINE front == core.confirmed[Local]
           ring == core.inputs[Local]
           new == core'.inputs[Local]
<1>1. /\ TypeOK /\ TypeOK' /\ core \in Core /\ core.me = Local
      /\ v \in Input /\ Local \in Player /\ f \in Nat
      /\ core' = SetLocalLeadInInput(core, f, v)
      /\ Present(ring, f)
      /\ stream' = [stream EXCEPT ![Local][f + 1] = v]
      /\ peak' = peak /\ exported' = exported
  BY CoreFacts, ConstantFacts DEF Bootstrap, IInv, CanSetLeadIn
<1>2. /\ core' \in Core
      /\ core'.me = core.me /\ core'.used = core.used /\ core'.last = core.last
      /\ core'.rollback = core.rollback /\ core'.confirmed = core.confirmed
      /\ \A r \in Player \ {Local} : core'.inputs[r] = core.inputs[r]
      /\ new = Store(ring, f, v)
  <2> HIDE DEF ring, new
  <2> QED
    BY <1>1, LeadInEffect, ZenonT(30) DEF ring, new
<1>3. Arrival(Local)
  BY <1>1, <1>2 DEF Arrival
<1>4. /\ ring \in Ring /\ new \in Ring /\ front \in FrameOrNone
      /\ Horizon \in Int /\ core'.confirmed[Local] = front
      /\ SoundRing(ring, front, Horizon)
  BY <1>1, <1>2, CoreFacts, WindowNumbers DEF WInv, RingsSound, Core
<1>5. SoundRing(new, front, Horizon)
  <2>1. \A g \in front + 1 .. front : Present(new, g)
    BY <1>4 DEF FrameOrNone, None
  <2> HIDE DEF ring, new, front, Horizon
  <2>2. ASSUME NEW s \in Slots, new[s] # ring[s]
        PROVE  /\ new[s].present /\ new[s].frame = f /\ s = f % History
               /\ ring[s].frame = f
    <3>1. s = f % History /\ new[s].frame = f /\ new[s].present
      BY <1>1, <1>2, <1>4, <2>2, StoreSlots
    <3> QED
      BY <1>1, <3>1 DEF Present
  <2>3. f >= f
    BY <1>1
  <2> QED
    BY <1>1, <1>4, <2>1, <2>2, <2>3, SoundStep
<1>6. RequestInWindow'
  BY <1>1, <1>2 DEF WInv, RequestInWindow, Horizon
<1>7. CapturesBounded'
  <2>1. \A q \in Player : Captured(q)' = Captured(q)
    <3>1. /\ stream \in [Player -> Seq(Input)]
          /\ stream'[Local] = [stream[Local] EXCEPT ![f + 1] = v]
          /\ \A q \in Player : q # Local => stream'[q] = stream[q]
      BY <1>1 DEF TypeOK
    <3>2. f + 1 \in 1 .. Len(stream[Local])
      BY <1>1, StreamFacts DEF Bootstrap, Captured
    <3> DEFINE old == stream[Local]
    <3>3. old \in Seq(Input) /\ f + 1 \in 1 .. Len(old)
          /\ stream'[Local] = [old EXCEPT ![f + 1] = v]
      BY <1>1, <3>1, <3>2
    <3> HIDE DEF old
    <3>4. Len(stream'[Local]) = Len(old)
      BY <1>1, <3>3
    <3> QED
      BY <3>1, <3>4 DEF Captured, old
  <2> QED
    BY <1>1, <1>2, <2>1 DEF WInv, CapturesBounded, Remote, RemoteLead
<1>8. core'.confirmed[Local] >= front
  BY <1>4 DEF FrameOrNone, None
<1> QED
  BY <1>1, <1>3, <1>4, <1>5, <1>6, <1>7, <1>8, ArrivalWindow
(* The title confirms a frame it simulated: the slot held no frame that    *)
(* recent.                                                                 *)
LEMMA ConfirmEquivalentWindow ==
  ASSUME IInv, WInv, IInv', NEW q \in Remote, NEW f \in 0 .. Captured(q) - 1,
         ConfirmEquivalent(q, f)
  PROVE  WInv'
<1> USE WindowConstants
<1> DEFINE v == Pressed(q, f)
           front == core.confirmed[q]
           ring == core.inputs[q]
<1>1. /\ TypeOK /\ TypeOK' /\ core \in Core /\ q \in Player
      /\ core' = SubmitEquivalentRemoteInput(core, q, f, v)
      /\ stream' = stream /\ peak' = peak /\ exported' = exported
      /\ IsPredicted(core, q, f) /\ f > front /\ f <= core.last
  BY CoreFacts DEF ConfirmEquivalent, IInv, Remote, IsPredicted
<1>2. Captured(q) \in Nat /\ f \in Nat /\ v \in Input
  BY <1>1, StreamFacts
<1>3. \/ core' = core
      \/ /\ core' \in Core
         /\ core'.me = core.me /\ core'.used = core.used /\ core'.last = core.last
         /\ core'.rollback = core.rollback
         /\ \A r \in Player \ {q} : /\ core'.inputs[r] = core.inputs[r]
                                    /\ core'.confirmed[r] = core.confirmed[r]
         /\ core'.inputs[q] = Store(ring, f, v)
         /\ core'.confirmed[q] = Advanced(core'.inputs[q], front)
  <2>1. /\ core \in Core /\ q \in Player /\ f \in Nat /\ v \in Input
        /\ core' = SubmitEquivalentRemoteInput(core, q, f, v)
        /\ IsPredicted(core, q, f)
    BY <1>1, <1>2
  <2> HIDE DEF v
  <2> QED
    BY <2>1, EquivalentEffect
<1>4. CASE core' = core
  BY <1>1, <1>4 DEF WInv, RingsSound, WithinSnapshots, DecisionsKept,
                    PredictionsAllowed, RequestInWindow, CapturesBounded,
                    Captured, Horizon, HasUsed, WasPredicted
<1>5. CASE core' # core
  <2>1. Arrival(q)
    BY <1>1, <1>3, <1>5 DEF Arrival
  <2>2. /\ ring \in Ring /\ front \in FrameOrNone /\ Horizon \in Int
        /\ SoundRing(ring, front, Horizon)
    BY <1>1, CoreFacts, WindowNumbers DEF WInv, RingsSound
  <2>3. f - History <= Horizon
    <3>1. core.last <= peak
      BY DEF IInv, Ordered
    <3> QED
      BY <1>1, <1>2, <3>1, WindowNumbers DEF Horizon
  <2>4. SoundRing(core'.inputs[q], core'.confirmed[q], Horizon)
    <3>1. /\ core'.inputs[q] = Store(ring, f, v)
          /\ core'.confirmed[q] = Advanced(Store(ring, f, v), front)
      BY <1>3, <1>5
    <3> HIDE DEF v, front, ring, Horizon
    <3>2. SoundRing(Store(ring, f, v), Advanced(Store(ring, f, v), front), Horizon)
      BY <1>1, <1>2, <2>2, <2>3, StoreSound
    <3> QED
      BY <3>1, <3>2
  <2>5. core'.confirmed[q] >= front
    BY <1>3, <1>5, <2>2, AdvancedRun DEF FrameOrNone, None
  <2>6. RequestInWindow'
    BY <1>1, <1>3, <1>5 DEF WInv, RequestInWindow, Horizon
  <2>7. CapturesBounded'
    <3>1. q # Local
      BY DEF Remote
    <3> QED
      BY <1>1, <1>3, <1>5, <3>1, ConstantFacts
         DEF WInv, CapturesBounded, Captured, RemoteLead
  <2> QED
    BY <1>1, <2>1, <2>4, <2>5, <2>6, <2>7, ArrivalWindow
<1> QED
  BY <1>4, <1>5

(* The check of the slots refuses a packet that would drop a recoverable   *)
(* frame.  A fresh sample of a predicted frame contradicts a decision of   *)
(* the window: were its frame older and confirmed, its slot would hold a   *)
(* frame that is newer than the whole simulation, and the packet refused.  *)
LEMMA DeliverWindow ==
  ASSUME IInv, WInv, IInv', NEW q \in Remote, NEW pkt \in HonestPackets(q),
         Deliver(pkt)
  PROVE  WInv'
<1> USE WindowConstants
<1> DEFINE fresh == FreshFrames(core, pkt)
           wrong == {f \in fresh : Mispredicted(core, q, f, Sample(pkt, f))}
           front == core.confirmed[q]
           ring == core.inputs[q]
           new == core'.inputs[q]
<1>1. /\ TypeOK /\ TypeOK' /\ core \in Core /\ q \in Player /\ q # Local
      /\ core' = ApplyInputPacket(core, pkt) /\ AcceptsPacket(core, pkt)
      /\ stream' = stream /\ peak' = peak /\ exported' = exported
  BY CoreFacts DEF Deliver, IInv, Remote
<1>2. /\ pkt.from = q /\ pkt.ack \in FrameOrNone
      /\ \A f \in PacketFrames(pkt) : /\ f \in Nat /\ f < Captured(q)
                                      /\ Sample(pkt, f) = Pressed(q, f)
  BY HonestPacketFacts
<1>3. /\ PacketFrames(pkt) \subseteq Nat
      /\ \A f \in PacketFrames(pkt) : Sample(pkt, f) \in Input
  BY <1>1, <1>2, StreamFacts
<1>4. /\ core' \in Core
      /\ core'.me = core.me /\ core'.used = core.used /\ core'.last = core.last
      /\ \A r \in Player \ {q} : /\ core'.inputs[r] = core.inputs[r]
                                 /\ core'.confirmed[r] = core.confirmed[r]
      /\ new = StoreAll(ring, fresh, pkt)
      /\ core'.confirmed[q] = Advanced(new, front)
      /\ core'.rollback = core.rollback \/ core'.rollback \in wrong
  BY <1>1, <1>2, <1>3, ApplyEffect
<1>5. /\ ring \in Ring /\ new \in Ring /\ front \in FrameOrNone
      /\ Horizon \in Int /\ SoundRing(ring, front, Horizon)
  BY <1>1, <1>4, CoreFacts, WindowNumbers DEF WInv, RingsSound, Core
<1>6. ASSUME NEW f \in fresh
      PROVE  /\ f \in Nat /\ ~ Present(ring, f) /\ f > core.last - History
             /\ ~ Collides(core, q, f)
  <2>1. f \in PacketFrames(pkt) /\ ~ FrameIsTooOld(core, f) /\ ~ Present(ring, f)
    BY <1>2 DEF FreshFrames
  <2>2. f \in Nat /\ ~ Collides(core, q, f)
    BY <1>1, <1>2, <2>1 DEF AcceptsPacket
  <2>3. f > core.last - History
    BY <1>1, <2>1, <2>2, WindowNumbers DEF FrameIsTooOld
  <2> QED
    BY <2>1, <2>2, <2>3
<1>7. core.last \in Int /\ core.last >= -1 /\ core.last <= peak /\ peak \in Int
  BY <1>1, WindowNumbers DEF IInv, Ordered
(* What a fresh frame replaces is older, and beyond the horizon. *)
<1>8. ASSUME NEW f \in fresh, ring[f % History].present
      PROVE  /\ ring[f % History].frame < f
             /\ ring[f % History].frame <= Horizon
  <2> DEFINE h == ring[f % History].frame
  <2>1. f \in Nat /\ f > core.last - History /\ f % History \in Slots
    BY <1>6, SlotOf
  <2>2. h \in Nat /\ h % History = f % History
    BY <1>5, <1>8, <2>1 DEF SoundRing
  <2>3. h # f
    BY <1>6, <1>8 DEF Present
  <2>4. h < OldestRecoverable(core)
    <3>1. OldestRecoverable(core) \in Int
      BY <1>7 DEF OldestRecoverable
    <3>2. ~ (h >= OldestRecoverable(core))
      BY <1>6, <1>8, <2>3 DEF Collides
    <3> HIDE DEF h
    <3> QED
      BY <2>2, <3>1, <3>2
  <2> HIDE DEF h, fresh
  <2>5. h <= core.last - MaxRollback
    BY <1>7, <2>2, <2>4 DEF OldestRecoverable
  <2>6. h <= Horizon
    BY <1>7, <2>2, <2>5 DEF Horizon
  <2>7. ~ (f < h)
    <3>1. f < h => f + History <= h
      BY <2>1, <2>2, SameSlotFar
    <3> QED
      BY <1>7, <2>1, <2>2, <2>5, <3>1
  <2>8. h < f
    BY <2>1, <2>2, <2>3, <2>7
  <2> QED
    BY <2>6, <2>8 DEF h
<1>9. /\ core'.confirmed[q] \in FrameOrNone /\ core'.confirmed[q] >= front
      /\ \A f \in front + 1 .. core'.confirmed[q] : Present(new, f)
  <2> HIDE DEF front, new
  <2> QED
    BY <1>4, <1>5, AdvancedRun DEF FrameOrNone, None
<1>10. SoundRing(new, core'.confirmed[q], Horizon)
  <2>1. \A s \in Slots :
          \/ new[s] = ring[s]
          \/ \E f \in fresh : /\ f % History = s /\ new[s].frame = f
                             /\ new[s].present
    BY <1>4, StoreAllSlots
  <2> HIDE DEF fresh, wrong, front, ring, new, Horizon
  <2>2. ASSUME NEW s \in Slots, new[s] # ring[s]
        PROVE  /\ new[s].present /\ new[s].frame \in Nat
               /\ new[s].frame % History = s
               /\ ring[s].present =>
                    new[s].frame >= ring[s].frame /\ ring[s].frame <= Horizon
    <3>1. PICK f \in fresh : /\ f % History = s /\ new[s].frame = f
                             /\ new[s].present
      BY <2>1, <2>2
    <3>2. f \in Nat
      BY <1>6
    <3>3. ASSUME ring[s].present
          PROVE  f >= ring[s].frame /\ ring[s].frame <= Horizon
      <4>1. ring[s].frame \in Nat
        BY <1>5, <3>3 DEF SoundRing
      <4>2. ring[s].frame < f /\ ring[s].frame <= Horizon
        BY <1>8, <3>1, <3>3
      <4> QED
        BY <3>2, <4>1, <4>2
    <3> QED
      BY <3>1, <3>2, <3>3
  <2> QED
    BY <1>5, <1>9, <2>2, SoundStep
<1>11. Arrival(q)
  BY <1>1, <1>4 DEF Arrival
<1>12. RequestInWindow'
  <2>1. CASE core'.rollback = core.rollback
    BY <1>1, <1>4, <2>1 DEF WInv, RequestInWindow, Horizon
  <2>2. CASE core'.rollback \in wrong
    <3> DEFINE f == core'.rollback
    <3>1. /\ f \in fresh /\ HasUsed(core, f) /\ f <= core.last
          /\ WasPredicted(core, q, f)
      BY <2>2 DEF Mispredicted
    <3>2. f \in Nat /\ f > core.last - History /\ ~ Collides(core, q, f)
          /\ ~ Present(ring, f)
      BY <1>6, <3>1
    <3>3. AllowPrediction
      BY <1>1, <3>1, <3>2 DEF WInv, PredictionsAllowed
    <3>4. f > Horizon
      <4>1. CASE f > front
        <5>1. peak <= front + MaxRollback
          BY DEF WInv, WithinSnapshots
        <5> HIDE DEF f, front
        <5> QED
          BY <1>5, <1>7, <3>2, <4>1, <5>1 DEF Horizon, FrameOrNone, None
      <4>2. CASE ~ (f > front)
        <5>1. f <= front
          <6> HIDE DEF f, front
          <6> QED
            BY <1>5, <3>2, <4>2 DEF FrameOrNone, None
        <5> DEFINE h == ring[f % History].frame
        <5>2. ring[f % History].present /\ h >= f /\ f % History \in Slots
          BY <1>5, <3>2, <5>1, SlotOf DEF SoundRing
        <5>3. h \in Nat /\ h % History = f % History
          BY <1>5, <5>2 DEF SoundRing
        <5>4. h < f
          BY <1>8, <3>1, <5>2
        <5> HIDE DEF f, h
        <5> QED
          BY <3>2, <5>2, <5>3, <5>4
      <4> QED
        BY <4>1, <4>2
    <3> QED
      BY <1>1, <1>4, <3>1, <3>3, <3>4 DEF RequestInWindow, Horizon
  <2> QED
    BY <1>4, <2>1, <2>2
<1>13. CapturesBounded'
  BY <1>1, <1>4, ConstantFacts
     DEF WInv, CapturesBounded, Captured, RemoteLead
<1> QED
  BY <1>1, <1>9, <1>10, <1>11, <1>12, <1>13, ArrivalWindow

---------------------------------------------------------------------------
(* The title's loop. *)

(* A new decision takes the slot of the decision History frames before it. *)
LEMMA SimulateWindow ==
  ASSUME IInv, WInv, IInv', Simulate
  PROVE  WInv'
<1> USE WindowConstants
<1> DEFINE n == core.last + 1
           new == PrepareFrame(core, n)
<1>1. /\ TypeOK /\ TypeOK' /\ core \in Core /\ core.me = Local
      /\ core.rollback = None
      /\ CanAdvance(core, n) /\ core' = MarkSimulated(core, n)
      /\ stream' = stream /\ exported' = exported
      /\ peak' = Larger(peak, n)
  BY CoreFacts DEF Simulate, IInv, NextFrame
<1>2. /\ n \in Nat /\ peak \in Int /\ core.last \in Int /\ core.last <= peak
      /\ Horizon \in Int
  BY <1>1, WindowNumbers DEF IInv, Ordered
<1>3. /\ core'.inputs = core.inputs /\ core'.confirmed = core.confirmed
      /\ core'.rollback = None
      /\ core'.last = Larger(core.last, n)
      /\ core'.used = [core.used EXCEPT ![n % History] = new]
  <2>1. /\ core \in Core /\ n \in Nat /\ core' = MarkSimulated(core, n)
        /\ core.rollback = None
    BY <1>1, <1>2
  <2> HIDE DEF n
  <2> QED
    BY <2>1, MarkSimulatedEffect
<1>4. /\ core'.last = n /\ peak' \in Int /\ peak' >= peak /\ peak' >= n
      /\ peak' = peak \/ peak' = n
  BY <1>1, <1>2, <1>3 DEF Larger
<1>5. core.used \in [Slots -> UsedSlot] /\ n % History \in Slots
  <2>1. n \in Int
    BY <1>2
  <2> HIDE DEF n
  <2> QED
    BY <1>1, <2>1, CoreFacts, SlotOf
<1>6. /\ HasUsed(core', n)
      /\ \A q \in Player :
           WasPredicted(core', q, n) => ~ Present(core.inputs[q], n)
  <2>1. new.frame = n /\ new.predicted = {q \in Player : ~ Present(core.inputs[q], n)}
    BY DEF PrepareFrame
  <2> HIDE DEF n, new
  <2> QED
    BY <1>3, <1>5, <2>1 DEF HasUsed, WasPredicted
<1>7. ASSUME NEW f \in Nat, f % History # n % History
      PROVE  core'.used[f % History] = core.used[f % History]
  BY <1>3, <1>5, <1>7, SlotOf
<1>8. RingsSound'
  <2> SUFFICES ASSUME NEW q \in Player
               PROVE  SoundRing(core.inputs[q], core.confirmed[q], Horizon')
    BY <1>3 DEF RingsSound
  <2>1. SoundRing(core.inputs[q], core.confirmed[q], Horizon)
    BY DEF WInv, RingsSound
  <2>2. Horizon' >= Horizon /\ Horizon' \in Int
    <3> DEFINE top == peak'
    <3>1. /\ peak \in Int /\ top \in Int /\ top >= peak
          /\ Horizon' = top - MaxRollback
      BY <1>2, <1>4 DEF Horizon
    <3> HIDE DEF top
    <3> QED
      BY <3>1 DEF Horizon
  <2> HIDE DEF Horizon
  <2> QED
    BY <1>2, <2>1, <2>2 DEF SoundRing
<1>9. WithinSnapshots'
  <2>1. core'.last >= Horizon'
    <3>1. core.last >= Horizon
      BY DEF WInv, WithinSnapshots
    <3> QED
      BY <1>2, <1>4, <3>1 DEF Horizon
  <2>2. ASSUME NEW q \in Remote
        PROVE  peak' <= core'.confirmed[q] + MaxRollback
    <3>1. q \in Player /\ q # core.me
      BY <1>1 DEF Remote
    <3>2. n - core.confirmed[q] <= MaxRollback
      BY <1>1, <3>1 DEF CanAdvance
    <3>3. peak <= core.confirmed[q] + MaxRollback
      BY DEF WInv, WithinSnapshots
    <3>4. core.confirmed[q] \in Int
      BY <1>1, <3>1, WindowNumbers
    <3> HIDE DEF n
    <3> QED
      BY <1>2, <1>3, <1>4, <3>2, <3>3, <3>4
  <2> QED
    BY <2>1, <2>2 DEF WithinSnapshots
<1>10. DecisionsKept'
  <2> DEFINE top == peak'
  <2>0. top \in Int /\ top >= n /\ top >= peak
    BY <1>4
  <2> SUFFICES ASSUME NEW f \in Nat, f <= n, f > top - History
               PROVE  HasUsed(core', f)
    BY <1>4 DEF DecisionsKept, HasUsed
  <2> HIDE DEF n, top
  <2>1. CASE f = n
    BY <1>6, <2>1
  <2>2. CASE f < n
    <3>1. n \in Nat /\ peak \in Int
      BY <1>2
    <3>2. f % History # n % History
      <4>1. ~ (f + History <= n)
        BY <2>0, <3>1
      <4> QED
        BY <2>2, <3>1, <4>1, SameSlotFar
    <3>3. f <= core.last /\ f > peak - History
      BY <1>2, <2>0, <2>2, <3>1 DEF n
    <3>4. HasUsed(core, f)
      BY <3>3 DEF WInv, DecisionsKept
    <3> QED
      BY <1>7, <3>2, <3>4 DEF HasUsed
  <2> QED
    BY <1>2, <2>1, <2>2
<1>11. PredictionsAllowed'
  <2> SUFFICES ASSUME NEW q \in Player, NEW f \in Nat, HasUsed(core', f),
                      WasPredicted(core', q, f)
               PROVE  AllowPrediction
    BY DEF PredictionsAllowed, HasUsed, WasPredicted
  <2>1. CASE f % History = n % History
    <3>1. f = n
      BY <1>6, <2>1 DEF HasUsed
    <3>2. ~ Present(core.inputs[q], n)
      BY <1>6, <3>1
    <3>3. n > core.confirmed[q] /\ (~ AllowPrediction => core.confirmed[q] >= n)
      BY <1>1, <3>2 DEF CanAdvance
    <3>4. core.confirmed[q] \in Int
      BY <1>1, WindowNumbers
    <3> HIDE DEF n
    <3> QED
      BY <1>2, <3>3, <3>4
  <2>2. CASE f % History # n % History
    <3>1. core'.used[f % History] = core.used[f % History]
      BY <1>7, <2>2
    <3> QED
      BY <3>1 DEF WInv, PredictionsAllowed, HasUsed, WasPredicted
  <2> QED
    BY <2>1, <2>2
<1>12. RequestInWindow'
  BY <1>3 DEF RequestInWindow
<1>13. CapturesBounded'
  <2>1. \A q : Captured(q)' = Captured(q)
    BY <1>1 DEF Captured
  <2>2. Captured(Local) \in Nat
    BY <1>1, StreamFacts, ConstantFacts
  <2>3. Captured(Local) <= peak' + 2 + CaptureLead + InputDelay
    <3>1. Captured(Local) <= peak + 2 + CaptureLead + InputDelay
      BY DEF WInv, CapturesBounded
    <3> QED
      BY <1>2, <1>4, <2>2, <3>1
  <2> QED
    BY <1>3, <2>1, <2>3 DEF WInv, CapturesBounded, RemoteLead
<1> QED
  BY <1>8, <1>9, <1>10, <1>11, <1>12, <1>13 DEF WInv

(* The title rewinds to a snapshot it still has. *)
LEMMA RewindWindow ==
  ASSUME IInv, WInv, IInv', NEW first \in Nat, Rewind(first)
  PROVE  WInv'
<1> USE WindowConstants
<1>1. /\ TypeOK /\ core \in Core /\ core' = RewindSimulationTo(core, first)
      /\ first > Horizon /\ first <= core.last
      /\ stream' = stream /\ peak' = peak /\ exported' = exported
  BY CoreFacts DEF Rewind, IInv, CanRewind, Horizon
<1>2. core.last \in Int /\ peak \in Int /\ Horizon \in Int /\ Horizon' = Horizon
  BY <1>1, WindowNumbers DEF Horizon
<1>3. /\ core'.inputs = core.inputs /\ core'.confirmed = core.confirmed
      /\ core'.rollback = None /\ core'.last = first - 1
      /\ \A s \in Slots :
           core'.used[s] = IF core.used[s].frame >= first THEN EmptyUsed
                           ELSE core.used[s]
  BY <1>1, RewindEffect
<1>4. RingsSound' /\ RequestInWindow'
  BY <1>2, <1>3 DEF WInv, RingsSound, RequestInWindow
<1>5. WithinSnapshots'
  BY <1>1, <1>2, <1>3 DEF WInv, WithinSnapshots
<1>6. DecisionsKept'
  <2> SUFFICES ASSUME NEW f \in Nat, f <= first - 1, f > peak - History
               PROVE  HasUsed(core', f)
    BY <1>1, <1>3 DEF DecisionsKept, HasUsed
  <2>1. HasUsed(core, f)
    BY <1>1, <1>2 DEF WInv, DecisionsKept
  <2>2. f % History \in Slots /\ core.used[f % History].frame = f
    BY <2>1, SlotOf DEF HasUsed
  <2>3. ~ (core.used[f % History].frame >= first)
    BY <2>2
  <2> QED
    BY <1>3, <2>2, <2>3 DEF HasUsed
<1>7. PredictionsAllowed'
  <2> SUFFICES ASSUME NEW q \in Player, NEW f \in Nat, HasUsed(core', f),
                      WasPredicted(core', q, f)
               PROVE  AllowPrediction
    BY DEF PredictionsAllowed, HasUsed, WasPredicted
  <2>1. f % History \in Slots /\ core'.used[f % History] # EmptyUsed
    BY SlotOf DEF HasUsed, EmptyUsed, None
  <2>2. core'.used[f % History] = core.used[f % History]
    BY <1>3, <2>1
  <2> QED
    BY <2>2 DEF WInv, PredictionsAllowed, HasUsed, WasPredicted
<1>8. CapturesBounded'
  BY <1>1, <1>3 DEF WInv, CapturesBounded, Captured, RemoteLead
<1> QED
  BY <1>4, <1>5, <1>6, <1>7, <1>8 DEF WInv
(* The steps that leave the core and the peak alone: other players capture *)
(* no further ahead than they may, a replay reads.                         *)
LEMMA BesideWindow ==
  ASSUME WInv, UNCHANGED <<core, peak>>, Captured(Local)' = Captured(Local),
         \A q \in Remote : \/ Captured(q)' = Captured(q)
                           \/ Captured(q)' <= Captured(Local) + RemoteLead
  PROVE  WInv'
<1>1. core' = core /\ peak' = peak
  OBVIOUS
<1>2. CapturesBounded'
  BY <1>1 DEF WInv, CapturesBounded, RemoteLead
<1> QED
  BY <1>1, <1>2 DEF WInv, RingsSound, WithinSnapshots, DecisionsKept,
                    PredictionsAllowed, RequestInWindow, Horizon, HasUsed,
                    WasPredicted

LEMMA RemoteCaptureWindow ==
  ASSUME IInv, WInv, NEW q \in Remote, NEW v \in Pressable[q], RemoteCapture(q, v)
  PROVE  WInv'
<1> USE ConstantFacts, WindowConstants
<1>1. TypeOK /\ q \in Player /\ q # Local /\ v \in Input
  BY DEF IInv, Remote
<1>2. /\ stream' = [stream EXCEPT ![q] = Append(@, v)]
      /\ Captured(q) < Captured(Local) + RemoteLead
      /\ UNCHANGED <<core, peak>>
  <2>1. Captured(q) \in Nat /\ Captured(Local) \in Nat /\ MaxFrame \in Nat
    BY <1>1, StreamFacts, PeerAssumption
  <2> QED
    BY <2>1 DEF RemoteCapture, Smaller
<1>3. \A r \in Player : r # q => Captured(r)' = Captured(r)
  BY <1>1, <1>2 DEF TypeOK, Captured
<1>4. Captured(q)' = Captured(q) + 1
  BY <1>1, <1>2, AppendKeeps
<1>5. Captured(q)' <= Captured(Local) + RemoteLead
  BY <1>1, <1>2, <1>4, StreamFacts
<1> QED
  BY <1>1, <1>2, <1>3, <1>5, BesideWindow DEF Remote

LEMMA RemoteBootstrapWindow ==
  ASSUME IInv, WInv, NEW q \in Remote, NEW f \in 0 .. InputDelay - 1,
         NEW v \in Pressable[q], RemoteBootstrap(q, f, v)
  PROVE  WInv'
<1> USE ConstantFacts
<1>1. /\ TypeOK /\ q \in Player /\ q # Local /\ v \in Input
      /\ Captured(q) = InputDelay
      /\ stream' = [stream EXCEPT ![q][f + 1] = v]
      /\ UNCHANGED <<core, peak>>
  BY DEF IInv, Remote, RemoteBootstrap
<1>2. /\ stream \in [Player -> Seq(Input)]
      /\ stream'[q] = [stream[q] EXCEPT ![f + 1] = v]
      /\ \A r \in Player : r # q => stream'[r] = stream[r]
  BY <1>1 DEF TypeOK
<1>3. Len(stream'[q]) = Len(stream[q])
  <2> DEFINE old == stream[q]
  <2>1. old \in Seq(Input) /\ stream'[q] = [old EXCEPT ![f + 1] = v]
    BY <1>1, <1>2
  <2> HIDE DEF old
  <2>2. Len(stream'[q]) = Len(old)
    BY <2>1
  <2> QED
    BY <2>2 DEF old
<1>4. \A r \in Player : Captured(r)' = Captured(r)
  BY <1>2, <1>3 DEF Captured
<1> QED
  BY <1>1, <1>4, BesideWindow DEF Remote

---------------------------------------------------------------------------
(* The invariant. *)

LEMMA InitWindow == Init => WInv
<1> SUFFICES ASSUME Init PROVE WInv
  OBVIOUS
<1> USE ConstantFacts, WindowConstants
<1>1. /\ core = ResetCore(Local) /\ peak = None
      /\ stream = [q \in Player |-> [i \in 1 .. InputDelay |-> Neutral]]
  BY DEF Init
<1>2. /\ \A q \in Player : core.confirmed[q] = IF q = Local THEN InputDelay - 1
                                               ELSE None
      /\ \A q \in Player, s \in Slots :
           core.inputs[q][s] = IF q = Local /\ s < InputDelay
                               THEN [frame |-> s, present |-> TRUE, input |-> Neutral]
                               ELSE EmptySlot
      /\ core.used = [s \in Slots |-> EmptyUsed]
      /\ core.last = None /\ core.rollback = None
  BY <1>1 DEF ResetCore
<1>3. RingsSound
  <2> SUFFICES ASSUME NEW q \in Player
               PROVE  SoundRing(core.inputs[q], core.confirmed[q], Horizon)
    BY DEF RingsSound
  <2> DEFINE ring == core.inputs[q]
  <2>0. \A s \in Slots :
          /\ q = Local /\ s < InputDelay => ring[s].frame = s /\ ring[s].present
          /\ ~ (q = Local /\ s < InputDelay) => ~ ring[s].present
    <3> SUFFICES ASSUME NEW s \in Slots
                 PROVE  /\ q = Local /\ s < InputDelay =>
                             ring[s].frame = s /\ ring[s].present
                        /\ ~ (q = Local /\ s < InputDelay) => ~ ring[s].present
      OBVIOUS
    <3>1. ring[s] = IF q = Local /\ s < InputDelay
                    THEN [frame |-> s, present |-> TRUE, input |-> Neutral]
                    ELSE EmptySlot
      BY <1>2
    <3> HIDE DEF ring
    <3> QED
      BY <3>1 DEF EmptySlot
  <2>1. ASSUME NEW s \in Slots, ring[s].present
        PROVE  ring[s].frame \in Nat /\ ring[s].frame % History = s
    <3>1. ring[s].frame = s
      BY <2>0, <2>1
    <3>2. s \in Nat
      BY DEF Slots
    <3>3. s % History = s
      BY SlotOfSmall
    <3> HIDE DEF ring
    <3> QED
      BY ONLY <3>1, <3>2, <3>3
  <2>2. ASSUME NEW f \in Nat, f <= core.confirmed[q]
        PROVE  ring[f % History].present /\ ring[f % History].frame = f
    <3>1. q = Local /\ f <= InputDelay - 1
      BY <1>2, <2>2 DEF None
    <3>2. f \in Slots /\ f < InputDelay
      <4>1. InputDelay < History
        BY CoreAssumption
      <4> QED
        BY <3>1, <4>1 DEF Slots
    <3>3. f % History = f
      BY <3>2, SlotOfSmall
    <3> QED
      BY <2>0, <3>1, <3>2, <3>3
  <2> QED
    BY <2>1, <2>2 DEF SoundRing, Present
<1>4. WithinSnapshots
  BY <1>1, <1>2 DEF WithinSnapshots, Horizon, None, Remote
<1>5. DecisionsKept /\ RequestInWindow
  BY <1>2 DEF DecisionsKept, RequestInWindow, None
<1>6. PredictionsAllowed
  <2> SUFFICES ASSUME NEW f \in Nat PROVE ~ HasUsed(core, f)
    BY DEF PredictionsAllowed
  <2>1. core.used[f % History].frame = None
    BY <1>2, SlotOf DEF EmptyUsed
  <2> QED
    BY <2>1 DEF HasUsed, None
<1>7. CapturesBounded
  <2>1. \A q \in Player : Captured(q) = InputDelay
    <3>1. Len([i \in 1 .. InputDelay |-> Neutral]) = InputDelay
      OBVIOUS
    <3> QED
      BY <1>1, <3>1 DEF Captured
  <2>2. core.confirmed[Local] = InputDelay - 1
    BY <1>2
  <2> QED
    BY <1>1, <2>1, <2>2 DEF CapturesBounded, None, Remote
<1> QED
  BY <1>3, <1>4, <1>5, <1>6, <1>7 DEF WInv

LEMMA StepWindow ==
  IInv /\ IInv' /\ WInv /\ [Next]_vars => WInv'
<1> SUFFICES ASSUME IInv, IInv', WInv, [Next]_vars PROVE WInv'
  OBVIOUS
<1>1. CASE \E v \in Pressable[Local] : Capture(v)
  BY <1>1, CaptureWindow
<1>2. CASE \E f \in 0 .. InputDelay - 1, v \in Pressable[Local] : Bootstrap(f, v)
  BY <1>2, BootstrapWindow
<1>3. CASE \E q \in Remote : \E f \in 0 .. InputDelay - 1, v \in Pressable[q] :
             RemoteBootstrap(q, f, v)
  BY <1>3, RemoteBootstrapWindow
<1>4. CASE \E q \in Remote : \E v \in Pressable[q] : RemoteCapture(q, v)
  BY <1>4, RemoteCaptureWindow
<1>5. CASE \E q \in Remote : \E pkt \in HonestPackets(q) : Deliver(pkt)
  BY <1>5, DeliverWindow
<1>6. CASE \E q \in Remote : \E f \in 0 .. Captured(q) - 1 :
             ConfirmEquivalent(q, f)
  BY <1>6, ConfirmEquivalentWindow
<1>7. CASE Simulate
  BY <1>7, SimulateWindow
<1>8. CASE \E first \in 0 .. core.last : Rewind(first)
  <2>1. core.last \in FrameOrNone
    BY CoreFacts DEF IInv
  <2>2. PICK first \in 0 .. core.last : Rewind(first)
    BY <1>8
  <2>3. first \in Nat
    BY <2>1 DEF FrameOrNone, None
  <2> QED
    BY <2>2, <2>3, RewindWindow
<1>9. CASE Export
  <2>1. UNCHANGED <<core, peak>> /\ stream' = stream
    BY <1>9 DEF Export
  <2> QED
    BY <2>1, BesideWindow DEF Captured
<1>10. CASE UNCHANGED vars
  <2>1. UNCHANGED <<core, peak>> /\ stream' = stream
    BY <1>10 DEF vars
  <2> QED
    BY <2>1, BesideWindow DEF Captured
<1> QED
  BY <1>1, <1>2, <1>3, <1>4, <1>5, <1>6, <1>7, <1>8, <1>9, <1>10 DEF Next

(* IInv and WInv hold in every reachable state. *)
THEOREM WindowInvariance == Spec => [](IInv /\ WInv)
<1>1. Init => IInv /\ WInv
  BY InitInvariant, InitWindow
<1>2. IInv /\ WInv /\ [Next]_vars => IInv' /\ WInv'
  BY StepInvariant, StepWindow
<1> QED
  BY <1>1, <1>2, PTL DEF Spec

(* The ring never drops a confirmed input before the frame is simulated    *)
(* for the last time: PrepareFrame finds no hole.                          *)
THEOREM NoConfirmedInputIsLost == Spec => []NoHoleInConfirmedHistory
<1>1. IInv /\ WInv => NoHoleInConfirmedHistory
  BY WindowImplies
<1> QED
  BY <1>1, WindowInvariance, PTL

(* Every rollback the core asks for is to a frame the title has a snapshot *)
(* of, and RewindSimulationTo accepts it.                                  *)
THEOREM RollbackSucceeds == Spec => []RollbackIsPossible
<1>1. IInv /\ WInv => RollbackIsPossible
  BY WindowImplies
<1> QED
  BY <1>1, WindowInvariance, PTL
---------------------------------------------------------------------------
(* What an honest packet may be refused for. *)

(* Twice the captures ahead, and the rollback window three times: ahead of *)
(* our simulation, ahead of our captures, and behind the frontier.  The    *)
(* shipped ring has 256 slots, for windows of a few frames.                *)
WideRing == 3 * MaxRollback + 2 * (InputDelay + CaptureLead) + 2 < History

(* How far a remote player can be ahead of the simulation. *)
LEMMA CapturesAhead ==
  ASSUME IInv, WInv, NEW q \in Remote
  PROVE  Captured(q) <= core.last + 2 * MaxRollback
                          + 2 * (InputDelay + CaptureLead) + 3
<1>1. TypeOK /\ q \in Player /\ Local \in Player
  BY ConstantFacts DEF IInv, Remote
<1>2. /\ core.last \in Int /\ peak \in Int /\ Captured(q) \in Nat
      /\ Captured(Local) \in Nat
  BY <1>1, WindowNumbers
<1>3. /\ Captured(Local) <= peak + 2 + CaptureLead + InputDelay
      /\ Captured(q) <= Captured(Local) + RemoteLead
      /\ core.last >= peak - MaxRollback
  BY DEF WInv, CapturesBounded, WithinSnapshots, Horizon
<1> QED
  BY <1>2, <1>3, WindowConstants DEF RemoteLead

(* A packet that repeats no evicted frame has a free slot for each sample. *)
LEMMA NoCollision ==
  ASSUME IInv, WInv, WideRing, NEW q \in Remote, NEW f \in Nat, f < Captured(q),
         ~ FrameIsTooOld(core, f),
         ~ (f <= core.confirmed[q] /\ Evicted(q, f))
  PROVE  ~ Collides(core, q, f)
<1> USE WindowConstants
<1> DEFINE slot == core.inputs[q][f % History]
           h == slot.frame
           front == core.confirmed[q]
<1> SUFFICES ASSUME slot.present, h # f,
                    h >= OldestRecoverable(core) \/ h = front
             PROVE  FALSE
  BY DEF Collides
<1>1. TypeOK /\ q \in Player
  BY DEF IInv, Remote
<1>2. /\ core.last \in Int /\ core.last >= -1 /\ peak \in Int
      /\ front \in Int /\ Captured(q) \in Nat
      /\ core.last <= peak /\ peak <= front + MaxRollback
  BY <1>1, WindowNumbers DEF IInv, Ordered, WInv, WithinSnapshots
<1>3. Captured(q) <= core.last + 2 * MaxRollback
                       + 2 * (InputDelay + CaptureLead) + 3
  BY CapturesAhead
<1>4. f % History \in Slots
  BY SlotOf
<1>5. h \in Nat /\ h % History = f % History
  BY <1>1, <1>4 DEF WInv, RingsSound, SoundRing
<1>6. h < Captured(q)
  <2>1. Present(core.inputs[q], h)
    BY <1>5 DEF Present
  <2> QED
    BY <1>1, <1>5, <2>1 DEF IInv, SamplesHonest
<1>7. ~ (f <= front /\ h > f)
  BY DEF Evicted
<1>8. OldestRecoverable(core) \in Int /\ OldestRecoverable(core) >= core.last - MaxRollback + 1
  BY <1>2 DEF OldestRecoverable
<1>9. h >= core.last - MaxRollback
  <2> DEFINE oldest == OldestRecoverable(core)
  <2>1. oldest \in Int /\ oldest >= core.last - MaxRollback + 1
    BY <1>8
  <2>2. h >= oldest \/ h = front
    OBVIOUS
  <2> HIDE DEF oldest, h, front
  <2> QED
    BY <1>2, <1>5, <2>1, <2>2
<1> HIDE DEF slot, h, front
<1>10. CASE h > f
  <2>1. f + History <= h
    BY <1>5, <1>10, SameSlotFar
  <2>2. f > front
    BY <1>2, <1>7, <1>10
  <2> QED
    BY <1>2, <1>3, <1>5, <1>6, <2>1, <2>2 DEF WideRing
<1>11. CASE h < f
  <2>1. h + History <= f
    BY <1>5, <1>11, SameSlotFar
  <2> QED
    BY <1>2, <1>3, <1>5, <1>9, <2>1 DEF WideRing
<1> QED
  BY <1>5, <1>10, <1>11

LEMMA HonestPacketAccepted ==
  ASSUME IInv, WInv, WideRing, NEW q \in Remote, NEW pkt \in HonestPackets(q),
         \A f \in PacketFrames(pkt) : ~ (f <= core.confirmed[q] /\ Evicted(q, f))
  PROVE  AcceptsPacket(core, pkt)
<1> USE WindowConstants
<1>1. TypeOK /\ q \in Player /\ Local \in Player /\ core.me = Local
  BY ConstantFacts DEF IInv, Remote, TypeOK
<1>2. /\ pkt.from = q
      /\ \A f \in PacketFrames(pkt) : /\ f \in Nat /\ f < Captured(q)
                                      /\ Sample(pkt, f) = Pressed(q, f)
  BY HonestPacketFacts
<1>3. /\ core.last \in Int /\ core.confirmed[Local] \in Int
      /\ Captured(q) \in Nat /\ Captured(Local) \in Nat
  BY <1>1, WindowNumbers
<1>4. pkt.ack <= core.confirmed[core.me]
  <2>1. PICK first \in 0 .. Captured(q), count \in 0 .. MaxRedundant,
             ack \in None .. Smaller(AckedFrames, Captured(Local)) - 1 :
               pkt = Window(q, first, count, ack)
    BY DEF HonestPackets
  <2>2. pkt.ack = ack
    BY <2>1 DEF Window
  <2>3. ack \in Int /\ ack <= Captured(Local) - 1
    BY <1>3, PeerAssumption DEF Smaller, None
  <2>4. core.confirmed[Local] >= Captured(Local) - 1
    BY DEF WInv, CapturesBounded
  <2> QED
    BY <1>1, <1>3, <2>2, <2>3, <2>4
<1>5. ASSUME NEW f \in PacketFrames(pkt)
      PROVE  f < core.last + 1 + History
  <2>1. Captured(q) <= core.last + 2 * MaxRollback
                         + 2 * (InputDelay + CaptureLead) + 3
    BY CapturesAhead
  <2>2. f \in Nat /\ f < Captured(q)
    BY <1>2
  <2> QED
    BY <1>3, <2>1, <2>2 DEF WideRing
<1>6. ASSUME NEW f \in PacketFrames(pkt), ~ FrameIsTooOld(core, f)
      PROVE  ~ Collides(core, q, f)
  BY <1>2, <1>6, NoCollision
<1>7. ASSUME NEW f \in PacketFrames(pkt)
      PROVE  ~ Conflicts(core, q, f, Sample(pkt, f))
  <2>1. f \in Nat /\ Sample(pkt, f) = Pressed(q, f)
    BY <1>2
  <2>2. Present(core.inputs[q], f) => InputAt(core.inputs[q], f) = Pressed(q, f)
    BY <1>1, <2>1 DEF IInv, SamplesHonest
  <2>3. HasUsed(core, f) /\ ~ WasPredicted(core, q, f) =>
          UsedInput(core, q, f) = Pressed(q, f)
    BY <1>1, <2>1 DEF IInv, DecisionsHonest
  <2> QED
    BY <2>1, <2>2, <2>3 DEF Conflicts
<1> QED
  BY <1>2, <1>4, <1>5, <1>6, <1>7 DEF AcceptsPacket

(* In a ring as wide as WideRing, a packet of an honest player is refused  *)
(* only if it repeats a frame that is not yet expired and whose slot a     *)
(* newer frame of this player took: no acknowledgement, no sample ahead    *)
(* and no occupied slot ever makes the session fail.                       *)
THEOREM HonestRefusalIsEviction ==
  ASSUME WideRing
  PROVE  Spec => []RefusedOnlyIfEvicted
<1>1. IInv /\ WInv => RefusedOnlyIfEvicted
  BY HonestPacketAccepted DEF RefusedOnlyIfEvicted
<1> QED
  BY <1>1, WindowInvariance, PTL

---------------------------------------------------------------------------
(* A session that is not longer than the ring. *)

CapturesLimited == \A q \in Player : Captured(q) <= Larger(MaxFrame, InputDelay)

LEMMA StepLimited ==
  ASSUME TypeOK, CapturesLimited, [Next]_vars
  PROVE  CapturesLimited'
<1> USE ConstantFacts
<1>1. \A q \in Player : Captured(q) \in Nat
  BY StreamFacts
<1>2. MaxFrame \in Nat
  BY PeerAssumption
<1>3. ASSUME NEW p \in Player, NEW v \in Pressable[p], Captured(p) < MaxFrame,
             stream' = [stream EXCEPT ![p] = Append(@, v)]
      PROVE  CapturesLimited'
  <2>1. v \in Input
    OBVIOUS
  <2>2. Captured(p)' = Captured(p) + 1
    BY <1>3, <2>1, AppendKeeps
  <2>3. \A q \in Player : q # p => Captured(q)' = Captured(q)
    BY <1>3 DEF TypeOK, Captured
  <2>4. Captured(p)' <= Larger(MaxFrame, InputDelay)
    BY <1>1, <1>2, <1>3, <2>2 DEF Larger
  <2> QED
    BY <2>3, <2>4 DEF CapturesLimited
<1>4. ASSUME NEW p \in Player, NEW f \in 0 .. InputDelay - 1, NEW v \in Pressable[p],
             stream' = [stream EXCEPT ![p][f + 1] = v]
      PROVE  CapturesLimited'
  <2> DEFINE old == stream[p]
  <2>1. old \in Seq(Input) /\ v \in Input /\ f \in Nat
    BY DEF TypeOK
  <2>2. /\ stream'[p] = [old EXCEPT ![f + 1] = v]
        /\ \A q \in Player : q # p => stream'[q] = stream[q]
    BY <1>4 DEF TypeOK
  <2> HIDE DEF old
  <2>3. Len(stream'[p]) = Len(old)
    BY <2>1, <2>2
  <2>4. \A q \in Player : Captured(q)' = Captured(q)
    BY <2>2, <2>3 DEF Captured, old
  <2> QED
    BY <2>4 DEF CapturesLimited
<1>5. ASSUME stream' = stream PROVE CapturesLimited'
  BY <1>5 DEF CapturesLimited, Captured
<1>6. ASSUME NEW v \in Pressable[Local], Capture(v) PROVE CapturesLimited'
  BY <1>3, <1>6 DEF Capture
<1>7. ASSUME NEW f \in 0 .. InputDelay - 1, NEW v \in Pressable[Local], Bootstrap(f, v)
      PROVE  CapturesLimited'
  BY <1>4, <1>7 DEF Bootstrap
<1>8. ASSUME NEW q \in Remote, NEW f \in 0 .. InputDelay - 1, NEW v \in Pressable[q],
             RemoteBootstrap(q, f, v)
      PROVE  CapturesLimited'
  BY <1>4, <1>8 DEF RemoteBootstrap
<1>9. ASSUME NEW q \in Remote, NEW v \in Pressable[q], RemoteCapture(q, v)
      PROVE  CapturesLimited'
  <2>1. q \in Player
    OBVIOUS
  <2>2. Captured(q) < MaxFrame /\ stream' = [stream EXCEPT ![q] = Append(@, v)]
    <3>1. Captured(q) \in Nat /\ Captured(Local) + RemoteLead \in Nat
      BY <1>1, <2>1, WindowConstants
    <3> QED
      BY <1>2, <1>9, <3>1 DEF RemoteCapture, Smaller
  <2> QED
    BY <1>3, <2>1, <2>2
<1> QED
  BY <1>5, <1>6, <1>7, <1>8, <1>9
     DEF Next, Deliver, ConfirmEquivalent, Simulate, Rewind, Export, vars

(* No slot is used twice, so nothing is evicted. *)
LEMMA NothingEvicted ==
  ASSUME IInv, WInv, CapturesLimited, MaxFrame <= History,
         NEW q \in Remote, NEW f \in Nat, f <= core.confirmed[q]
  PROVE  ~ Evicted(q, f)
<1> USE WindowConstants
<1> DEFINE slot == core.inputs[q][f % History]
           h == slot.frame
<1> SUFFICES ASSUME h > f PROVE FALSE
  BY DEF Evicted
<1>1. TypeOK /\ q \in Player
  BY DEF IInv, Remote
<1>2. f % History \in Slots
  BY SlotOf
<1>3. slot.present
  BY <1>1 DEF WInv, RingsSound, SoundRing
<1>4. h \in Nat /\ h % History = f % History
  BY <1>1, <1>2, <1>3 DEF WInv, RingsSound, SoundRing
<1>5. h < Captured(q)
  <2>1. Present(core.inputs[q], h)
    BY <1>3, <1>4 DEF Present
  <2> QED
    BY <1>1, <1>4, <2>1 DEF IInv, SamplesHonest
<1>6. Captured(q) \in Nat /\ Captured(q) <= Larger(MaxFrame, InputDelay)
  BY <1>1, WindowNumbers DEF CapturesLimited
<1> HIDE DEF slot, h
<1>7. f + History <= h
  BY <1>4, SameSlotFar
<1> QED
  BY <1>4, <1>5, <1>6, <1>7, PeerAssumption DEF Larger

NothingIsRefused ==
  \A q \in Remote : \A pkt \in HonestPackets(q) : AcceptsPacket(core, pkt)

(* In a session that is not longer than the ring, a packet of an honest    *)
(* player is never refused, however late it is (ApplyInputPacket).         *)
THEOREM ShortSessionRefusesNothing ==
  ASSUME WideRing, MaxFrame <= History
  PROVE  Spec => []NothingIsRefused
<1>1. Init => CapturesLimited
  <2> SUFFICES ASSUME Init, NEW q \in Player
               PROVE  Captured(q) <= Larger(MaxFrame, InputDelay)
    BY DEF CapturesLimited
  <2>1. stream[q] = [i \in 1 .. InputDelay |-> Neutral]
    BY DEF Init
  <2>2. Len([i \in 1 .. InputDelay |-> Neutral]) = InputDelay
    BY ConstantFacts
  <2> QED
    BY <2>1, <2>2, ConstantFacts, PeerAssumption DEF Captured, Larger
<1>2. IInv /\ WInv /\ CapturesLimited /\ [Next]_vars => CapturesLimited'
  BY StepLimited DEF IInv
<1>3. IInv /\ WInv /\ CapturesLimited => NothingIsRefused
  <2> SUFFICES ASSUME IInv, WInv, CapturesLimited,
                      NEW q \in Remote, NEW pkt \in HonestPackets(q)
               PROVE  AcceptsPacket(core, pkt)
    BY DEF NothingIsRefused
  <2>1. \A f \in PacketFrames(pkt) : f \in Nat
    BY HonestPacketFacts
  <2>2. \A f \in PacketFrames(pkt) : ~ (f <= core.confirmed[q] /\ Evicted(q, f))
    BY <2>1, NothingEvicted
  <2> QED
    BY <2>2, HonestPacketAccepted
<1> QED
  BY <1>1, <1>2, <1>3, WindowInvariance, PTL DEF Spec

---------------------------------------------------------------------------
(* The loop over the samples of a packet. *)

(* A frontier stops at a missing frame: no sample that is there waits for  *)
(* the next one to be confirmed.                                           *)
FrontiersStop ==
  \A q \in Remote : ~ Present(core.inputs[q], core.confirmed[q] + 1)

LEMMA InitFrontiersStop == Init => FrontiersStop
<1> SUFFICES ASSUME Init, NEW q \in Remote
             PROVE  ~ Present(core.inputs[q], core.confirmed[q] + 1)
  BY DEF FrontiersStop
<1>1. q \in Player /\ q # Local
  BY DEF Remote
<1>2. core.confirmed[q] = None /\ \A s \in Slots : core.inputs[q][s] = EmptySlot
  BY <1>1 DEF Init, ResetCore
<1>3. (core.confirmed[q] + 1) % History \in Slots
  BY <1>2, SlotOf DEF None
<1> QED
  BY <1>2, <1>3 DEF Present, EmptySlot

(* A player whose ring or frontier did not change, or whose frontier was   *)
(* advanced in its new ring.                                               *)
LEMMA FrontierStep ==
  ASSUME TypeOK, FrontiersStop, NEW q \in Remote,
         \A r \in Remote \ {q} : /\ core'.inputs[r] = core.inputs[r]
                                 /\ core'.confirmed[r] = core.confirmed[r],
         core'.confirmed[q] = Advanced(core'.inputs[q], core.confirmed[q])
  PROVE  FrontiersStop'
<1> SUFFICES ASSUME NEW r \in Remote
             PROVE  ~ Present(core'.inputs[r], core'.confirmed[r] + 1)
  BY DEF FrontiersStop, Remote
<1>1. CASE r # q
  BY <1>1 DEF FrontiersStop
<1>2. CASE r = q
  <2>1. core.confirmed[q] \in FrameOrNone
    BY CoreFacts DEF Remote
  <2> QED
    BY <1>2, <2>1, AdvancedRun
<1> QED
  BY <1>1, <1>2

LEMMA FrontierKept ==
  ASSUME FrontiersStop,
         \A r \in Remote : /\ core'.inputs[r] = core.inputs[r]
                           /\ core'.confirmed[r] = core.confirmed[r]
  PROVE  FrontiersStop'
  BY DEF FrontiersStop, Remote

LEMMA StepFrontiersStop ==
  ASSUME IInv, FrontiersStop, [Next]_vars
  PROVE  FrontiersStop'
<1> USE ConstantFacts
<1>1. /\ TypeOK /\ core \in Core /\ core.me = Local
      /\ Remote = Player \ {core.me} /\ Remote \subseteq Player
  BY CoreFacts DEF IInv, Remote
<1>2. ASSUME NEW v \in Pressable[Local], Capture(v) PROVE FrontiersStop'
  <2> DEFINE k == Captured(Local) - InputDelay
  <2>1. k \in Nat
    BY <1>1, StreamFacts DEF IInv, FrontiersHonest
  <2>2. core' = ScheduleLocalInput(core, k, v) /\ v \in Input
    BY <1>2 DEF Capture
  <2> HIDE DEF k
  <2>3. \A r \in Player \ {core.me} : /\ core'.inputs[r] = core.inputs[r]
                                      /\ core'.confirmed[r] = core.confirmed[r]
    BY <1>1, <2>1, <2>2, ScheduleEffect
  <2> QED
    BY <1>1, <2>3, FrontierKept
<1>3. ASSUME NEW f \in 0 .. InputDelay - 1, NEW v \in Pressable[Local],
             Bootstrap(f, v)
      PROVE  FrontiersStop'
  <2>1. core' = SetLocalLeadInInput(core, f, v) /\ v \in Input /\ f \in Nat
    BY <1>3 DEF Bootstrap
  <2>2. \A r \in Player \ {core.me} : /\ core'.inputs[r] = core.inputs[r]
                                      /\ core'.confirmed[r] = core.confirmed[r]
    BY <1>1, <2>1, LeadInEffect
  <2> QED
    BY <1>1, <2>2, FrontierKept
<1>4. ASSUME NEW q \in Remote, NEW pkt \in HonestPackets(q), Deliver(pkt)
      PROVE  FrontiersStop'
  <2>1. /\ pkt.from = q /\ pkt.ack \in FrameOrNone /\ q \in Player
        /\ \A f \in PacketFrames(pkt) : f \in Nat /\ Sample(pkt, f) \in Input
    BY <1>1, HonestPacketFacts, StreamFacts
  <2>2. core' = ApplyInputPacket(core, pkt) /\ PacketFrames(pkt) \subseteq Nat
    BY <1>4, <2>1 DEF Deliver
  <2>3. /\ \A r \in Player \ {q} : /\ core'.inputs[r] = core.inputs[r]
                                   /\ core'.confirmed[r] = core.confirmed[r]
        /\ core'.confirmed[q] = Advanced(core'.inputs[q], core.confirmed[q])
    BY <1>1, <2>1, <2>2, ApplyEffect
  <2> QED
    BY <1>1, <2>3, FrontierStep
<1>5. ASSUME NEW q \in Remote, NEW f \in 0 .. Captured(q) - 1,
             ConfirmEquivalent(q, f)
      PROVE  FrontiersStop'
  <2> DEFINE v == Pressed(q, f)
  <2>1. /\ core' = SubmitEquivalentRemoteInput(core, q, f, v)
        /\ IsPredicted(core, q, f) /\ q \in Player
        /\ f \in Nat /\ v \in Input
    BY <1>1, <1>5, StreamFacts DEF ConfirmEquivalent
  <2> HIDE DEF v
  <2>2. CASE core' = core
    BY <2>2, FrontierKept
  <2>3. CASE core' # core
    <3>1. /\ \A r \in Player \ {q} : /\ core'.inputs[r] = core.inputs[r]
                                     /\ core'.confirmed[r] = core.confirmed[r]
          /\ core'.confirmed[q] = Advanced(core'.inputs[q], core.confirmed[q])
      BY <1>1, <2>1, <2>3, EquivalentEffect
    <3> QED
      BY <1>1, <3>1, FrontierStep
  <2> QED
    BY <2>2, <2>3
<1>6. ASSUME Simulate PROVE FrontiersStop'
  <2>1. core' = MarkSimulated(core, NextFrame) /\ NextFrame \in Nat
    BY <1>1, <1>6, CoreFacts DEF Simulate, NextFrame, FrameOrNone, None
  <2>2. core'.inputs = core.inputs /\ core'.confirmed = core.confirmed
    BY <1>1, <2>1, MarkSimulatedEffect
  <2> QED
    BY <2>2, FrontierKept
<1>7. ASSUME NEW first \in 0 .. core.last, Rewind(first) PROVE FrontiersStop'
  <2>1. core' = RewindSimulationTo(core, first) /\ first \in Nat
    BY <1>1, <1>7, CoreFacts DEF Rewind, FrameOrNone, None
  <2>2. core'.inputs = core.inputs /\ core'.confirmed = core.confirmed
    BY <1>1, <2>1, RewindEffect
  <2> QED
    BY <2>2, FrontierKept
<1>8. ASSUME core' = core PROVE FrontiersStop'
  BY <1>8, FrontierKept
<1> QED
  BY <1>2, <1>3, <1>4, <1>5, <1>6, <1>7, <1>8
     DEF Next, RemoteBootstrap, RemoteCapture, Export, vars

(* A delivered packet has at most MaxRedundant samples. *)
LEMMA HonestPacketShort ==
  ASSUME TypeOK, NEW q \in Remote, NEW pkt \in HonestPackets(q)
  PROVE  /\ pkt.first \in Int
         /\ Len(pkt.inputs) \in Nat /\ Len(pkt.inputs) <= MaxRedundant
<1>1. PICK first \in 0 .. Captured(q), count \in 0 .. MaxRedundant,
           ack \in None .. Smaller(AckedFrames, Captured(Local)) - 1 :
             pkt = Window(q, first, count, ack)
  BY DEF HonestPackets
<1>2. /\ pkt.first = (IF count = 0 THEN None ELSE first)
      /\ pkt.inputs = [i \in 1 .. count |-> Pressed(q, first + i - 1)]
  BY <1>1 DEF Window
<1>3. count \in Nat /\ count <= MaxRedundant /\ first \in Int
  BY CoreAssumption
<1>4. Len(pkt.inputs) = count
  BY <1>2, <1>3
<1> QED
  BY <1>2, <1>3, <1>4 DEF None

(* The update of ApplyInputPacket, which stores the samples of a packet at *)
(* once, is what the loop of the code computes, whichever packets, rewinds *)
(* and equivalences came before.                                           *)
THEOREM BatchIsTheLoop == Spec => []BatchIsSampleLoop
<1>1. IInv /\ WInv /\ FrontiersStop => BatchIsSampleLoop
  <2> SUFFICES ASSUME IInv, WInv, FrontiersStop, NEW q \in Remote,
                      NEW pkt \in HonestPackets(q), AcceptsPacket(core, pkt)
               PROVE  ApplyInputPacket(core, pkt) = SamplesOneByOne(core, pkt)
    BY DEF BatchIsSampleLoop
  <2>1. TypeOK /\ core \in Core /\ q \in Player
    BY CoreFacts DEF IInv, Remote
  <2>2. /\ pkt.from = q
        /\ \A f \in PacketFrames(pkt) : f \in Nat /\ Sample(pkt, f) \in Input
    BY <2>1, HonestPacketFacts, StreamFacts
  <2>3. /\ pkt.first \in Int
        /\ Len(pkt.inputs) \in Nat /\ Len(pkt.inputs) <= MaxRedundant
    BY <2>1, HonestPacketShort
  <2>4. core.last <= core.confirmed[q] + MaxRollback
    <3>1. core.last <= peak /\ peak <= core.confirmed[q] + MaxRollback
      BY DEF IInv, Ordered, WInv, WithinSnapshots
    <3> QED
      BY <2>1, <3>1, WindowNumbers, WindowConstants
  <2>5. ~ Present(core.inputs[q], core.confirmed[q] + 1)
    BY DEF FrontiersStop
  <2> QED
    BY <2>1, <2>2, <2>3, <2>4, <2>5, BatchIsLoop
<1>2. Init => FrontiersStop
  BY InitFrontiersStop
<1>3. IInv /\ FrontiersStop /\ [Next]_vars => FrontiersStop'
  BY StepFrontiersStop
<1> QED
  BY <1>1, <1>2, <1>3, WindowInvariance, PTL DEF Spec
===========================================================================
