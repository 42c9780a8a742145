------------------------ MODULE RollbackNetProofs ------------------------
(***************************************************************************)
(* A session of any number of players, for every value of the constants:   *)
(* acknowledgements never claim more than was confirmed, what is played at *)
(* every peer is a Lockstep run, and every peer is a RollbackPeer,         *)
(* whatever the network loses, repeats or reorders.                        *)
(*                                                                         *)
(* There are three layers.  AckInv types the session and compares every    *)
(* acknowledgement, on the wire or received, with the frontier it speaks   *)
(* of; it holds of every title.  NetInv follows a sample from its capture  *)
(* over the wire into the rings of the other peers: what a packet holds,   *)
(* and what a ring holds and a frontier covers, is what the player         *)
(* pressed.  It needs titles that replace their startup frames before they *)
(* start (BootstrapEarly); net_late_bootstrap.cfg shows what the others do.*)
(* BoundsInv says how far the peers can be apart.  With it, what one peer  *)
(* sees of the others is the environment RollbackPeer assumes, and the     *)
(* theorems of RollbackPeerProofs become theorems about a session.         *)
(***************************************************************************)
EXTENDS RollbackNet, RollbackCoreProofs, SequenceTheorems

Pressed(p, f) == stream[p][f + 1]

Packet ==
  {pkt \in [from : Player, first : FrameOrNone, inputs : Seq(Input),
            ack : FrameOrNone] :
     pkt.first = None => pkt.inputs = << >>}

CoresTypeOK == cores \in [Player -> Core] /\ \A p \in Player : cores[p].me = p

NetTypeOK ==
  /\ CoresTypeOK
  /\ latest \in [Player -> Nat]
  /\ peaks \in [Player -> FrameOrNone]
  /\ stream \in [Player -> Seq(Input)]
  /\ exported \in [Readers -> Seq([Player -> Input])]
  /\ wire \in [Player -> [Player -> SUBSET Packet]]

(* What is on the wire is from its sender, and acknowledges what it has.   *)
AcksSent ==
  \A p, q \in Player : \A pkt \in wire[p][q] :
    pkt.from = p /\ pkt.ack <= cores[p].confirmed[q]

AckInv == NetTypeOK /\ AcksSent /\ AcksAreConfirmed

(* The title captured `latest' frames after the startup frames. *)
CapturesCounted == \A p \in Player : Captured(p) = latest[p] + InputDelay

(* Nobody knows an input of a player that captured nothing. *)
Known(p, q) == p = q \/ latest[q] > 0

(* What p has of q is what q pressed, and its frontier covers no more. *)
HonestRing(p, q) ==
  \A f \in Nat : Present(cores[p].inputs[q], f) =>
    /\ f < Captured(q) /\ Known(p, q)
    /\ InputAt(cores[p].inputs[q], f) = Pressed(q, f)

HonestFrontier(p, q) ==
  /\ cores[p].confirmed[q] < Captured(q)
  /\ cores[p].confirmed[q] # None => Known(p, q)

SamplesHonest == \A p, q \in Player : HonestRing(p, q)
FrontiersHonest == \A p, q \in Player : HonestFrontier(p, q)

(* A packet from p: some of what p pressed, in order. *)
HonestPacket(p, pkt) ==
  /\ latest[p] > 0
  /\ \A f \in PacketFrames(pkt) : /\ f < Captured(p)
                                  /\ Sample(pkt, f) = Pressed(p, f)

PacketsHonest ==
  \A p, q \in Player : \A pkt \in wire[p][q] : HonestPacket(p, pkt)

(* What was played was simulated, and is confirmed. *)
PlayedConfirmed ==
  /\ \A p \in Player : cores[p].last <= peaks[p]
  /\ \A p \in Readers : Len(exported[p]) <= peaks[p] + 1
  /\ \A p \in Readers, q \in Player :
       Len(exported[p]) <= cores[p].confirmed[q] + 1

NetInv ==
  /\ CapturesCounted /\ SamplesHonest /\ FrontiersHonest
  /\ PacketsHonest /\ PlayedConfirmed

---------------------------------------------------------------------------
(* Facts about the constants, the packets and the state. *)

LEMMA NetConstants ==
  /\ CaptureLead \in Nat /\ BootstrapEarly \in BOOLEAN
  /\ Readers \subseteq Player /\ InputDelay \in Nat /\ MaxRollback \in Nat
  /\ MaxRedundant \in Nat /\ MaxRedundant > 0
  /\ \A p \in Player : Pressable[p] \subseteq Input
  /\ Neutral \in Input
BY NetAssumption, CoreAssumption

LEMMA PacketFacts ==
  ASSUME NEW pkt \in Packet
  PROVE  /\ pkt.from \in Player /\ pkt.ack \in FrameOrNone
         /\ PacketFrames(pkt) \subseteq Nat
         /\ \A f \in PacketFrames(pkt) : Sample(pkt, f) \in Input
<1>1. /\ pkt.from \in Player /\ pkt.ack \in FrameOrNone
      /\ pkt.first \in FrameOrNone /\ pkt.inputs \in Seq(Input)
      /\ pkt.first = None => pkt.inputs = << >>
  BY DEF Packet
<1>2. ASSUME NEW f \in PacketFrames(pkt)
      PROVE  f \in Nat /\ Sample(pkt, f) \in Input
  <2>1. f \in pkt.first .. pkt.first + Len(pkt.inputs) - 1
    BY DEF PacketFrames
  <2>2. Len(pkt.inputs) \in Nat /\ pkt.first \in Int
    BY <1>1 DEF FrameOrNone, None
  <2>3. pkt.first # None
    <3>1. Len(<< >>) = 0
      OBVIOUS
    <3> QED
      BY <1>1, <2>1, <2>2, <3>1
  <2>4. pkt.first \in Nat /\ f \in Nat
    BY <1>1, <2>1, <2>2, <2>3 DEF FrameOrNone
  <2>5. f - pkt.first + 1 \in 1 .. Len(pkt.inputs)
    BY <2>1, <2>2, <2>4
  <2> QED
    BY <1>1, <2>4, <2>5 DEF Sample
<1> QED
  BY <1>1, <1>2

LEMMA StateFacts ==
  ASSUME NetTypeOK, NEW p \in Player
  PROVE  /\ cores[p] \in Core /\ cores[p].me = p
         /\ latest[p] \in Nat /\ peaks[p] \in FrameOrNone
         /\ stream[p] \in Seq(Input) /\ Captured(p) \in Nat
         /\ cores[p].last \in FrameOrNone /\ cores[p].rollback \in FrameOrNone
         /\ \A q \in Player : /\ cores[p].inputs[q] \in Ring
                              /\ cores[p].confirmed[q] \in FrameOrNone
                              /\ cores[p].confirmed[q] \in Int
                              /\ cores[p].peerAck[q] \in FrameOrNone
                              /\ wire[p][q] \subseteq Packet
<1>1. cores[p] \in Core
  BY DEF NetTypeOK, CoresTypeOK
<1>2. \A q \in Player : cores[p].confirmed[q] \in FrameOrNone
  BY <1>1 DEF Core
<1>3. ASSUME NEW q \in Player
      PROVE  cores[p].confirmed[q] \in Int
  <2> DEFINE x == cores[p].confirmed[q]
  <2>1. x \in FrameOrNone
    BY <1>2
  <2> HIDE DEF x
  <2>2. x \in Int
    BY <2>1 DEF FrameOrNone, None
  <2> QED
    BY <2>2 DEF x
<1> QED
  BY <1>1, <1>2, <1>3 DEF NetTypeOK, CoresTypeOK, Core, Captured

LEMMA NotLess == ASSUME NEW x \in Int PROVE x <= x
OBVIOUS

(* One core changes. *)
LEMMA OneCore ==
  ASSUME NetTypeOK, NEW p \in Player, NEW d \in Core, d.me = p,
         cores' = [cores EXCEPT ![p] = d]
  PROVE  /\ CoresTypeOK' /\ cores'[p] = d
         /\ \A r \in Player \ {p} : cores'[r] = cores[r]
BY DEF NetTypeOK, CoresTypeOK

(* A packet put on one link, taken from it, or left there. *)
LEMMA OneLink ==
  ASSUME NetTypeOK, NEW p \in Player, NEW q \in Player, NEW S \in SUBSET Packet,
         wire' = [wire EXCEPT ![p][q] = S]
  PROVE  /\ wire' \in [Player -> [Player -> SUBSET Packet]]
         /\ \A a, b \in Player :
              \/ wire'[a][b] = wire[a][b]
              \/ a = p /\ b = q /\ wire'[a][b] = S
BY DEF NetTypeOK

---------------------------------------------------------------------------
(* The acknowledgements. *)

ConfirmedGrows ==
  \A p, q \in Player : cores[p].confirmed[q] <= cores'[p].confirmed[q]

(* Frontiers never go back, so what was acknowledged stays true; a step    *)
(* has only to account for the packets and acknowledgements it makes.      *)
LEMMA AcksKept ==
  ASSUME AckInv, NetTypeOK', ConfirmedGrows,
         \A p, q \in Player : p # q =>
           \/ cores'[p].peerAck[q] = cores[p].peerAck[q]
           \/ cores'[p].peerAck[q] <= cores[q].confirmed[p],
         \A p, q \in Player : \A pkt \in wire'[p][q] :
           \/ pkt \in wire[p][q]
           \/ pkt.from = p /\ pkt.ack <= cores[p].confirmed[q]
  PROVE  AckInv'
<1>1. \A p, q \in Player :
        /\ cores[p].confirmed[q] \in Int /\ cores'[p].confirmed[q] \in Int
        /\ cores'[p].peerAck[q] \in Int /\ cores[p].peerAck[q] \in Int
  BY DEF AckInv, NetTypeOK, CoresTypeOK, Core, FrameOrNone, None
<1>2. ASSUME NEW p \in Player, NEW q \in Player, NEW pkt \in wire'[p][q]
      PROVE  pkt.from = p /\ pkt.ack <= cores'[p].confirmed[q]
  <2>1. pkt.from = p /\ pkt.ack <= cores[p].confirmed[q]
    BY <1>2 DEF AckInv, AcksSent
  <2>2. pkt.ack \in Int
    <3>1. pkt \in Packet
      BY <1>2 DEF NetTypeOK
    <3> QED
      BY <3>1, PacketFacts DEF FrameOrNone, None
  <2> QED
    BY <1>1, <2>1, <2>2 DEF ConfirmedGrows
<1>3. ASSUME NEW p \in Player, NEW q \in Player, p # q
      PROVE  cores'[p].peerAck[q] <= cores'[q].confirmed[p]
  <2>1. cores'[p].peerAck[q] <= cores[q].confirmed[p]
    BY <1>3 DEF AckInv, AcksAreConfirmed
  <2>2. cores[q].confirmed[p] <= cores'[q].confirmed[p]
    BY DEF ConfirmedGrows
  <2> QED
    BY <1>1, <2>1, <2>2
<1> QED
  BY <1>2, <1>3 DEF AckInv, AcksSent, AcksAreConfirmed

(* A step of one peer that neither sends nor hears of an acknowledgement. *)
LEMMA QuietStep ==
  ASSUME AckInv, NEW p \in Player, NEW d \in Core, d.me = p,
         cores' = [cores EXCEPT ![p] = d], d.peerAck = cores[p].peerAck,
         \A q \in Player : cores[p].confirmed[q] <= d.confirmed[q],
         wire' = wire,
         latest' \in [Player -> Nat], peaks' \in [Player -> FrameOrNone],
         stream' \in [Player -> Seq(Input)],
         exported' \in [Readers -> Seq([Player -> Input])]
  PROVE  AckInv' /\ ConfirmedGrows
<1>1. /\ CoresTypeOK' /\ cores'[p] = d
      /\ \A r \in Player \ {p} : cores'[r] = cores[r]
  BY OneCore DEF AckInv
<1>2. NetTypeOK'
  BY <1>1 DEF AckInv, NetTypeOK
<1>3. ConfirmedGrows
  <2> SUFFICES ASSUME NEW a \in Player, NEW q \in Player
               PROVE  cores[a].confirmed[q] <= cores'[a].confirmed[q]
    BY DEF ConfirmedGrows
  <2>1. cores[a].confirmed[q] \in Int
    BY StateFacts DEF AckInv, FrameOrNone, None
  <2> QED
    BY <1>1, <2>1
<1>4. \A a \in Player : cores'[a].peerAck = cores[a].peerAck
  BY <1>1
<1> QED
  BY <1>2, <1>3, <1>4, AcksKept

LEMMA CaptureKeepsAcks ==
  ASSUME AckInv, NEW p \in Player, NEW v \in Pressable[p], Capture(p, v)
  PROVE  AckInv' /\ ConfirmedGrows
<1> DEFINE k == latest[p]
           d == ScheduleLocalInput(cores[p], k, v)
<1>1. cores[p] \in Core /\ cores[p].me = p /\ k \in Nat /\ v \in Input
      /\ stream[p] \in Seq(Input)
      /\ \A q \in Player : cores[p].confirmed[q] \in Int
  BY StateFacts, NetConstants DEF AckInv
<1>2. /\ cores' = [cores EXCEPT ![p] = d]
      /\ stream' = [stream EXCEPT ![p] = Append(@, v)]
      /\ latest' = [latest EXCEPT ![p] = @ + 1]
      /\ UNCHANGED <<peaks, exported, wire, failed>>
  BY DEF Capture
<1> HIDE DEF k
<1>3. /\ d \in Core /\ d.me = p /\ d.peerAck = cores[p].peerAck
      /\ \A q \in Player \ {p} : d.confirmed[q] = cores[p].confirmed[q]
      /\ d.confirmed[p] = Advanced(d.inputs[p], cores[p].confirmed[p])
  <2> DEFINE c == cores[p]
  <2>1. c \in Core /\ c.me = p
    BY <1>1
  <2> HIDE DEF c
  <2>2. d = ScheduleLocalInput(c, k, v)
    BY DEF c
  <2>3. /\ d \in Core /\ d.me = p /\ d.peerAck = c.peerAck
        /\ \A q \in Player \ {p} : d.confirmed[q] = c.confirmed[q]
        /\ d.confirmed[p] = Advanced(d.inputs[p], c.confirmed[p])
    <3>1. k \in Nat /\ v \in Input
      BY <1>1
    <3>2. LET e == ScheduleLocalInput(c, k, v)
          IN  /\ e \in Core /\ e.me = c.me /\ e.peerAck = c.peerAck
              /\ \A q \in Player \ {c.me} : e.confirmed[q] = c.confirmed[q]
              /\ e.confirmed[c.me] = Advanced(e.inputs[c.me], c.confirmed[c.me])
      BY <2>1, <3>1, ScheduleEffect
    <3> HIDE DEF d
    <3> QED
      BY <2>1, <2>2, <3>2
  <2> QED
    BY <2>3 DEF c
<1> HIDE DEF d
<1>4. \A q \in Player : cores[p].confirmed[q] <= d.confirmed[q]
  <2>1. cores[p].confirmed[p] \in FrameOrNone
    BY StateFacts DEF AckInv
  <2>2. cores[p].confirmed[p] <= d.confirmed[p]
    BY <1>3, <2>1, AdvancedPresent
  <2> SUFFICES ASSUME NEW q \in Player
               PROVE  cores[p].confirmed[q] <= d.confirmed[q]
    OBVIOUS
  <2>3. cores[p].confirmed[q] <= cores[p].confirmed[q]
    BY <1>1, NotLess
  <2> QED
    BY <1>3, <2>2, <2>3
<1>5. latest' \in [Player -> Nat] /\ stream' \in [Player -> Seq(Input)]
  <2>1. Append(stream[p], v) \in Seq(Input)
    BY <1>1
  <2> QED
    BY <1>2, <2>1 DEF AckInv, NetTypeOK
<1> QED
  BY <1>2, <1>3, <1>4, <1>5, QuietStep DEF AckInv, NetTypeOK

(* Replacing an element of a sequence keeps its length and its other       *)
(* elements.                                                               *)
LEMMA ReplaceKeeps ==
  ASSUME NEW S, NEW s \in Seq(S), NEW i \in Int, NEW v \in S
  PROVE  /\ [s EXCEPT ![i] = v] \in Seq(S)
         /\ Len([s EXCEPT ![i] = v]) = Len(s)
         /\ i \in 1 .. Len(s) => [s EXCEPT ![i] = v][i] = v
         /\ \A j \in 1 .. Len(s) : j # i => [s EXCEPT ![i] = v][j] = s[j]
<1> DEFINE t == [s EXCEPT ![i] = v]
<1>1. t = [j \in 1 .. Len(s) |-> IF j = i THEN v ELSE s[j]]
  OBVIOUS
<1>2. Len(s) \in Nat /\ \A j \in 1 .. Len(s) : s[j] \in S
  OBVIOUS
<1> HIDE DEF t
<1>3. t \in Seq(S)
  BY <1>1, <1>2
<1>4. Len(t) = Len(s)
  BY <1>1, <1>2
<1>5. /\ i \in 1 .. Len(s) => t[i] = v
      /\ \A j \in 1 .. Len(s) : j # i => t[j] = s[j]
  BY <1>1
<1> QED
  BY <1>3, <1>4, <1>5 DEF t

LEMMA BootstrapKeepsAcks ==
  ASSUME AckInv, NEW p \in Player, NEW f \in 0 .. InputDelay - 1,
         NEW v \in Pressable[p], Bootstrap(p, f, v)
  PROVE  AckInv' /\ ConfirmedGrows
<1> DEFINE d == SetLocalLeadInInput(cores[p], f, v)
<1>1. cores[p] \in Core /\ cores[p].me = p /\ f \in Nat /\ v \in Input
      /\ stream[p] \in Seq(Input)
      /\ \A q \in Player : cores[p].confirmed[q] \in Int
  BY StateFacts, NetConstants DEF AckInv
<1>2. /\ cores' = [cores EXCEPT ![p] = d]
      /\ stream' = [stream EXCEPT ![p][f + 1] = v]
      /\ UNCHANGED <<latest, peaks, exported, wire, failed>>
  BY DEF Bootstrap
<1>3. /\ d \in Core /\ d.me = p /\ d.peerAck = cores[p].peerAck
      /\ d.confirmed = cores[p].confirmed
  BY <1>1, LeadInEffect
<1> HIDE DEF d
<1>4. \A q \in Player : cores[p].confirmed[q] <= d.confirmed[q]
  BY <1>1, <1>3, NotLess, Zenon
<1>5. stream' \in [Player -> Seq(Input)]
  <2>1. [stream[p] EXCEPT ![f + 1] = v] \in Seq(Input)
    BY <1>1, ReplaceKeeps
  <2> QED
    BY <1>2, <2>1 DEF AckInv, NetTypeOK
<1> QED
  BY <1>2, <1>3, <1>4, <1>5, QuietStep DEF AckInv, NetTypeOK

LEMMA SimulateKeepsAcks ==
  ASSUME AckInv, NEW p \in Player, Simulate(p)
  PROVE  AckInv' /\ ConfirmedGrows
<1> DEFINE f == NextFrame(p)
           d == MarkSimulated(cores[p], f)
<1>1. cores[p] \in Core /\ cores[p].me = p /\ f \in Nat
      /\ peaks[p] \in FrameOrNone
      /\ \A q \in Player : cores[p].confirmed[q] \in Int
  BY StateFacts DEF AckInv, NextFrame, FrameOrNone, None
<1>2. /\ cores' = [cores EXCEPT ![p] = d]
      /\ peaks' = [peaks EXCEPT ![p] = Larger(@, f)]
      /\ UNCHANGED <<latest, stream, exported, wire, failed>>
  BY DEF Simulate
<1> HIDE DEF f
<1>3. /\ d \in Core /\ d.me = p /\ d.peerAck = cores[p].peerAck
      /\ d.confirmed = cores[p].confirmed
  BY <1>1, MarkSimulatedEffect
<1> HIDE DEF d
<1>4. \A q \in Player : cores[p].confirmed[q] <= d.confirmed[q]
  BY <1>1, <1>3, NotLess, Zenon
<1>5. peaks' \in [Player -> FrameOrNone]
  <2>1. Larger(peaks[p], f) \in FrameOrNone
    BY <1>1 DEF Larger, FrameOrNone
  <2> QED
    BY <1>2, <2>1 DEF AckInv, NetTypeOK
<1> QED
  BY <1>2, <1>3, <1>4, <1>5, QuietStep DEF AckInv, NetTypeOK

LEMMA RewindKeepsAcks ==
  ASSUME AckInv, NEW p \in Player, Rewind(p)
  PROVE  AckInv' /\ ConfirmedGrows
<1> DEFINE first == cores[p].rollback
           d == RewindSimulationTo(cores[p], first)
<1>1. cores[p] \in Core /\ cores[p].me = p
      /\ \A q \in Player : cores[p].confirmed[q] \in Int
  BY StateFacts DEF AckInv
<1>2. /\ cores' = [cores EXCEPT ![p] = d] /\ first # None
      /\ UNCHANGED <<latest, peaks, stream, exported, wire, failed>>
  BY DEF Rewind
<1>3. first \in Nat
  BY <1>2, StateFacts DEF AckInv, FrameOrNone
<1> HIDE DEF first
<1>4. /\ d \in Core /\ d.me = p /\ d.peerAck = cores[p].peerAck
      /\ d.confirmed = cores[p].confirmed
  BY <1>1, <1>3, RewindEffect
<1> HIDE DEF d
<1>5. \A q \in Player : cores[p].confirmed[q] <= d.confirmed[q]
  BY <1>1, <1>4, NotLess, Zenon
<1> QED
  BY <1>2, <1>4, <1>5, QuietStep DEF AckInv, NetTypeOK

(* A step that moves packets only, or reads a core. *)
LEMMA CoresUnchanged ==
  ASSUME AckInv, UNCHANGED <<cores, latest, peaks, stream>>,
         exported' \in [Readers -> Seq([Player -> Input])],
         wire' \in [Player -> [Player -> SUBSET Packet]],
         \A p, q \in Player : \A pkt \in wire'[p][q] :
           \/ pkt \in wire[p][q]
           \/ pkt.from = p /\ pkt.ack <= cores[p].confirmed[q]
  PROVE  AckInv' /\ ConfirmedGrows
<1>1. NetTypeOK'
  BY DEF AckInv, NetTypeOK, CoresTypeOK
<1>2. ConfirmedGrows
  <2> SUFFICES ASSUME NEW a \in Player, NEW q \in Player
               PROVE  cores[a].confirmed[q] <= cores[a].confirmed[q]
    BY DEF ConfirmedGrows
  <2> QED
    BY StateFacts, NotLess DEF AckInv
<1> QED
  BY <1>1, <1>2, AcksKept

LEMMA ExportKeepsAcks ==
  ASSUME AckInv, NEW p \in Readers, Export(p)
  PROVE  AckInv' /\ ConfirmedGrows
<1> DEFINE f == Len(exported[p])
           row == ConfirmedInputs(cores[p], f)
<1>1. p \in Player /\ exported[p] \in Seq([Player -> Input])
  BY NetConstants DEF AckInv, NetTypeOK
<1>2. /\ exported' = [exported EXCEPT ![p] = Append(@, row)]
      /\ UNCHANGED <<cores, latest, peaks, stream, wire, failed>>
  BY DEF Export
<1>3. row \in [Player -> Input]
  <2>1. \A q \in Player : cores[p].inputs[q] \in Ring
    BY <1>1, StateFacts DEF AckInv
  <2>2. f \in Int
    BY <1>1
  <2> HIDE DEF f
  <2>3. f % History \in Slots
    BY <2>2, SlotOf
  <2>4. \A q \in Player : InputAt(cores[p].inputs[q], f) \in Input
    BY <2>1, <2>3 DEF InputAt, Ring, InputSlot
  <2> QED
    BY <2>4 DEF ConfirmedInputs
<1> HIDE DEF row
<1>4. exported' \in [Readers -> Seq([Player -> Input])]
  <2>1. Append(exported[p], row) \in Seq([Player -> Input])
    BY <1>1, <1>3
  <2> QED
    BY <1>2, <2>1 DEF AckInv, NetTypeOK
<1> QED
  BY <1>2, <1>4, CoresUnchanged DEF AckInv, NetTypeOK

(* The packet a peer builds repeats present samples of its own ring.       *)
LEMMA BuiltPacket ==
  ASSUME NEW c \in Core, NEW peer \in Player, NEW top \in Int
  PROVE  LET pkt == BuildInputPacket(c, peer, top)
         IN  /\ pkt \in Packet /\ pkt.from = c.me
             /\ pkt.ack = c.confirmed[peer]
             /\ Len(pkt.inputs) <= MaxRedundant
             /\ pkt.inputs = << >> => pkt.first = None
             /\ \A f \in PacketFrames(pkt) :
                  /\ f \in Nat /\ f <= top /\ Present(c.inputs[c.me], f)
                  /\ Sample(pkt, f) = InputAt(c.inputs[c.me], f)
<1> DEFINE mine  == c.inputs[c.me]
           first == FirstUnacknowledged(c, peer, top)
           run   == Advanced(mine, first - 1)
           upTo  == Smaller(run, Smaller(top, first + MaxRedundant - 1))
           pkt   == BuildInputPacket(c, peer, top)
<1>1. mine \in Ring /\ c.peerAck[peer] \in FrameOrNone
      /\ c.confirmed[peer] \in FrameOrNone /\ c.me \in Player
  BY DEF Core
<1>2. first \in Nat
  <2> DEFINE ack == c.peerAck[peer]
  <2>1. ack \in FrameOrNone
    BY <1>1
  <2>2. first = IF ack = None THEN Larger(0, top + 1 - MaxRedundant)
                ELSE ack + 1
    BY DEF FirstUnacknowledged
  <2> HIDE DEF ack, first
  <2> QED
    BY <2>1, <2>2, NetConstants DEF FrameOrNone, None, Larger
<1> HIDE DEF mine, first
<1>3. /\ run \in Int /\ run >= first - 1
      /\ \A f \in first .. run : Present(mine, f)
  <2>1. first - 1 \in FrameOrNone /\ (first - 1) + 1 = first
    BY <1>2 DEF FrameOrNone, None
  <2> DEFINE g == first - 1
  <2>2. g \in FrameOrNone /\ g + 1 = first /\ g \in Int
    BY <2>1, <1>2
  <2> HIDE DEF g
  <2>3. /\ Advanced(mine, g) \in g .. g + History
        /\ \A f \in g + 1 .. Advanced(mine, g) : Present(mine, f)
    BY <2>2, AdvancedRun
  <2>4. Advanced(mine, g) \in Int /\ Advanced(mine, g) >= g
    BY <2>2, <2>3, CoreAssumption
  <2> QED
    BY <2>2, <2>3, <2>4 DEF g
<1> HIDE DEF run
<1>4. /\ upTo \in Int /\ upTo <= run /\ upTo <= top
      /\ upTo <= first + MaxRedundant - 1
  BY <1>2, <1>3, NetConstants DEF Smaller
<1>5. pkt = [from   |-> c.me,
             first  |-> IF upTo < first THEN None ELSE first,
             inputs |-> [i \in 1 .. upTo - first + 1 |->
                           LocalSample(c, first + i - 1)],
             ack    |-> Acknowledgement(c, peer)]
  BY DEF BuildInputPacket, mine, first, run
<1> HIDE DEF upTo, pkt
<1>6. /\ pkt.from = c.me /\ pkt.ack = c.confirmed[peer]
      /\ pkt.first = IF upTo < first THEN None ELSE first
      /\ pkt.inputs = [i \in 1 .. upTo - first + 1 |->
                         InputAt(mine, first + i - 1)]
      /\ pkt = [from |-> pkt.from, first |-> pkt.first,
                inputs |-> pkt.inputs, ack |-> pkt.ack]
  BY <1>5 DEF Acknowledgement, LocalSample, mine
<1>7. \A f \in Int : InputAt(mine, f) \in Input
  BY <1>1, SlotOf DEF InputAt, Ring, InputSlot
<1>8. CASE upTo < first
  <2>1. 1 .. upTo - first + 1 = {}
    BY <1>2, <1>4, <1>8
  <2>2. pkt.inputs = << >> /\ pkt.first = None
    BY <1>6, <1>8, <2>1
  <2>3. PacketFrames(pkt) = {}
    BY <2>2 DEF PacketFrames, None
  <2>4. pkt \in Packet
    BY <1>1, <1>6, <2>2 DEF Packet, FrameOrNone
  <2>5. Len(pkt.inputs) <= MaxRedundant
    <3>1. Len(<< >>) = 0
      OBVIOUS
    <3> QED
      BY <2>2, <3>1, NetConstants
  <2> QED
    BY <1>6, <2>2, <2>3, <2>4, <2>5 DEF pkt
<1>9. CASE ~ (upTo < first)
  <2> DEFINE n == upTo - first + 1
  <2>1. n \in Nat /\ upTo = first + n - 1
    BY <1>2, <1>4, <1>9
  <2>2. pkt.first = first /\ pkt.inputs = [i \in 1 .. n |-> InputAt(mine, first + i - 1)]
    BY <1>6, <1>9
  <2> HIDE DEF n
  <2>3. \A i \in 1 .. n : InputAt(mine, first + i - 1) \in Input
    BY <1>2, <1>7, <2>1
  <2>4. pkt.inputs \in Seq(Input) /\ Len(pkt.inputs) = n
    BY <2>1, <2>2, <2>3
  <2>5. pkt \in Packet
    <3>1. pkt.first \in FrameOrNone /\ pkt.first # None
      BY <1>2, <2>2 DEF FrameOrNone, None
    <3> QED
      BY <1>1, <1>6, <2>4, <3>1 DEF Packet
  <2>6. ASSUME NEW f \in PacketFrames(pkt)
        PROVE  /\ f \in Nat /\ f <= top /\ Present(mine, f)
               /\ Sample(pkt, f) = InputAt(mine, f)
    <3>1. f \in first .. first + n - 1
      BY <2>2, <2>4 DEF PacketFrames
    <3>2. f \in Nat /\ f <= top /\ f \in first .. run
      BY <1>2, <1>3, <1>4, <2>1, <3>1
    <3>3. f - first + 1 \in 1 .. n /\ first + (f - first + 1) - 1 = f
      BY <1>2, <2>1, <3>1
    <3>4. Sample(pkt, f) = InputAt(mine, first + (f - first + 1) - 1)
      BY <2>2, <3>3 DEF Sample
    <3> QED
      BY <1>3, <3>2, <3>3, <3>4
  <2>7. Len(pkt.inputs) <= MaxRedundant /\ pkt.inputs # << >>
    <3>1. Len(<< >>) = 0
      OBVIOUS
    <3>2. n > 0 /\ n <= MaxRedundant
      BY <1>2, <1>4, <1>9, <2>1, NetConstants
    <3> QED
      BY <2>4, <3>1, <3>2
  <2> QED
    BY <1>6, <2>5, <2>6, <2>7 DEF pkt, mine
<1> QED
  BY <1>8, <1>9

LEMMA SendKeepsAcks ==
  ASSUME AckInv, NEW p \in Player, NEW q \in Player, Send(p, q)
  PROVE  AckInv' /\ ConfirmedGrows
<1> DEFINE top == LocalFrameForCapture(latest[p] - 1)
           pkt == BuildInputPacket(cores[p], q, top)
           S   == wire[p][q] \cup {pkt}
<1>1. cores[p] \in Core /\ cores[p].me = p /\ top \in Int
      /\ cores[p].confirmed[q] \in Int /\ wire[p][q] \subseteq Packet
  BY StateFacts, NetConstants DEF AckInv, LocalFrameForCapture
<1>2. /\ wire' = [wire EXCEPT ![p][q] = S]
      /\ UNCHANGED <<cores, latest, peaks, stream, exported, failed>>
  BY DEF Send
<1> HIDE DEF top
<1>3. pkt \in Packet /\ pkt.from = p /\ pkt.ack = cores[p].confirmed[q]
  BY <1>1, BuiltPacket
<1> HIDE DEF pkt
<1>4. S \in SUBSET Packet
  BY <1>1, <1>3
<1>5. /\ wire' \in [Player -> [Player -> SUBSET Packet]]
      /\ \A a, b \in Player :
           \/ wire'[a][b] = wire[a][b]
           \/ a = p /\ b = q /\ wire'[a][b] = S
  <2> HIDE DEF S
  <2> QED
    BY <1>2, <1>4, OneLink DEF AckInv
<1>6. pkt.ack <= cores[p].confirmed[q]
  BY <1>1, <1>3, NotLess
<1>7. ASSUME NEW a \in Player, NEW b \in Player, NEW x \in wire'[a][b]
      PROVE  x \in wire[a][b] \/ (x.from = a /\ x.ack <= cores[a].confirmed[b])
  BY <1>3, <1>5, <1>6
<1>8. exported' \in [Readers -> Seq([Player -> Input])]
  BY <1>2 DEF AckInv, NetTypeOK
<1> QED
  BY <1>2, <1>5, <1>7, <1>8, CoresUnchanged

(* A packet leaves a link. *)
LEMMA LoseKeepsAcks ==
  ASSUME AckInv, NEW p \in Player, NEW q \in Player, Lose(p, q)
  PROVE  AckInv' /\ ConfirmedGrows
<1>1. PICK pkt \in wire[p][q] :
        /\ wire' = [wire EXCEPT ![p][q] = @ \ {pkt}]
        /\ UNCHANGED <<cores, latest, peaks, stream, exported, failed>>
  BY DEF Lose
<1> DEFINE S == wire[p][q] \ {pkt}
<1>2. S \in SUBSET Packet /\ wire' = [wire EXCEPT ![p][q] = S]
  BY <1>1, StateFacts DEF AckInv
<1>3. /\ wire' \in [Player -> [Player -> SUBSET Packet]]
      /\ \A a, b \in Player :
           \/ wire'[a][b] = wire[a][b]
           \/ a = p /\ b = q /\ wire'[a][b] = S
  <2> HIDE DEF S
  <2> QED
    BY <1>2, OneLink DEF AckInv
<1>4. \A a, b \in Player : wire'[a][b] \subseteq wire[a][b]
  BY <1>3
<1>5. exported' \in [Readers -> Seq([Player -> Input])]
  BY <1>1 DEF AckInv, NetTypeOK
<1> QED
  BY <1>1, <1>3, <1>4, <1>5, CoresUnchanged

(* What a packet of p changes at q: the ring, the frontier and the         *)
(* acknowledgement of p.                                                   *)
LEMMA AcceptEffect ==
  ASSUME AckInv, NEW p \in Player, NEW q \in Player, NEW pkt \in wire[p][q],
         Accept(q, pkt)
  PROVE  /\ UNCHANGED <<latest, peaks, stream, exported>>
         /\ \/ UNCHANGED cores
            \/ LET c == cores[q]
                   d == ApplyInputPacket(c, pkt)
                   fresh == FreshFrames(c, pkt)
               IN  /\ cores' = [cores EXCEPT ![q] = d]
                   /\ d \in Core /\ d.me = q /\ d.last = c.last
                   /\ \A r \in Player \ {p} : /\ d.inputs[r] = c.inputs[r]
                                              /\ d.confirmed[r] = c.confirmed[r]
                   /\ d.inputs[p] = StoreAll(c.inputs[p], fresh, pkt)
                   /\ d.confirmed[p] = Advanced(d.inputs[p], c.confirmed[p])
                   /\ \A r \in Player \ {p} : d.peerAck[r] = c.peerAck[r]
                   /\ d.peerAck[p] = Larger(c.peerAck[p], pkt.ack)
<1> DEFINE c == cores[q]
           d == ApplyInputPacket(c, pkt)
<1>1. pkt \in Packet /\ pkt.from = p
  BY StateFacts DEF AckInv, AcksSent
<1>2. c \in Core /\ c.me = q
  BY StateFacts DEF AckInv
<1>3. /\ pkt.ack \in FrameOrNone /\ PacketFrames(pkt) \subseteq Nat
      /\ \A f \in PacketFrames(pkt) : Sample(pkt, f) \in Input
  BY <1>1, PacketFacts
<1>4. /\ UNCHANGED <<latest, peaks, stream, exported>>
      /\ UNCHANGED cores \/ cores' = [cores EXCEPT ![q] = d]
  BY DEF Accept
<1> HIDE DEF c
<1>5. /\ d \in Core /\ d.me = c.me /\ d.last = c.last
      /\ \A r \in Player \ {p} :
           d.inputs[r] = c.inputs[r] /\ d.confirmed[r] = c.confirmed[r]
      /\ d.inputs[p] = StoreAll(c.inputs[p], FreshFrames(c, pkt), pkt)
      /\ d.confirmed[p] = Advanced(d.inputs[p], c.confirmed[p])
  BY <1>1, <1>2, <1>3, ApplyEffect
<1>6. d.peerAck = [c.peerAck EXCEPT ![p] = Larger(c.peerAck[p], pkt.ack)]
  BY <1>1, <1>2, ApplyAcks
<1> HIDE DEF d
<1>7. c.peerAck \in [Player -> FrameOrNone]
  BY <1>2 DEF Core
<1>8. /\ \A r \in Player \ {p} : d.peerAck[r] = c.peerAck[r]
      /\ d.peerAck[p] = Larger(c.peerAck[p], pkt.ack)
  BY <1>6, <1>7
<1> QED
  BY <1>2, <1>4, <1>5, <1>8 DEF c, d

LEMMA AcceptKeepsAcks ==
  ASSUME AckInv, NEW p \in Player, NEW q \in Player, p # q,
         NEW pkt \in wire[p][q], Accept(q, pkt),
         wire' \in [Player -> [Player -> SUBSET Packet]],
         \A a, b \in Player : wire'[a][b] \subseteq wire[a][b]
  PROVE  AckInv' /\ ConfirmedGrows
<1>1. UNCHANGED <<latest, peaks, stream, exported>>
  BY AcceptEffect
<1>2. exported' \in [Readers -> Seq([Player -> Input])]
  BY <1>1 DEF AckInv, NetTypeOK
<1>3. CASE UNCHANGED cores
  BY <1>1, <1>2, <1>3, CoresUnchanged
<1>4. CASE ~ UNCHANGED cores
  <2> DEFINE c == cores[q]
             d == ApplyInputPacket(c, pkt)
  <2>1. /\ cores' = [cores EXCEPT ![q] = d]
        /\ d \in Core /\ d.me = q
        /\ \A r \in Player \ {p} : d.confirmed[r] = c.confirmed[r]
        /\ d.confirmed[p] = Advanced(d.inputs[p], c.confirmed[p])
        /\ \A r \in Player \ {p} : d.peerAck[r] = c.peerAck[r]
        /\ d.peerAck[p] = Larger(c.peerAck[p], pkt.ack)
    BY <1>4, AcceptEffect
  <2> HIDE DEF d
  <2>2. /\ CoresTypeOK' /\ cores'[q] = d
        /\ \A r \in Player \ {q} : cores'[r] = cores[r]
    <3>1. NetTypeOK /\ cores' = [cores EXCEPT ![q] = d] /\ d \in Core /\ d.me = q
      BY <2>1 DEF AckInv
    <3> QED
      BY <3>1, OneCore
  <2>3. NetTypeOK'
    BY <1>1, <2>2 DEF AckInv, NetTypeOK
  <2>4. /\ c.confirmed[p] \in FrameOrNone
        /\ \A r \in Player : c.confirmed[r] \in Int
    BY StateFacts DEF AckInv
  <2> HIDE DEF c
  <2>5. c.confirmed[p] <= d.confirmed[p]
    BY <2>1, <2>4, AdvancedPresent
  <2>6. \A r \in Player : c.confirmed[r] <= d.confirmed[r]
    BY <2>1, <2>4, <2>5, NotLess, Zenon
  <2>7. ConfirmedGrows
    <3> SUFFICES ASSUME NEW a \in Player, NEW b \in Player
                 PROVE  cores[a].confirmed[b] <= cores'[a].confirmed[b]
      BY DEF ConfirmedGrows
    <3>1. cores[a].confirmed[b] <= cores[a].confirmed[b]
      BY StateFacts, NotLess DEF AckInv
    <3> QED
      BY <2>2, <2>6, <3>1 DEF c
  <2>8. ASSUME NEW a \in Player, NEW b \in Player, a # b
        PROVE  \/ cores'[a].peerAck[b] = cores[a].peerAck[b]
               \/ cores'[a].peerAck[b] <= cores[b].confirmed[a]
    <3>1. CASE a = q /\ b = p
      <4>1. pkt.ack <= cores[p].confirmed[q]
        BY DEF AckInv, AcksSent
      <4>2. d.peerAck[p] = c.peerAck[p] \/ d.peerAck[p] = pkt.ack
        BY <2>1 DEF Larger
      <4> QED
        BY <2>2, <3>1, <4>1, <4>2 DEF c
    <3>2. CASE ~ (a = q /\ b = p)
      BY <2>1, <2>2, <3>2 DEF c
    <3> QED
      BY <3>1, <3>2
  <2> QED
    BY <2>3, <2>7, <2>8, AcksKept
<1> QED
  BY <1>3, <1>4

LEMMA ReceiveKeepsAcks ==
  ASSUME AckInv, NEW p \in Player, NEW q \in Player, p # q,
         Receive(p, q) \/ ReceiveCopy(p, q)
  PROVE  AckInv' /\ ConfirmedGrows
<1>1. PICK pkt \in wire[p][q] :
        /\ Accept(q, pkt)
        /\ wire' = [wire EXCEPT ![p][q] = @ \ {pkt}] \/ UNCHANGED wire
  BY DEF Receive, ReceiveCopy
<1> DEFINE S == wire[p][q] \ {pkt}
<1>2. S \in SUBSET Packet
  BY StateFacts DEF AckInv
<1>3. CASE wire' = [wire EXCEPT ![p][q] = S]
  <2>1. /\ wire' \in [Player -> [Player -> SUBSET Packet]]
        /\ \A a, b \in Player :
             \/ wire'[a][b] = wire[a][b]
             \/ a = p /\ b = q /\ wire'[a][b] = S
    <3> HIDE DEF S
    <3> QED
      BY <1>2, <1>3, OneLink DEF AckInv
  <2>2. \A a, b \in Player : wire'[a][b] \subseteq wire[a][b]
    BY <2>1
  <2> QED
    BY <1>1, <2>1, <2>2, AcceptKeepsAcks
<1>4. CASE UNCHANGED wire
  <2>1. /\ wire' \in [Player -> [Player -> SUBSET Packet]]
        /\ \A a, b \in Player : wire'[a][b] \subseteq wire[a][b]
    BY <1>4 DEF AckInv, NetTypeOK
  <2> QED
    BY <1>1, <2>1, AcceptKeepsAcks
<1> QED
  BY <1>1, <1>3, <1>4

LEMMA InitAcks ==
  ASSUME Init
  PROVE  AckInv
<1>1. \A p \in Player : cores[p] = ResetCore(p)
  BY DEF Init
<1>2. \A p \in Player : cores[p] \in Core /\ cores[p].me = p
  BY <1>1, ResetCoreType, ResetFields
<1>3. CoresTypeOK
  BY <1>2 DEF Init, CoresTypeOK
<1>4. \A p \in Player : /\ latest[p] = 0 /\ peaks[p] = None
                        /\ stream[p] \in Seq(Input)
  <2>1. [i \in 1 .. InputDelay |-> Neutral] \in Seq(Input)
    BY NetConstants
  <2> QED
    BY <2>1 DEF Init
<1>5. /\ latest \in [Player -> Nat] /\ peaks \in [Player -> FrameOrNone]
      /\ stream \in [Player -> Seq(Input)]
      /\ exported \in [Readers -> Seq([Player -> Input])]
      /\ wire \in [Player -> [Player -> SUBSET Packet]]
  <2>1. None \in FrameOrNone
    BY DEF FrameOrNone
  <2>2. << >> \in Seq([Player -> Input])
    OBVIOUS
  <2>3. exported \in [Readers -> Seq([Player -> Input])]
    BY <2>2 DEF Init
  <2>4. wire \in [Player -> [Player -> SUBSET Packet]]
    BY DEF Init
  <2>5. stream \in [Player -> Seq(Input)]
    BY <1>4 DEF Init
  <2> QED
    BY <2>1, <2>3, <2>4, <2>5 DEF Init
<1>6. AcksSent
  BY DEF Init, AcksSent
<1>7. None <= None
  BY DEF None
<1>8. AcksAreConfirmed
  <2> SUFFICES ASSUME NEW p \in Player, NEW q \in Player, p # q
               PROVE  cores[p].peerAck[q] <= cores[q].confirmed[p]
    BY DEF AcksAreConfirmed
  <2>1. cores[p].peerAck[q] = None /\ cores[q].confirmed[p] = None
    BY <1>1, ResetFields
  <2> QED
    BY <1>7, <2>1
<1> QED
  BY <1>3, <1>5, <1>6, <1>8 DEF AckInv, NetTypeOK

LEMMA NextKeepsAcks ==
  ASSUME AckInv, [Next]_vars
  PROVE  AckInv' /\ ConfirmedGrows
<1>1. ASSUME NEW p \in Player, NEW v \in Pressable[p], Capture(p, v)
      PROVE  AckInv' /\ ConfirmedGrows
  BY <1>1, CaptureKeepsAcks
<1>2. ASSUME NEW p \in Player, NEW f \in 0 .. InputDelay - 1,
             NEW v \in Pressable[p], Bootstrap(p, f, v)
      PROVE  AckInv' /\ ConfirmedGrows
  BY <1>2, BootstrapKeepsAcks
<1>3. ASSUME NEW p \in Player, Simulate(p)
      PROVE  AckInv' /\ ConfirmedGrows
  BY <1>3, SimulateKeepsAcks
<1>4. ASSUME NEW p \in Player, Rewind(p)
      PROVE  AckInv' /\ ConfirmedGrows
  BY <1>4, RewindKeepsAcks
<1>5. ASSUME NEW p \in Readers, Export(p)
      PROVE  AckInv' /\ ConfirmedGrows
  BY <1>5, ExportKeepsAcks
<1>6. ASSUME NEW l \in Links, Send(l[1], l[2])
      PROVE  AckInv' /\ ConfirmedGrows
  BY <1>6, SendKeepsAcks DEF Links
<1>7. ASSUME NEW l \in Links,
             Receive(l[1], l[2]) \/ ReceiveCopy(l[1], l[2])
      PROVE  AckInv' /\ ConfirmedGrows
  BY <1>7, ReceiveKeepsAcks DEF Links
<1>8. ASSUME NEW l \in Links, Lose(l[1], l[2])
      PROVE  AckInv' /\ ConfirmedGrows
  BY <1>8, LoseKeepsAcks DEF Links
<1>9. CASE UNCHANGED vars
  <2>1. /\ exported' \in [Readers -> Seq([Player -> Input])]
        /\ wire' \in [Player -> [Player -> SUBSET Packet]]
        /\ \A p, q \in Player : wire'[p][q] = wire[p][q]
        /\ UNCHANGED <<cores, latest, peaks, stream>>
    BY <1>9 DEF vars, AckInv, NetTypeOK
  <2> QED
    BY <2>1, CoresUnchanged
<1> QED
  BY <1>1, <1>2, <1>3, <1>4, <1>5, <1>6, <1>7, <1>8, <1>9 DEF Next

(* Whatever is lost, repeated or reordered, what a peer was told the other *)
(* has, the other has: SendInputs never drops a sample still waited for.   *)
THEOREM AcknowledgementsAreTrue == Spec => []AcksAreConfirmed
<1>1. Init => AckInv
  BY InitAcks
<1>2. AckInv /\ [Next]_vars => AckInv'
  BY NextKeepsAcks
<1>3. AckInv => AcksAreConfirmed
  BY DEF AckInv
<1> QED
  BY <1>1, <1>2, <1>3, PTL DEF Spec

---------------------------------------------------------------------------
(* What is on the wire and in the rings is what was pressed. *)

(* A capture adds a frame, and what another player may have heard of stays *)
(* as it was pressed.                                                      *)
StreamKept ==
  \A q \in Player :
    /\ Captured(q) <= Captured(q)'
    /\ latest[q] > 0 =>
         /\ latest'[q] > 0
         /\ \A f \in Nat : f < Captured(q) => Pressed(q, f)' = Pressed(q, f)

LEMMA StreamUnchanged ==
  ASSUME AckInv, UNCHANGED <<stream, latest>>
  PROVE  StreamKept
<1> SUFFICES ASSUME NEW q \in Player
             PROVE  /\ Captured(q) <= Captured(q)'
                    /\ latest[q] > 0 => latest'[q] > 0
                    /\ \A f \in Nat : Pressed(q, f)' = Pressed(q, f)
  BY DEF StreamKept
<1>1. Captured(q)' = Captured(q) /\ Captured(q) \in Int
  BY StateFacts DEF Captured, AckInv
<1>2. Captured(q) <= Captured(q)'
  BY <1>1, NotLess
<1> QED
  BY <1>2 DEF Pressed

LEMMA PacketsKept ==
  ASSUME AckInv, AckInv', NetInv, StreamKept,
         \A p, q \in Player : \A pkt \in wire'[p][q] :
           pkt \in wire[p][q] \/ HonestPacket(p, pkt)'
  PROVE  PacketsHonest'
<1> SUFFICES ASSUME NEW p \in Player, NEW q \in Player, NEW pkt \in wire'[p][q],
                    pkt \in wire[p][q]
             PROVE  HonestPacket(p, pkt)'
  BY DEF PacketsHonest
<1>1. /\ latest[p] > 0
      /\ \A f \in PacketFrames(pkt) : /\ f < Captured(p)
                                      /\ Sample(pkt, f) = Pressed(p, f)
  BY DEF NetInv, PacketsHonest, HonestPacket
<1>2. /\ Captured(p) <= Captured(p)' /\ latest'[p] > 0
      /\ \A f \in Nat : f < Captured(p) => Pressed(p, f)' = Pressed(p, f)
  BY <1>1 DEF StreamKept
<1>3. PacketFrames(pkt) \subseteq Nat
  BY StateFacts, PacketFacts DEF AckInv
<1>4. Captured(p) \in Int /\ Captured(p)' \in Int
  <2>1. NetTypeOK /\ NetTypeOK'
    BY DEF AckInv
  <2>2. stream[p] \in Seq(Input) /\ stream'[p] \in Seq(Input)
    BY <2>1 DEF NetTypeOK
  <2> QED
    BY <2>2 DEF Captured
<1> DEFINE old == Captured(p)
           new == Captured(p)'
<1>5. old \in Int /\ new \in Int /\ old <= new
  BY <1>2, <1>4
<1>6. ASSUME NEW f \in PacketFrames(pkt)
      PROVE  f < Captured(p)' /\ Sample(pkt, f) = Pressed(p, f)'
  <2>1. f \in Nat /\ f < old
    BY <1>1, <1>3
  <2>2. f < new
    <3> HIDE DEF old, new
    <3> QED
      BY <1>5, <2>1
  <2> QED
    BY <1>1, <1>2, <2>1, <2>2
<1>7. PacketFrames(pkt)' = PacketFrames(pkt)
  BY DEF PacketFrames
<1> QED
  BY <1>2, <1>6, <1>7 DEF HonestPacket

(* A ring or a frontier nobody touched. *)
LEMMA RingKept ==
  ASSUME AckInv, AckInv', NetInv, StreamKept, NEW p \in Player, NEW q \in Player,
         cores'[p].inputs[q] = cores[p].inputs[q],
         p # q \/ stream'[q] = stream[q]
  PROVE  HonestRing(p, q)'
<1> SUFFICES ASSUME NEW f \in Nat, Present(cores[p].inputs[q], f)
             PROVE  /\ f < Captured(q)' /\ Known(p, q)'
                    /\ InputAt(cores[p].inputs[q], f) = Pressed(q, f)'
  BY DEF HonestRing
<1>1. /\ f < Captured(q) /\ Known(p, q)
      /\ InputAt(cores[p].inputs[q], f) = Pressed(q, f)
  BY DEF NetInv, SamplesHonest, HonestRing
<1>2. Captured(q) \in Int /\ Captured(q)' \in Int
  <2>1. stream[q] \in Seq(Input) /\ stream'[q] \in Seq(Input)
    BY DEF AckInv, NetTypeOK
  <2> QED
    BY <2>1 DEF Captured
<1>3. f < Captured(q)'
  <2> DEFINE old == Captured(q)
             new == Captured(q)'
  <2>1. old \in Int /\ new \in Int /\ old <= new /\ f < old
    BY <1>1, <1>2 DEF StreamKept
  <2> HIDE DEF old, new
  <2>2. f < new
    BY <2>1
  <2> QED
    BY <2>2 DEF new
<1>4. Known(p, q)' /\ Pressed(q, f)' = Pressed(q, f)
  <2>1. CASE p # q
    BY <1>1, <2>1 DEF Known, StreamKept
  <2>2. CASE p = q
    BY <2>2 DEF Known, Pressed
  <2> QED
    BY <2>1, <2>2
<1> QED
  BY <1>1, <1>3, <1>4

LEMMA FrontierAdvances ==
  ASSUME AckInv, AckInv', NetInv, StreamKept, NEW p \in Player, NEW q \in Player,
         HonestRing(p, q)',
         \/ cores'[p].confirmed[q] = cores[p].confirmed[q]
         \/ /\ cores'[p].confirmed[q] \in Nat
            /\ Present(cores'[p].inputs[q], cores'[p].confirmed[q])
  PROVE  HonestFrontier(p, q)'
<1> DEFINE n == cores'[p].confirmed[q]
<1>1. CASE n = cores[p].confirmed[q]
  <2> DEFINE old == Captured(q)
             new == Captured(q)'
  <2>1. n < old /\ (n # None => Known(p, q))
    BY <1>1 DEF NetInv, FrontiersHonest, HonestFrontier
  <2>2. n # None => Known(p, q)'
    BY <2>1 DEF Known, StreamKept
  <2>3. old \in Int /\ new \in Int
    <3>1. stream[q] \in Seq(Input) /\ stream'[q] \in Seq(Input)
      BY DEF AckInv, NetTypeOK
    <3> QED
      BY <3>1 DEF Captured
  <2>4. n \in Int /\ old <= new
    BY <1>1, StateFacts DEF AckInv, StreamKept
  <2>5. n < new
    <3> HIDE DEF old, new, n
    <3> QED
      BY <2>1, <2>3, <2>4
  <2> QED
    BY <2>2, <2>5 DEF HonestFrontier
<1>2. CASE n \in Nat /\ Present(cores'[p].inputs[q], n)
  BY <1>2 DEF HonestRing, HonestFrontier
<1> QED
  BY <1>1, <1>2

LEMMA PlayedKept ==
  ASSUME AckInv, AckInv', NetInv, ConfirmedGrows, UNCHANGED exported,
         \A p \in Player : /\ cores'[p].last <= peaks'[p]
                           /\ peaks[p] <= peaks'[p]
  PROVE  PlayedConfirmed'
<1>1. ASSUME NEW p \in Readers
      PROVE  Len(exported'[p]) <= peaks'[p] + 1
  <2> DEFINE n == Len(exported[p])
             old == peaks[p]
             new == peaks'[p]
  <2>1. p \in Player /\ exported[p] \in Seq([Player -> Input])
    BY NetConstants DEF AckInv, NetTypeOK
  <2>2. n \in Nat
    BY <2>1
  <2>3. old \in Int /\ new \in Int
    BY <2>1 DEF AckInv, NetTypeOK, FrameOrNone, None
  <2>4. n <= old + 1 /\ old <= new
    BY <2>1 DEF NetInv, PlayedConfirmed
  <2>5. n <= new + 1
    <3> HIDE DEF n, old, new
    <3> QED
      BY <2>2, <2>3, <2>4
  <2> QED
    BY <2>5
<1>2. ASSUME NEW p \in Readers, NEW q \in Player
      PROVE  Len(exported'[p]) <= cores'[p].confirmed[q] + 1
  <2> DEFINE n == Len(exported[p])
             old == cores[p].confirmed[q]
             new == cores'[p].confirmed[q]
  <2>1. p \in Player /\ exported[p] \in Seq([Player -> Input])
    BY NetConstants DEF AckInv, NetTypeOK
  <2>2. n \in Nat
    BY <2>1
  <2>3. old \in Int /\ new \in Int
    <3>1. old \in FrameOrNone /\ new \in FrameOrNone
      BY <2>1 DEF AckInv, NetTypeOK, CoresTypeOK, Core
    <3> HIDE DEF old, new
    <3> QED
      BY <3>1 DEF FrameOrNone, None
  <2>4. n <= old + 1 /\ old <= new
    BY <2>1 DEF NetInv, PlayedConfirmed, ConfirmedGrows
  <2>5. n <= new + 1
    <3> HIDE DEF n, old, new
    <3> QED
      BY <2>2, <2>3, <2>4
  <2> QED
    BY <2>5
<1> QED
  BY <1>1, <1>2 DEF PlayedConfirmed

(* A step that stores nothing: only what was simulated may change. *)
LEMMA RingsUnchanged ==
  ASSUME AckInv, AckInv', NetInv, UNCHANGED <<stream, latest>>,
         \A p \in Player : /\ cores'[p].inputs = cores[p].inputs
                           /\ cores'[p].confirmed = cores[p].confirmed,
         \A p, q \in Player : \A pkt \in wire'[p][q] :
           pkt \in wire[p][q] \/ HonestPacket(p, pkt)',
         PlayedConfirmed'
  PROVE  NetInv'
<1>1. StreamKept
  BY StreamUnchanged
<1>2. ASSUME NEW p \in Player, NEW q \in Player
      PROVE  HonestRing(p, q)' /\ HonestFrontier(p, q)'
  BY <1>1, RingKept, FrontierAdvances
<1>3. PacketsHonest'
  BY <1>1, PacketsKept
<1>4. CapturesCounted'
  BY DEF NetInv, CapturesCounted, Captured
<1> QED
  BY <1>2, <1>3, <1>4 DEF NetInv, SamplesHonest, FrontiersHonest

(* The new sample is the next of the stream, and the next in the ring. *)
LEMMA CaptureHonest ==
  ASSUME AckInv, AckInv', ConfirmedGrows, NetInv,
         NEW p \in Player, NEW v \in Pressable[p], Capture(p, v)
  PROVE  NetInv'
<1> DEFINE k == latest[p]
           g == LocalFrameForCapture(k)
           d == ScheduleLocalInput(cores[p], k, v)
<1>1. cores[p] \in Core /\ cores[p].me = p /\ k \in Nat /\ v \in Input
      /\ stream[p] \in Seq(Input) /\ cores[p].inputs[p] \in Ring
      /\ cores[p].confirmed[p] \in FrameOrNone
  BY StateFacts, NetConstants DEF AckInv
<1>2. /\ cores' = [cores EXCEPT ![p] = d]
      /\ stream' = [stream EXCEPT ![p] = Append(@, v)]
      /\ latest' = [latest EXCEPT ![p] = @ + 1]
      /\ UNCHANGED <<peaks, exported, wire, failed>>
  BY DEF Capture
<1>3. g \in Nat /\ g = Captured(p)
  BY <1>1, NetConstants DEF LocalFrameForCapture, NetInv, CapturesCounted
<1>4. /\ d \in Core /\ d.me = p /\ d.last = cores[p].last
      /\ \A q \in Player \ {p} : /\ d.inputs[q] = cores[p].inputs[q]
                                 /\ d.confirmed[q] = cores[p].confirmed[q]
      /\ d.inputs[p] = Store(cores[p].inputs[p], g, v)
      /\ d.confirmed[p] = Advanced(d.inputs[p], cores[p].confirmed[p])
  <2> DEFINE c == cores[p]
  <2>1. c \in Core /\ c.me = p
    BY <1>1
  <2>2. d = ScheduleLocalInput(c, k, v)
    BY DEF c
  <2> HIDE DEF c
  <2>3. LET e == ScheduleLocalInput(c, k, v)
        IN  /\ e \in Core /\ e.me = c.me /\ e.last = c.last
            /\ \A q \in Player \ {c.me} : /\ e.inputs[q] = c.inputs[q]
                                          /\ e.confirmed[q] = c.confirmed[q]
            /\ e.inputs[c.me] = Store(c.inputs[c.me], LocalFrameForCapture(k), v)
            /\ e.confirmed[c.me] = Advanced(e.inputs[c.me], c.confirmed[c.me])
    <3>1. k \in Nat /\ v \in Input
      BY <1>1
    <3> HIDE DEF k, d
    <3> QED
      BY <2>1, <3>1, ScheduleEffect
  <2> HIDE DEF d
  <2> QED
    BY <2>1, <2>2, <2>3 DEF c
<1> HIDE DEF d
<1>5. /\ CoresTypeOK' /\ cores'[p] = d
      /\ \A r \in Player \ {p} : cores'[r] = cores[r]
  <2>1. NetTypeOK
    BY DEF AckInv
  <2> QED
    BY <1>2, <1>4, <2>1, OneCore
<1>6. /\ Captured(p)' = g + 1
      /\ \A f \in Nat : f < g => Pressed(p, f)' = Pressed(p, f)
      /\ stream'[p][g + 1] = v
  <2> DEFINE s == stream[p]
             t == Append(s, v)
  <2>1. stream'[p] = t
    BY <1>2 DEF AckInv, NetTypeOK
  <2>2. g = Len(s)
    BY <1>3 DEF Captured
  <2>3. s \in Seq(Input) /\ v \in Input
    BY <1>1
  <2> HIDE DEF s, g
  <2>4. /\ Len(t) = Len(s) + 1 /\ t[Len(s) + 1] = v
        /\ \A i \in 1 .. Len(s) : t[i] = s[i]
    BY <2>3
  <2>5. \A f \in Nat : f < g => f + 1 \in 1 .. Len(s)
    BY <2>2, <2>3
  <2> HIDE DEF t
  <2>6. Captured(p)' = g + 1 /\ stream'[p][g + 1] = v
    BY <2>1, <2>2, <2>4 DEF Captured
  <2>7. \A f \in Nat : f < g => Pressed(p, f)' = Pressed(p, f)
    BY <2>1, <2>4, <2>5 DEF Pressed, s
  <2> QED
    BY <2>6, <2>7
<1>7. \A q \in Player \ {p} : stream'[q] = stream[q] /\ latest'[q] = latest[q]
  BY <1>2 DEF AckInv, NetTypeOK
<1>8. latest'[p] = k + 1
  BY <1>2 DEF AckInv, NetTypeOK
<1>9. StreamKept
  <2> SUFFICES ASSUME NEW q \in Player
               PROVE  /\ Captured(q) <= Captured(q)'
                      /\ latest[q] > 0 => latest'[q] > 0
                      /\ \A f \in Nat : f < Captured(q) =>
                           Pressed(q, f)' = Pressed(q, f)
    BY DEF StreamKept
  <2>1. CASE q = p
    <3>1. g <= g + 1 /\ k + 1 > 0
      BY <1>1, <1>3
    <3> HIDE DEF g, k
    <3> QED
      BY <1>3, <1>6, <1>8, <2>1, <3>1
  <2>2. CASE q # p
    <3>1. Captured(q) <= Captured(q)
      BY StateFacts, NotLess DEF AckInv
    <3> QED
      BY <1>7, <2>2, <3>1 DEF Captured, Pressed
  <2> QED
    BY <2>1, <2>2
<1>10. HonestRing(p, p)'
  <2> SUFFICES ASSUME NEW f \in Nat, Present(d.inputs[p], f)
               PROVE  /\ f < Captured(p)'
                      /\ InputAt(d.inputs[p], f) = Pressed(p, f)'
    BY <1>5 DEF HonestRing, Known
  <2> DEFINE ring == cores[p].inputs[p]
             new  == Store(ring, g, v)
  <2>1. ring \in Ring /\ g \in Nat /\ v \in Input
    BY <1>1, <1>3
  <2>2. d.inputs[p] = new
    BY <1>4
  <2>3. /\ InputAt(new, g) = v
        /\ \A h \in Nat : h # g /\ Present(new, h) =>
             Present(ring, h) /\ InputAt(new, h) = InputAt(ring, h)
    <3> HIDE DEF ring, g
    <3> QED
      BY <2>1, StoreKeeps
  <2> HIDE DEF new
  <2>4. CASE f = g
    <3>1. g < g + 1
      BY <2>1
    <3> HIDE DEF g
    <3>2. Pressed(p, f)' = v
      BY <1>6, <2>4 DEF Pressed
    <3>3. f < Captured(p)'
      BY <1>6, <2>4, <3>1
    <3> QED
      BY <2>2, <2>3, <2>4, <3>2, <3>3
  <2>5. CASE f # g
    <3>1. f < g /\ InputAt(ring, f) = Pressed(p, f)
      <4>1. Present(ring, f)
        BY <2>2, <2>3, <2>5
      <4> QED
        BY <1>3, <4>1 DEF NetInv, SamplesHonest, HonestRing, ring
    <3>2. f < g + 1
      BY <2>1, <3>1
    <3> HIDE DEF g
    <3> QED
      BY <1>6, <2>2, <2>3, <2>5, <3>1, <3>2
  <2> QED
    BY <2>4, <2>5
<1>11. ASSUME NEW a \in Player, NEW q \in Player
       PROVE  HonestRing(a, q)' /\ HonestFrontier(a, q)'
  <2>1. CASE a = p /\ q = p
    <3> DEFINE from == cores[p].confirmed[p]
               n == Advanced(d.inputs[p], from)
    <3>1. n = from \/ (n \in Nat /\ Present(d.inputs[p], n))
      BY <1>1, AdvancedPresent
    <3>2. cores'[p].confirmed[p] = n /\ cores'[p].inputs = d.inputs
      BY <1>4, <1>5
    <3> HIDE DEF n
    <3> QED
      BY <1>9, <1>10, <2>1, <3>1, <3>2, FrontierAdvances
  <2>2. CASE ~ (a = p /\ q = p)
    <3>1. /\ cores'[a].inputs[q] = cores[a].inputs[q]
          /\ cores'[a].confirmed[q] = cores[a].confirmed[q]
      BY <1>4, <1>5, <2>2
    <3>2. a # q \/ stream'[q] = stream[q]
      BY <1>7, <2>2
    <3> QED
      BY <1>9, <3>1, <3>2, RingKept, FrontierAdvances
  <2> QED
    BY <2>1, <2>2
<1>12. PacketsHonest'
  BY <1>2, <1>9, PacketsKept
<1>13. CapturesCounted'
  <2> SUFFICES ASSUME NEW q \in Player
               PROVE  Captured(q)' = latest'[q] + InputDelay
    BY DEF CapturesCounted
  <2>1. CASE q = p
    <3>1. g + 1 = (k + 1) + InputDelay
      BY <1>1, NetConstants DEF LocalFrameForCapture
    <3> HIDE DEF g, k
    <3> QED
      BY <1>6, <1>8, <2>1, <3>1
  <2>2. CASE q # p
    BY <1>7, <2>2 DEF NetInv, CapturesCounted, Captured
  <2> QED
    BY <2>1, <2>2
<1>14. PlayedConfirmed'
  <2>1. \A q \in Player : peaks[q] \in Int
    BY DEF AckInv, NetTypeOK, FrameOrNone, None
  <2>2. \A q \in Player : peaks[q] <= peaks'[q]
    BY <1>2, <2>1, NotLess
  <2>3. \A q \in Player : cores'[q].last <= peaks'[q]
    BY <1>2, <1>4, <1>5 DEF NetInv, PlayedConfirmed
  <2> QED
    BY <1>2, <2>2, <2>3, PlayedKept
<1> QED
  BY <1>11, <1>12, <1>13, <1>14 DEF NetInv, SamplesHonest, FrontiersHonest

(* A startup frame is replaced before anybody has heard of it. *)
LEMMA BootstrapHonest ==
  ASSUME BootstrapEarly, AckInv, AckInv', ConfirmedGrows, NetInv,
         NEW p \in Player, NEW g \in 0 .. InputDelay - 1,
         NEW v \in Pressable[p], Bootstrap(p, g, v)
  PROVE  NetInv'
<1> DEFINE d == SetLocalLeadInInput(cores[p], g, v)
<1>1. cores[p] \in Core /\ cores[p].me = p /\ g \in Nat /\ v \in Input
      /\ stream[p] \in Seq(Input) /\ cores[p].inputs[p] \in Ring
  BY StateFacts, NetConstants DEF AckInv
<1>2. /\ cores' = [cores EXCEPT ![p] = d]
      /\ stream' = [stream EXCEPT ![p][g + 1] = v]
      /\ UNCHANGED <<latest, peaks, exported, wire, failed>>
      /\ latest[p] = 0
  BY DEF Bootstrap
<1>3. Captured(p) = InputDelay /\ g < InputDelay
  BY <1>2, NetConstants DEF NetInv, CapturesCounted
<1>4. /\ d \in Core /\ d.me = p /\ d.last = cores[p].last
      /\ d.confirmed = cores[p].confirmed
      /\ \A q \in Player \ {p} : d.inputs[q] = cores[p].inputs[q]
      /\ d.inputs[p] = Store(cores[p].inputs[p], g, v)
  <2> DEFINE c == cores[p]
  <2>1. c \in Core /\ c.me = p
    BY <1>1
  <2>2. d = SetLocalLeadInInput(c, g, v)
    BY DEF c
  <2> HIDE DEF c
  <2>3. LET e == SetLocalLeadInInput(c, g, v)
        IN  /\ e \in Core /\ e.me = c.me /\ e.last = c.last
            /\ e.confirmed = c.confirmed
            /\ \A q \in Player \ {c.me} : e.inputs[q] = c.inputs[q]
            /\ e.inputs[c.me] = Store(c.inputs[c.me], g, v)
    <3>1. g \in Nat /\ v \in Input
      BY <1>1
    <3> HIDE DEF d
    <3> QED
      BY <2>1, <3>1, LeadInEffect
  <2> HIDE DEF d
  <2> QED
    BY <2>1, <2>2, <2>3 DEF c
<1> HIDE DEF d
<1>5. /\ CoresTypeOK' /\ cores'[p] = d
      /\ \A r \in Player \ {p} : cores'[r] = cores[r]
  <2>1. NetTypeOK
    BY DEF AckInv
  <2> QED
    BY <1>2, <1>4, <2>1, OneCore
<1>6. /\ Captured(p)' = Captured(p) /\ Pressed(p, g)' = v
      /\ \A f \in Nat : f < Captured(p) /\ f # g =>
           Pressed(p, f)' = Pressed(p, f)
  <2>1. stream'[p] = [stream[p] EXCEPT ![g + 1] = v]
    BY <1>2 DEF AckInv, NetTypeOK
  <2> DEFINE s == stream[p]
             t == [s EXCEPT ![g + 1] = v]
  <2>2. s \in Seq(Input) /\ v \in Input /\ g + 1 \in Int /\ Len(s) = InputDelay
    BY <1>1, <1>3 DEF Captured
  <2> HIDE DEF s
  <2>3. /\ Len(t) = Len(s) /\ (g + 1 \in 1 .. Len(s) => t[g + 1] = v)
        /\ \A j \in 1 .. Len(s) : j # g + 1 => t[j] = s[j]
    BY <2>2, ReplaceKeeps
  <2> HIDE DEF t
  <2>4. g + 1 \in 1 .. Len(s)
    BY <1>1, <1>3, <2>2, NetConstants
  <2>5. \A f \in Nat : f < Len(s) /\ f # g => f + 1 \in 1 .. Len(s) /\ f + 1 # g + 1
    BY <1>1, <2>2, NetConstants
  <2>6. stream'[p] = t
    BY <2>1 DEF t, s
  <2> QED
    BY <2>3, <2>4, <2>5, <2>6 DEF s, Captured, Pressed
<1>7. \A q \in Player \ {p} : stream'[q] = stream[q]
  BY <1>2 DEF AckInv, NetTypeOK
<1>8. StreamKept
  <2> SUFFICES ASSUME NEW q \in Player
               PROVE  /\ Captured(q) <= Captured(q)'
                      /\ latest[q] > 0 =>
                           \A f \in Nat : Pressed(q, f)' = Pressed(q, f)
    BY <1>2 DEF StreamKept
  <2>1. Captured(q)' = Captured(q)
    BY <1>6, <1>7 DEF Captured
  <2>2. Captured(q) <= Captured(q)
    BY StateFacts, NotLess DEF AckInv
  <2>3. CASE q = p
    BY <1>2, <2>1, <2>2, <2>3
  <2>4. CASE q # p
    BY <1>7, <2>1, <2>2, <2>4 DEF Pressed
  <2> QED
    BY <2>3, <2>4
<1>9. HonestRing(p, p)'
  <2> SUFFICES ASSUME NEW f \in Nat, Present(d.inputs[p], f)
               PROVE  /\ f < Captured(p)
                      /\ InputAt(d.inputs[p], f) = Pressed(p, f)'
    BY <1>5, <1>6 DEF HonestRing, Known
  <2> DEFINE ring == cores[p].inputs[p]
             new  == Store(ring, g, v)
  <2>1. ring \in Ring
    BY <1>1
  <2>2. d.inputs[p] = new
    BY <1>4
  <2>3. /\ InputAt(new, g) = v
        /\ \A h \in Nat : h # g /\ Present(new, h) =>
             Present(ring, h) /\ InputAt(new, h) = InputAt(ring, h)
    <3> HIDE DEF ring
    <3> QED
      BY <1>1, <2>1, StoreKeeps
  <2> HIDE DEF new
  <2>4. CASE f = g
    BY <1>3, <1>6, <2>2, <2>3, <2>4
  <2>5. CASE f # g
    <3>1. Present(ring, f)
      BY <2>2, <2>3, <2>5
    <3>2. f < Captured(p) /\ InputAt(ring, f) = Pressed(p, f)
      BY <3>1 DEF NetInv, SamplesHonest, HonestRing, ring
    <3> QED
      BY <1>6, <2>2, <2>3, <2>5, <3>2
  <2> QED
    BY <2>4, <2>5
<1>10. ASSUME NEW a \in Player, NEW q \in Player
       PROVE  HonestRing(a, q)' /\ HonestFrontier(a, q)'
  <2>1. HonestRing(a, q)'
    <3>1. CASE a = p /\ q = p
      BY <1>9, <3>1
    <3>2. CASE ~ (a = p /\ q = p)
      <4>1. cores'[a].inputs[q] = cores[a].inputs[q]
        BY <1>4, <1>5, <3>2
      <4>2. a # q \/ stream'[q] = stream[q]
        BY <1>7, <3>2
      <4> QED
        BY <1>8, <4>1, <4>2, RingKept
    <3> QED
      BY <3>1, <3>2
  <2>2. cores'[a].confirmed[q] = cores[a].confirmed[q]
    BY <1>4, <1>5
  <2> QED
    BY <1>8, <2>1, <2>2, FrontierAdvances
<1>11. PacketsHonest'
  BY <1>2, <1>8, PacketsKept
<1>12. CapturesCounted'
  <2>1. \A q \in Player : Captured(q)' = Captured(q)
    BY <1>6, <1>7 DEF Captured
  <2> QED
    BY <1>2, <2>1 DEF NetInv, CapturesCounted
<1>13. PlayedConfirmed'
  <2>1. \A q \in Player : peaks[q] \in Int
    BY DEF AckInv, NetTypeOK, FrameOrNone, None
  <2>2. \A q \in Player : peaks[q] <= peaks'[q]
    BY <1>2, <2>1, NotLess
  <2>3. \A q \in Player : cores'[q].last <= peaks'[q]
    BY <1>2, <1>4, <1>5 DEF NetInv, PlayedConfirmed
  <2> QED
    BY <1>2, <2>2, <2>3, PlayedKept
<1> QED
  BY <1>10, <1>11, <1>12, <1>13 DEF NetInv, SamplesHonest, FrontiersHonest

(* Simulating and rewinding change no sample and no frontier. *)
LEMMA SimulateHonest ==
  ASSUME AckInv, AckInv', ConfirmedGrows, NetInv, NEW p \in Player,
         Simulate(p) \/ Rewind(p)
  PROVE  NetInv'
<1>1. cores[p] \in Core /\ cores[p].me = p /\ NetTypeOK
  BY StateFacts DEF AckInv
<1>2. /\ cores[p].last \in FrameOrNone /\ peaks[p] \in FrameOrNone
      /\ cores[p].last <= peaks[p] /\ \A q \in Player : peaks[q] \in Int
  BY <1>1, StateFacts DEF NetInv, PlayedConfirmed, NetTypeOK, FrameOrNone, None
<1>3. PICK d \in Core :
        /\ d.me = p /\ cores' = [cores EXCEPT ![p] = d]
        /\ d.inputs = cores[p].inputs /\ d.confirmed = cores[p].confirmed
        /\ d.last <= peaks'[p]
        /\ \A q \in Player : peaks[q] <= peaks'[q]
        /\ UNCHANGED <<latest, stream, exported, wire>>
  <2>1. CASE Simulate(p)
    <3> DEFINE f == NextFrame(p)
               d == MarkSimulated(cores[p], f)
               old == peaks[p]
               last == cores[p].last
    <3>1. f = last + 1 /\ f \in Nat
      BY <1>2 DEF NextFrame, FrameOrNone, None
    <3>2. /\ cores' = [cores EXCEPT ![p] = d]
          /\ peaks' = [peaks EXCEPT ![p] = Larger(@, f)]
          /\ UNCHANGED <<latest, stream, exported, wire>>
      BY <2>1 DEF Simulate
    <3> HIDE DEF f
    <3>3. /\ d \in Core /\ d.me = p /\ d.inputs = cores[p].inputs
          /\ d.confirmed = cores[p].confirmed /\ d.last = Larger(last, f)
      BY <1>1, <3>1, MarkSimulatedEffect
    <3> HIDE DEF d
    <3>4. last \in Int /\ old \in Int /\ last <= old
      BY <1>2 DEF FrameOrNone, None
    <3>5. peaks'[p] = Larger(old, f) /\ \A q \in Player \ {p} : peaks'[q] = peaks[q]
      BY <1>1, <3>2 DEF NetTypeOK
    <3>6. old <= Larger(old, f) /\ Larger(last, f) <= Larger(old, f)
      <4> HIDE DEF old, last
      <4> QED
        BY <3>1, <3>4 DEF Larger
    <3>7. \A q \in Player : peaks[q] <= peaks'[q]
      BY <1>2, <3>5, <3>6, NotLess
    <3> QED
      BY <3>2, <3>3, <3>5, <3>6, <3>7
  <2>2. CASE Rewind(p)
    <3> DEFINE first == cores[p].rollback
               d == RewindSimulationTo(cores[p], first)
               old == peaks[p]
               last == cores[p].last
    <3>1. /\ first # None /\ first <= last
          /\ cores' = [cores EXCEPT ![p] = d]
          /\ UNCHANGED <<latest, peaks, stream, exported, wire>>
      BY <2>2 DEF Rewind, CanRewind
    <3>2. first \in Nat
      BY <1>1, <3>1, StateFacts DEF FrameOrNone
    <3> HIDE DEF first
    <3>3. /\ d \in Core /\ d.me = p /\ d.inputs = cores[p].inputs
          /\ d.confirmed = cores[p].confirmed /\ d.last = first - 1
      BY <1>1, <3>2, RewindEffect
    <3> HIDE DEF d
    <3>4. last \in Int /\ old \in Int /\ last <= old
      BY <1>2 DEF FrameOrNone, None
    <3>5. first - 1 <= old
      <4> HIDE DEF old, last
      <4> QED
        BY <3>1, <3>2, <3>4
    <3>6. \A q \in Player : peaks[q] <= peaks'[q]
      BY <1>2, <3>1, NotLess
    <3> QED
      BY <3>1, <3>3, <3>5, <3>6
  <2> QED
    BY <2>1, <2>2
<1>4. /\ cores'[p] = d /\ \A r \in Player \ {p} : cores'[r] = cores[r]
  BY <1>1, <1>3, OneCore
<1>5. \A r \in Player : /\ cores'[r].inputs = cores[r].inputs
                        /\ cores'[r].confirmed = cores[r].confirmed
  BY <1>3, <1>4
<1>6. ASSUME NEW r \in Player
      PROVE  cores'[r].last <= peaks'[r]
  <2>1. CASE r = p
    BY <1>3, <1>4, <2>1
  <2>2. CASE r # p
    <3>1. cores'[r].last = cores[r].last
      BY <1>4, <2>2
    <3> DEFINE last == cores[r].last
               old  == peaks[r]
               new  == peaks'[r]
    <3>2. last \in FrameOrNone /\ old \in FrameOrNone /\ new \in FrameOrNone
      BY <1>1, StateFacts DEF AckInv, NetTypeOK
    <3>3. last <= old /\ old <= new
      BY <1>3 DEF NetInv, PlayedConfirmed
    <3>4. last <= new
      <4> HIDE DEF last, old, new
      <4> QED
        BY <3>2, <3>3 DEF FrameOrNone, None
    <3> QED
      BY <3>1, <3>4
  <2> QED
    BY <2>1, <2>2
<1>7. PlayedConfirmed'
  BY <1>3, <1>6, PlayedKept
<1> QED
  BY <1>3, <1>5, <1>7, RingsUnchanged

(* What is exported was simulated, and everybody's input for it confirmed. *)
LEMMA ExportHonest ==
  ASSUME AckInv, AckInv', NetInv, NEW p \in Readers, Export(p)
  PROVE  NetInv'
<1> DEFINE f == Len(exported[p])
           row == ConfirmedInputs(cores[p], f)
<1>1. p \in Player /\ exported[p] \in Seq([Player -> Input]) /\ f \in Nat
  BY NetConstants DEF AckInv, NetTypeOK
<1>2. /\ exported' = [exported EXCEPT ![p] = Append(@, row)]
      /\ UNCHANGED <<cores, latest, peaks, stream, wire, failed>>
      /\ f <= cores[p].last
      /\ \A q \in Player : cores[p].confirmed[q] >= f
  BY DEF Export, CanExport
<1>3. Len(exported'[p]) = f + 1
  <2> DEFINE s == exported[p]
  <2>1. exported'[p] = Append(s, row)
    BY <1>2 DEF AckInv, NetTypeOK
  <2> HIDE DEF row, s
  <2>2. Len(Append(s, row)) = Len(s) + 1
    BY <1>1 DEF s
  <2> QED
    BY <2>1, <2>2 DEF s
<1>4. \A r \in Readers \ {p} : exported'[r] = exported[r]
  BY <1>2 DEF AckInv, NetTypeOK
<1> HIDE DEF f, row
<1>5. \A r \in Player : cores'[r].last <= peaks'[r]
  BY <1>2 DEF NetInv, PlayedConfirmed
<1>6. ASSUME NEW r \in Readers
      PROVE  /\ Len(exported'[r]) <= peaks'[r] + 1
             /\ \A q \in Player : Len(exported'[r]) <= cores'[r].confirmed[q] + 1
  <2>1. CASE r = p
    <3>1. cores[p].last \in Int /\ peaks[p] \in Int
      BY <1>1, StateFacts DEF AckInv, FrameOrNone, None
    <3>2. cores[p].last <= peaks[p]
      BY <1>1 DEF NetInv, PlayedConfirmed
    <3>3. f + 1 <= peaks[p] + 1
      BY <1>1, <1>2, <3>1, <3>2
    <3>4. ASSUME NEW q \in Player
          PROVE  f + 1 <= cores[p].confirmed[q] + 1
      <4>1. cores[p].confirmed[q] \in Int
        BY <1>1, StateFacts DEF AckInv
      <4> QED
        BY <1>1, <1>2, <4>1
    <3> QED
      BY <1>2, <1>3, <2>1, <3>3, <3>4
  <2>2. CASE r # p
    BY <1>2, <1>4, <2>2 DEF NetInv, PlayedConfirmed
  <2> QED
    BY <2>1, <2>2
<1>7. PlayedConfirmed'
  BY <1>5, <1>6 DEF PlayedConfirmed
<1> QED
  BY <1>2, <1>7, RingsUnchanged

(* Packets that move, and nothing else. *)
LEMMA WireHonest ==
  ASSUME AckInv, AckInv', ConfirmedGrows, NetInv,
         UNCHANGED <<cores, latest, peaks, stream, exported>>,
         \A p, q \in Player : \A pkt \in wire'[p][q] :
           pkt \in wire[p][q] \/ HonestPacket(p, pkt)
  PROVE  NetInv'
<1>1. PlayedConfirmed'
  BY DEF NetInv, PlayedConfirmed
<1>2. \A p, q \in Player : \A pkt \in wire'[p][q] :
        pkt \in wire[p][q] \/ HonestPacket(p, pkt)'
  BY DEF HonestPacket, Captured, Pressed
<1> QED
  BY <1>1, <1>2, RingsUnchanged

LEMMA SendHonest ==
  ASSUME AckInv, AckInv', ConfirmedGrows, NetInv,
         NEW p \in Player, NEW q \in Player, Send(p, q)
  PROVE  NetInv'
<1> DEFINE top == LocalFrameForCapture(latest[p] - 1)
           pkt == BuildInputPacket(cores[p], q, top)
           S   == wire[p][q] \cup {pkt}
<1>1. cores[p] \in Core /\ cores[p].me = p /\ top \in Int
  BY StateFacts, NetConstants DEF AckInv, LocalFrameForCapture
<1>2. /\ wire' = [wire EXCEPT ![p][q] = S] /\ latest[p] > 0
      /\ UNCHANGED <<cores, latest, peaks, stream, exported, failed>>
  BY DEF Send
<1> HIDE DEF top
<1>3. /\ pkt \in Packet
      /\ \A f \in PacketFrames(pkt) :
           /\ f \in Nat /\ Present(cores[p].inputs[p], f)
           /\ Sample(pkt, f) = InputAt(cores[p].inputs[p], f)
  BY <1>1, BuiltPacket
<1> HIDE DEF pkt
<1>4. HonestPacket(p, pkt)
  BY <1>2, <1>3 DEF HonestPacket, NetInv, SamplesHonest, HonestRing
<1>5. S \in SUBSET Packet
  BY <1>3, StateFacts DEF AckInv
<1>6. \A a, b \in Player : \/ wire'[a][b] = wire[a][b]
                           \/ a = p /\ b = q /\ wire'[a][b] = S
  <2> HIDE DEF S
  <2> QED
    BY <1>2, <1>5, OneLink DEF AckInv
<1>7. ASSUME NEW a \in Player, NEW b \in Player, NEW x \in wire'[a][b]
      PROVE  x \in wire[a][b] \/ HonestPacket(a, x)
  BY <1>4, <1>6
<1> QED
  BY <1>2, <1>7, WireHonest

LEMMA LoseHonest ==
  ASSUME AckInv, AckInv', ConfirmedGrows, NetInv,
         NEW p \in Player, NEW q \in Player, Lose(p, q)
  PROVE  NetInv'
<1>1. PICK pkt \in wire[p][q] :
        /\ wire' = [wire EXCEPT ![p][q] = @ \ {pkt}]
        /\ UNCHANGED <<cores, latest, peaks, stream, exported, failed>>
  BY DEF Lose
<1> DEFINE S == wire[p][q] \ {pkt}
<1>2. S \in SUBSET Packet /\ wire' = [wire EXCEPT ![p][q] = S]
  BY <1>1, StateFacts DEF AckInv
<1>3. \A a, b \in Player : \/ wire'[a][b] = wire[a][b]
                           \/ a = p /\ b = q /\ wire'[a][b] = S
  <2> HIDE DEF S
  <2> QED
    BY <1>2, OneLink DEF AckInv
<1>4. \A a, b \in Player : wire'[a][b] \subseteq wire[a][b]
  BY <1>3
<1> QED
  BY <1>1, <1>4, WireHonest

(* The samples of a packet of p are stored at q as p pressed them. *)
LEMMA AcceptHonest ==
  ASSUME AckInv, AckInv', ConfirmedGrows, NetInv,
         NEW p \in Player, NEW q \in Player, p # q,
         NEW pkt \in wire[p][q], Accept(q, pkt),
         \A a, b \in Player : wire'[a][b] \subseteq wire[a][b]
  PROVE  NetInv'
<1>1. UNCHANGED <<latest, peaks, stream, exported>>
  BY AcceptEffect
<1>2. StreamKept
  BY <1>1, StreamUnchanged
<1>3. CASE UNCHANGED cores
  BY <1>1, <1>3, WireHonest
<1>4. CASE ~ UNCHANGED cores
  <2> DEFINE c == cores[q]
             fresh == FreshFrames(c, pkt)
             ring == c.inputs[p]
             all == StoreAll(ring, fresh, pkt)
             n == Advanced(all, c.confirmed[p])
  <2>1. PICK d \in Core :
          /\ cores' = [cores EXCEPT ![q] = d]
          /\ d.me = q /\ d.last = c.last
          /\ \A r \in Player \ {p} : /\ d.inputs[r] = c.inputs[r]
                                     /\ d.confirmed[r] = c.confirmed[r]
          /\ d.inputs[p] = all /\ d.confirmed[p] = n
    BY <1>4, AcceptEffect
  <2>2. /\ cores'[q] = d
        /\ \A r \in Player \ {q} : cores'[r] = cores[r]
    <3>1. NetTypeOK /\ cores' = [cores EXCEPT ![q] = d]
      BY <2>1 DEF AckInv
    <3> QED
      BY <2>1, <3>1, OneCore, ZenonT(30)
  <2>3. ring \in Ring /\ c.confirmed[p] \in FrameOrNone /\ pkt \in Packet
    BY StateFacts DEF AckInv
  <2>4. HonestPacket(p, pkt)
    BY DEF NetInv, PacketsHonest
  <2>5. /\ fresh \subseteq Nat /\ fresh \subseteq PacketFrames(pkt)
        /\ \A f \in fresh : Sample(pkt, f) \in Input
    BY <2>3, PacketFacts DEF FreshFrames
  <2>6. \A f \in Nat : Present(all, f) =>
          \/ f \in fresh /\ InputAt(all, f) = Sample(pkt, f)
          \/ Present(ring, f) /\ InputAt(all, f) = InputAt(ring, f)
    <3> HIDE DEF ring, fresh
    <3> QED
      BY <2>3, <2>5, StoreAllKeeps
  <2>7. n = c.confirmed[p] \/ (n \in Nat /\ Present(all, n))
    <3> HIDE DEF all
    <3> QED
      BY <2>3, AdvancedPresent
  <2>8. ASSUME NEW f \in Nat, Present(all, f)
        PROVE  f < Captured(p) /\ InputAt(all, f) = Pressed(p, f)
    <3>1. CASE f \in fresh /\ InputAt(all, f) = Sample(pkt, f)
      BY <2>4, <2>5, <3>1 DEF HonestPacket
    <3>2. CASE Present(ring, f) /\ InputAt(all, f) = InputAt(ring, f)
      BY <3>2 DEF NetInv, SamplesHonest, HonestRing
    <3> QED
      BY <2>6, <2>8, <3>1, <3>2
  <2> HIDE DEF all, n, fresh
  <2>9. HonestRing(q, p)'
    <3> SUFFICES ASSUME NEW f \in Nat, Present(all, f)
                 PROVE  /\ f < Captured(p)' /\ Known(q, p)'
                        /\ InputAt(all, f) = Pressed(p, f)'
      BY <2>1, <2>2 DEF HonestRing
    <3>1. Known(q, p)'
      BY <1>1, <2>4 DEF Known, HonestPacket
    <3>2. f < Captured(p) /\ InputAt(all, f) = Pressed(p, f)
      BY <2>8
    <3> QED
      BY <1>1, <3>1, <3>2 DEF Captured, Pressed
  <2>10. ASSUME NEW a \in Player, NEW b \in Player
         PROVE  HonestRing(a, b)' /\ HonestFrontier(a, b)'
    <3>1. CASE a = q /\ b = p
      <4>1. cores'[q].confirmed[p] = n /\ cores'[q].inputs[p] = all
        BY <2>1, <2>2
      <4> QED
        BY <1>2, <2>7, <2>9, <3>1, <4>1, FrontierAdvances
    <3>2. CASE ~ (a = q /\ b = p)
      <4>1. /\ cores'[a].inputs[b] = cores[a].inputs[b]
            /\ cores'[a].confirmed[b] = cores[a].confirmed[b]
        BY <2>1, <2>2, <3>2
      <4> QED
        BY <1>1, <1>2, <4>1, RingKept, FrontierAdvances
    <3> QED
      BY <3>1, <3>2
  <2>11. PacketsHonest'
    BY <1>2, PacketsKept
  <2>12. CapturesCounted'
    BY <1>1 DEF NetInv, CapturesCounted, Captured
  <2>13. PlayedConfirmed'
    <3>1. \A r \in Player : peaks[r] \in Int
      BY DEF AckInv, NetTypeOK, FrameOrNone, None
    <3>2. \A r \in Player : peaks[r] <= peaks'[r]
      BY <1>1, <3>1, NotLess
    <3>3. \A r \in Player : cores'[r].last <= peaks'[r]
      BY <1>1, <2>1, <2>2 DEF NetInv, PlayedConfirmed
    <3> QED
      BY <1>1, <3>2, <3>3, PlayedKept
  <2> QED
    BY <2>10, <2>11, <2>12, <2>13 DEF NetInv, SamplesHonest, FrontiersHonest
<1> QED
  BY <1>3, <1>4

LEMMA ReceiveHonest ==
  ASSUME AckInv, AckInv', ConfirmedGrows, NetInv,
         NEW p \in Player, NEW q \in Player, p # q,
         Receive(p, q) \/ ReceiveCopy(p, q)
  PROVE  NetInv'
<1>1. PICK pkt \in wire[p][q] :
        /\ Accept(q, pkt)
        /\ wire' = [wire EXCEPT ![p][q] = @ \ {pkt}] \/ UNCHANGED wire
  BY DEF Receive, ReceiveCopy
<1> DEFINE S == wire[p][q] \ {pkt}
<1>2. S \in SUBSET Packet
  BY StateFacts DEF AckInv
<1>3. ASSUME wire' = [wire EXCEPT ![p][q] = S]
      PROVE  \A a, b \in Player : \/ wire'[a][b] = wire[a][b]
                                  \/ a = p /\ b = q /\ wire'[a][b] = S
  <2> HIDE DEF S
  <2> QED
    BY <1>2, <1>3, OneLink DEF AckInv
<1>4. \A a, b \in Player : wire'[a][b] \subseteq wire[a][b]
  BY <1>1, <1>3
<1> QED
  BY <1>1, <1>4, AcceptHonest

LEMMA InitHonest ==
  ASSUME Init
  PROVE  NetInv
<1>1. \A p \in Player : /\ cores[p] = ResetCore(p)
                        /\ latest[p] = 0 /\ peaks[p] = None
                        /\ stream[p] = [i \in 1 .. InputDelay |-> Neutral]
  BY DEF Init
<1>2. \A p \in Player : Captured(p) = InputDelay
  <2>1. Len([i \in 1 .. InputDelay |-> Neutral]) = InputDelay
    BY NetConstants
  <2> QED
    BY <1>1, <2>1 DEF Captured
<1>3. ASSUME NEW p \in Player, NEW q \in Player
      PROVE  HonestRing(p, q) /\ HonestFrontier(p, q)
  <2>1. \A f \in Nat : Present(cores[p].inputs[q], f) =>
          /\ q = p /\ f < InputDelay
          /\ InputAt(cores[p].inputs[q], f) = Neutral
    BY <1>1, ResetCoreType
  <2>2. \A f \in Nat : f < InputDelay => Pressed(q, f) = Neutral
    <3>1. \A f \in Nat : f < InputDelay => f + 1 \in 1 .. InputDelay
      BY NetConstants
    <3> QED
      BY <1>1, <3>1 DEF Pressed
  <2>3. HonestRing(p, q)
    BY <1>2, <2>1, <2>2 DEF HonestRing, Known
  <2>4. cores[p].confirmed[q] = IF q = p THEN InputDelay - 1 ELSE None
    BY <1>1, ResetFields
  <2>5. None < InputDelay /\ InputDelay - 1 < InputDelay
    BY NetConstants DEF None
  <2>6. HonestFrontier(p, q)
    BY <1>2, <2>4, <2>5 DEF HonestFrontier, Known
  <2> QED
    BY <2>3, <2>6
<1>4. PacketsHonest
  BY DEF Init, PacketsHonest
<1>5. CapturesCounted
  <2>1. InputDelay = 0 + InputDelay
    BY NetConstants
  <2> QED
    BY <1>1, <1>2, <2>1 DEF CapturesCounted
<1>6. PlayedConfirmed
  <2>1. \A p \in Player : cores[p].last = None
    <3>1. \A p \in Player : ResetCore(p).last = None
      BY ResetFields
    <3> QED
      BY <1>1, <3>1
  <2>2. \A p \in Readers : Len(exported[p]) = 0
    BY DEF Init
  <2>3. \A p, q \in Player : cores[p].confirmed[q] \in {InputDelay - 1, None}
    BY <1>1, ResetFields
  <2>4. /\ None <= None /\ 0 <= None + 1 /\ 0 <= (InputDelay - 1) + 1
        /\ Readers \subseteq Player
    BY NetConstants DEF None
  <2>5. ASSUME NEW p \in Readers, NEW q \in Player
        PROVE  Len(exported[p]) <= cores[p].confirmed[q] + 1
    BY <2>2, <2>3, <2>4
  <2> QED
    BY <1>1, <2>1, <2>2, <2>4, <2>5 DEF PlayedConfirmed
<1> QED
  BY <1>3, <1>4, <1>5, <1>6 DEF NetInv, SamplesHonest, FrontiersHonest

LEMMA NextHonest ==
  ASSUME BootstrapEarly, AckInv, AckInv', ConfirmedGrows, NetInv, [Next]_vars
  PROVE  NetInv'
<1>1. ASSUME NEW p \in Player, NEW v \in Pressable[p], Capture(p, v)
      PROVE  NetInv'
  BY <1>1, CaptureHonest
<1>2. ASSUME NEW p \in Player, NEW f \in 0 .. InputDelay - 1,
             NEW v \in Pressable[p], Bootstrap(p, f, v)
      PROVE  NetInv'
  BY <1>2, BootstrapHonest
<1>3. ASSUME NEW p \in Player, Simulate(p) \/ Rewind(p)
      PROVE  NetInv'
  BY <1>3, SimulateHonest
<1>4. ASSUME NEW p \in Readers, Export(p)
      PROVE  NetInv'
  BY <1>4, ExportHonest
<1>5. ASSUME NEW l \in Links, Send(l[1], l[2])
      PROVE  NetInv'
  BY <1>5, SendHonest DEF Links
<1>6. ASSUME NEW l \in Links,
             Receive(l[1], l[2]) \/ ReceiveCopy(l[1], l[2])
      PROVE  NetInv'
  BY <1>6, ReceiveHonest DEF Links
<1>7. ASSUME NEW l \in Links, Lose(l[1], l[2])
      PROVE  NetInv'
  BY <1>7, LoseHonest DEF Links
<1>8. CASE UNCHANGED vars
  BY <1>8, WireHonest DEF vars
<1> QED
  BY <1>1, <1>2, <1>3, <1>4, <1>5, <1>6, <1>7, <1>8 DEF Next

(* Every sample in a ring, on the wire or under a frontier is what its     *)
(* player pressed, whatever was lost, repeated or reordered (SendInputs,   *)
(* Receive, ApplyInputPacket, ScheduleLocalInput, SetLocalLeadInInput).    *)
THEOREM SamplesTravelUnchanged ==
  ASSUME BootstrapEarly
  PROVE  Spec => [](AckInv /\ NetInv)
<1>1. Init => AckInv /\ NetInv
  BY InitAcks, InitHonest
<1>2. AckInv /\ NetInv /\ [Next]_vars => AckInv' /\ NetInv'
  BY BootstrapEarly, NextKeepsAcks, NextHonest
<1> QED
  BY <1>1, <1>2, PTL DEF Spec

---------------------------------------------------------------------------
(* A session is a Lockstep run. *)

LEMMA InitLockstep ==
  ASSUME Init
  PROVE  Session!LockstepInit
<1>1. [i \in 1 .. InputDelay |-> Neutral] \in Seq(Input)
  BY NetConstants
<1> QED
  BY <1>1 DEF Init, Session!LockstepInit

(* A startup frame that may be replaced was played by nobody: the player   *)
(* has simulated nothing, and the others have confirmed nothing of it.     *)
LEMMA AmendIsEarly ==
  ASSUME AckInv, NetInv, NEW p \in Player, latest[p] = 0, peaks[p] = None,
         NEW r \in Readers
  PROVE  Len(exported[r]) = 0
<1>1. r \in Player /\ exported[r] \in Seq([Player -> Input])
  BY NetConstants DEF AckInv, NetTypeOK
<1>2. Len(exported[r]) \in Nat
  BY <1>1
<1>3. CASE r = p
  <2>1. Len(exported[r]) <= None + 1
    BY <1>3 DEF NetInv, PlayedConfirmed
  <2> QED
    BY <1>2, <2>1 DEF None
<1>4. CASE r # p
  <2>1. cores[r].confirmed[p] = None
    <3>1. ~ Known(r, p)
      BY <1>4 DEF Known
    <3> QED
      BY <1>1, <3>1 DEF NetInv, FrontiersHonest, HonestFrontier
  <2>2. Len(exported[r]) <= None + 1
    BY <2>1 DEF NetInv, PlayedConfirmed
  <2> QED
    BY <1>2, <2>2 DEF None
<1> QED
  BY <1>3, <1>4

LEMMA NextLockstep ==
  ASSUME BootstrapEarly, AckInv, NetInv, [Next]_vars
  PROVE  [Session!LockstepNext]_(Session!lockstepVars)
<1>1. ASSUME NEW p \in Player, NEW v \in Pressable[p], Capture(p, v)
      PROVE  Session!LockstepNext
  <2>1. v \in Input
    BY NetConstants
  <2>2. Session!Press(p, v)
    BY <1>1 DEF Capture, Session!Press
  <2> QED
    BY <2>1, <2>2 DEF Session!LockstepNext
<1>2. ASSUME NEW p \in Player, NEW f \in 0 .. InputDelay - 1,
             NEW v \in Pressable[p], Bootstrap(p, f, v)
      PROVE  Session!LockstepNext
  <2>1. v \in Input /\ f \in Nat
    BY NetConstants
  <2>2. latest[p] = 0 /\ peaks[p] = None
    BY <1>2 DEF Bootstrap
  <2>3. Len(stream[p]) = InputDelay /\ f < Len(stream[p])
    BY <2>2, NetConstants DEF NetInv, CapturesCounted, Captured
  <2>4. \A r \in Readers : Len(exported[r]) <= f
    BY <2>1, <2>2, AmendIsEarly
  <2>5. Session!Amend(p, f, v)
    BY <1>2, <2>3, <2>4 DEF Bootstrap, Session!Amend
  <2>6. f \in 0 .. Len(stream[p]) - 1
    BY <2>3
  <2> QED
    BY <2>1, <2>5, <2>6 DEF Session!LockstepNext
<1>3. ASSUME NEW p \in Readers, Export(p)
      PROVE  Session!LockstepNext
  <2> DEFINE f == Len(exported[p])
  <2>1. p \in Player /\ f \in Nat
    BY NetConstants DEF AckInv, NetTypeOK
  <2>2. /\ exported' = [exported EXCEPT ![p] =
                          Append(@, ConfirmedInputs(cores[p], f))]
        /\ stream' = stream
        /\ \A q \in Player : Present(cores[p].inputs[q], f)
    BY <1>3 DEF Export, CanExport
  <2>3. \A q \in Player : /\ f < Len(stream[q])
                          /\ InputAt(cores[p].inputs[q], f) = stream[q][f + 1]
    BY <2>1, <2>2 DEF NetInv, SamplesHonest, HonestRing, Captured, Pressed
  <2>4. ConfirmedInputs(cores[p], f) = [q \in Player |-> stream[q][f + 1]]
    BY <2>3 DEF ConfirmedInputs
  <2>5. Session!Play(p)
    BY <2>2, <2>3, <2>4 DEF Session!Play
  <2> QED
    BY <2>5 DEF Session!LockstepNext
<1>4. ASSUME NEW p \in Player, Simulate(p) \/ Rewind(p)
      PROVE  UNCHANGED Session!lockstepVars
  BY <1>4 DEF Simulate, Rewind, Session!lockstepVars
<1>5. ASSUME NEW l \in Links,
             \/ Send(l[1], l[2]) \/ Receive(l[1], l[2])
             \/ ReceiveCopy(l[1], l[2]) \/ Lose(l[1], l[2])
      PROVE  UNCHANGED Session!lockstepVars
  BY <1>5 DEF Send, Receive, ReceiveCopy, Accept, Lose, Session!lockstepVars
<1>6. CASE UNCHANGED vars
  BY <1>6 DEF vars, Session!lockstepVars
<1> QED
  BY <1>1, <1>2, <1>3, <1>4, <1>5, <1>6 DEF Next

(* A session of any number of players plays, at every peer, every frame    *)
(* with the inputs all players pressed for it, whatever the network loses, *)
(* repeats or reorders: prediction, rollback and the input packets         *)
(* implement Lockstep.                                                     *)
THEOREM SessionImplementsLockstep ==
  ASSUME BootstrapEarly
  PROVE  Spec => ImplementsLockstep
<1>1. Init => Session!LockstepInit
  BY InitLockstep
<1>2. AckInv /\ NetInv /\ [Next]_vars
        => [Session!LockstepNext]_(Session!lockstepVars)
  BY BootstrapEarly, NextLockstep
<1> QED
  BY <1>1, <1>2, BootstrapEarly, SamplesTravelUnchanged, PTL
     DEF Spec, ImplementsLockstep, Session!LockstepSpec

---------------------------------------------------------------------------
(* The environment of one peer. *)

(* Nobody simulates more than MaxRollback frames ahead of an input it      *)
(* waits for; captures stop at the bound; packets are short windows.       *)
WithinBudget ==
  \A p, q \in Player :
    p # q => cores[p].last <= cores[p].confirmed[q] + MaxRollback

CapturesBounded == \A q \in Player : latest[q] > 0 => Captured(q) <= MaxFrame

ShortPacket(pkt) ==
  /\ Len(pkt.inputs) <= MaxRedundant
  /\ pkt.inputs = << >> => pkt.first = None

PacketsShort == \A p, q \in Player : \A pkt \in wire[p][q] : ShortPacket(pkt)

BoundsInv == WithinBudget /\ CapturesBounded /\ PacketsShort

LEMMA InitBounds ==
  ASSUME Init
  PROVE  BoundsInv
<1>1. \A p \in Player : cores[p] = ResetCore(p)
  BY DEF Init
<1>2. WithinBudget
  <2> SUFFICES ASSUME NEW p \in Player, NEW q \in Player, p # q
               PROVE  cores[p].last <= cores[p].confirmed[q] + MaxRollback
    BY DEF WithinBudget
  <2>1. cores[p].last = None /\ cores[p].confirmed[q] = None
    BY <1>1, ResetFields
  <2> QED
    BY <2>1, NetConstants DEF None
<1>3. CapturesBounded
  BY DEF Init, CapturesBounded
<1>4. PacketsShort
  BY DEF Init, PacketsShort
<1> QED
  BY <1>2, <1>3, <1>4 DEF BoundsInv

(* A step after which no peer has simulated more. *)
LEMMA BudgetKept ==
  ASSUME AckInv, AckInv', ConfirmedGrows, WithinBudget,
         \A p \in Player : cores'[p].last <= cores[p].last
  PROVE  WithinBudget'
<1> SUFFICES ASSUME NEW p \in Player, NEW q \in Player, p # q
             PROVE  cores'[p].last <= cores'[p].confirmed[q] + MaxRollback
  BY DEF WithinBudget
<1> DEFINE a == cores[p].last
           b == cores'[p].last
           x == cores[p].confirmed[q]
           y == cores'[p].confirmed[q]
<1>1. a <= x + MaxRollback /\ b <= a /\ x <= y
  BY DEF WithinBudget, ConfirmedGrows
<1>2. a \in Int /\ b \in Int /\ x \in Int /\ y \in Int
  BY DEF AckInv, NetTypeOK, CoresTypeOK, Core, FrameOrNone, None
<1> HIDE DEF a, b, x, y
<1>3. b <= y + MaxRollback
  BY <1>1, <1>2, NetConstants
<1> QED
  BY <1>3 DEF b, y

(* A step that captures nothing and sends nothing. *)
LEMMA BoundsKept ==
  ASSUME AckInv, AckInv', ConfirmedGrows, BoundsInv,
         UNCHANGED <<latest, stream>>,
         \A p \in Player : cores'[p].last <= cores[p].last,
         \A p, q \in Player : wire'[p][q] \subseteq wire[p][q]
  PROVE  BoundsInv'
<1>1. WithinBudget'
  BY BudgetKept DEF BoundsInv
<1>2. CapturesBounded'
  BY DEF BoundsInv, CapturesBounded, Captured
<1>3. PacketsShort'
  BY DEF BoundsInv, PacketsShort
<1> QED
  BY <1>1, <1>2, <1>3 DEF BoundsInv

LEMMA LastKept ==
  ASSUME AckInv, NEW p \in Player, NEW d \in Core, d.me = p,
         d.last <= cores[p].last, cores' = [cores EXCEPT ![p] = d]
  PROVE  \A r \in Player : cores'[r].last <= cores[r].last
<1>1. \A r \in Player : cores[r].last \in Int
  BY DEF AckInv, NetTypeOK, CoresTypeOK, Core, FrameOrNone, None
<1>2. cores'[p] = d /\ \A r \in Player \ {p} : cores'[r] = cores[r]
  BY OneCore DEF AckInv
<1> QED
  BY <1>1, <1>2, NotLess

LEMMA CaptureBounds ==
  ASSUME AckInv, AckInv', ConfirmedGrows, NetInv, BoundsInv,
         NEW p \in Player, NEW v \in Pressable[p], Capture(p, v)
  PROVE  BoundsInv'
<1> DEFINE k == latest[p]
           d == ScheduleLocalInput(cores[p], k, v)
<1>1. cores[p] \in Core /\ cores[p].me = p /\ k \in Nat /\ v \in Input
      /\ stream[p] \in Seq(Input) /\ cores[p].last \in Int
  BY StateFacts, NetConstants DEF AckInv, FrameOrNone, None
<1>2. /\ cores' = [cores EXCEPT ![p] = d] /\ Captured(p) < MaxFrame
      /\ stream' = [stream EXCEPT ![p] = Append(@, v)]
      /\ latest' = [latest EXCEPT ![p] = @ + 1]
      /\ UNCHANGED <<peaks, exported, wire, failed>>
  BY DEF Capture
<1>3. d \in Core /\ d.me = p /\ d.last = cores[p].last
  <2> HIDE DEF k
  <2> QED
    BY <1>1, ScheduleEffect
<1> HIDE DEF d
<1>4. \A r \in Player : cores'[r].last <= cores[r].last
  BY <1>1, <1>2, <1>3, LastKept, NotLess
<1>5. WithinBudget'
  BY <1>4, BudgetKept DEF BoundsInv
<1>6. CapturesBounded'
  <2> SUFFICES ASSUME NEW q \in Player, latest'[q] > 0
               PROVE  Captured(q)' <= MaxFrame
    BY DEF CapturesBounded
  <2>1. CASE q = p
    <3>1. stream'[p] = Append(stream[p], v)
      BY <1>2 DEF AckInv, NetTypeOK
    <3>2. Len(stream'[p]) = Len(stream[p]) + 1
      BY <1>1, <3>1
    <3> QED
      BY <1>1, <1>2, <2>1, <3>2, NetAssumption DEF Captured
  <2>2. CASE q # p
    <3>1. stream'[q] = stream[q] /\ latest'[q] = latest[q]
      BY <1>2, <2>2 DEF AckInv, NetTypeOK
    <3> QED
      BY <3>1 DEF BoundsInv, CapturesBounded, Captured
  <2> QED
    BY <2>1, <2>2
<1>7. PacketsShort'
  BY <1>2 DEF BoundsInv, PacketsShort
<1> QED
  BY <1>5, <1>6, <1>7 DEF BoundsInv

LEMMA BootstrapBounds ==
  ASSUME AckInv, AckInv', ConfirmedGrows, NetInv, BoundsInv,
         NEW p \in Player, NEW f \in 0 .. InputDelay - 1,
         NEW v \in Pressable[p], Bootstrap(p, f, v)
  PROVE  BoundsInv'
<1> DEFINE d == SetLocalLeadInInput(cores[p], f, v)
<1>1. cores[p] \in Core /\ cores[p].me = p /\ f \in Nat /\ v \in Input
      /\ stream[p] \in Seq(Input) /\ cores[p].last \in Int
  BY StateFacts, NetConstants DEF AckInv, FrameOrNone, None
<1>2. /\ cores' = [cores EXCEPT ![p] = d]
      /\ stream' = [stream EXCEPT ![p][f + 1] = v]
      /\ UNCHANGED <<latest, peaks, exported, wire, failed>>
  BY DEF Bootstrap
<1>3. d \in Core /\ d.me = p /\ d.last = cores[p].last
  BY <1>1, LeadInEffect
<1> HIDE DEF d
<1>4. \A r \in Player : cores'[r].last <= cores[r].last
  BY <1>1, <1>2, <1>3, LastKept, NotLess
<1>5. WithinBudget'
  BY <1>4, BudgetKept DEF BoundsInv
<1>6. ASSUME NEW q \in Player PROVE Captured(q)' = Captured(q)
  <2> DEFINE s == stream[p]
  <2>1. /\ stream'[p] = [s EXCEPT ![f + 1] = v]
        /\ \A r \in Player \ {p} : stream'[r] = stream[r]
    BY <1>2 DEF AckInv, NetTypeOK
  <2>2. s \in Seq(Input) /\ f + 1 \in Int
    BY <1>1
  <2> HIDE DEF s
  <2>3. Len([s EXCEPT ![f + 1] = v]) = Len(s)
    BY <1>1, <2>2, ReplaceKeeps
  <2> QED
    BY <2>1, <2>3 DEF Captured, s
<1>7. CapturesBounded'
  BY <1>2, <1>6 DEF BoundsInv, CapturesBounded
<1>8. PacketsShort'
  BY <1>2 DEF BoundsInv, PacketsShort
<1> QED
  BY <1>5, <1>7, <1>8 DEF BoundsInv

LEMMA SimulateBounds ==
  ASSUME AckInv, AckInv', ConfirmedGrows, BoundsInv,
         NEW p \in Player, Simulate(p)
  PROVE  BoundsInv'
<1> DEFINE f == NextFrame(p)
           d == MarkSimulated(cores[p], f)
           last == cores[p].last
<1>1. cores[p] \in Core /\ cores[p].me = p /\ f \in Nat /\ last \in Int
      /\ f = last + 1
  BY StateFacts DEF AckInv, NextFrame, FrameOrNone, None
<1>2. /\ cores' = [cores EXCEPT ![p] = d] /\ CanAdvance(cores[p], f)
      /\ UNCHANGED <<latest, stream, exported, wire, failed>>
  BY DEF Simulate
<1> HIDE DEF f
<1>3. /\ d \in Core /\ d.me = p /\ d.last = Larger(last, f)
      /\ d.confirmed = cores[p].confirmed
  BY <1>1, MarkSimulatedEffect
<1>4. \A q \in Player : q # p => f - cores[p].confirmed[q] <= MaxRollback
  BY <1>1, <1>2 DEF CanAdvance
<1> HIDE DEF d, last
<1>5. cores'[p] = d /\ \A r \in Player \ {p} : cores'[r] = cores[r]
  BY <1>2, <1>3, OneCore DEF AckInv
<1>6. WithinBudget'
  <2> SUFFICES ASSUME NEW a \in Player, NEW q \in Player, a # q
               PROVE  cores'[a].last <= cores'[a].confirmed[q] + MaxRollback
    BY DEF WithinBudget
  <2>1. CASE a = p
    <3> DEFINE x == cores[p].confirmed[q]
    <3>1. x \in Int /\ f - x <= MaxRollback
      BY <1>4, <2>1, StateFacts DEF AckInv
    <3> HIDE DEF x
    <3>2. Larger(last, f) <= x + MaxRollback
      BY <1>1, <3>1, NetConstants DEF Larger
    <3> QED
      BY <1>3, <1>5, <2>1, <3>2 DEF x
  <2>2. CASE a # p
    BY <1>5, <2>2 DEF BoundsInv, WithinBudget
  <2> QED
    BY <2>1, <2>2
<1>7. CapturesBounded'
  BY <1>2 DEF BoundsInv, CapturesBounded, Captured
<1>8. PacketsShort'
  BY <1>2 DEF BoundsInv, PacketsShort
<1> QED
  BY <1>6, <1>7, <1>8 DEF BoundsInv

LEMMA RewindBounds ==
  ASSUME AckInv, AckInv', ConfirmedGrows, BoundsInv,
         NEW p \in Player, Rewind(p)
  PROVE  BoundsInv'
<1> DEFINE first == cores[p].rollback
           d == RewindSimulationTo(cores[p], first)
           last == cores[p].last
<1>1. cores[p] \in Core /\ cores[p].me = p /\ last \in FrameOrNone
      /\ first \in FrameOrNone
  BY StateFacts DEF AckInv
<1>2. /\ first # None /\ first <= last
      /\ cores' = [cores EXCEPT ![p] = d]
      /\ UNCHANGED <<latest, peaks, stream, exported, wire, failed>>
  BY DEF Rewind, CanRewind
<1>3. first \in Nat
  BY <1>1, <1>2 DEF FrameOrNone
<1> HIDE DEF first
<1>4. d \in Core /\ d.me = p /\ d.last = first - 1
  BY <1>1, <1>3, RewindEffect
<1> HIDE DEF d, last
<1>5. d.last <= last
  BY <1>1, <1>2, <1>3, <1>4 DEF FrameOrNone, None
<1>6. \A r \in Player : cores'[r].last <= cores[r].last
  BY <1>2, <1>4, <1>5, LastKept DEF last
<1>7. \A a, b \in Player : wire'[a][b] \subseteq wire[a][b]
  BY <1>2
<1> QED
  BY <1>2, <1>6, <1>7, BoundsKept

LEMMA SendBounds ==
  ASSUME AckInv, AckInv', ConfirmedGrows, BoundsInv,
         NEW p \in Player, NEW q \in Player, Send(p, q)
  PROVE  BoundsInv'
<1> DEFINE top == LocalFrameForCapture(latest[p] - 1)
           pkt == BuildInputPacket(cores[p], q, top)
           S   == wire[p][q] \cup {pkt}
<1>1. cores[p] \in Core /\ top \in Int /\ wire[p][q] \subseteq Packet
      /\ \A r \in Player : cores[r].last \in Int
  BY StateFacts, NetConstants DEF AckInv, LocalFrameForCapture, FrameOrNone, None
<1>2. /\ wire' = [wire EXCEPT ![p][q] = S]
      /\ UNCHANGED <<cores, latest, peaks, stream, exported, failed>>
  BY DEF Send
<1> HIDE DEF top
<1>3. pkt \in Packet /\ ShortPacket(pkt)
  BY <1>1, BuiltPacket DEF ShortPacket
<1> HIDE DEF pkt
<1>4. S \in SUBSET Packet
  BY <1>1, <1>3
<1>5. \A a, b \in Player :
        \/ wire'[a][b] = wire[a][b]
        \/ a = p /\ b = q /\ wire'[a][b] = S
  <2> HIDE DEF S
  <2> QED
    BY <1>2, <1>4, OneLink DEF AckInv
<1>6. PacketsShort'
  BY <1>3, <1>5 DEF BoundsInv, PacketsShort, ShortPacket
<1>7. WithinBudget'
  BY <1>1, <1>2, NotLess, BudgetKept DEF BoundsInv
<1>8. CapturesBounded'
  BY <1>2 DEF BoundsInv, CapturesBounded, Captured
<1> QED
  BY <1>6, <1>7, <1>8 DEF BoundsInv

(* A packet is taken from a link, left there, or received. *)
LEMMA WireBounds ==
  ASSUME AckInv, AckInv', ConfirmedGrows, BoundsInv,
         NEW p \in Player, NEW q \in Player, p # q,
         Receive(p, q) \/ ReceiveCopy(p, q) \/ Lose(p, q)
  PROVE  BoundsInv'
<1>1. PICK pkt \in wire[p][q] :
        /\ Accept(q, pkt) \/ UNCHANGED <<cores, latest, peaks, stream, exported, failed>>
        /\ wire' = [wire EXCEPT ![p][q] = @ \ {pkt}] \/ UNCHANGED wire
  BY DEF Receive, ReceiveCopy, Lose
<1> DEFINE S == wire[p][q] \ {pkt}
<1>2. S \in SUBSET Packet
  BY StateFacts DEF AckInv
<1>3. \A a, b \in Player : wire'[a][b] \subseteq wire[a][b]
  <2>1. CASE wire' = [wire EXCEPT ![p][q] = S]
    <3>1. \A a, b \in Player : \/ wire'[a][b] = wire[a][b]
                               \/ a = p /\ b = q /\ wire'[a][b] = S
      <4> HIDE DEF S
      <4> QED
        BY <1>2, <2>1, OneLink DEF AckInv
    <3> QED
      BY <3>1
  <2>2. CASE UNCHANGED wire
    BY <2>2
  <2> QED
    BY <1>1, <2>1, <2>2
<1>4. \A r \in Player : cores[r].last <= cores[r].last
  <2>1. \A r \in Player : cores[r].last \in Int
    BY DEF AckInv, NetTypeOK, CoresTypeOK, Core, FrameOrNone, None
  <2> QED
    BY <2>1, NotLess
<1>5. UNCHANGED <<latest, stream>>
  BY <1>1 DEF Accept
<1>6. \A r \in Player : cores'[r].last <= cores[r].last
  <2>1. CASE UNCHANGED cores
    BY <1>4, <2>1
  <2>2. CASE ~ UNCHANGED cores
    <3>1. Accept(q, pkt)
      BY <1>1, <2>2
    <3>2. PICK d \in Core : /\ cores' = [cores EXCEPT ![q] = d]
                            /\ d.me = q /\ d.last = cores[q].last
      BY <2>2, <3>1, AcceptEffect
    <3> QED
      BY <1>4, <3>2, LastKept
  <2> QED
    BY <2>1, <2>2
<1> QED
  BY <1>3, <1>5, <1>6, BoundsKept

LEMMA NextBounds ==
  ASSUME AckInv, AckInv', ConfirmedGrows, NetInv, BoundsInv, [Next]_vars
  PROVE  BoundsInv'
<1>1. ASSUME NEW p \in Player, NEW v \in Pressable[p], Capture(p, v)
      PROVE  BoundsInv'
  BY <1>1, CaptureBounds
<1>2. ASSUME NEW p \in Player, NEW f \in 0 .. InputDelay - 1,
             NEW v \in Pressable[p], Bootstrap(p, f, v)
      PROVE  BoundsInv'
  BY <1>2, BootstrapBounds
<1>3. ASSUME NEW p \in Player, Simulate(p) \/ Rewind(p)
      PROVE  BoundsInv'
  BY <1>3, SimulateBounds, RewindBounds
<1>4. ASSUME NEW l \in Links, Send(l[1], l[2])
      PROVE  BoundsInv'
  BY <1>4, SendBounds DEF Links
<1>5. ASSUME NEW l \in Links,
             Receive(l[1], l[2]) \/ ReceiveCopy(l[1], l[2]) \/ Lose(l[1], l[2])
      PROVE  BoundsInv'
  BY <1>5, WireBounds DEF Links
<1>6. ASSUME UNCHANGED <<cores, latest, stream, wire>>
      PROVE  BoundsInv'
  <2>1. \A r \in Player : cores'[r].last <= cores[r].last
    BY <1>6, NotLess DEF AckInv, NetTypeOK, CoresTypeOK, Core, FrameOrNone, None
  <2> QED
    BY <1>6, <2>1, BoundsKept
<1>7. ASSUME NEW p \in Readers, Export(p)
      PROVE  BoundsInv'
  BY <1>6, <1>7 DEF Export
<1>8. CASE UNCHANGED vars
  BY <1>6, <1>8 DEF vars
<1> QED
  BY <1>1, <1>2, <1>3, <1>4, <1>5, <1>7, <1>8 DEF Next

---------------------------------------------------------------------------
(* A peer of a session is a RollbackPeer: of its specification, and of the *)
(* one RollbackPeerProofs speaks of.                                       *)

Observed == INSTANCE RollbackPeerProofs
              WITH Local <- Observer, core <- cores[Observer],
                   peak <- peaks[Observer],
                   exported <- IF Observer \in Readers
                               THEN exported[Observer] ELSE << >>,
                   Equivalent <- {}, AckedFrames <- MaxFrame

(* What PeerAssumption and CoreAssumption ask of the observed peer.        *)
LEMMA ObservedAssumption ==
  /\ Observer \in Player /\ {} \subseteq Input \X Input
  /\ CaptureLead \in Nat /\ MaxFrame \in Nat
  /\ MaxRollback + InputDelay + CaptureLead < History
  /\ Pressable \in [Player -> SUBSET Input]
  /\ ObservedPeer!PeerAssumption /\ Observed!PeerAssumption
BY NetAssumption DEF ObservedPeer!PeerAssumption, Observed!PeerAssumption

(* The operators of the core are the same in both.                         *)
LEMMA SameResetCore ==
  ASSUME NEW me
  PROVE  /\ ObservedPeer!ResetCore(me) = ResetCore(me)
         /\ Observed!ResetCore(me) = ResetCore(me)
<1>1. ObservedPeer!ResetCore(me) = ResetCore(me)
  BY DEF ResetCore, EmptySlot, EmptyUsed, None, Slots, ObservedPeer!ResetCore,
         ObservedPeer!EmptySlot, ObservedPeer!EmptyUsed, ObservedPeer!None,
         ObservedPeer!Slots
<1>2. Observed!ResetCore(me) = ResetCore(me)
  BY DEF ResetCore, EmptySlot, EmptyUsed, None, Slots, Observed!ResetCore,
         Observed!EmptySlot, Observed!EmptyUsed, Observed!None, Observed!Slots
<1> QED
  BY <1>1, <1>2

LEMMA SameCanSchedule ==
  ASSUME NEW c, NEW f, NEW v
  PROVE  /\ ObservedPeer!CanSchedule(c, f, v) <=> CanSchedule(c, f, v)
         /\ Observed!CanSchedule(c, f, v) <=> CanSchedule(c, f, v)
<1>1. ObservedPeer!CanSchedule(c, f, v) <=> CanSchedule(c, f, v)
  BY DEF CanSchedule, LocalFrameForCapture, Present, InputAt,
         ObservedPeer!CanSchedule, ObservedPeer!LocalFrameForCapture,
         ObservedPeer!Present, ObservedPeer!InputAt
<1>2. Observed!CanSchedule(c, f, v) <=> CanSchedule(c, f, v)
  BY DEF CanSchedule, LocalFrameForCapture, Present, InputAt,
         Observed!CanSchedule, Observed!LocalFrameForCapture,
         Observed!Present, Observed!InputAt
<1> QED
  BY <1>1, <1>2

LEMMA SameScheduleLocalInput ==
  ASSUME NEW c, NEW f, NEW v
  PROVE  /\ ObservedPeer!ScheduleLocalInput(c, f, v)
              = ScheduleLocalInput(c, f, v)
         /\ Observed!ScheduleLocalInput(c, f, v) = ScheduleLocalInput(c, f, v)
<1>1. ObservedPeer!ScheduleLocalInput(c, f, v) = ScheduleLocalInput(c, f, v)
  BY DEF ScheduleLocalInput, LocalFrameForCapture, Store, Advanced, Present,
         ObservedPeer!ScheduleLocalInput, ObservedPeer!LocalFrameForCapture,
         ObservedPeer!Store, ObservedPeer!Advanced, ObservedPeer!Present
<1>2. Observed!ScheduleLocalInput(c, f, v) = ScheduleLocalInput(c, f, v)
  BY DEF ScheduleLocalInput, LocalFrameForCapture, Store, Advanced, Present,
         Observed!ScheduleLocalInput, Observed!LocalFrameForCapture,
         Observed!Store, Observed!Advanced, Observed!Present
<1> QED
  BY <1>1, <1>2

LEMMA SameCanSetLeadIn ==
  ASSUME NEW c, NEW f, NEW v
  PROVE  /\ ObservedPeer!CanSetLeadIn(c, f, v) <=> CanSetLeadIn(c, f, v)
         /\ Observed!CanSetLeadIn(c, f, v) <=> CanSetLeadIn(c, f, v)
<1>1. ObservedPeer!CanSetLeadIn(c, f, v) <=> CanSetLeadIn(c, f, v)
  BY DEF CanSetLeadIn, Present, InputAt, None, ObservedPeer!CanSetLeadIn,
         ObservedPeer!Present, ObservedPeer!InputAt, ObservedPeer!None
<1>2. Observed!CanSetLeadIn(c, f, v) <=> CanSetLeadIn(c, f, v)
  BY DEF CanSetLeadIn, Present, InputAt, None, Observed!CanSetLeadIn,
         Observed!Present, Observed!InputAt, Observed!None
<1> QED
  BY <1>1, <1>2

LEMMA SameSetLocalLeadInInput ==
  ASSUME NEW c, NEW f, NEW v
  PROVE  /\ ObservedPeer!SetLocalLeadInInput(c, f, v)
              = SetLocalLeadInInput(c, f, v)
         /\ Observed!SetLocalLeadInInput(c, f, v) = SetLocalLeadInInput(c, f, v)
<1>1. ObservedPeer!SetLocalLeadInInput(c, f, v) = SetLocalLeadInInput(c, f, v)
  BY DEF SetLocalLeadInInput, Store, ObservedPeer!SetLocalLeadInInput,
         ObservedPeer!Store
<1>2. Observed!SetLocalLeadInInput(c, f, v) = SetLocalLeadInInput(c, f, v)
  BY DEF SetLocalLeadInInput, Store, Observed!SetLocalLeadInInput,
         Observed!Store
<1> QED
  BY <1>1, <1>2

LEMMA SameCanAdvance ==
  ASSUME NEW c, NEW f
  PROVE  /\ ObservedPeer!CanAdvance(c, f) <=> CanAdvance(c, f)
         /\ Observed!CanAdvance(c, f) <=> CanAdvance(c, f)
<1>1. ObservedPeer!CanAdvance(c, f) <=> CanAdvance(c, f)
  BY DEF CanAdvance, Present, ObservedPeer!CanAdvance, ObservedPeer!Present
<1>2. Observed!CanAdvance(c, f) <=> CanAdvance(c, f)
  BY DEF CanAdvance, Present, Observed!CanAdvance, Observed!Present
<1> QED
  BY <1>1, <1>2

LEMMA SameMarkSimulated ==
  ASSUME NEW c, NEW f
  PROVE  /\ ObservedPeer!MarkSimulated(c, f) = MarkSimulated(c, f)
         /\ Observed!MarkSimulated(c, f) = MarkSimulated(c, f)
<1>1. ObservedPeer!MarkSimulated(c, f) = MarkSimulated(c, f)
  BY DEF MarkSimulated, PrepareFrame, PredictInput, KnownDistances, Present,
         InputAt, Smaller, Larger, ObservedPeer!MarkSimulated,
         ObservedPeer!PrepareFrame, ObservedPeer!PredictInput,
         ObservedPeer!KnownDistances, ObservedPeer!Present,
         ObservedPeer!InputAt, ObservedPeer!Smaller, ObservedPeer!Larger
<1>2. Observed!MarkSimulated(c, f) = MarkSimulated(c, f)
  BY DEF MarkSimulated, PrepareFrame, PredictInput, KnownDistances, Present,
         InputAt, Smaller, Larger, Observed!MarkSimulated,
         Observed!PrepareFrame, Observed!PredictInput,
         Observed!KnownDistances, Observed!Present, Observed!InputAt,
         Observed!Smaller, Observed!Larger
<1> QED
  BY <1>1, <1>2

LEMMA SameCanRewind ==
  ASSUME NEW c, NEW f
  PROVE  /\ ObservedPeer!CanRewind(c, f) <=> CanRewind(c, f)
         /\ Observed!CanRewind(c, f) <=> CanRewind(c, f)
<1>1. ObservedPeer!CanRewind(c, f) <=> CanRewind(c, f)
  BY DEF CanRewind, HasUsed, None, ObservedPeer!CanRewind,
         ObservedPeer!HasUsed, ObservedPeer!None
<1>2. Observed!CanRewind(c, f) <=> CanRewind(c, f)
  BY DEF CanRewind, HasUsed, None, Observed!CanRewind, Observed!HasUsed,
         Observed!None
<1> QED
  BY <1>1, <1>2

LEMMA SameRewindSimulationTo ==
  ASSUME NEW c, NEW f
  PROVE  /\ ObservedPeer!RewindSimulationTo(c, f) = RewindSimulationTo(c, f)
         /\ Observed!RewindSimulationTo(c, f) = RewindSimulationTo(c, f)
<1>1. ObservedPeer!RewindSimulationTo(c, f) = RewindSimulationTo(c, f)
  BY DEF RewindSimulationTo, EmptyUsed, Slots, None,
         ObservedPeer!RewindSimulationTo, ObservedPeer!EmptyUsed,
         ObservedPeer!Slots, ObservedPeer!None
<1>2. Observed!RewindSimulationTo(c, f) = RewindSimulationTo(c, f)
  BY DEF RewindSimulationTo, EmptyUsed, Slots, None,
         Observed!RewindSimulationTo, Observed!EmptyUsed, Observed!Slots,
         Observed!None
<1> QED
  BY <1>1, <1>2

LEMMA SameCanExport ==
  ASSUME NEW c, NEW f
  PROVE  /\ ObservedPeer!CanExport(c, f) <=> CanExport(c, f)
         /\ Observed!CanExport(c, f) <=> CanExport(c, f)
<1>1. ObservedPeer!CanExport(c, f) <=> CanExport(c, f)
  BY DEF CanExport, HasUsed, Present, InputAt, UsedInput, None,
         ObservedPeer!CanExport, ObservedPeer!HasUsed, ObservedPeer!Present,
         ObservedPeer!InputAt, ObservedPeer!UsedInput, ObservedPeer!None
<1>2. Observed!CanExport(c, f) <=> CanExport(c, f)
  BY DEF CanExport, HasUsed, Present, InputAt, UsedInput, None,
         Observed!CanExport, Observed!HasUsed, Observed!Present,
         Observed!InputAt, Observed!UsedInput, Observed!None
<1> QED
  BY <1>1, <1>2

LEMMA SameConfirmedInputs ==
  ASSUME NEW c, NEW f
  PROVE  /\ ObservedPeer!ConfirmedInputs(c, f) = ConfirmedInputs(c, f)
         /\ Observed!ConfirmedInputs(c, f) = ConfirmedInputs(c, f)
<1>1. ObservedPeer!ConfirmedInputs(c, f) = ConfirmedInputs(c, f)
  BY DEF ConfirmedInputs, InputAt, ObservedPeer!ConfirmedInputs,
         ObservedPeer!InputAt
<1>2. Observed!ConfirmedInputs(c, f) = ConfirmedInputs(c, f)
  BY DEF ConfirmedInputs, InputAt, Observed!ConfirmedInputs, Observed!InputAt
<1> QED
  BY <1>1, <1>2

LEMMA SameAcceptsPacket ==
  ASSUME NEW c, NEW pkt
  PROVE  /\ ObservedPeer!AcceptsPacket(c, pkt) <=> AcceptsPacket(c, pkt)
         /\ Observed!AcceptsPacket(c, pkt) <=> AcceptsPacket(c, pkt)
<1>1. ObservedPeer!AcceptsPacket(c, pkt) <=> AcceptsPacket(c, pkt)
  BY DEF AcceptsPacket, PacketFrames, FrameIsTooOld, Collides,
         OldestRecoverable, Conflicts, Present, InputAt, HasUsed,
         WasPredicted, UsedInput, Sample, ObservedPeer!AcceptsPacket,
         ObservedPeer!PacketFrames, ObservedPeer!FrameIsTooOld,
         ObservedPeer!Collides, ObservedPeer!OldestRecoverable,
         ObservedPeer!Conflicts, ObservedPeer!Present, ObservedPeer!InputAt,
         ObservedPeer!HasUsed, ObservedPeer!WasPredicted,
         ObservedPeer!UsedInput, ObservedPeer!Sample
<1>2. Observed!AcceptsPacket(c, pkt) <=> AcceptsPacket(c, pkt)
  BY DEF AcceptsPacket, PacketFrames, FrameIsTooOld, Collides,
         OldestRecoverable, Conflicts, Present, InputAt, HasUsed,
         WasPredicted, UsedInput, Sample, Observed!AcceptsPacket,
         Observed!PacketFrames, Observed!FrameIsTooOld, Observed!Collides,
         Observed!OldestRecoverable, Observed!Conflicts, Observed!Present,
         Observed!InputAt, Observed!HasUsed, Observed!WasPredicted,
         Observed!UsedInput, Observed!Sample
<1> QED
  BY <1>1, <1>2

LEMMA SameApplyInputPacket ==
  ASSUME NEW c, NEW pkt
  PROVE  /\ ObservedPeer!ApplyInputPacket(c, pkt) = ApplyInputPacket(c, pkt)
         /\ Observed!ApplyInputPacket(c, pkt) = ApplyInputPacket(c, pkt)
<1>1. ObservedPeer!ApplyInputPacket(c, pkt) = ApplyInputPacket(c, pkt)
  BY DEF ApplyInputPacket, FreshFrames, StoreAll, Mispredicted, Least,
         PacketFrames, FrameIsTooOld, Present, InputAt, HasUsed, WasPredicted,
         UsedInput, Sample, Larger, Advanced, None, Slots,
         ObservedPeer!ApplyInputPacket, ObservedPeer!FreshFrames,
         ObservedPeer!StoreAll, ObservedPeer!Mispredicted, ObservedPeer!Least,
         ObservedPeer!PacketFrames, ObservedPeer!FrameIsTooOld,
         ObservedPeer!Present, ObservedPeer!InputAt, ObservedPeer!HasUsed,
         ObservedPeer!WasPredicted, ObservedPeer!UsedInput,
         ObservedPeer!Sample, ObservedPeer!Larger, ObservedPeer!Advanced,
         ObservedPeer!None, ObservedPeer!Slots
<1>2. Observed!ApplyInputPacket(c, pkt) = ApplyInputPacket(c, pkt)
  BY DEF ApplyInputPacket, FreshFrames, StoreAll, Mispredicted, Least,
         PacketFrames, FrameIsTooOld, Present, InputAt, HasUsed, WasPredicted,
         UsedInput, Sample, Larger, Advanced, None, Slots,
         Observed!ApplyInputPacket, Observed!FreshFrames, Observed!StoreAll,
         Observed!Mispredicted, Observed!Least, Observed!PacketFrames,
         Observed!FrameIsTooOld, Observed!Present, Observed!InputAt,
         Observed!HasUsed, Observed!WasPredicted, Observed!UsedInput,
         Observed!Sample, Observed!Larger, Observed!Advanced, Observed!None,
         Observed!Slots
<1> QED
  BY <1>1, <1>2

(* What the observed peer sees of a step is its core, its snapshots, its   *)
(* exports and the streams.                                                *)
Read == IF Observer \in Readers THEN exported[Observer] ELSE << >>

LEMMA Unobserved ==
  ASSUME cores'[Observer] = cores[Observer], peaks'[Observer] = peaks[Observer],
         stream' = stream, Read' = Read
  PROVE  UNCHANGED ObservedPeer!vars /\ UNCHANGED Observed!vars
BY DEF ObservedPeer!vars, Observed!vars, Read

LEMMA InitObserved ==
  ASSUME Init
  PROVE  ObservedPeer!Init /\ Observed!Init
<1>1. /\ cores[Observer] = ResetCore(Observer) /\ peaks[Observer] = None
      /\ stream = [q \in Player |-> [i \in 1 .. InputDelay |-> Neutral]]
      /\ Read = << >>
  BY ObservedAssumption DEF Init, Read
<1>2. ObservedPeer!Init
  BY <1>1, SameResetCore DEF ObservedPeer!Init, ObservedPeer!None, None, Read
<1>3. Observed!Init
  BY <1>1, SameResetCore DEF Observed!Init, Observed!None, None, Read
<1> QED
  BY <1>2, <1>3

(* The own captures and startup frames. *)
LEMMA ObservedCapture ==
  ASSUME AckInv, NetInv, NEW v \in Pressable[Observer], Capture(Observer, v)
  PROVE  ObservedPeer!Capture(v) /\ Observed!Capture(v)
<1> DEFINE c == cores[Observer]
           k == Captured(Observer) - InputDelay
<1>1. k = latest[Observer]
  BY ObservedAssumption, NetConstants, StateFacts
     DEF AckInv, NetInv, CapturesCounted
<1>2. /\ Captured(Observer) < MaxFrame /\ k <= c.last + 1 + CaptureLead
      /\ CanSchedule(c, k, v)
      /\ stream' = [stream EXCEPT ![Observer] = Append(@, v)]
      /\ peaks' = peaks /\ exported' = exported
  BY <1>1 DEF Capture, NextFrame
<1>3. c' = ScheduleLocalInput(c, k, v)
  <2>1. cores' = [cores EXCEPT ![Observer] = ScheduleLocalInput(c, k, v)]
    BY <1>1 DEF Capture
  <2> HIDE DEF k
  <2> QED
    BY <2>1, ObservedAssumption DEF AckInv, NetTypeOK, CoresTypeOK
<1>4. ObservedPeer!Capture(v)
  BY <1>2, <1>3, SameCanSchedule, SameScheduleLocalInput
     DEF ObservedPeer!Capture, ObservedPeer!Captured, ObservedPeer!NextFrame,
         Captured
<1>5. Observed!Capture(v)
  BY <1>2, <1>3, SameCanSchedule, SameScheduleLocalInput
     DEF Observed!Capture, Observed!Captured, Observed!NextFrame, Captured
<1> QED
  BY <1>4, <1>5

LEMMA ObservedBootstrap ==
  ASSUME BootstrapEarly, AckInv, NetInv, NEW f \in 0 .. InputDelay - 1,
         NEW v \in Pressable[Observer], Bootstrap(Observer, f, v)
  PROVE  ObservedPeer!Bootstrap(f, v) /\ Observed!Bootstrap(f, v)
<1> DEFINE c == cores[Observer]
<1>1. /\ peaks[Observer] = None /\ Len(stream[Observer]) = InputDelay
      /\ CanSetLeadIn(c, f, v)
      /\ stream' = [stream EXCEPT ![Observer][f + 1] = v]
      /\ peaks' = peaks /\ exported' = exported
  <2>1. latest[Observer] = 0
    BY DEF Bootstrap
  <2>2. Len(stream[Observer]) = 0 + InputDelay
    BY <2>1, ObservedAssumption DEF NetInv, CapturesCounted, Captured
  <2> QED
    BY <2>2, NetConstants DEF Bootstrap
<1>2. c' = SetLocalLeadInInput(c, f, v)
  BY ObservedAssumption DEF Bootstrap, AckInv, NetTypeOK, CoresTypeOK
<1>3. ObservedPeer!Bootstrap(f, v)
  BY <1>1, <1>2, SameCanSetLeadIn, SameSetLocalLeadInInput
     DEF ObservedPeer!Bootstrap, ObservedPeer!Captured, ObservedPeer!None, None
<1>4. Observed!Bootstrap(f, v)
  BY <1>1, <1>2, SameCanSetLeadIn, SameSetLocalLeadInInput
     DEF Observed!Bootstrap, Observed!Captured, Observed!None, None
<1> QED
  BY <1>3, <1>4

(* The other players': they need the inputs of the observed peer to        *)
(* simulate, so they do not capture far ahead of it.                       *)
LEMMA OthersAhead ==
  ASSUME AckInv, NetInv, BoundsInv, NEW q \in Player, q # Observer,
         latest[q] <= NextFrame(q) + CaptureLead, Captured(q) < MaxFrame
  PROVE  Captured(q) < Smaller(MaxFrame, Captured(Observer)
                                + (MaxRollback + CaptureLead + InputDelay + 1))
<1> DEFINE last == cores[q].last
           seen == cores[q].confirmed[Observer]
           n    == Captured(q)
           m    == Captured(Observer)
           k    == latest[q]
<1>1. Observer \in Player /\ MaxFrame \in Nat /\ CaptureLead \in Nat
  BY ObservedAssumption
<1>2. last \in Int /\ seen \in Int /\ n \in Nat /\ m \in Nat /\ k \in Nat
  BY <1>1, StateFacts DEF AckInv, FrameOrNone, None
<1>3. k <= last + 1 + CaptureLead /\ n < MaxFrame
  BY DEF NextFrame
<1>4. n = k + InputDelay /\ seen < m
  BY <1>1 DEF NetInv, CapturesCounted, FrontiersHonest, HonestFrontier
<1>5. last <= seen + MaxRollback
  BY <1>1 DEF BoundsInv, WithinBudget
<1> HIDE DEF last, seen, n, m, k
<1>6. n < Smaller(MaxFrame, m + (MaxRollback + CaptureLead + InputDelay + 1))
  BY <1>1, <1>2, <1>3, <1>4, <1>5, NetConstants DEF Smaller
<1> QED
  BY <1>6 DEF n, m

LEMMA OtherCapture ==
  ASSUME AckInv, NetInv, BoundsInv, NEW q \in Player, q # Observer,
         NEW v \in Pressable[q], Capture(q, v)
  PROVE  ObservedPeer!RemoteCapture(q, v) /\ Observed!RemoteCapture(q, v)
<1>1. /\ latest[q] <= NextFrame(q) + CaptureLead /\ Captured(q) < MaxFrame
      /\ stream' = [stream EXCEPT ![q] = Append(@, v)]
      /\ peaks' = peaks /\ exported' = exported
  BY DEF Capture
<1>2. cores'[Observer] = cores[Observer]
  BY ObservedAssumption DEF Capture, AckInv, NetTypeOK, CoresTypeOK
<1>3. Captured(q) < Smaller(MaxFrame, Captured(Observer)
                              + (MaxRollback + CaptureLead + InputDelay + 1))
  BY <1>1, OthersAhead
<1>4. ObservedPeer!RemoteCapture(q, v)
  BY <1>1, <1>2, <1>3
     DEF ObservedPeer!RemoteCapture, ObservedPeer!RemoteLead,
         ObservedPeer!Captured, ObservedPeer!Smaller, Smaller, Captured
<1>5. Observed!RemoteCapture(q, v)
  BY <1>1, <1>2, <1>3
     DEF Observed!RemoteCapture, Observed!RemoteLead, Observed!Captured,
         Observed!Smaller, Smaller, Captured
<1> QED
  BY <1>4, <1>5

LEMMA OtherBootstrap ==
  ASSUME BootstrapEarly, AckInv, NetInv, NEW q \in Player, q # Observer,
         NEW f \in 0 .. InputDelay - 1, NEW v \in Pressable[q], Bootstrap(q, f, v)
  PROVE  /\ ObservedPeer!RemoteBootstrap(q, f, v)
         /\ Observed!RemoteBootstrap(q, f, v)
<1>1. /\ Len(stream[q]) = InputDelay
      /\ stream' = [stream EXCEPT ![q][f + 1] = v]
      /\ peaks' = peaks /\ exported' = exported
  <2>1. latest[q] = 0
    BY DEF Bootstrap
  <2>2. Len(stream[q]) = 0 + InputDelay
    BY <2>1 DEF NetInv, CapturesCounted, Captured
  <2> QED
    BY <2>2, NetConstants DEF Bootstrap
<1>2. cores'[Observer] = cores[Observer]
  BY ObservedAssumption DEF Bootstrap, AckInv, NetTypeOK, CoresTypeOK
<1> QED
  BY <1>1, <1>2 DEF ObservedPeer!RemoteBootstrap, ObservedPeer!Captured,
                    Observed!RemoteBootstrap, Observed!Captured

(* Simulation, rollback and export. *)
LEMMA ObservedSimulate ==
  ASSUME AckInv, Simulate(Observer)
  PROVE  ObservedPeer!Simulate /\ Observed!Simulate
<1> DEFINE c == cores[Observer]
<1>1. /\ c.rollback = None /\ CanAdvance(c, c.last + 1)
      /\ stream' = stream /\ exported' = exported
  BY DEF Simulate, NextFrame
<1>2. /\ c' = MarkSimulated(c, c.last + 1)
      /\ peaks'[Observer] = Larger(peaks[Observer], c.last + 1)
  BY ObservedAssumption
     DEF Simulate, NextFrame, AckInv, NetTypeOK, CoresTypeOK
<1>3. ObservedPeer!Simulate
  BY <1>1, <1>2, SameCanAdvance, SameMarkSimulated
     DEF ObservedPeer!Simulate, ObservedPeer!NextFrame, ObservedPeer!Larger,
         ObservedPeer!None, None, Larger
<1>4. Observed!Simulate
  BY <1>1, <1>2, SameCanAdvance, SameMarkSimulated
     DEF Observed!Simulate, Observed!NextFrame, Observed!Larger,
         Observed!None, None, Larger
<1> QED
  BY <1>3, <1>4

LEMMA ObservedRewind ==
  ASSUME AckInv, Rewind(Observer)
  PROVE  /\ \E first \in 0 .. cores[Observer].last : ObservedPeer!Rewind(first)
         /\ \E first \in 0 .. cores[Observer].last : Observed!Rewind(first)
<1> DEFINE c == cores[Observer]
           first == c.rollback
<1>1. /\ first # None /\ first > peaks[Observer] - MaxRollback
      /\ CanRewind(c, first)
      /\ stream' = stream /\ peaks' = peaks /\ exported' = exported
  BY DEF Rewind
<1>2. c' = RewindSimulationTo(c, first)
  BY ObservedAssumption DEF Rewind, AckInv, NetTypeOK, CoresTypeOK
<1>3. first \in 0 .. c.last /\ first <= c.rollback
  BY <1>1 DEF CanRewind
<1>4. ObservedPeer!Rewind(first)
  BY <1>1, <1>2, <1>3, SameCanRewind, SameRewindSimulationTo
     DEF ObservedPeer!Rewind, ObservedPeer!None, None
<1>5. Observed!Rewind(first)
  BY <1>1, <1>2, <1>3, SameCanRewind, SameRewindSimulationTo
     DEF Observed!Rewind, Observed!None, None
<1> QED
  BY <1>3, <1>4, <1>5

LEMMA ObservedExport ==
  ASSUME AckInv, Observer \in Readers, Export(Observer)
  PROVE  ObservedPeer!Export /\ Observed!Export
<1> DEFINE c == cores[Observer]
           f == Len(exported[Observer])
<1>1. /\ CanExport(c, f)
      /\ stream' = stream /\ cores' = cores /\ peaks' = peaks
  BY DEF Export
<1>2. exported'[Observer] = Append(exported[Observer], ConfirmedInputs(c, f))
  BY DEF Export, AckInv, NetTypeOK
<1>3. ObservedPeer!Export
  BY <1>1, <1>2, SameCanExport, SameConfirmedInputs DEF ObservedPeer!Export
<1>4. Observed!Export
  BY <1>1, <1>2, SameCanExport, SameConfirmedInputs DEF Observed!Export
<1> QED
  BY <1>3, <1>4

(* What may be under way to the observed peer: a window of what its sender *)
(* captured, acknowledging a frame the observed peer captured.             *)
LEMMA AckIsOfACapture ==
  ASSUME AckInv, NetInv, BoundsInv, NEW q \in Player, q # Observer,
         NEW pkt \in wire[q][Observer]
  PROVE  pkt.ack \in None .. Smaller(MaxFrame, Captured(Observer)) - 1
<1> DEFINE ack  == pkt.ack
           seen == cores[q].confirmed[Observer]
           m    == Captured(Observer)
<1>1. Observer \in Player /\ MaxFrame \in Nat
  BY ObservedAssumption
<1>2. pkt \in Packet
  BY <1>1, StateFacts DEF AckInv
<1>3. ack \in FrameOrNone /\ seen \in FrameOrNone /\ m \in Nat
  BY <1>1, <1>2, StateFacts, PacketFacts DEF AckInv
<1>4. ack <= seen /\ seen < m
  BY <1>1 DEF AckInv, AcksSent, NetInv, FrontiersHonest, HonestFrontier
<1>5. seen # None => m <= MaxFrame
  BY <1>1 DEF NetInv, FrontiersHonest, HonestFrontier, Known,
              BoundsInv, CapturesBounded
<1> HIDE DEF ack, seen, m
<1>6. ack \in None .. Smaller(MaxFrame, m) - 1
  <2>1. CASE seen = None
    BY <1>1, <1>3, <1>4, <2>1 DEF FrameOrNone, None, Smaller
  <2>2. CASE seen # None
    BY <1>1, <1>3, <1>4, <1>5, <2>2 DEF FrameOrNone, None, Smaller
  <2> QED
    BY <2>1, <2>2
<1> QED
  BY <1>6 DEF ack, m

LEMMA PacketIsWindow ==
  ASSUME AckInv, NetInv, BoundsInv, NEW q \in Player, q # Observer,
         NEW pkt \in wire[q][Observer]
  PROVE  LET n     == Len(pkt.inputs)
             first == IF n = 0 THEN 0 ELSE pkt.first
         IN  /\ n \in 0 .. MaxRedundant /\ first \in 0 .. Captured(q)
             /\ first + n <= Captured(q)
             /\ pkt = [from   |-> q,
                       first  |-> IF n = 0 THEN None ELSE first,
                       inputs |-> [i \in 1 .. n |-> Pressed(q, first + i - 1)],
                       ack    |-> pkt.ack]
<1> DEFINE n     == Len(pkt.inputs)
           first == IF n = 0 THEN 0 ELSE pkt.first
           seq   == pkt.inputs
<1>1. Observer \in Player
  BY ObservedAssumption
<1>2. /\ pkt \in Packet /\ pkt.from = q
      /\ HonestPacket(q, pkt) /\ ShortPacket(pkt) /\ Captured(q) \in Nat
  BY <1>1, StateFacts
     DEF AckInv, AcksSent, NetInv, PacketsHonest, BoundsInv, PacketsShort
<1>3. /\ pkt.first \in FrameOrNone /\ seq \in Seq(Input) /\ n \in Nat
      /\ pkt.first = None => seq = << >>
      /\ seq = << >> => pkt.first = None
      /\ pkt = [from |-> pkt.from, first |-> pkt.first,
                inputs |-> seq, ack |-> pkt.ack]
  BY <1>2 DEF Packet, ShortPacket
<1>4. n = 0 <=> seq = << >>
  BY <1>3
<1>5. first \in Nat /\ pkt.first = (IF n = 0 THEN None ELSE first)
  BY <1>3, <1>4 DEF FrameOrNone
<1>6. \A f \in first .. first + n - 1 :
        f < Captured(q) /\ Sample(pkt, f) = Pressed(q, f)
  <2>1. CASE n = 0
    BY <1>5, <2>1
  <2>2. CASE n # 0
    BY <1>2, <2>2 DEF HonestPacket, PacketFrames
  <2> QED
    BY <2>1, <2>2
<1>7. first + n <= Captured(q)
  <2> DEFINE m == Captured(q)
  <2>1. m \in Nat /\ \A f \in first .. first + n - 1 : f < m
    BY <1>2, <1>6
  <2>2. n = 0 => first = 0
    OBVIOUS
  <2> HIDE DEF m, n, first
  <2>3. ASSUME n # 0 PROVE first + n <= m
    <3>1. first + n - 1 \in first .. first + n - 1
      BY <1>3, <1>5, <2>3
    <3>2. first + n - 1 < m
      BY <2>1, <3>1
    <3> QED
      BY <1>3, <1>5, <2>1, <3>2
  <2>4. ASSUME n = 0 PROVE first + n <= m
    BY <2>1, <2>2, <2>4
  <2>5. first + n <= m
    BY <2>3, <2>4
  <2> QED
    BY <2>5 DEF m
<1>8. seq = [i \in 1 .. n |-> Pressed(q, first + i - 1)]
  <2>1. ASSUME NEW i \in 1 .. n
        PROVE  seq[i] = Pressed(q, first + i - 1)
    <3>1. n # 0 /\ first = pkt.first
      BY <1>3
    <3>2. /\ first + i - 1 \in first .. first + n - 1
          /\ (first + i - 1) - first + 1 = i
      <4> HIDE DEF n, first
      <4> QED
        BY <1>3, <1>5
    <3>3. Sample(pkt, first + i - 1) = Pressed(q, first + i - 1)
      BY <1>6, <3>2
    <3> QED
      BY <3>1, <3>2, <3>3 DEF Sample
  <2>2. seq = [i \in 1 .. n |-> seq[i]]
    BY <1>3
  <2> HIDE DEF seq, n, first
  <2> QED
    BY <2>1, <2>2
<1>9. n <= MaxRedundant
  BY <1>2 DEF ShortPacket
<1> HIDE DEF n, first, seq
<1>10. n \in 0 .. MaxRedundant /\ first \in 0 .. Captured(q)
  BY <1>2, <1>3, <1>5, <1>7, <1>9, NetConstants
<1> QED
  BY <1>2, <1>3, <1>5, <1>7, <1>8, <1>10 DEF n, first, seq

LEMMA PacketIsHonest ==
  ASSUME AckInv, NetInv, BoundsInv, NEW q \in Player, q # Observer,
         NEW pkt \in wire[q][Observer]
  PROVE  pkt \in ObservedPeer!HonestPackets(q) /\ pkt \in Observed!HonestPackets(q)
<1> DEFINE n     == Len(pkt.inputs)
           first == IF n = 0 THEN 0 ELSE pkt.first
           w     == <<first, n, pkt.ack>>
           top   == Smaller(MaxFrame, Captured(Observer)) - 1
<1>1. /\ n \in 0 .. MaxRedundant /\ first \in 0 .. Captured(q)
      /\ first + n <= Captured(q)
      /\ pkt = [from   |-> q,
                first  |-> IF n = 0 THEN None ELSE first,
                inputs |-> [i \in 1 .. n |-> Pressed(q, first + i - 1)],
                ack    |-> pkt.ack]
  BY PacketIsWindow
<1>2. pkt.ack \in None .. top
  BY AckIsOfACapture
<1>3. Captured(q) > InputDelay
  <2>1. Observer \in Player
    BY ObservedAssumption
  <2>2. latest[q] > 0 /\ latest[q] \in Nat
    BY <2>1, StateFacts DEF AckInv, NetInv, PacketsHonest, HonestPacket
  <2> QED
    BY <2>2, NetConstants DEF NetInv, CapturesCounted
<1> HIDE DEF n, first
<1>4. /\ w \in (0 .. Captured(q)) \X (0 .. MaxRedundant) \X (None .. top)
      /\ w[1] = first /\ w[2] = n /\ w[3] = pkt.ack
      /\ Captured(q) > InputDelay /\ w[1] + w[2] <= Captured(q)
  BY <1>1, <1>2, <1>3
<1>5. pkt \in ObservedPeer!HonestPackets(q)
  <2>1. pkt = ObservedPeer!Window(q, w[1], w[2], w[3])
    BY <1>1, <1>4 DEF ObservedPeer!Window, ObservedPeer!None, None,
                      ObservedPeer!Pressed, Pressed
  <2>2. w \in {x \in (0 .. ObservedPeer!Captured(q)) \X (0 .. MaxRedundant)
                      \X (ObservedPeer!None ..
                            ObservedPeer!Smaller(MaxFrame,
                              ObservedPeer!Captured(Observer)) - 1) :
                 /\ ObservedPeer!Captured(q) > InputDelay
                 /\ x[1] + x[2] <= ObservedPeer!Captured(q)}
    <3> HIDE DEF w
    <3> QED
      BY <1>4 DEF ObservedPeer!Captured, ObservedPeer!Smaller,
                  ObservedPeer!None, Captured, Smaller, None
  <2> HIDE DEF w
  <2> QED
    BY <2>1, <2>2 DEF ObservedPeer!HonestPackets
<1>6. pkt \in Observed!HonestPackets(q)
  <2>1. pkt = Observed!Window(q, w[1], w[2], w[3])
    BY <1>1, <1>4 DEF Observed!Window, Observed!None, None,
                      Observed!Pressed, Pressed
  <2>2. w \in {x \in (0 .. Observed!Captured(q)) \X (0 .. MaxRedundant)
                      \X (Observed!None ..
                            Observed!Smaller(MaxFrame,
                              Observed!Captured(Observer)) - 1) :
                 /\ Observed!Captured(q) > InputDelay
                 /\ x[1] + x[2] <= Observed!Captured(q)}
    <3> HIDE DEF w
    <3> QED
      BY <1>4 DEF Observed!Captured, Observed!Smaller, Observed!None,
                  Captured, Smaller, None
  <2> HIDE DEF w
  <2> QED
    BY <2>1, <2>2 DEF Observed!HonestPackets
<1> QED
  BY <1>5, <1>6

LEMMA ObservedAccept ==
  ASSUME AckInv, NetInv, BoundsInv, NEW q \in Player, q # Observer,
         NEW pkt \in wire[q][Observer], Accept(Observer, pkt)
  PROVE  \/ UNCHANGED ObservedPeer!vars /\ UNCHANGED Observed!vars
         \/ ObservedPeer!Deliver(pkt) /\ Observed!Deliver(pkt)
<1> DEFINE c == cores[Observer]
<1>1. stream' = stream /\ peaks' = peaks /\ exported' = exported
  BY DEF Accept
<1>2. CASE AcceptsPacket(c, pkt)
  <2>1. c' = ApplyInputPacket(c, pkt)
    BY <1>2, ObservedAssumption DEF Accept, AckInv, NetTypeOK, CoresTypeOK
  <2>2. ObservedPeer!Deliver(pkt)
    BY <1>1, <1>2, <2>1, SameAcceptsPacket, SameApplyInputPacket
       DEF ObservedPeer!Deliver
  <2>3. Observed!Deliver(pkt)
    BY <1>1, <1>2, <2>1, SameAcceptsPacket, SameApplyInputPacket
       DEF Observed!Deliver
  <2> QED
    BY <2>2, <2>3
<1>3. CASE ~ AcceptsPacket(c, pkt)
  <2>1. cores' = cores
    BY <1>3 DEF Accept
  <2> QED
    BY <1>1, <2>1, Unobserved DEF Read
<1> QED
  BY <1>2, <1>3

LEMMA NextObserved ==
  ASSUME BootstrapEarly, AckInv, NetInv, BoundsInv, [Next]_vars
  PROVE  /\ [ObservedPeer!Next]_(ObservedPeer!vars)
         /\ [Observed!Next]_(Observed!vars)
<1> DEFINE Both == /\ [ObservedPeer!Next]_(ObservedPeer!vars)
                   /\ [Observed!Next]_(Observed!vars)
<1>1. Observer \in Player
  BY ObservedAssumption
<1>2. ASSUME UNCHANGED ObservedPeer!vars /\ UNCHANGED Observed!vars
      PROVE  Both
  BY <1>2
<1>3. \A q \in Player : q # Observer =>
        q \in ObservedPeer!Remote /\ q \in Observed!Remote
  BY DEF ObservedPeer!Remote, Observed!Remote
<1>4. ASSUME NEW p \in Player, NEW v \in Pressable[p], Capture(p, v)
      PROVE  Both
  <2>1. CASE p = Observer
    BY <1>4, <2>1, ObservedCapture DEF ObservedPeer!Next, Observed!Next
  <2>2. CASE p # Observer
    BY <1>3, <1>4, <2>2, OtherCapture DEF ObservedPeer!Next, Observed!Next
  <2> QED
    BY <2>1, <2>2
<1>5. ASSUME NEW p \in Player, NEW f \in 0 .. InputDelay - 1,
             NEW v \in Pressable[p], Bootstrap(p, f, v)
      PROVE  Both
  <2>1. CASE p = Observer
    BY <1>5, <2>1, ObservedBootstrap DEF ObservedPeer!Next, Observed!Next
  <2>2. CASE p # Observer
    BY <1>3, <1>5, <2>2, OtherBootstrap DEF ObservedPeer!Next, Observed!Next
  <2> QED
    BY <2>1, <2>2
<1>6. ASSUME NEW p \in Player, Simulate(p) \/ Rewind(p)
      PROVE  Both
  <2>1. CASE p # Observer
    <3>1. /\ cores'[Observer] = cores[Observer]
          /\ peaks'[Observer] = peaks[Observer]
          /\ stream' = stream /\ exported' = exported
      BY <1>1, <1>6, <2>1
         DEF Simulate, Rewind, AckInv, NetTypeOK, CoresTypeOK
    <3> QED
      BY <1>2, <3>1, Unobserved DEF Read
  <2>2. CASE p = Observer /\ Simulate(p)
    BY <2>2, ObservedSimulate DEF ObservedPeer!Next, Observed!Next
  <2>3. CASE p = Observer /\ Rewind(p)
    BY <2>3, ObservedRewind DEF ObservedPeer!Next, Observed!Next
  <2> QED
    BY <1>6, <2>1, <2>2, <2>3
<1>7. ASSUME NEW p \in Readers, Export(p)
      PROVE  Both
  <2>1. CASE p = Observer
    BY <1>7, <2>1, ObservedExport DEF ObservedPeer!Next, Observed!Next
  <2>2. CASE p # Observer
    <3>1. cores' = cores /\ peaks' = peaks /\ stream' = stream
      BY <1>7 DEF Export
    <3>2. Read' = Read
      BY <1>7, <2>2 DEF Export, Read, AckInv, NetTypeOK
    <3> QED
      BY <1>2, <3>1, <3>2, Unobserved
  <2> QED
    BY <2>1, <2>2
<1>8. ASSUME NEW p \in Player, NEW q \in Player, p # q,
             NEW pkt \in wire[p][q], Accept(q, pkt)
      PROVE  Both
  <2>1. CASE q = Observer
    <3>1. pkt \in ObservedPeer!HonestPackets(p) /\ pkt \in Observed!HonestPackets(p)
      BY <1>8, <2>1, PacketIsHonest
    <3>2. \/ UNCHANGED ObservedPeer!vars /\ UNCHANGED Observed!vars
          \/ ObservedPeer!Deliver(pkt) /\ Observed!Deliver(pkt)
      BY <1>8, <2>1, ObservedAccept
    <3> QED
      BY <1>2, <1>3, <1>8, <2>1, <3>1, <3>2 DEF ObservedPeer!Next, Observed!Next
  <2>2. CASE q # Observer
    <3>1. /\ cores'[Observer] = cores[Observer] /\ peaks' = peaks
          /\ stream' = stream /\ exported' = exported
      BY <1>1, <1>8, <2>2 DEF Accept, AckInv, NetTypeOK, CoresTypeOK
    <3> QED
      BY <1>2, <3>1, Unobserved DEF Read
  <2> QED
    BY <2>1, <2>2
<1>9. ASSUME NEW l \in Links, Receive(l[1], l[2]) \/ ReceiveCopy(l[1], l[2])
      PROVE  Both
  <2>1. l[1] \in Player /\ l[2] \in Player /\ l[1] # l[2]
    BY DEF Links
  <2>2. PICK pkt \in wire[l[1]][l[2]] : Accept(l[2], pkt)
    BY <1>9 DEF Receive, ReceiveCopy
  <2> QED
    BY <1>8, <2>1, <2>2
<1>10. ASSUME UNCHANGED <<cores, peaks, stream, exported>>
       PROVE  Both
  BY <1>2, <1>10, Unobserved DEF Read
<1>11. ASSUME NEW l \in Links, Send(l[1], l[2]) \/ Lose(l[1], l[2])
       PROVE  Both
  BY <1>10, <1>11 DEF Send, Lose
<1>12. ASSUME UNCHANGED vars PROVE Both
  BY <1>10, <1>12 DEF vars
<1>13. ASSUME NEW l \in Links, \/ Send(l[1], l[2]) \/ Receive(l[1], l[2])
                               \/ ReceiveCopy(l[1], l[2]) \/ Lose(l[1], l[2])
       PROVE  Both
  BY <1>9, <1>11, <1>13
<1> HIDE DEF Both
<1>14. ASSUME Next PROVE Both
  BY <1>4, <1>5, <1>6, <1>7, <1>13, <1>14 DEF Next
<1>15. Both
  BY <1>12, <1>14
<1> QED
  BY <1>15 DEF Both

(* What is known of the other players and the network at every step.       *)
LEMMA Environment ==
  ASSUME BootstrapEarly
  PROVE  Spec => [](AckInv /\ NetInv /\ BoundsInv)
<1>1. Init => AckInv /\ NetInv /\ BoundsInv
  BY InitAcks, InitHonest, InitBounds
<1>2. AckInv /\ NetInv /\ BoundsInv /\ [Next]_vars
        => AckInv' /\ NetInv' /\ BoundsInv'
  BY BootstrapEarly, NextKeepsAcks, NextHonest, NextBounds
<1> QED
  BY <1>1, <1>2, PTL DEF Spec

(* A peer of a session, with what the others capture and the network       *)
(* delivers, is a RollbackPeer: what is proved of one core in an arbitrary *)
(* honest environment is true of every core of a session (SessionChannel's *)
(* SendInputs and Receive over RollbackCore).                              *)
THEOREM EveryPeerIsARollbackPeer ==
  ASSUME BootstrapEarly
  PROVE  Spec => ImplementsRollbackPeer
<1>1. Init => ObservedPeer!Init
  BY InitObserved
<1>2. AckInv /\ NetInv /\ BoundsInv /\ [Next]_vars
        => [ObservedPeer!Next]_(ObservedPeer!vars)
  BY BootstrapEarly, NextObserved
<1> QED
  BY <1>1, <1>2, BootstrapEarly, Environment, PTL
     DEF Spec, ImplementsRollbackPeer, ObservedPeer!Spec

LEMMA ObservedSpec ==
  ASSUME BootstrapEarly
  PROVE  Spec => Observed!Spec
<1>1. Init => Observed!Init
  BY InitObserved
<1>2. AckInv /\ NetInv /\ BoundsInv /\ [Next]_vars
        => [Observed!Next]_(Observed!vars)
  BY BootstrapEarly, NextObserved
<1> QED
  BY <1>1, <1>2, BootstrapEarly, Environment, PTL DEF Spec, Observed!Spec

(* In a session, at every peer: no misprediction survives the confirmation *)
(* of the real input without a rollback to be performed, what was exported *)
(* is what was pressed, every rollback asked for can be performed, and no  *)
(* confirmed input is missing (NetplayCore.cpp).                           *)
THEOREM EveryPeerReconciles ==
  ASSUME BootstrapEarly
  PROVE  Spec => [](/\ Observed!ConfirmedFramesReconciled
                    /\ Observed!ExportsAreFinal
                    /\ Observed!RollbackIsPossible
                    /\ Observed!NoHoleInConfirmedHistory)
<1>1. Observed!Spec => []Observed!ConfirmedFramesReconciled
  BY Observed!MispredictionsAreRequested, NetAssumption, CoreAssumption
<1>2. Observed!Spec => []Observed!ExportsAreFinal
  BY Observed!ExportsNeverChange, NetAssumption, CoreAssumption
<1>3. Observed!Spec => []Observed!RollbackIsPossible
  BY Observed!RollbackSucceeds, NetAssumption, CoreAssumption
<1>4. Observed!Spec => []Observed!NoHoleInConfirmedHistory
  BY Observed!NoConfirmedInputIsLost, NetAssumption, CoreAssumption
<1> QED
  BY <1>1, <1>2, <1>3, <1>4, BootstrapEarly, ObservedSpec, PTL

(* A packet that reaches a peer is refused only for a sample whose slot a  *)
(* newer frame of its sender took.                                         *)
RefusedOnlyForEviction ==
  \A q \in Player \ {Observer} : \A pkt \in wire[q][Observer] :
    \/ AcceptsPacket(cores[Observer], pkt)
    \/ \E f \in PacketFrames(pkt) :
         f <= cores[Observer].confirmed[q] /\ Observed!Evicted(q, f)

(* In a session whose ring is as wide as WideRing asks, nothing that the   *)
(* other players press or the network does makes a peer fail, but a late   *)
(* copy of a sample whose slot was taken since (ApplyInputPacket, and      *)
(* SessionFailure::InputConflict in Receive).                              *)
THEOREM EveryRefusalIsEviction ==
  ASSUME BootstrapEarly, Observed!WideRing
  PROVE  Spec => []RefusedOnlyForEviction
<1>1. Observed!Spec => []Observed!RefusedOnlyIfEvicted
  BY Observed!WideRing, Observed!HonestRefusalIsEviction,
     NetAssumption, CoreAssumption
<1>2. AckInv /\ NetInv /\ BoundsInv /\ Observed!RefusedOnlyIfEvicted
        => RefusedOnlyForEviction
  <2> SUFFICES ASSUME AckInv, NetInv, BoundsInv, Observed!RefusedOnlyIfEvicted,
                      NEW q \in Player \ {Observer}, NEW pkt \in wire[q][Observer]
               PROVE  \/ AcceptsPacket(cores[Observer], pkt)
                      \/ \E f \in PacketFrames(pkt) :
                           /\ f <= cores[Observer].confirmed[q]
                           /\ Observed!Evicted(q, f)
    BY DEF RefusedOnlyForEviction
  <2>1. pkt \in Observed!HonestPackets(q) /\ q \in Observed!Remote
    BY PacketIsHonest DEF Observed!Remote
  <2>2. \/ Observed!AcceptsPacket(cores[Observer], pkt)
        \/ \E f \in Observed!PacketFrames(pkt) :
             f <= cores[Observer].confirmed[q] /\ Observed!Evicted(q, f)
    BY <2>1 DEF Observed!RefusedOnlyIfEvicted
  <2>3. Observed!PacketFrames(pkt) = PacketFrames(pkt)
    BY DEF Observed!PacketFrames, PacketFrames
  <2> QED
    BY <2>2, <2>3, SameAcceptsPacket
<1> QED
  BY <1>1, <1>2, BootstrapEarly, ObservedSpec, Environment, PTL

(* A session that is not longer than the ring never fails at any peer,     *)
(* whatever the network loses, repeats, delays or reorders: what           *)
(* NoHonestFailure says, of the peer observed.                             *)
THEOREM ShortSessionNeverFails ==
  ASSUME BootstrapEarly, Observed!WideRing, MaxFrame <= History
  PROVE  Spec => [](Observer \notin failed)
<1> DEFINE Safe == \A q \in Player \ {Observer} : \A pkt \in wire[q][Observer] :
                     AcceptsPacket(cores[Observer], pkt)
           Alive == Observer \notin failed
<1>1. Observed!Spec => []Observed!NothingIsRefused
  <2>1. MaxFrame <= History
    OBVIOUS
  <2> QED
    BY <2>1, Observed!WideRing, Observed!ShortSessionRefusesNothing,
       NetAssumption, CoreAssumption
<1>2. AckInv /\ NetInv /\ BoundsInv /\ Observed!NothingIsRefused => Safe
  <2> SUFFICES ASSUME AckInv, NetInv, BoundsInv, Observed!NothingIsRefused,
                      NEW q \in Player \ {Observer}, NEW pkt \in wire[q][Observer]
               PROVE  AcceptsPacket(cores[Observer], pkt)
    OBVIOUS
  <2>1. pkt \in Observed!HonestPackets(q) /\ q \in Observed!Remote
    BY PacketIsHonest DEF Observed!Remote
  <2> QED
    BY <2>1, SameAcceptsPacket DEF Observed!NothingIsRefused
<1>3. Init => Alive
  BY DEF Init
<1>4. Safe /\ Alive /\ [Next]_vars => Alive'
  <2> SUFFICES ASSUME Safe, Alive, [Next]_vars
               PROVE  Alive'
    OBVIOUS
  <2>1. ASSUME NEW l \in Links, NEW pkt \in wire[l[1]][l[2]], Accept(l[2], pkt)
        PROVE  Alive'
    <3>1. l[1] \in Player /\ l[2] \in Player /\ l[1] # l[2]
      BY DEF Links
    <3>2. CASE l[2] = Observer
      <4>1. AcceptsPacket(cores[Observer], pkt)
        BY <2>1, <3>1, <3>2
      <4> QED
        BY <2>1, <3>2, <4>1 DEF Accept
    <3>3. CASE l[2] # Observer
      BY <2>1, <3>3 DEF Accept
    <3> QED
      BY <3>2, <3>3
  <2>2. ASSUME NEW l \in Links, Receive(l[1], l[2]) \/ ReceiveCopy(l[1], l[2])
        PROVE  Alive'
    BY <2>1, <2>2 DEF Receive, ReceiveCopy
  <2>3. ASSUME failed' = failed PROVE Alive'
    BY <2>3
  <2>4. ASSUME NEW l \in Links, Send(l[1], l[2]) \/ Lose(l[1], l[2])
        PROVE  failed' = failed
    BY <2>4 DEF Send, Lose
  <2>5. ASSUME NEW p \in Player, Simulate(p) \/ Rewind(p)
        PROVE  failed' = failed
    BY <2>5 DEF Simulate, Rewind
  <2>6. ASSUME NEW p \in Readers, Export(p) PROVE failed' = failed
    BY <2>6 DEF Export
  <2>7. ASSUME NEW p \in Player, NEW v \in Pressable[p], Capture(p, v)
        PROVE  failed' = failed
    BY <2>7 DEF Capture
  <2>8. ASSUME NEW p \in Player, NEW f \in 0 .. InputDelay - 1,
               NEW v \in Pressable[p], Bootstrap(p, f, v)
        PROVE  failed' = failed
    BY <2>8 DEF Bootstrap
  <2>9. ASSUME UNCHANGED vars PROVE failed' = failed
    BY <2>9 DEF vars
  <2> HIDE DEF Alive, Safe
  <2>10. ASSUME NEW l \in Links, \/ Send(l[1], l[2]) \/ Receive(l[1], l[2])
                                 \/ ReceiveCopy(l[1], l[2]) \/ Lose(l[1], l[2])
         PROVE  Alive'
    BY <2>2, <2>3, <2>4, <2>10
  <2> QED
    BY <2>3, <2>5, <2>6, <2>7, <2>8, <2>9, <2>10 DEF Next
<1> HIDE DEF Safe, Alive
<1>5. Spec => []Alive
  BY <1>1, <1>2, <1>3, <1>4, BootstrapEarly, ObservedSpec, Environment, PTL
     DEF Spec
<1> QED
  BY <1>5 DEF Alive
===========================================================================
