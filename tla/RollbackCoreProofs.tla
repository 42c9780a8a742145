------------------------ MODULE RollbackCoreProofs ------------------------
(***************************************************************************)
(* Lemmas about the operators of RollbackCore, for every value of the      *)
(* constants: what the rings hold after each of them, and their types.     *)
(***************************************************************************)
EXTENDS RollbackCore, TLAPS, WellFoundedInduction

---------------------------------------------------------------------------
(* Arithmetic of the slots. *)

(* Division with remainder is unique. *)
LEMMA DivisionUnique ==
  ASSUME NEW H \in Nat, H > 0, NEW a \in Int, NEW b \in Int,
         NEW r \in 0 .. H - 1, NEW s \in 0 .. H - 1,
         H * a + r = H * b + s
  PROVE  r = s
<1>1. ASSUME NEW x \in Int, NEW y \in Int, x > y PROVE H * x >= H * y + H
  <2>1. H * (x - y - 1) >= 0
    BY <1>1
  <2>2. H * (x - y - 1) = H * x - H * y - H
    OBVIOUS
  <2> HIDE <1>1
  <2> QED
    BY <2>1, <2>2
<1>2. H * a \in Int /\ H * b \in Int
  OBVIOUS
<1>3. ~ (a > b)
  BY <1>1, <1>2
<1>4. ~ (b > a)
  BY <1>1, <1>2
<1>5. a = b
  BY <1>3, <1>4
<1> QED
  BY <1>2, <1>5

(* Frames that are History apart share a slot. *)
LEMMA SlotShift ==
  ASSUME NEW H \in Nat, H > 0, NEW f \in Int
  PROVE  (f + H) % H = f % H
<1> DEFINE a == f \div H
           b == (f + H) \div H
           r == f % H
           s == (f + H) % H
<1>1. a \in Int /\ r \in 0 .. H - 1 /\ f = H * a + r
  OBVIOUS
<1>2. b \in Int /\ s \in 0 .. H - 1 /\ f + H = H * b + s
  OBVIOUS
<1>3. H * (a + 1) + r = H * b + s
  <2>1. H * (a + 1) = H * a + H /\ H * a \in Int
    BY <1>1
  <2> QED
    BY <1>1, <1>2, <2>1
<1>4. a + 1 \in Int
  BY <1>1
<1> HIDE DEF a, b, r, s
<1>5. r = s
  BY <1>1, <1>2, <1>3, <1>4, DivisionUnique
<1> QED
  BY <1>5 DEF r, s

(* Two frames of one slot are at least History apart. *)
LEMMA SameSlotFar ==
  ASSUME NEW f \in Nat, NEW g \in Nat, f % History = g % History, f < g
  PROVE  f + History <= g
<1> DEFINE H == History
           a == f \div H
           b == g \div H
           r == f % H
<1>1. H \in Nat /\ H > 0
  BY CoreAssumption
<1>2. a \in Int /\ b \in Int /\ f = H * a + r /\ g = H * b + r /\ r \in Int
  BY <1>1
<1> HIDE DEF H, a, b, r
<1>3. H * a \in Int /\ H * b \in Int /\ H * a < H * b
  BY <1>1, <1>2
<1>4. a < b
  <2>1. ASSUME b <= a PROVE FALSE
    <3>1. H * (a - b) >= 0 /\ H * (a - b) = H * a - H * b
      BY <1>1, <1>2, <2>1
    <3> QED
      BY <1>3, <3>1
  <2> QED
    BY <1>2, <2>1
<1>5. H * b >= H * a + H
  <2>1. H * (b - a - 1) >= 0
    BY <1>1, <1>2, <1>4
  <2>2. H * (b - a - 1) = H * b - H * a - H
    BY <1>1, <1>2
  <2> QED
    BY <1>3, <2>1, <2>2, <1>1
<1>6. f + H <= g
  BY <1>1, <1>2, <1>3, <1>5
<1> QED
  BY <1>6 DEF H

(* Every frame has a slot. *)
LEMMA SlotOf ==
  ASSUME NEW f \in Int
  PROVE  f % History \in Slots
<1>1. History \in Nat /\ History > 0
  BY CoreAssumption
<1> QED
  BY <1>1 DEF Slots

(* The first History frames are their own slots. *)
LEMMA SlotOfSmall ==
  ASSUME NEW f \in Slots
  PROVE  f % History = f
<1>1. History \in Nat /\ History > 0
  BY CoreAssumption
<1> QED
  BY <1>1 DEF Slots

---------------------------------------------------------------------------
(* Least elements. *)

LEMMA LeastElement ==
  ASSUME NEW T, T \subseteq Nat, T # {}
  PROVE  \E x \in T : \A y \in T : x <= y
<1>1. PICK x \in T : \A y \in T : ~ (<<y, x>> \in OpToRel(<, Nat))
  BY WFMin, NatLessThanWellFounded
<1>2. ASSUME NEW y \in T PROVE x <= y
  <2>1. ~ (<<y, x>> \in OpToRel(<, Nat))
    BY <1>1
  <2>2. <<y, x>> \in Nat \X Nat
    OBVIOUS
  <2>3. ~ (y < x)
    BY <2>1, <2>2 DEF OpToRel
  <2> QED
    BY <2>3
<1> QED
  BY <1>2

LEMMA LeastMember ==
  ASSUME NEW T, T \subseteq Nat, T # {}
  PROVE  Least(T) \in T /\ \A y \in T : Least(T) <= y
<1>1. \E x \in T : \A y \in T : x <= y
  BY LeastElement
<1> QED
  BY <1>1 DEF Least

---------------------------------------------------------------------------
(* The rings. *)

(* The frontier moves over present frames only, and stops at a missing     *)
(* one.                                                                    *)
LEMMA AdvancedRun ==
  ASSUME NEW ring, NEW from \in FrameOrNone
  PROVE  /\ Advanced(ring, from) \in from .. from + History
         /\ \A f \in from + 1 .. Advanced(ring, from) : Present(ring, f)
         /\ ~ Present(ring, Advanced(ring, from) + 1)
         /\ Advanced(ring, from) \in FrameOrNone
<1> DEFINE Missing == {f \in Nat : f > from /\ ~ Present(ring, f)}
<1>1. from \in Int /\ from + 1 \in Nat /\ from + 1 + History \in Nat
  BY CoreAssumption DEF FrameOrNone, None
<1>2. from + 1 \in Missing \/ from + 1 + History \in Missing
  <2> DEFINE f == from + 1
  <2>1. (f + History) % History = f % History
    <3>1. f \in Int /\ History \in Nat /\ History > 0
      BY <1>1, CoreAssumption
    <3> HIDE DEF f
    <3> QED
      BY SlotShift, <3>1
  <2>2. from + 1 + History # from + 1
    BY <1>1, CoreAssumption
  <2>3. ~ Present(ring, from + 1) \/ ~ Present(ring, from + 1 + History)
    BY <2>1, <2>2 DEF Present
  <2>4. from + 1 > from /\ from + 1 + History > from
    BY <1>1, CoreAssumption
  <2> QED
    BY <1>1, <2>3, <2>4
<1>3. PICK m \in Missing : \A y \in Missing : m <= y
  BY <1>2, LeastElement
<1>4. /\ m - 1 \in from .. from + History
      /\ \A f \in from + 1 .. m - 1 : Present(ring, f)
      /\ ~ Present(ring, (m - 1) + 1)
  <2>1. m <= from + 1 + History
    BY <1>1, <1>2, <1>3, CoreAssumption
  <2>2. m - 1 \in from .. from + History
    BY <1>1, <2>1, CoreAssumption
  <2>3. ASSUME NEW f \in from + 1 .. m - 1 PROVE Present(ring, f)
    <3>1. f \in Nat /\ f > from /\ f < m
      BY <1>1
    <3>2. f \notin Missing
      BY <1>3, <3>1
    <3> QED
      BY <3>1, <3>2
  <2>4. (m - 1) + 1 = m
    OBVIOUS
  <2> QED
    BY <2>2, <2>3, <2>4
<1> HIDE DEF Missing
<1>5. /\ Advanced(ring, from) \in from .. from + History
      /\ \A f \in from + 1 .. Advanced(ring, from) : Present(ring, f)
      /\ ~ Present(ring, Advanced(ring, from) + 1)
  BY <1>4 DEF Advanced
<1> QED
  BY <1>1, <1>5 DEF FrameOrNone, None

(* A stored frame is there, and every other frame that is still there is   *)
(* as it was.                                                              *)
LEMMA StoreKeeps ==
  ASSUME NEW ring \in Ring, NEW f \in Nat, NEW v \in Input
  PROVE  /\ Store(ring, f, v) \in Ring
         /\ Present(Store(ring, f, v), f)
         /\ InputAt(Store(ring, f, v), f) = v
         /\ \A g \in Nat : g # f /\ Present(Store(ring, f, v), g) =>
              /\ Present(ring, g)
              /\ InputAt(Store(ring, f, v), g) = InputAt(ring, g)
<1>1. f % History \in Slots /\ \A g \in Nat : g % History \in Slots
  BY SlotOf
<1>2. [frame |-> f, present |-> TRUE, input |-> v] \in InputSlot
  BY DEF InputSlot, FrameOrNone
<1> QED
  BY <1>1, <1>2 DEF Store, Present, InputAt, Ring

(* Claiming a slot adds no frame. *)
LEMMA ClaimKeeps ==
  ASSUME NEW ring \in Ring, NEW f \in Nat
  PROVE  /\ Claim(ring, f) \in Ring
         /\ \A g \in Nat : Present(Claim(ring, f), g) =>
              /\ Present(ring, g)
              /\ InputAt(Claim(ring, f), g) = InputAt(ring, g)
<1>1. f % History \in Slots /\ \A g \in Nat : g % History \in Slots
  BY SlotOf
<1>2. [EmptySlot EXCEPT !.frame = f] \in InputSlot
  BY CoreAssumption DEF EmptySlot, InputSlot, FrameOrNone
<1>3. ~ [EmptySlot EXCEPT !.frame = f].present
  BY DEF EmptySlot
<1> QED
  BY <1>1, <1>2, <1>3 DEF Claim, Present, InputAt, Ring

(* After a packet, a frame that is there is one of the packet's, with the  *)
(* packet's sample, or is as it was.                                       *)
LEMMA StoreAllKeeps ==
  ASSUME NEW ring \in Ring, NEW pkt, NEW frames, frames \subseteq Nat,
         \A f \in frames : Sample(pkt, f) \in Input
  PROVE  /\ StoreAll(ring, frames, pkt) \in Ring
         /\ \A g \in Nat : Present(StoreAll(ring, frames, pkt), g) =>
              \/ /\ g \in frames
                 /\ InputAt(StoreAll(ring, frames, pkt), g) = Sample(pkt, g)
              \/ /\ Present(ring, g)
                 /\ InputAt(StoreAll(ring, frames, pkt), g) = InputAt(ring, g)
<1> DEFINE here(s) == {f \in frames : f % History = s}
           pick(s) == CHOOSE f \in here(s) : TRUE
           all == StoreAll(ring, frames, pkt)
<1>1. ASSUME NEW s \in Slots
      PROVE  /\ all[s] \in InputSlot
             /\ here(s) = {} => all[s] = ring[s]
             /\ here(s) # {} => /\ pick(s) \in frames
                                /\ all[s] = [frame |-> pick(s), present |-> TRUE,
                                             input |-> Sample(pkt, pick(s))]
  <2>1. all[s] = IF here(s) = {} THEN ring[s]
                 ELSE [frame |-> pick(s), present |-> TRUE,
                       input |-> Sample(pkt, pick(s))]
    BY DEF StoreAll
  <2>2. here(s) # {} => pick(s) \in here(s)
    OBVIOUS
  <2>3. here(s) # {} => pick(s) \in frames
    BY <2>2
  <2>4. ring[s] \in InputSlot
    BY DEF Ring
  <2> HIDE DEF here, pick, all
  <2>5. here(s) # {} => [frame |-> pick(s), present |-> TRUE,
                         input |-> Sample(pkt, pick(s))] \in InputSlot
    BY <2>3 DEF InputSlot, FrameOrNone
  <2> QED
    BY <2>1, <2>3, <2>4, <2>5
<1>2. all = [s \in Slots |-> all[s]]
  BY DEF StoreAll
<1> HIDE DEF all, here, pick
<1>3. all \in Ring
  BY <1>1, <1>2 DEF Ring
<1>4. ASSUME NEW g \in Nat, Present(all, g)
      PROVE  \/ g \in frames /\ InputAt(all, g) = Sample(pkt, g)
             \/ Present(ring, g) /\ InputAt(all, g) = InputAt(ring, g)
  <2> DEFINE s == g % History
  <2>1. s \in Slots
    BY SlotOf
  <2>2. all[s].frame = g /\ all[s].present /\ InputAt(all, g) = all[s].input
    BY <1>4 DEF Present, InputAt
  <2>3. CASE here(s) = {}
    BY <1>1, <2>1, <2>2, <2>3 DEF Present, InputAt
  <2>4. CASE here(s) # {}
    <3>1. /\ pick(s) \in frames
          /\ all[s] = [frame |-> pick(s), present |-> TRUE,
                       input |-> Sample(pkt, pick(s))]
      BY <1>1, <2>1, <2>4
    <3> HIDE DEF s
    <3>2. pick(s) = g /\ InputAt(all, g) = Sample(pkt, pick(s))
      BY <2>2, <3>1
    <3> QED
      BY <3>1, <3>2
  <2> QED
    BY <2>3, <2>4
<1> QED
  BY <1>3, <1>4 DEF all

(* What a slot holds after Store and after StoreAll. *)
LEMMA StoreSlots ==
  ASSUME NEW ring \in Ring, NEW f \in Nat, NEW v \in Input
  PROVE  \A s \in Slots :
           \/ Store(ring, f, v)[s] = ring[s]
           \/ /\ s = f % History /\ Store(ring, f, v)[s].frame = f
              /\ Store(ring, f, v)[s].present
<1>1. f % History \in Slots
  BY SlotOf
<1> QED
  BY <1>1 DEF Store, Ring

LEMMA StoreAllSlots ==
  ASSUME NEW ring, NEW pkt, NEW frames
  PROVE  \A s \in Slots :
           \/ StoreAll(ring, frames, pkt)[s] = ring[s]
           \/ \E f \in frames : /\ f % History = s
                                /\ StoreAll(ring, frames, pkt)[s].frame = f
                                /\ StoreAll(ring, frames, pkt)[s].present
<1> SUFFICES ASSUME NEW s \in Slots
             PROVE  \/ StoreAll(ring, frames, pkt)[s] = ring[s]
                    \/ \E f \in frames :
                         /\ f % History = s
                         /\ StoreAll(ring, frames, pkt)[s].frame = f
                         /\ StoreAll(ring, frames, pkt)[s].present
  OBVIOUS
<1> DEFINE here == {f \in frames : f % History = s}
           pick == CHOOSE f \in here : TRUE
           slot == StoreAll(ring, frames, pkt)[s]
<1>1. slot = IF here = {} THEN ring[s]
             ELSE [frame |-> pick, present |-> TRUE, input |-> Sample(pkt, pick)]
  BY DEF StoreAll
<1>2. here # {} => pick \in frames /\ pick % History = s
  <2>1. here # {} => pick \in here
    OBVIOUS
  <2> QED
    BY <2>1
<1> HIDE DEF here, pick
<1>3. here # {} => slot.frame = pick /\ slot.present
  BY <1>1
<1> QED
  BY <1>1, <1>2, <1>3

---------------------------------------------------------------------------
(* Types of the decisions. *)

(* A prediction repeats a sample of the history or is neutral. *)
LEMMA PredictInputType ==
  ASSUME NEW c \in Core, NEW q \in Player, NEW f \in Nat
  PROVE  PredictInput(c, q, f) \in Input
<1> DEFINE known == KnownDistances(c, q, f)
           dist == CHOOSE d \in known : \A e \in known : d <= e
<1>1. known \subseteq 1 .. History /\ known \subseteq 1 .. f
  BY CoreAssumption DEF KnownDistances, Smaller
<1>2. CASE known = {}
  BY <1>2, CoreAssumption DEF PredictInput
<1>3. CASE known # {}
  <2>1. known \subseteq Nat
    BY <1>1
  <2>2. \E d \in known : \A e \in known : d <= e
    BY <1>3, <2>1, LeastElement
  <2>3. dist \in known
    BY <2>2
  <2>4. dist \in 1 .. History /\ f - dist \in Int
    BY <1>1, <2>3, CoreAssumption
  <2>5. PredictInput(c, q, f) = PredictFrom(InputAt(c.inputs[q], f - dist), dist)
    BY <1>3 DEF PredictInput
  <2> HIDE DEF known, dist
  <2>6. (f - dist) % History \in Slots
    BY <2>4, SlotOf
  <2>7. InputAt(c.inputs[q], f - dist) \in Input
    BY <2>6 DEF InputAt, Core, Ring, InputSlot
  <2> QED
    BY <2>4, <2>5, <2>7, CoreAssumption
<1> QED
  BY <1>2, <1>3

LEMMA PrepareFrameType ==
  ASSUME NEW c \in Core, NEW f \in Nat
  PROVE  PrepareFrame(c, f) \in UsedSlot
<1>1. f % History \in Slots
  BY SlotOf
<1>2. ASSUME NEW q \in Player
      PROVE  (IF Present(c.inputs[q], f) THEN InputAt(c.inputs[q], f)
              ELSE PredictInput(c, q, f)) \in Input
  <2>1. InputAt(c.inputs[q], f) \in Input
    BY <1>1 DEF InputAt, Core, Ring, InputSlot
  <2> QED
    BY <2>1, PredictInputType
<1> QED
  BY <1>2 DEF PrepareFrame, UsedSlot, FrameOrNone

LEMMA EmptySlotType == EmptySlot \in InputSlot /\ EmptyUsed \in UsedSlot
  BY CoreAssumption DEF EmptySlot, EmptyUsed, InputSlot, UsedSlot, FrameOrNone

---------------------------------------------------------------------------
(* What each method changes and what it leaves alone. *)

LEMMA ResetCoreType ==
  ASSUME NEW me \in Player
  PROVE  /\ ResetCore(me) \in Core
         /\ \A q \in Player, f \in Nat :
              Present(ResetCore(me).inputs[q], f) =>
                /\ q = me /\ f < InputDelay
                /\ InputAt(ResetCore(me).inputs[q], f) = Neutral
<1> DEFINE c == ResetCore(me)
           slot(q, s) == IF q = me /\ s < InputDelay
                         THEN [frame |-> s, present |-> TRUE, input |-> Neutral]
                         ELSE EmptySlot
<1>1. ASSUME NEW q \in Player, NEW s \in Slots PROVE slot(q, s) \in InputSlot
  BY EmptySlotType, CoreAssumption DEF Slots, InputSlot, FrameOrNone
<1>2. c.inputs = [q \in Player |-> [s \in Slots |-> slot(q, s)]]
  BY DEF ResetCore
<1>3. c.inputs \in [Player -> Ring]
  BY <1>1, <1>2 DEF Ring
<1>4. InputDelay - 1 \in FrameOrNone /\ None \in FrameOrNone
  BY CoreAssumption DEF FrameOrNone, None
<1>5. c \in Core
  <2>1. c.used \in [Slots -> UsedSlot]
    BY EmptySlotType DEF ResetCore
  <2>2. c.confirmed \in [Player -> FrameOrNone]
    BY <1>4 DEF ResetCore
  <2>3. c.peerAck \in [Player -> FrameOrNone]
    BY <1>4 DEF ResetCore
  <2> QED
    BY <1>3, <1>4, <2>1, <2>2, <2>3 DEF Core, ResetCore
<1>6. ASSUME NEW q \in Player, NEW f \in Nat, Present(c.inputs[q], f)
      PROVE  q = me /\ f < InputDelay /\ InputAt(c.inputs[q], f) = Neutral
  <2>1. f % History \in Slots
    BY SlotOf
  <2>2. slot(q, f % History).present /\ slot(q, f % History).frame = f
    BY <1>2, <1>6, <2>1 DEF Present
  <2>3. InputAt(c.inputs[q], f) = slot(q, f % History).input
    BY <1>2, <2>1 DEF InputAt
  <2> QED
    BY <2>2, <2>3 DEF EmptySlot
<1> QED
  BY <1>5, <1>6

LEMMA ScheduleEffect ==
  ASSUME NEW c \in Core, NEW k \in Nat, NEW v \in Input
  PROVE  LET d == ScheduleLocalInput(c, k, v)
             f == LocalFrameForCapture(k)
         IN  /\ f \in Nat
             /\ d \in Core
             /\ d.me = c.me /\ d.used = c.used /\ d.last = c.last
             /\ d.rollback = c.rollback /\ d.peerAck = c.peerAck
             /\ \A q \in Player \ {c.me} :
                  d.inputs[q] = c.inputs[q] /\ d.confirmed[q] = c.confirmed[q]
             /\ d.inputs[c.me] = Store(c.inputs[c.me], f, v)
             /\ d.confirmed[c.me] = Advanced(d.inputs[c.me], c.confirmed[c.me])
<1> DEFINE f == LocalFrameForCapture(k)
           ring == Store(c.inputs[c.me], f, v)
           front == Advanced(ring, c.confirmed[c.me])
           d == ScheduleLocalInput(c, k, v)
           q == c.me
<1>1. f \in Nat
  BY CoreAssumption DEF LocalFrameForCapture
<1>2. q \in Player /\ c.inputs[q] \in Ring /\ c.confirmed[q] \in FrameOrNone
  BY DEF Core
<1>3. ring \in Ring
  BY <1>1, <1>2, StoreKeeps
<1>4. front \in FrameOrNone
  BY <1>2, AdvancedRun
<1>5. d = [c EXCEPT !.inputs[q] = ring, !.confirmed[q] = front]
  BY DEF ScheduleLocalInput
<1>6. /\ d \in Core
      /\ d.me = c.me /\ d.used = c.used /\ d.last = c.last
      /\ d.rollback = c.rollback /\ d.peerAck = c.peerAck
      /\ d.inputs = [c.inputs EXCEPT ![q] = ring]
      /\ d.confirmed = [c.confirmed EXCEPT ![q] = front]
  <2> HIDE DEF ring, front, d, q, f
  <2> QED
    BY <1>2, <1>3, <1>4, <1>5 DEF Core
<1>7. /\ \A r \in Player \ {q} :
           d.inputs[r] = c.inputs[r] /\ d.confirmed[r] = c.confirmed[r]
      /\ d.inputs[q] = ring /\ d.confirmed[q] = front
  <2>1. /\ c.inputs \in [Player -> Ring]
        /\ c.confirmed \in [Player -> FrameOrNone]
    BY DEF Core
  <2> HIDE DEF ring, front, d, q
  <2> QED
    BY <1>2, <1>6, <2>1
<1> QED
  BY <1>1, <1>6, <1>7

(* SetLocalLeadInInput replaces one sample of the local player. *)
LEMMA LeadInEffect ==
  ASSUME NEW c \in Core, NEW f \in Nat, NEW v \in Input
  PROVE  LET d == SetLocalLeadInInput(c, f, v)
         IN  /\ d \in Core
             /\ d.me = c.me /\ d.used = c.used /\ d.last = c.last
             /\ d.rollback = c.rollback /\ d.peerAck = c.peerAck
             /\ d.confirmed = c.confirmed
             /\ \A q \in Player \ {c.me} : d.inputs[q] = c.inputs[q]
             /\ d.inputs[c.me] = Store(c.inputs[c.me], f, v)
<1> DEFINE ring == Store(c.inputs[c.me], f, v)
           d == SetLocalLeadInInput(c, f, v)
           q == c.me
<1>1. q \in Player /\ c.inputs[q] \in Ring /\ c.inputs \in [Player -> Ring]
  BY DEF Core
<1>2. ring \in Ring
  BY <1>1, StoreKeeps
<1>3. d = [c EXCEPT !.inputs[q] = ring]
  BY DEF SetLocalLeadInInput
<1>4. /\ d \in Core
      /\ d.me = c.me /\ d.used = c.used /\ d.last = c.last
      /\ d.rollback = c.rollback /\ d.peerAck = c.peerAck
      /\ d.confirmed = c.confirmed
      /\ d.inputs = [c.inputs EXCEPT ![q] = ring]
  <2> HIDE DEF ring, d, q
  <2> QED
    BY <1>1, <1>2, <1>3 DEF Core
<1>5. /\ \A r \in Player \ {q} : d.inputs[r] = c.inputs[r]
      /\ d.inputs[q] = ring
  <2> HIDE DEF ring, d, q
  <2> QED
    BY <1>1, <1>4
<1> QED
  BY <1>4, <1>5

LEMMA MarkSimulatedEffect ==
  ASSUME NEW c \in Core, NEW f \in Nat
  PROVE  LET d == MarkSimulated(c, f)
         IN  /\ d \in Core
             /\ d.me = c.me /\ d.inputs = c.inputs
             /\ d.confirmed = c.confirmed /\ d.peerAck = c.peerAck
             /\ d.rollback = c.rollback
             /\ d.last = Larger(c.last, f)
             /\ d.used = [c.used EXCEPT ![f % History] = PrepareFrame(c, f)]
<1> DEFINE new == PrepareFrame(c, f)
           s == f % History
           d == MarkSimulated(c, f)
           n == Larger(c.last, f)
<1>1. new \in UsedSlot /\ s \in Slots
  BY PrepareFrameType, SlotOf
<1>2. n \in FrameOrNone
  BY DEF Core, Larger, FrameOrNone
<1>3. d = [c EXCEPT !.used[s] = new, !.last = n]
  BY DEF MarkSimulated
<1> HIDE DEF new, s, d, n
<1>4. /\ d \in Core
      /\ d.me = c.me /\ d.inputs = c.inputs
      /\ d.confirmed = c.confirmed /\ d.peerAck = c.peerAck
      /\ d.rollback = c.rollback
      /\ d.last = n
      /\ d.used = [c.used EXCEPT ![s] = new]
  BY <1>1, <1>2, <1>3 DEF Core
<1> QED
  BY <1>4 DEF new, s, d, n

LEMMA RewindEffect ==
  ASSUME NEW c \in Core, NEW first \in Nat
  PROVE  LET d == RewindSimulationTo(c, first)
         IN  /\ d \in Core
             /\ d.me = c.me /\ d.inputs = c.inputs
             /\ d.confirmed = c.confirmed /\ d.peerAck = c.peerAck
             /\ d.rollback = None /\ d.last = first - 1
             /\ \A s \in Slots :
                  d.used[s] = IF c.used[s].frame >= first THEN EmptyUsed
                              ELSE c.used[s]
<1> DEFINE all == [s \in Slots |-> IF c.used[s].frame >= first THEN EmptyUsed
                                   ELSE c.used[s]]
           d == RewindSimulationTo(c, first)
<1>1. all \in [Slots -> UsedSlot]
  BY EmptySlotType DEF Core
<1>2. first - 1 \in FrameOrNone /\ None \in FrameOrNone
  BY DEF FrameOrNone, None
<1>3. d = [c EXCEPT !.used = all, !.last = first - 1, !.rollback = None]
  BY DEF RewindSimulationTo, Core
<1>4. \A s \in Slots : all[s] = IF c.used[s].frame >= first THEN EmptyUsed
                                ELSE c.used[s]
  OBVIOUS
<1> HIDE DEF all, d
<1>5. /\ d \in Core
      /\ d.me = c.me /\ d.inputs = c.inputs
      /\ d.confirmed = c.confirmed /\ d.peerAck = c.peerAck
      /\ d.rollback = None /\ d.last = first - 1 /\ d.used = all
  BY <1>1, <1>2, <1>3 DEF Core
<1> QED
  BY <1>4, <1>5 DEF d

---------------------------------------------------------------------------
(* Remote input. *)

(* A packet changes the ring, the frontiers and the request of one player; *)
(* the request becomes the earliest of the pending one and the             *)
(* mispredictions the packet reveals.                                      *)
LEMMA ApplyEffect ==
  ASSUME NEW c \in Core, NEW pkt, NEW q \in Player, q = pkt.from,
         pkt.ack \in FrameOrNone, PacketFrames(pkt) \subseteq Nat,
         \A f \in PacketFrames(pkt) : Sample(pkt, f) \in Input
  PROVE  LET d     == ApplyInputPacket(c, pkt)
             fresh == FreshFrames(c, pkt)
             wrong == {f \in fresh : Mispredicted(c, q, f, Sample(pkt, f))}
         IN  /\ d \in Core
             /\ d.me = c.me /\ d.used = c.used /\ d.last = c.last
             /\ \A r \in Player \ {q} :
                  d.inputs[r] = c.inputs[r] /\ d.confirmed[r] = c.confirmed[r]
             /\ d.inputs[q] = StoreAll(c.inputs[q], fresh, pkt)
             /\ d.confirmed[q] = Advanced(d.inputs[q], c.confirmed[q])
             /\ d.rollback = c.rollback \/ d.rollback \in wrong
             /\ \A f \in wrong : d.rollback # None /\ d.rollback <= f
             /\ c.rollback # None =>
                  d.rollback # None /\ d.rollback <= c.rollback
<1> DEFINE fresh == FreshFrames(c, pkt)
           wrong == {f \in fresh : Mispredicted(c, q, f, Sample(pkt, f))}
           ring  == StoreAll(c.inputs[q], fresh, pkt)
           front == Advanced(ring, c.confirmed[q])
           ack   == Larger(c.peerAck[q], pkt.ack)
           due   == wrong \cup ({c.rollback} \ {None})
           back  == IF wrong = {} THEN c.rollback ELSE Least(due)
           d     == ApplyInputPacket(c, pkt)
<1>1. /\ c.inputs \in [Player -> Ring] /\ c.rollback \in FrameOrNone
      /\ c.confirmed \in [Player -> FrameOrNone]
      /\ c.peerAck \in [Player -> FrameOrNone]
  BY DEF Core
<1>2. fresh \subseteq PacketFrames(pkt) /\ fresh \subseteq Nat
  BY DEF FreshFrames
<1>3. ring \in Ring
  <2> DEFINE old == c.inputs[q]
  <2>1. old \in Ring
    BY <1>1
  <2>2. \A f \in fresh : Sample(pkt, f) \in Input
    BY <1>2
  <2>3. fresh \in SUBSET Nat
    BY <1>2
  <2> HIDE DEF fresh, old
  <2>4. StoreAll(old, fresh, pkt) \in Ring
    BY <2>1, <2>2, <2>3, StoreAllKeeps, Zenon
  <2> QED
    BY <2>4 DEF old
<1>4. front \in FrameOrNone
  <2>1. c.confirmed[q] \in FrameOrNone
    BY <1>1
  <2> HIDE DEF ring
  <2> QED
    BY <2>1, AdvancedRun
<1>5. ack \in FrameOrNone
  BY <1>1 DEF Larger
<1>6. /\ back \in FrameOrNone
      /\ back = c.rollback \/ back \in wrong
      /\ \A f \in wrong : back # None /\ back <= f
      /\ c.rollback # None => back # None /\ back <= c.rollback
  <2>1. due \subseteq Nat /\ wrong \subseteq Nat
    BY <1>1, <1>2 DEF FrameOrNone
  <2>2. CASE wrong = {}
    <3>1. back = c.rollback
      BY <2>2
    <3> HIDE DEF back, wrong
    <3> QED
      BY <1>1, <2>2, <3>1 DEF FrameOrNone, None
  <2>3. CASE wrong # {}
    <3>1. due # {} /\ wrong \subseteq due
      BY <2>3
    <3>2. c.rollback # None => c.rollback \in due
      OBVIOUS
    <3>3. due \subseteq wrong \cup {c.rollback}
      OBVIOUS
    <3>4. back = Least(due)
      BY <2>3
    <3> HIDE DEF back, due, wrong
    <3>5. Least(due) \in due /\ \A y \in due : Least(due) <= y
      BY <2>1, <3>1, LeastMember
    <3>6. back \in due /\ \A y \in due : back <= y
      BY <3>4, <3>5
    <3>7. back \in Nat /\ back # None
      BY <2>1, <3>6 DEF None
    <3>8. back = c.rollback \/ back \in wrong
      BY <3>3, <3>6
    <3>9. \A f \in wrong : back <= f
      BY <3>1, <3>6
    <3>10. c.rollback # None => back <= c.rollback
      BY <3>2, <3>6
    <3> QED
      BY <3>7, <3>8, <3>9, <3>10 DEF FrameOrNone
  <2> QED
    BY <2>2, <2>3
<1>7. d = [c EXCEPT !.peerAck[q] = ack, !.inputs[q] = ring,
                    !.confirmed[q] = front, !.rollback = back]
  BY DEF ApplyInputPacket
<1>8. /\ d \in Core
      /\ d.me = c.me /\ d.used = c.used /\ d.last = c.last
      /\ d.rollback = back
      /\ d.inputs = [c.inputs EXCEPT ![q] = ring]
      /\ d.confirmed = [c.confirmed EXCEPT ![q] = front]
  <2> HIDE DEF fresh, wrong, ring, front, ack, due, back, d
  <2> QED
    BY <1>3, <1>4, <1>5, <1>6, <1>7 DEF Core
<1>9. /\ \A r \in Player \ {q} :
           d.inputs[r] = c.inputs[r] /\ d.confirmed[r] = c.confirmed[r]
      /\ d.inputs[q] = ring /\ d.confirmed[q] = front
  <2> HIDE DEF fresh, wrong, ring, front, ack, due, back, d
  <2> QED
    BY <1>1, <1>8
<1> QED
  BY <1>6, <1>8, <1>9

(* A sample the title proved equivalent is stored without a request, or    *)
(* nothing changes.                                                        *)
LEMMA EquivalentEffect ==
  ASSUME NEW c \in Core, NEW q \in Player, NEW f \in Nat, NEW v \in Input,
         IsPredicted(c, q, f)
  PROVE  LET d == SubmitEquivalentRemoteInput(c, q, f, v)
         IN  \/ d = c
             \/ /\ d \in Core
                /\ d.me = c.me /\ d.used = c.used /\ d.last = c.last
                /\ d.rollback = c.rollback
                /\ \A r \in Player \ {q} :
                     d.inputs[r] = c.inputs[r] /\ d.confirmed[r] = c.confirmed[r]
                /\ d.inputs[q] = Store(c.inputs[q], f, v)
                /\ d.confirmed[q] = Advanced(d.inputs[q], c.confirmed[q])
<1> DEFINE ring  == Store(c.inputs[q], f, v)
           front == Advanced(ring, c.confirmed[q])
           d     == SubmitEquivalentRemoteInput(c, q, f, v)
<1>1. /\ c.inputs \in [Player -> Ring]
      /\ c.confirmed \in [Player -> FrameOrNone]
  BY DEF Core
<1>2. CASE FrameIsTooOld(c, f) \/ Present(c.inputs[q], f)
  BY <1>2 DEF SubmitEquivalentRemoteInput
<1>3. CASE ~ (FrameIsTooOld(c, f) \/ Present(c.inputs[q], f))
  <2>1. d = [c EXCEPT !.inputs[q] = ring, !.confirmed[q] = front]
    BY <1>3 DEF SubmitEquivalentRemoteInput
  <2>2. ring \in Ring
    BY <1>1, StoreKeeps
  <2>3. front \in FrameOrNone
    <3>1. c.confirmed[q] \in FrameOrNone
      BY <1>1
    <3> HIDE DEF ring
    <3> QED
      BY <3>1, AdvancedRun
  <2> HIDE DEF ring, front, d
  <2>4. /\ d \in Core
        /\ d.me = c.me /\ d.used = c.used /\ d.last = c.last
        /\ d.rollback = c.rollback
        /\ d.inputs = [c.inputs EXCEPT ![q] = ring]
        /\ d.confirmed = [c.confirmed EXCEPT ![q] = front]
    BY <2>1, <2>2, <2>3 DEF Core
  <2>5. /\ \A r \in Player \ {q} :
             d.inputs[r] = c.inputs[r] /\ d.confirmed[r] = c.confirmed[r]
        /\ d.inputs[q] = ring /\ d.confirmed[q] = front
    BY <1>1, <2>4
  <2> QED
    BY <2>4, <2>5 DEF ring, front, d
<1> QED
  BY <1>2, <1>3

(* The acknowledgement of a packet never takes an older one back. *)
LEMMA ApplyAcks ==
  ASSUME NEW c \in Core, NEW pkt, NEW q \in Player, q = pkt.from
  PROVE  ApplyInputPacket(c, pkt).peerAck
           = [c.peerAck EXCEPT ![q] = Larger(c.peerAck[q], pkt.ack)]
<1> DEFINE fresh == FreshFrames(c, pkt)
           wrong == {f \in fresh : Mispredicted(c, q, f, Sample(pkt, f))}
           ring  == StoreAll(c.inputs[q], fresh, pkt)
           front == Advanced(ring, c.confirmed[q])
           ack   == Larger(c.peerAck[q], pkt.ack)
           due   == wrong \cup ({c.rollback} \ {None})
           back  == IF wrong = {} THEN c.rollback ELSE Least(due)
<1>1. ApplyInputPacket(c, pkt)
        = [c EXCEPT !.peerAck[q] = ack, !.inputs[q] = ring,
                    !.confirmed[q] = front, !.rollback = back]
  BY DEF ApplyInputPacket
<1> HIDE DEF fresh, wrong, ring, front, ack, due, back
<1>2. ApplyInputPacket(c, pkt).peerAck = [c.peerAck EXCEPT ![q] = ack]
  BY <1>1 DEF Core
<1> QED
  BY <1>2 DEF ack

(* A new frontier is the old one, or a present frame beyond it. *)
LEMMA AdvancedPresent ==
  ASSUME NEW ring, NEW from \in FrameOrNone
  PROVE  /\ Advanced(ring, from) \in FrameOrNone
         /\ from <= Advanced(ring, from)
         /\ \/ Advanced(ring, from) = from
            \/ /\ Advanced(ring, from) \in Nat
               /\ Present(ring, Advanced(ring, from))
<1>1. from \in Int /\ from >= None
  BY DEF FrameOrNone, None
<1>2. /\ Advanced(ring, from) \in FrameOrNone
      /\ Advanced(ring, from) \in from .. from + History
      /\ \A f \in from + 1 .. Advanced(ring, from) : Present(ring, f)
  BY AdvancedRun
<1> DEFINE n == Advanced(ring, from)
<1> HIDE DEF n
<1>3. n \in Int /\ from <= n
  BY <1>1, <1>2, CoreAssumption DEF n
<1>4. ASSUME n # from
      PROVE  n \in Nat /\ Present(ring, n)
  <2>1. n \in from + 1 .. n /\ n \in Nat
    BY <1>1, <1>3, <1>4 DEF None
  <2> QED
    BY <1>2, <2>1 DEF n
<1> QED
  BY <1>2, <1>3, <1>4 DEF n

LEMMA ResetFields ==
  ASSUME NEW me \in Player
  PROVE  /\ ResetCore(me).me = me
         /\ ResetCore(me).last = None /\ ResetCore(me).rollback = None
         /\ \A q \in Player :
              /\ ResetCore(me).peerAck[q] = None
              /\ ResetCore(me).confirmed[q]
                   = IF q = me THEN InputDelay - 1 ELSE None
BY DEF ResetCore

---------------------------------------------------------------------------
(* The loop over the samples of a packet: ApplyInputPacket stores them all *)
(* at once, SamplesOneByOne one after the other.                           *)

(* The frontier is the only frame that ends a run of present ones.         *)
LEMMA AdvancedUnique ==
  ASSUME NEW ring, NEW from \in FrameOrNone, NEW n \in Int, from <= n,
         \A g \in from + 1 .. n : Present(ring, g), ~ Present(ring, n + 1)
  PROVE  Advanced(ring, from) = n
<1> DEFINE m == Advanced(ring, from)
<1>1. /\ m \in from .. from + History
      /\ \A g \in from + 1 .. m : Present(ring, g)
      /\ ~ Present(ring, m + 1)
  BY AdvancedRun
<1>2. from \in Int /\ m \in Int /\ from <= m
  BY <1>1, CoreAssumption DEF FrameOrNone, None
<1> HIDE DEF m
<1>3. ~ (m < n)
  <2>1. m < n => m + 1 \in from + 1 .. n
    BY <1>2
  <2> QED
    BY <1>1, <2>1
<1>4. ~ (n < m)
  <2>1. n < m => n + 1 \in from + 1 .. m
    BY <1>2
  <2> QED
    BY <1>1, <2>1
<1> QED
  BY <1>2, <1>3, <1>4 DEF m

(* A frontier may be advanced in two steps, when the frames of the first   *)
(* are still present at the second.                                        *)
LEMMA AdvancedTwice ==
  ASSUME NEW ring, NEW next, NEW from \in FrameOrNone,
         \A g \in from + 1 .. Advanced(ring, from) : Present(next, g)
  PROVE  Advanced(next, Advanced(ring, from)) = Advanced(next, from)
<1> DEFINE m == Advanced(ring, from)
           n == Advanced(next, m)
<1>1. m \in from .. from + History /\ m \in FrameOrNone
  BY AdvancedRun
<1>2. from \in Int /\ m \in Int /\ from <= m
  BY <1>1, CoreAssumption DEF FrameOrNone, None
<1> HIDE DEF m
<1>3. /\ n \in m .. m + History
      /\ \A g \in m + 1 .. n : Present(next, g)
      /\ ~ Present(next, n + 1)
  BY <1>1, AdvancedRun
<1>4. n \in Int /\ m <= n
  BY <1>2, <1>3, CoreAssumption
<1> HIDE DEF n
<1>5. ASSUME NEW g \in from + 1 .. n PROVE Present(next, g)
  <2>1. g \in from + 1 .. m \/ g \in m + 1 .. n
    BY <1>2, <1>4
  <2> QED
    BY <1>3, <2>1 DEF m
<1>6. Advanced(next, from) = n
  BY <1>2, <1>3, <1>4, <1>5, AdvancedUnique
<1> QED
  BY <1>6 DEF m, n

(* A sample stored after others of its packet is stored with them.         *)
LEMMA StoreNext ==
  ASSUME NEW ring \in Ring, NEW pkt, NEW frames, NEW f \in Nat,
         \A g \in frames : g % History # f % History
  PROVE  /\ StoreAll(ring, frames, pkt)[f % History] = ring[f % History]
         /\ Store(StoreAll(ring, frames, pkt), f, Sample(pkt, f))
              = StoreAll(ring, frames \cup {f}, pkt)
<1> DEFINE here(s, F) == {g \in F : g % History = s}
           pick(s, F) == CHOOSE g \in here(s, F) : TRUE
           slot(g) == [frame |-> g, present |-> TRUE, input |-> Sample(pkt, g)]
           more == frames \cup {f}
           old == StoreAll(ring, frames, pkt)
           all == StoreAll(ring, more, pkt)
<1>0. f % History \in Slots
  BY SlotOf
<1>1. /\ old = [s \in Slots |-> IF here(s, frames) = {} THEN ring[s]
                                ELSE slot(pick(s, frames))]
      /\ all = [s \in Slots |-> IF here(s, more) = {} THEN ring[s]
                                ELSE slot(pick(s, more))]
  BY DEF StoreAll
<1>2. here(f % History, frames) = {} /\ here(f % History, more) = {f}
  OBVIOUS
<1>3. pick(f % History, more) = f
  <2> HIDE DEF here
  <2> QED
    BY <1>2
<1>4. \A s \in Slots : s # f % History => here(s, more) = here(s, frames)
  OBVIOUS
<1>5. old[f % History] = ring[f % History]
  <2> HIDE DEF here, pick, slot, old, all
  <2> QED
    BY <1>0, <1>1, <1>2
<1>6. Store(old, f, Sample(pkt, f)) = [old EXCEPT ![f % History] = slot(f)]
  BY DEF Store
<1>7. ASSUME NEW s \in Slots
      PROVE  [old EXCEPT ![f % History] = slot(f)][s] = all[s]
  <2>1. CASE s = f % History
    <3> HIDE DEF here, pick, slot, more
    <3>1. all[s] = slot(f) /\ DOMAIN old = Slots
      BY <1>1, <1>2, <1>3, <2>1
    <3> HIDE DEF old, all
    <3> QED
      BY <2>1, <3>1
  <2>2. CASE s # f % History
    <3>1. here(s, more) = here(s, frames)
      BY <1>4, <2>2
    <3>2. pick(s, more) = pick(s, frames)
      <4> HIDE DEF here
      <4> QED
        BY <3>1
    <3> HIDE DEF here, pick, slot, more
    <3>3. all[s] = old[s] /\ DOMAIN old = Slots
      BY <1>1, <3>1, <3>2
    <3> HIDE DEF old, all
    <3> QED
      BY <2>2, <3>3
  <2> QED
    BY <2>1, <2>2
<1>8. [old EXCEPT ![f % History] = slot(f)] = all
  <2> DEFINE new == [old EXCEPT ![f % History] = slot(f)]
  <2>1. new = [s \in Slots |-> new[s]]
    <3>1. DOMAIN old = Slots
      BY DEF StoreAll
    <3> HIDE DEF old, slot
    <3> QED
      BY <3>1
  <2>2. all = [s \in Slots |-> all[s]]
    BY DEF StoreAll
  <2>3. \A s \in Slots : new[s] = all[s]
    BY <1>7
  <2> HIDE DEF new, all
  <2>4. new = all
    BY <2>1, <2>2, <2>3
  <2> QED
    BY <2>4 DEF new
<1> HIDE DEF old, all, slot
<1> QED
  BY <1>5, <1>6, <1>8 DEF old, all, more

LEMMA LeastIs ==
  ASSUME NEW T, T \subseteq Nat, NEW x \in T, \A y \in T : x <= y
  PROVE  Least(T) = x
<1>1. Least(T) \in T /\ \A y \in T : Least(T) <= y
  BY LeastMember
<1>2. Least(T) \in Nat /\ x \in Nat /\ Least(T) <= x /\ x <= Least(T)
  BY <1>1
<1> QED
  BY <1>2

(* The request after the mispredictions of the frames `wrong', when r was  *)
(* pending.                                                                *)
Requested(r, wrong) ==
  IF wrong = {} THEN r ELSE Least(wrong \cup ({r} \ {None}))

(* The earliest request, one misprediction after the other in the order of *)
(* their frames.                                                           *)
LEMMA RequestedNext ==
  ASSUME NEW r \in FrameOrNone, NEW wrong \in SUBSET Nat, NEW f \in Nat,
         \A g \in wrong : g < f
  PROVE  LET now == Requested(r, wrong)
         IN  Requested(r, wrong \cup {f})
               = IF now = None \/ f < now THEN f ELSE now
<1> DEFINE now == Requested(r, wrong)
           more == wrong \cup {f}
           due == wrong \cup ({r} \ {None})
           all == more \cup ({r} \ {None})
<1>1. due \subseteq Nat /\ all \subseteq Nat /\ all = due \cup {f}
  BY DEF FrameOrNone
<1>2. Requested(r, more) = Least(all)
  BY DEF Requested
<1>3. r # None => r \in due
  OBVIOUS
<1>4. wrong = {} => now = r /\ due = {r} \ {None}
  <2>1. wrong = {} => now = r
    BY DEF Requested
  <2>2. wrong = {} => due = {r} \ {None}
    OBVIOUS
  <2> QED
    BY <2>1, <2>2
<1>5. wrong # {} => now = Least(due)
  BY DEF Requested
<1>6. wrong \subseteq due
  OBVIOUS
<1> HIDE DEF now, more, due, all
<1>7. CASE wrong # {}
  <2>1. now \in due /\ \A y \in due : now <= y
    BY <1>1, <1>5, <1>6, <1>7, LeastMember, ZenonT(30)
  <2>2. now < f /\ now \in Nat /\ now # None
    <3>1. PICK g \in wrong : TRUE
      BY <1>7
    <3>2. now \in Nat /\ g \in Nat /\ g < f /\ now <= g
      BY <1>1, <1>6, <2>1
    <3> QED
      BY <3>2 DEF None
  <2>3. Least(all) = now
    <3>1. now \in all /\ \A y \in all : now <= y
      BY <1>1, <2>1, <2>2
    <3> QED
      BY <1>1, <3>1, LeastIs
  <2> QED
    BY <1>2, <2>2, <2>3 DEF now, more
<1>8. CASE wrong = {} /\ r = None
  <2>1. due = {} /\ all = {f} /\ now = None
    BY <1>1, <1>4, <1>8
  <2>2. Least(all) = f
    BY <1>1, <2>1, LeastIs
  <2> QED
    BY <1>2, <2>1, <2>2 DEF now, more
<1>9. CASE wrong = {} /\ r # None
  <2>1. due = {r} /\ all = {r, f} /\ now = r /\ r \in Nat
    BY <1>1, <1>4, <1>9 DEF FrameOrNone
  <2>2. Least(all) = IF f < r THEN f ELSE r
    <3>1. CASE f < r
      <4>1. f \in all /\ \A y \in all : f <= y
        BY <2>1, <3>1
      <4> QED
        BY <1>1, <3>1, <4>1, LeastIs
    <3>2. CASE ~ (f < r)
      <4>1. r \in all /\ \A y \in all : r <= y
        BY <2>1, <3>2
      <4> QED
        BY <1>1, <3>2, <4>1, LeastIs
    <3> QED
      BY <3>1, <3>2
  <2> QED
    BY <1>2, <1>9, <2>1, <2>2 DEF now, more
<1> QED
  BY <1>7, <1>8, <1>9

(* The frames whose samples contradict what was simulated. *)
WrongFrames(c, pkt, frames) ==
  {f \in frames : Mispredicted(c, pkt.from, f, Sample(pkt, f))}

(* The core after an acknowledgement, and after a change of one ring.      *)
Acked(c, q, ack) == [c EXCEPT !.peerAck[q] = Larger(@, ack)]

Filled(c, q, ring, front, back) ==
  [c EXCEPT !.inputs[q] = ring, !.confirmed[q] = front, !.rollback = back]

(* The core after the samples of some frames of a packet. *)
AppliedFrames(c, pkt, frames) ==
  LET ring == StoreAll(c.inputs[pkt.from], frames, pkt)
  IN  Filled(Acked(c, pkt.from, pkt.ack), pkt.from, ring,
             Advanced(ring, c.confirmed[pkt.from]),
             Requested(c.rollback, WrongFrames(c, pkt, frames)))

(* What an operator that only replaces fields keeps of a core. *)
CoreShape(d) ==
  /\ d = [me |-> d.me, inputs |-> d.inputs, used |-> d.used,
          confirmed |-> d.confirmed, peerAck |-> d.peerAck,
          last |-> d.last, rollback |-> d.rollback]
  /\ d.inputs = [p \in Player |-> d.inputs[p]]
  /\ d.confirmed = [p \in Player |-> d.confirmed[p]]

LEMMA AckedFields ==
  ASSUME NEW c \in Core, NEW q \in Player, NEW ack
  PROVE  LET d == Acked(c, q, ack)
         IN  /\ d.me = c.me /\ d.used = c.used /\ d.last = c.last
             /\ d.inputs = c.inputs /\ d.confirmed = c.confirmed
             /\ d.rollback = c.rollback
             /\ d.peerAck = [c.peerAck EXCEPT ![q] = Larger(@, ack)]
             /\ CoreShape(d)
  BY DEF Acked, Core, CoreShape

LEMMA FilledFields ==
  ASSUME NEW d, CoreShape(d), NEW q \in Player, NEW ring, NEW front, NEW back
  PROVE  LET e == Filled(d, q, ring, front, back)
         IN  /\ e.me = d.me /\ e.used = d.used /\ e.last = d.last
             /\ e.peerAck = d.peerAck /\ e.rollback = back
             /\ e.inputs = [d.inputs EXCEPT ![q] = ring]
             /\ e.confirmed = [d.confirmed EXCEPT ![q] = front]
             /\ e.inputs[q] = ring /\ e.confirmed[q] = front
             /\ CoreShape(e)
<1> DEFINE e == Filled(d, q, ring, front, back)
<1>1. e = [d EXCEPT !.inputs[q] = ring, !.confirmed[q] = front, !.rollback = back]
  BY DEF Filled
<1> HIDE DEF e
<1>2. /\ e.me = d.me /\ e.used = d.used /\ e.last = d.last
      /\ e.peerAck = d.peerAck /\ e.rollback = back
      /\ e.inputs = [d.inputs EXCEPT ![q] = ring]
      /\ e.confirmed = [d.confirmed EXCEPT ![q] = front]
      /\ e = [me |-> e.me, inputs |-> e.inputs, used |-> e.used,
              confirmed |-> e.confirmed, peerAck |-> e.peerAck,
              last |-> e.last, rollback |-> e.rollback]
  BY <1>1 DEF CoreShape
<1>3. /\ e.inputs[q] = ring /\ e.confirmed[q] = front
      /\ e.inputs = [p \in Player |-> e.inputs[p]]
      /\ e.confirmed = [p \in Player |-> e.confirmed[p]]
  BY <1>2 DEF CoreShape
<1>4. CoreShape(e)
  BY <1>2, <1>3 DEF CoreShape
<1> QED
  BY <1>2, <1>3, <1>4 DEF e

(* Later samples of the packet overwrite what the earlier ones changed.    *)
LEMMA FilledTwice ==
  ASSUME NEW d, CoreShape(d), NEW q \in Player, NEW ring, NEW front, NEW back,
         NEW ring2, NEW front2, NEW back2
  PROVE  Filled(Filled(d, q, ring, front, back), q, ring2, front2, back2)
           = Filled(d, q, ring2, front2, back2)
<1> DEFINE e == Filled(d, q, ring, front, back)
           x == Filled(e, q, ring2, front2, back2)
           y == Filled(d, q, ring2, front2, back2)
<1>1. /\ e.me = d.me /\ e.used = d.used /\ e.last = d.last
      /\ e.peerAck = d.peerAck
      /\ e.inputs = [d.inputs EXCEPT ![q] = ring]
      /\ e.confirmed = [d.confirmed EXCEPT ![q] = front]
      /\ CoreShape(e)
  BY FilledFields
<1> HIDE DEF e
<1>2. /\ x.me = e.me /\ x.used = e.used /\ x.last = e.last
      /\ x.peerAck = e.peerAck /\ x.rollback = back2
      /\ x.inputs = [e.inputs EXCEPT ![q] = ring2]
      /\ x.confirmed = [e.confirmed EXCEPT ![q] = front2]
      /\ CoreShape(x)
  BY <1>1, FilledFields
<1>3. /\ y.me = d.me /\ y.used = d.used /\ y.last = d.last
      /\ y.peerAck = d.peerAck /\ y.rollback = back2
      /\ y.inputs = [d.inputs EXCEPT ![q] = ring2]
      /\ y.confirmed = [d.confirmed EXCEPT ![q] = front2]
      /\ CoreShape(y)
  BY FilledFields
<1> HIDE DEF x, y
<1>4. x.inputs = y.inputs /\ x.confirmed = y.confirmed
  <2>1. \A f, a, b : f = [p \in Player |-> f[p]] =>
          [[f EXCEPT ![q] = a] EXCEPT ![q] = b] = [f EXCEPT ![q] = b]
    OBVIOUS
  <2>2. /\ d.inputs = [p \in Player |-> d.inputs[p]]
        /\ d.confirmed = [p \in Player |-> d.confirmed[p]]
    BY DEF CoreShape
  <2>3. /\ [[d.inputs EXCEPT ![q] = ring] EXCEPT ![q] = ring2]
             = [d.inputs EXCEPT ![q] = ring2]
        /\ [[d.confirmed EXCEPT ![q] = front] EXCEPT ![q] = front2]
             = [d.confirmed EXCEPT ![q] = front2]
    BY <2>2
  <2> QED
    BY <1>1, <1>2, <1>3, <2>3
<1>5. x = y
  BY <1>1, <1>2, <1>3, <1>4 DEF CoreShape
<1> QED
  BY <1>5 DEF e, x, y

(* The fields of AppliedFrames. *)
LEMMA AppliedFields ==
  ASSUME NEW c \in Core, NEW pkt, NEW frames, NEW q \in Player, q = pkt.from
  PROVE  LET d    == AppliedFrames(c, pkt, frames)
             ring == StoreAll(c.inputs[q], frames, pkt)
         IN  /\ d.last = c.last /\ d.used = c.used
             /\ d.inputs[q] = ring
             /\ d.confirmed[q] = Advanced(ring, c.confirmed[q])
             /\ d.rollback = Requested(c.rollback, WrongFrames(c, pkt, frames))
<1> DEFINE ring  == StoreAll(c.inputs[q], frames, pkt)
           front == Advanced(ring, c.confirmed[q])
           back  == Requested(c.rollback, WrongFrames(c, pkt, frames))
           d     == AppliedFrames(c, pkt, frames)
           base  == Acked(c, q, pkt.ack)
<1>1. d = Filled(base, q, ring, front, back)
  BY DEF AppliedFrames
<1>2. /\ base.me = c.me /\ base.used = c.used /\ base.last = c.last
      /\ base.inputs = c.inputs /\ base.confirmed = c.confirmed
      /\ base.rollback = c.rollback
      /\ base.peerAck = [c.peerAck EXCEPT ![q] = Larger(@, pkt.ack)]
      /\ CoreShape(base)
  BY AckedFields
<1> HIDE DEF ring, front, back, d, base
<1>3. /\ d.me = base.me /\ d.used = base.used /\ d.last = base.last
      /\ d.peerAck = base.peerAck /\ d.rollback = back
      /\ d.inputs = [base.inputs EXCEPT ![q] = ring]
      /\ d.confirmed = [base.confirmed EXCEPT ![q] = front]
      /\ d.inputs[q] = ring /\ d.confirmed[q] = front /\ CoreShape(d)
  BY <1>1, <1>2, FilledFields
<1> QED
  BY <1>2, <1>3 DEF d, ring, front, back

(* A packet is the frames of it that are not there yet. *)
LEMMA ApplyIsFresh ==
  ASSUME NEW c \in Core, NEW pkt, NEW q \in Player, q = pkt.from
  PROVE  ApplyInputPacket(c, pkt) = AppliedFrames(c, pkt, FreshFrames(c, pkt))
<1> DEFINE fresh == FreshFrames(c, pkt)
           ring  == StoreAll(c.inputs[q], fresh, pkt)
           front == Advanced(ring, c.confirmed[q])
           wrong == {f \in fresh : Mispredicted(c, q, f, Sample(pkt, f))}
           back  == Requested(c.rollback, wrong)
           base  == Acked(c, q, pkt.ack)
           ack   == Larger(c.peerAck[q], pkt.ack)
           x     == ApplyInputPacket(c, pkt)
           y     == AppliedFrames(c, pkt, fresh)
<1>1. x = [c EXCEPT !.peerAck[q] = ack, !.inputs[q] = ring,
                    !.confirmed[q] = front, !.rollback = back]
  BY DEF ApplyInputPacket, Requested
<1>2. wrong = WrongFrames(c, pkt, fresh)
  BY DEF WrongFrames
<1>3. y = Filled(base, q, ring, front, back)
  BY <1>2 DEF AppliedFrames
<1>4. /\ base.me = c.me /\ base.used = c.used /\ base.last = c.last
      /\ base.inputs = c.inputs /\ base.confirmed = c.confirmed
      /\ base.peerAck = [c.peerAck EXCEPT ![q] = ack] /\ CoreShape(base)
  BY AckedFields
<1> HIDE DEF fresh, ring, front, wrong, back, base, ack, x, y
<1>5. /\ x.me = c.me /\ x.used = c.used /\ x.last = c.last
      /\ x.peerAck = [c.peerAck EXCEPT ![q] = ack] /\ x.rollback = back
      /\ x.inputs = [c.inputs EXCEPT ![q] = ring]
      /\ x.confirmed = [c.confirmed EXCEPT ![q] = front]
      /\ x = [me |-> x.me, inputs |-> x.inputs, used |-> x.used,
              confirmed |-> x.confirmed, peerAck |-> x.peerAck,
              last |-> x.last, rollback |-> x.rollback]
  BY <1>1 DEF Core
<1>6. /\ y.me = base.me /\ y.used = base.used /\ y.last = base.last
      /\ y.peerAck = base.peerAck /\ y.rollback = back
      /\ y.inputs = [base.inputs EXCEPT ![q] = ring]
      /\ y.confirmed = [base.confirmed EXCEPT ![q] = front]
      /\ CoreShape(y)
  BY <1>3, <1>4, FilledFields
<1>7. x = y
  BY <1>4, <1>5, <1>6 DEF CoreShape
<1> QED
  BY <1>7 DEF x, y, fresh

(* Storing a frame that collides with none that is needed keeps the run of *)
(* frames after the frontier.                                              *)
LEMMA RunKept ==
  ASSUME NEW c \in Core, NEW q \in Player, NEW old \in Ring, NEW f \in Nat,
         NEW v, c.last <= c.confirmed[q] + MaxRollback,
         old[f % History] = c.inputs[q][f % History],
         ~ Collides(c, q, f)
  PROVE  LET from == c.confirmed[q]
         IN  \A g \in from + 1 .. Advanced(old, from) : Present(Store(old, f, v), g)
<1> DEFINE from == c.confirmed[q]
           new == Store(old, f, v)
<1>1. from \in FrameOrNone /\ c.last \in FrameOrNone
  BY DEF Core
<1>2. Advanced(old, from) \in Int /\ from \in Int /\ from >= -1 /\ c.last \in Int
      /\ \A g \in from + 1 .. Advanced(old, from) : Present(old, g)
  BY <1>1, AdvancedRun DEF FrameOrNone, None
<1> SUFFICES ASSUME NEW g \in from + 1 .. Advanced(old, from) PROVE Present(new, g)
  OBVIOUS
<1>3. g \in Nat /\ g > from /\ Present(old, g)
  BY <1>2
<1>4. f % History \in Slots /\ g % History \in Slots
  BY <1>3, SlotOf
<1>5. CASE g % History # f % History
  <2>1. new[g % History] = old[g % History]
    BY <1>4, <1>5 DEF Store, Ring
  <2> HIDE DEF new
  <2> QED
    BY <1>3, <2>1 DEF Present
<1>6. CASE g = f
  <2>1. new[f % History] = [frame |-> f, present |-> TRUE, input |-> v]
    BY <1>4 DEF Store, Ring
  <2> HIDE DEF new
  <2> QED
    BY <1>6, <2>1 DEF Present
<1>7. CASE g % History = f % History /\ g # f
  <2> DEFINE s == c.inputs[q][f % History]
  <2>1. s.present /\ s.frame = g
    BY <1>3, <1>7 DEF Present
  <2>2. ~ (g >= OldestRecoverable(c)) /\ g # from
    BY <1>7, <2>1 DEF Collides
  <2>3. OldestRecoverable(c) <= from + 1 /\ OldestRecoverable(c) \in Int
    BY <1>2, CoreAssumption DEF OldestRecoverable
  <2>4. FALSE
    BY <1>2, <1>3, <2>2, <2>3
  <2> QED
    BY <2>4
<1> QED
  BY <1>5, <1>6, <1>7

(* One round of the loop adds one frame.                                   *)
LEMMA LoopStep ==
  ASSUME NEW c \in Core, NEW pkt, NEW q \in Player, q = pkt.from,
         NEW frames \in SUBSET Nat, NEW f \in Nat,
         \A g \in frames : g < f /\ f < g + History,
         \A g \in frames : Sample(pkt, g) \in Input,
         c.last <= c.confirmed[q] + MaxRollback,
         ~ FrameIsTooOld(c, f) => ~ Collides(c, q, f)
  PROVE  LET d == SubmitRemoteInput(AppliedFrames(c, pkt, frames), q, f,
                                    Sample(pkt, f))
         IN  /\ FrameIsTooOld(c, f) \/ Present(c.inputs[q], f) =>
                  d = AppliedFrames(c, pkt, frames)
             /\ ~ (FrameIsTooOld(c, f) \/ Present(c.inputs[q], f)) =>
                  d = AppliedFrames(c, pkt, frames \cup {f})
<1> DEFINE v     == Sample(pkt, f)
           more  == frames \cup {f}
           old   == StoreAll(c.inputs[q], frames, pkt)
           new   == StoreAll(c.inputs[q], more, pkt)
           wrong == WrongFrames(c, pkt, frames)
           wrongs == WrongFrames(c, pkt, more)
           from  == c.confirmed[q]
           r     == c.rollback
           d     == AppliedFrames(c, pkt, frames)
<1>1. /\ c.inputs \in [Player -> Ring] /\ from \in FrameOrNone
      /\ r \in FrameOrNone /\ c.inputs[q] \in Ring
  BY DEF Core
<1>2. /\ d.last = c.last /\ d.used = c.used
      /\ d.inputs[q] = old /\ d.confirmed[q] = Advanced(old, from)
      /\ d.rollback = Requested(r, wrong)
  BY AppliedFields
<1>3. \A g \in frames : g % History # f % History
  <2> SUFFICES ASSUME NEW g \in frames, g % History = f % History PROVE FALSE
    OBVIOUS
  <2>1. g \in Nat /\ g < f /\ f < g + History
    OBVIOUS
  <2>2. g + History <= f
    BY <2>1, SameSlotFar
  <2> QED
    BY <2>1, <2>2, CoreAssumption
<1>4. old[f % History] = c.inputs[q][f % History] /\ Store(old, f, v) = new
  <2> DEFINE was == c.inputs[q]
  <2>1. was \in Ring
    BY <1>1
  <2> HIDE DEF was, v, more, old, new, wrong, wrongs, from, r, d
  <2>2. /\ StoreAll(was, frames, pkt)[f % History] = was[f % History]
        /\ Store(StoreAll(was, frames, pkt), f, Sample(pkt, f))
             = StoreAll(was, frames \cup {f}, pkt)
    BY <1>3, <2>1, StoreNext, ZenonT(30)
  <2> QED
    BY <2>2 DEF was, v, more, old, new
<1>5. old \in Ring
  <2> DEFINE was == c.inputs[q]
  <2>1. was \in Ring
    BY <1>1
  <2> HIDE DEF was
  <2>2. StoreAll(was, frames, pkt) \in Ring
    BY <2>1, StoreAllKeeps
  <2> QED
    BY <2>2 DEF was
<1>6. FrameIsTooOld(d, f) = FrameIsTooOld(c, f)
  BY <1>2 DEF FrameIsTooOld
<1>7. Present(d.inputs[q], f) = Present(c.inputs[q], f)
  <2>1. Present(old, f) = Present(c.inputs[q], f)
    BY <1>4 DEF Present
  <2> QED
    BY <1>2, <2>1
<1>8. CASE FrameIsTooOld(c, f) \/ Present(c.inputs[q], f)
  BY <1>6, <1>7, <1>8 DEF SubmitRemoteInput
<1>9. CASE ~ (FrameIsTooOld(c, f) \/ Present(c.inputs[q], f))
  <2> DEFINE now   == d.rollback
             back  == IF Mispredicted(d, q, f, v) /\ (now = None \/ f < now)
                      THEN f ELSE now
  <2>1. SubmitRemoteInput(d, q, f, v)
          = Filled(d, q, Store(d.inputs[q], f, v),
                   Advanced(Store(d.inputs[q], f, v), d.confirmed[q]), back)
    <3> HIDE DEF d, v
    <3> QED
      BY <1>6, <1>7, <1>9 DEF SubmitRemoteInput, Filled
  <2>2. Store(d.inputs[q], f, v) = new
    BY <1>2, <1>4
  <2>3. Advanced(new, d.confirmed[q]) = Advanced(new, from)
    <3>1. \A g \in from + 1 .. Advanced(old, from) : Present(Store(old, f, v), g)
      <4> HIDE DEF old, v
      <4> QED
        BY <1>4, <1>5, <1>9, RunKept
    <3>2. \A g \in from + 1 .. Advanced(old, from) : Present(new, g)
      BY <1>4, <3>1
    <3> HIDE DEF old, new, from, d
    <3>3. Advanced(new, Advanced(old, from)) = Advanced(new, from)
      BY <1>1, <3>2, AdvancedTwice
    <3> QED
      BY <1>2, <3>3
  <2>4. Mispredicted(d, q, f, v) = Mispredicted(c, q, f, v)
    <3> HIDE DEF d, v
    <3> QED
      BY <1>2 DEF Mispredicted, HasUsed, WasPredicted, UsedInput
  <2>5. back = Requested(r, wrongs)
    <3>1. wrong \in SUBSET Nat /\ \A g \in wrong : g < f
      BY DEF WrongFrames
    <3>2. CASE Mispredicted(c, q, f, v)
      <4>1. wrongs = wrong \cup {f}
        BY <3>2 DEF WrongFrames
      <4> HIDE DEF wrong, wrongs, d, r
      <4>2. LET w == Requested(r, wrong)
            IN  Requested(r, wrong \cup {f})
                  = IF w = None \/ f < w THEN f ELSE w
        BY <1>1, <3>1, RequestedNext, Zenon
      <4> HIDE DEF v
      <4> QED
        BY <1>2, <2>4, <3>2, <4>1, <4>2
    <3>3. CASE ~ Mispredicted(c, q, f, v)
      <4>1. wrongs = wrong
        BY <3>3 DEF WrongFrames
      <4> HIDE DEF wrong, wrongs, d, r, v
      <4> QED
        BY <1>2, <2>4, <3>3, <4>1
    <3> QED
      BY <3>2, <3>3
  <2> DEFINE base == Acked(c, q, pkt.ack)
  <2>6. /\ AppliedFrames(c, pkt, more)
             = Filled(base, q, new, Advanced(new, from), Requested(r, wrongs))
        /\ d = Filled(base, q, old, Advanced(old, from), Requested(r, wrong))
        /\ CoreShape(base)
    BY AckedFields DEF AppliedFrames
  <2> HIDE DEF base, d, back, new, wrongs, from, r, v, more, old, wrong
  <2>7. Filled(d, q, new, Advanced(new, from), Requested(r, wrongs))
          = Filled(base, q, new, Advanced(new, from), Requested(r, wrongs))
    BY <2>6, FilledTwice
  <2>8. SubmitRemoteInput(d, q, f, v)
          = Filled(d, q, new, Advanced(new, from), Requested(r, wrongs))
    BY <2>1, <2>2, <2>3, <2>5
  <2>9. SubmitRemoteInput(d, q, f, v) = AppliedFrames(c, pkt, more)
    BY <2>6, <2>7, <2>8
  <2> QED
    BY <1>9, <2>9 DEF d, v, more
<1> QED
  BY <1>8, <1>9

(* The loop ends with the last core of any sequence of cores that goes     *)
(* through it.                                                             *)
LEMMA LoopRuns ==
  ASSUME NEW c, NEW pkt, NEW n \in Nat, n = Len(pkt.inputs),
         NEW run, run = [k \in 0 .. n |-> run[k]],
         run[0] = [c EXCEPT !.peerAck[pkt.from] = Larger(@, pkt.ack)],
         \A k \in 1 .. n :
           run[k] = SubmitRemoteInput(run[k - 1], pkt.from, pkt.first + k - 1,
                                      Sample(pkt, pkt.first + k - 1))
  PROVE  SamplesOneByOne(c, pkt) = run[n]
<1> DEFINE start == [c EXCEPT !.peerAck[pkt.from] = Larger(@, pkt.ack)]
           next(d, k) == SubmitRemoteInput(d, pkt.from, pkt.first + k - 1,
                                           Sample(pkt, pkt.first + k - 1))
           goes(h) == h = [k \in 0 .. n |-> IF k = 0 THEN start ELSE next(h[k - 1], k)]
           after == CHOOSE h : goes(h)
<1>1. SamplesOneByOne(c, pkt) = after[n]
  BY DEF SamplesOneByOne
<1>2. \A k \in 1 .. n : run[k] = next(run[k - 1], k)
  OBVIOUS
<1>3. run[0] = start
  OBVIOUS
<1> HIDE DEF start, next, after
<1>4. goes(run)
  <2>1. ASSUME NEW k \in 0 .. n
        PROVE  run[k] = IF k = 0 THEN start ELSE next(run[k - 1], k)
    <3>1. k = 0 \/ k \in 1 .. n
      OBVIOUS
    <3> QED
      BY <1>2, <1>3, <3>1
  <2> QED
    BY <2>1
<1>5. goes(after)
  BY <1>4 DEF after
<1>6. \A k \in 0 .. n : after[k] = IF k = 0 THEN start ELSE next(after[k - 1], k)
  BY <1>5
<1> HIDE DEF goes
<1> DEFINE differ == {k \in 0 .. n : after[k] # run[k]}
<1>7. differ = {}
  <2> SUFFICES ASSUME differ # {} PROVE FALSE
    OBVIOUS
  <2>1. PICK k \in differ : \A j \in differ : k <= j
    <3>1. differ \subseteq Nat
      OBVIOUS
    <3> HIDE DEF differ
    <3> QED
      BY <3>1, LeastElement
  <2>2. k \in 0 .. n /\ after[k] # run[k]
    OBVIOUS
  <2>3. CASE k = 0
    BY <1>3, <1>6, <2>2, <2>3
  <2>4. CASE k # 0
    <3>1. k \in 1 .. n /\ k - 1 \in 0 .. n /\ k - 1 < k
      BY <2>2, <2>4
    <3>2. k - 1 \notin differ
      BY <2>1, <3>1
    <3>3. after[k - 1] = run[k - 1]
      BY <3>1, <3>2
    <3>4. after[k] = next(after[k - 1], k) /\ run[k] = next(run[k - 1], k)
      BY <1>2, <1>6, <2>2, <2>4, <3>1
    <3> QED
      BY <2>2, <3>3, <3>4
  <2> QED
    BY <2>3, <2>4
<1> QED
  BY <1>1, <1>7

(* Without a sample only the acknowledgement is left. *)
LEMMA AppliedNone ==
  ASSUME NEW c \in Core, NEW pkt, NEW q \in Player, q = pkt.from,
         ~ Present(c.inputs[q], c.confirmed[q] + 1)
  PROVE  AppliedFrames(c, pkt, {}) = Acked(c, q, pkt.ack)
<1> DEFINE ring == c.inputs[q]
           from == c.confirmed[q]
           base == Acked(c, q, pkt.ack)
           x    == AppliedFrames(c, pkt, {})
<1>1. ring \in Ring /\ from \in FrameOrNone
  BY DEF Core
<1>2. StoreAll(ring, {}, pkt) = ring
  <2>1. StoreAll(ring, {}, pkt) = [s \in Slots |-> ring[s]]
    BY DEF StoreAll
  <2> QED
    BY <1>1, <2>1 DEF Ring
<1>3. Advanced(ring, from) = from
  <2>1. from \in Int /\ from <= from /\ \A g \in from + 1 .. from : FALSE
    BY <1>1 DEF FrameOrNone, None
  <2> HIDE DEF ring, from
  <2>2. ~ Present(ring, from + 1)
    BY DEF ring, from
  <2> QED
    BY <1>1, <2>1, <2>2, AdvancedUnique
<1>4. Requested(c.rollback, WrongFrames(c, pkt, {})) = c.rollback
  BY DEF Requested, WrongFrames
<1>5. x = Filled(base, q, ring, from, c.rollback)
  BY <1>2, <1>3, <1>4 DEF AppliedFrames
<1>6. /\ base.me = c.me /\ base.used = c.used /\ base.last = c.last
      /\ base.inputs = c.inputs /\ base.confirmed = c.confirmed
      /\ base.rollback = c.rollback
      /\ base.peerAck = [c.peerAck EXCEPT ![q] = Larger(@, pkt.ack)]
      /\ CoreShape(base)
  BY AckedFields
<1>7. /\ [c.inputs EXCEPT ![q] = ring] = c.inputs
      /\ [c.confirmed EXCEPT ![q] = from] = c.confirmed
  BY DEF Core
<1> HIDE DEF ring, from, base, x
<1>8. /\ x.me = base.me /\ x.used = base.used /\ x.last = base.last
      /\ x.peerAck = base.peerAck /\ x.rollback = c.rollback
      /\ x.inputs = [base.inputs EXCEPT ![q] = ring]
      /\ x.confirmed = [base.confirmed EXCEPT ![q] = from]
      /\ CoreShape(x)
  BY <1>5, <1>6, FilledFields
<1>9. x = base
  BY <1>6, <1>7, <1>8 DEF CoreShape
<1> QED
  BY <1>9 DEF x, base

(* An accepted packet that fits in the ring, stored at once, is the loop   *)
(* over its samples.                                                       *)
LEMMA BatchIsLoop ==
  ASSUME NEW c \in Core, NEW pkt, NEW q \in Player, q = pkt.from,
         pkt.first \in Int, Len(pkt.inputs) \in Nat,
         Len(pkt.inputs) <= MaxRedundant,
         \A f \in PacketFrames(pkt) : f \in Nat /\ Sample(pkt, f) \in Input,
         AcceptsPacket(c, pkt),
         c.last <= c.confirmed[q] + MaxRollback,
         ~ Present(c.inputs[q], c.confirmed[q] + 1)
  PROVE  ApplyInputPacket(c, pkt) = SamplesOneByOne(c, pkt)
<1> DEFINE n       == Len(pkt.inputs)
           first   == pkt.first
           fresh   == FreshFrames(c, pkt)
           part(k) == {f \in fresh : f < first + k}
           run     == [k \in 0 .. n |-> AppliedFrames(c, pkt, part(k))]
<1>1. /\ fresh \subseteq PacketFrames(pkt)
      /\ PacketFrames(pkt) = first .. first + n - 1
  BY DEF FreshFrames, PacketFrames
<1>2. n \in Nat /\ n < History /\ first \in Int /\ History \in Nat
      /\ MaxRedundant \in Nat
  BY CoreAssumption
<1>3. part(0) = {} /\ part(n) = fresh
  <2>1. \A f \in fresh : f \in Int /\ f >= first /\ f < first + n
    BY <1>1, <1>2
  <2> HIDE DEF fresh, n, first
  <2> QED
    BY <1>2, <2>1
<1>4. run[0] = [c EXCEPT !.peerAck[pkt.from] = Larger(@, pkt.ack)]
  <2>1. run[0] = AppliedFrames(c, pkt, part(0))
    <3> HIDE DEF part, n
    <3> QED
      BY <1>2
  <2>2. AppliedFrames(c, pkt, {}) = Acked(c, q, pkt.ack)
    BY AppliedNone
  <2> HIDE DEF run, part
  <2>3. run[0] = Acked(c, q, pkt.ack)
    BY <1>3, <2>1, <2>2
  <2> QED
    BY <2>3 DEF Acked
<1>5. ASSUME NEW k \in 1 .. n
      PROVE  run[k] = SubmitRemoteInput(run[k - 1], pkt.from, first + k - 1,
                                        Sample(pkt, first + k - 1))
  <2> DEFINE f      == first + k - 1
             frames == part(k - 1)
  <2>1. f \in PacketFrames(pkt) /\ k \in 0 .. n /\ k - 1 \in 0 .. n
    <3> HIDE DEF n, first
    <3> QED
      BY <1>1, <1>2
  <2>2. f \in Nat
    BY <2>1
  <2>3. frames \in SUBSET Nat /\ frames \subseteq PacketFrames(pkt)
    BY <1>1
  <2>4. ASSUME NEW g \in frames PROVE g < f /\ f < g + History
    <3>1. g \in first .. first + n - 1 /\ g < first + (k - 1)
      BY <1>1
    <3> HIDE DEF frames, n, first
    <3> QED
      BY <1>2, <3>1
  <2>5. \A g \in frames : Sample(pkt, g) \in Input
    BY <2>3
  <2>6. ~ FrameIsTooOld(c, f) => ~ Collides(c, q, f)
    BY <2>1 DEF AcceptsPacket
  <2>7. part(k) = IF FrameIsTooOld(c, f) \/ Present(c.inputs[q], f)
                  THEN frames ELSE frames \cup {f}
    <3>1. f \in fresh <=> ~ (FrameIsTooOld(c, f) \/ Present(c.inputs[q], f))
      BY <2>1 DEF FreshFrames
    <3>2. \A g \in fresh : g \in Int
      BY <1>1
    <3> HIDE DEF fresh
    <3>3. \A g \in fresh : g < first + k <=> g < first + (k - 1) \/ g = f
      BY <1>2, <3>2
    <3>4. f < first + k
      BY <1>2
    <3>5. part(k) = IF f \in fresh THEN frames \cup {f} ELSE frames
      BY <3>3, <3>4
    <3> HIDE DEF f, frames, part
    <3> QED
      BY <3>1, <3>5
  <2>8. LET d == SubmitRemoteInput(AppliedFrames(c, pkt, frames), q, f,
                                   Sample(pkt, f))
        IN  /\ FrameIsTooOld(c, f) \/ Present(c.inputs[q], f) =>
                 d = AppliedFrames(c, pkt, frames)
            /\ ~ (FrameIsTooOld(c, f) \/ Present(c.inputs[q], f)) =>
                 d = AppliedFrames(c, pkt, frames \cup {f})
    <3>1. /\ \A g \in frames : g < f /\ f < g + History
          /\ frames \in SUBSET Nat
      BY <2>3, <2>4
    <3> HIDE DEF f, frames, part, run, fresh, n, first
    <3> QED
      BY ONLY q = pkt.from, c \in Core, q \in Player,
              c.last <= c.confirmed[q] + MaxRollback,
              <2>2, <2>5, <2>6, <3>1, LoopStep
  <2>9. /\ run[k - 1] = AppliedFrames(c, pkt, frames)
        /\ run[k] = AppliedFrames(c, pkt, part(k))
    <3> HIDE DEF part, n
    <3> QED
      BY <2>1
  <2> HIDE DEF frames, part, run
  <2>10. run[k] = SubmitRemoteInput(run[k - 1], q, f, Sample(pkt, f))
    BY <2>7, <2>8, <2>9
  <2> QED
    BY <2>10 DEF f
<1>6. run[n] = ApplyInputPacket(c, pkt)
  <2>1. run[n] = AppliedFrames(c, pkt, fresh)
    <3> HIDE DEF part, n, fresh
    <3> QED
      BY <1>2, <1>3
  <2> HIDE DEF run
  <2> QED
    BY <2>1, ApplyIsFresh
<1>7. run = [k \in 0 .. n |-> run[k]]
  OBVIOUS
<1> HIDE DEF run
<1>8. SamplesOneByOne(c, pkt) = run[n]
  BY <1>2, <1>4, <1>5, <1>7, LoopRuns, SMTT(30)
<1> QED
  BY <1>6, <1>8
===========================================================================
