------------------------ MODULE SpectatorStreamProofs ------------------------
(***************************************************************************)
(* The stream of a spectator, for every run, ring, window and viewer: what *)
(* is published is the confirmed run, a viewer accepts all of it, the page *)
(* is never at a frame whose world it does not show, and the stream is     *)
(* given up only by a title that ran ahead by the ring, or is asked for an *)
(* input it did not record.                                                *)
(*                                                                         *)
(* The publisher's records follow the title (RecordsOK); the log is a      *)
(* stream in which every event continues the one before (LogOK); a history *)
(* holds what the log told it (HistoryOK, ReadsLog); and the playback      *)
(* stands in a segment of the history (PlaybackOK).  That the inputs of    *)
(* the log, read back in order, are the run (Carries) makes the stream     *)
(* implement SpectatorRun.                                                 *)
(***************************************************************************)
EXTENDS SpectatorStream, SequenceTheorems, FiniteSetTheorems,
        WellFoundedInduction, TLAPS

---------------------------------------------------------------------------
(* Prefixes of a world. *)

LEMMA PrefixFacts ==
  ASSUME NEW S, NEW w \in Seq(S), NEW n \in 0 .. Len(w)
  PROVE  /\ Prefix(w, n) \in Seq(S) /\ Len(Prefix(w, n)) = n
         /\ \A i \in 1 .. n : Prefix(w, n)[i] = w[i]
<1>1. \A i \in 1 .. n : w[i] \in S
  BY ElementOfSeq
<1>2. n \in Int /\ 1 \in Int
  BY LenProperties
<1>3. /\ SubSeq(w, 1, n) \in Seq(S)
      /\ Len(SubSeq(w, 1, n)) = IF 1 <= n THEN n - 1 + 1 ELSE 0
      /\ \A i \in 1 .. n - 1 + 1 : SubSeq(w, 1, n)[i] = w[1 + i - 1]
  BY <1>1, <1>2, SubSeqProperties
<1> QED
  BY <1>3 DEF Prefix

(* Two worlds that agree on n frames have the same prefix. *)
LEMMA SamePrefix ==
  ASSUME NEW S, NEW v \in Seq(S), NEW w \in Seq(S), NEW n \in Nat,
         n <= Len(v), n <= Len(w), \A i \in 1 .. n : v[i] = w[i]
  PROVE  Prefix(v, n) = Prefix(w, n)
<1>1. n \in 0 .. Len(v) /\ n \in 0 .. Len(w)
  OBVIOUS
<1>2. /\ Prefix(v, n) \in Seq(S) /\ Len(Prefix(v, n)) = n
      /\ \A i \in 1 .. n : Prefix(v, n)[i] = v[i]
  BY <1>1, PrefixFacts
<1>3. /\ Prefix(w, n) \in Seq(S) /\ Len(Prefix(w, n)) = n
      /\ \A i \in 1 .. n : Prefix(w, n)[i] = w[i]
  BY <1>1, PrefixFacts
<1> HIDE DEF Prefix
<1> QED
  BY <1>2, <1>3, SeqEqual

(* w' continues v. *)
Extends(v, w) == Len(v) <= Len(w) /\ \A i \in 1 .. Len(v) : v[i] = w[i]

LEMMA ExtendsPrefix ==
  ASSUME NEW S, NEW v \in Seq(S), NEW w \in Seq(S), Extends(v, w),
         NEW n \in 0 .. Len(v)
  PROVE  Prefix(v, n) = Prefix(w, n)
<1>1. n \in Nat /\ n <= Len(v) /\ n <= Len(w)
  BY LenProperties DEF Extends
<1>2. \A i \in 1 .. n : v[i] = w[i]
  BY <1>1 DEF Extends
<1> QED
  BY <1>1, <1>2, SamePrefix

LEMMA PrefixExtends ==
  ASSUME NEW S, NEW w \in Seq(S), NEW m \in 0 .. Len(w), NEW n \in 0 .. m
  PROVE  /\ Extends(Prefix(w, n), Prefix(w, m))
         /\ Extends(Prefix(w, n), w)
         /\ Prefix(Prefix(w, m), n) = Prefix(w, n)
<1>1. n \in 0 .. Len(w) /\ m \in Nat /\ n \in Nat
  BY LenProperties
<1>2. /\ Prefix(w, n) \in Seq(S) /\ Len(Prefix(w, n)) = n
      /\ \A i \in 1 .. n : Prefix(w, n)[i] = w[i]
  BY <1>1, PrefixFacts
<1>3. /\ Prefix(w, m) \in Seq(S) /\ Len(Prefix(w, m)) = m
      /\ \A i \in 1 .. m : Prefix(w, m)[i] = w[i]
  BY PrefixFacts
<1>4. \A i \in 1 .. n : i \in 1 .. m
  BY <1>1
<1> HIDE DEF Prefix
<1>5. Extends(Prefix(w, n), Prefix(w, m)) /\ Extends(Prefix(w, n), w)
  BY <1>1, <1>2, <1>3, <1>4 DEF Extends
<1>6. Extends(Prefix(w, m), w)
  BY <1>1, <1>3 DEF Extends
<1>7. Prefix(Prefix(w, m), n) = Prefix(w, n)
  BY <1>1, <1>3, <1>6, ExtendsPrefix
<1> QED
  BY <1>5, <1>7

LEMMA AppendExtends ==
  ASSUME NEW S, NEW w \in Seq(S), NEW x \in S
  PROVE  /\ Append(w, x) \in Seq(S) /\ Len(Append(w, x)) = Len(w) + 1
         /\ Append(w, x)[Len(w) + 1] = x
         /\ \A i \in 1 .. Len(w) : Append(w, x)[i] = w[i]
         /\ Extends(w, Append(w, x))
         /\ Prefix(Append(w, x), Len(w)) = w
<1>1. /\ Append(w, x) \in Seq(S) /\ Len(Append(w, x)) = Len(w) + 1
      /\ Append(w, x)[Len(w) + 1] = x
      /\ \A i \in 1 .. Len(w) : Append(w, x)[i] = w[i]
  BY AppendProperties
<1>2. Len(w) \in Nat
  BY LenProperties
<1>3. Extends(w, Append(w, x))
  BY <1>1, <1>2 DEF Extends
<1>4. Prefix(w, Len(w)) = w
  BY SubSeqFull DEF Prefix
<1>5. Prefix(w, Len(w)) = Prefix(Append(w, x), Len(w))
  <2>1. Len(w) \in 0 .. Len(w)
    BY <1>2
  <2> QED
    BY <1>1, <1>3, <2>1, ExtendsPrefix
<1> QED
  BY <1>1, <1>3, <1>4, <1>5

(* The world one tick further. *)
LEMMA PrefixTick ==
  ASSUME NEW S, NEW w \in Seq(S), NEW n \in Nat, n < Len(w)
  PROVE  Append(Prefix(w, n), w[n + 1]) = Prefix(w, n + 1) /\ w[n + 1] \in S
<1>0. Len(w) \in Nat
  BY LenProperties
<1>1. n \in 0 .. Len(w) /\ n + 1 \in 0 .. Len(w) /\ n + 1 \in 1 .. Len(w)
  BY <1>0
<1>2. /\ Prefix(w, n) \in Seq(S) /\ Len(Prefix(w, n)) = n
      /\ \A i \in 1 .. n : Prefix(w, n)[i] = w[i]
  BY <1>1, PrefixFacts
<1>3. /\ Prefix(w, n + 1) \in Seq(S) /\ Len(Prefix(w, n + 1)) = n + 1
      /\ \A i \in 1 .. n + 1 : Prefix(w, n + 1)[i] = w[i]
  BY <1>1, PrefixFacts
<1>4. w[n + 1] \in S
  BY <1>1, ElementOfSeq
<1> DEFINE t == Append(Prefix(w, n), w[n + 1])
<1>5. /\ t \in Seq(S) /\ Len(t) = n + 1
      /\ \A i \in 1 .. n : t[i] = w[i]
      /\ t[n + 1] = w[n + 1]
  BY <1>2, <1>4, AppendExtends
<1>6. \A i \in 1 .. n + 1 : t[i] = Prefix(w, n + 1)[i]
  <2>1. \A i \in 1 .. n + 1 : i \in 1 .. n \/ i = n + 1
    OBVIOUS
  <2> HIDE DEF t, Prefix
  <2> QED
    BY <1>3, <1>5, <2>1
<1> HIDE DEF t, Prefix
<1>7. t = Prefix(w, n + 1)
  BY <1>3, <1>5, <1>6, SeqEqual
<1> QED
  BY <1>4, <1>7 DEF t

---------------------------------------------------------------------------
(* Types. *)

StageNumber == {0} \cup {Stage(w) : w \in Seq(Input)}
BossMark == {FALSE} \cup {Boss(w) : w \in Seq(Input)}
World == Seq(Input) \cup {Nothing}

RingRecord ==
  [frame : Nat \cup {INVALID_FRAME}, stage : StageNumber,
   initializer : World, input : Input \cup {Nothing}, boss : BossMark]

Publisher ==
  [records : [0 .. Capacity - 1 -> RingRecord],
   next : Nat, phase : 0 .. 2, stage : StageNumber, serial : Nat,
   checkpoint : Nat, ended : BOOLEAN, retired : BOOLEAN]

TitleTypeOK == confirmed \in Seq(Input) /\ executed \in Seq(Input)

---------------------------------------------------------------------------
(* The records of a publisher p that has confirmed c and executed e. *)

(* A checkpoint is due before frame f of world w. *)
Fresh(w, f) == f = 0 \/ Stage(Prefix(w, f - 1)) # Stage(Prefix(w, f))

(* Record r is what the title records of frame f in world w. *)
Matches(r, w, f) ==
  /\ r.stage = Stage(Prefix(w, f))
  /\ r.initializer = IF Fresh(w, f) THEN Prefix(w, f) ELSE Nothing
  /\ r.input \in {Nothing, w[f + 1]}
  /\ r.boss = Boss(Prefix(w, f + 1))

(* A record is in the slot of its frame. *)
RingOK(p) ==
  \A s \in 0 .. Capacity - 1 :
    p.records[s].frame # INVALID_FRAME => p.records[s].frame % Capacity = s

(* What is executed and not yet published is in the ring. *)
PendingOK(p, e) ==
  \A f \in p.next .. Len(e) - 1 : Holds(p, f) /\ Matches(Slot(p, f), e, f)

(* What is in the ring of the published frames is what was confirmed. *)
PublishedOK(p, c) ==
  \A f \in 0 .. p.next - 1 : Holds(p, f) => Matches(Slot(p, f), c, f)

(* A frame whose publication has begun stays as it was. *)
BegunOK(p, c) ==
  p.phase # 0 => Holds(p, p.next) /\ Matches(Slot(p, p.next), c, p.next)

(* The record before the first unpublished one is there, or the title has  *)
(* run ahead by the whole ring.                                            *)
PredecessorOK(p) == p.next > 0 => Slot(p, p.next - 1).frame >= p.next - 1

(* A record is of a frame that is not further ahead than the ring is long. *)
WithinRing(p) ==
  \A s \in 0 .. Capacity - 1 : p.records[s].frame < p.next + Capacity

StageOK(p, c) ==
  (p.next > 0 \/ p.phase # 0) =>
    p.stage = Stage(Prefix(c, IF p.phase = 0 THEN p.next - 1 ELSE p.next))

RecordsOK(p, c, e) ==
  /\ RingOK(p) /\ PendingOK(p, e) /\ PublishedOK(p, c) /\ BegunOK(p, c)
  /\ PredecessorOK(p) /\ WithinRing(p) /\ StageOK(p, c)

BoundsOK(p, c, e) ==
  /\ p.next <= Len(c)
  /\ p.phase # 0 => p.next < Len(c)
  /\ p.next > 0 \/ p.phase # 0 => p.checkpoint # 0
  /\ p.ended => /\ p.phase = 0 /\ p.checkpoint # 0
                /\ Len(c) = MaxFrame /\ e = c

(* The publisher p of a title that has confirmed c and executed e. *)
PubOK(p, c, e) ==
  /\ p \in Publisher /\ BoundsOK(p, c, e)
  /\ ~p.retired => RecordsOK(p, c, e)

PubInv == TitleTypeOK /\ PubOK(pub, confirmed, executed)

---------------------------------------------------------------------------
(* The log. *)

EventPacket ==
  [kind : {"checkpoint", "node", "end"}, frame : Nat, stage : StageNumber,
   serial : Nat, checkpoint : Nat, state : World]
InputPacket == [kind : {"input"}, frame : Nat, input : Input]
Packet == EventPacket \cup InputPacket

(* The frames whose input publisher p has sent, and the run they make. *)
Published(p) == p.next + (IF p.phase = 2 THEN 1 ELSE 0)
RunOf(p, c) == Prefix(c, Published(p))
TheRun == RunOf(pub, confirmed)

(* The frame a stream is at after a packet. *)
NextAfter(e) == IF e.kind = "input" THEN e.frame + 1 ELSE e.frame

(* What a packet says of run w is true. *)
Tells(e, w) ==
  /\ NextAfter(e) <= Len(w)
  /\ e.kind = "input" => e.input = w[e.frame + 1]
  /\ e.kind = "checkpoint" => e.state = Prefix(w, e.frame)

(* Packet c of a log is the last checkpoint up to packet i. *)
Rules(lg, c, i) ==
  /\ c \in 1 .. i /\ lg[c].kind = "checkpoint"
  /\ \A k \in c + 1 .. i : lg[k].kind # "checkpoint"

Chained(lg) == \A i \in 1 .. Len(lg) - 1 : lg[i + 1].frame = NextAfter(lg[i])

SerialsGrow(lg) ==
  \A i, j \in 1 .. Len(lg) :
    i < j /\ lg[i].kind # "input" /\ lg[j].kind # "input"
      => lg[i].serial < lg[j].serial

CheckpointsGrow(lg) ==
  \A i, j \in 1 .. Len(lg) :
    i < j /\ lg[i].kind = "checkpoint" /\ lg[j].kind = "checkpoint"
      => lg[i].frame < lg[j].frame

(* A node and an end name the stage and the checkpoint they belong to. *)
Belongs(e, c) ==
  /\ e.kind \in {"node", "end"} => e.stage = c.stage
  /\ e.kind = "node" => e.checkpoint = c.serial

Attributed(lg) ==
  \A i \in 1 .. Len(lg) : \A c \in 1 .. i - 1 :
    Rules(lg, c, i - 1) => Belongs(lg[i], lg[c])

EndIsLast(lg) == \A i \in 1 .. Len(lg) : lg[i].kind = "end" => i = Len(lg)

StreamOK(lg, w) ==
  /\ \A i \in 1 .. Len(lg) : Tells(lg[i], w)
  /\ Chained(lg) /\ SerialsGrow(lg) /\ CheckpointsGrow(lg)
  /\ Attributed(lg) /\ EndIsLast(lg)

(* Where publisher p is, its log ends. *)
TailOK(lg, p) ==
  /\ lg = << >> => p.next = 0 /\ p.phase = 0 /\ p.checkpoint = 0
  /\ lg # << >> => NextAfter(lg[Len(lg)]) = Published(p) /\ p.checkpoint # 0
  /\ \A i \in 1 .. Len(lg) :
       /\ lg[i].kind # "input" => lg[i].serial <= p.serial
       /\ lg[i].kind = "checkpoint" =>
            lg[i].frame <= p.next /\ (p.phase = 0 => lg[i].frame < p.next)
       /\ lg[i].kind = "end" => p.ended
       /\ Rules(lg, i, Len(lg)) =>
            lg[i].serial = p.checkpoint /\ lg[i].stage = p.stage

LogOK(lg, p, c) ==
  lg \in Seq(Packet) /\ StreamOK(lg, RunOf(p, c)) /\ TailOK(lg, p)

LogInv == LogOK(log, pub, confirmed)

---------------------------------------------------------------------------
(* The history of a viewer. *)

Segment ==
  [frame : Nat, stage : StageNumber, serial : Nat, state : World,
   inputs : Seq(Input), nodes : Seq(Nat)]

History ==
  [joined : Nat, received : Nat, segments : Seq(Segment), next : Nat,
   serial : Nat, frames : Nat, ended : BOOLEAN, refused : BOOLEAN]

EndOf(segment) == segment.frame + Len(segment.inputs)

(* Segment s is a part of run w. *)
SegmentOK(s, w) ==
  /\ s.state = Prefix(w, s.frame)
  /\ EndOf(s) <= Len(w)
  /\ \A j \in 1 .. Len(s.inputs) : s.inputs[j] = w[s.frame + j]
  /\ \A j \in 1 .. Len(s.nodes) : s.frame <= s.nodes[j]

Reaches(h, k, frame) ==
  h.segments[k].frame <= frame /\ frame <= EndOf(h.segments[k])

FirstOf(h) == h.segments[1].frame

HistoryOK(h, w) ==
  /\ h.frames <= MaxFrames /\ (h.refused => h.frames = MaxFrames)
  /\ h.next <= Len(w)
  /\ h.segments = << >> => h.next = 0 /\ ~h.ended
  /\ \A k \in 1 .. Len(h.segments) :
       /\ SegmentOK(h.segments[k], w)
       /\ EndOf(h.segments[k]) <= h.next
       /\ FirstOf(h) <= h.segments[k].frame
       /\ \A j \in 1 .. Len(h.segments[k].nodes) :
            h.segments[k].nodes[j] <= h.next
  /\ \A j, k \in 1 .. Len(h.segments) :
       j < k => EndOf(h.segments[j]) <= h.segments[k].frame
  /\ h.segments # << >> =>
       /\ EndOf(LastOf(h)) = h.next
       /\ \A frame \in FirstOf(h) .. h.next :
            \E k \in 1 .. Len(h.segments) : Reaches(h, k, frame)

(* A history that refused nothing holds what the log says up to there. *)
FollowsLog(h, lg) ==
  /\ h.next = NextAfter(lg[h.received])
  /\ h.ended <=> lg[h.received].kind = "end"
  /\ \E j \in h.joined .. h.received :
       lg[j].kind # "input" /\ h.serial = lg[j].serial
  /\ \E c \in h.joined .. h.received :
       /\ Rules(lg, c, h.received)
       /\ LastOf(h).frame = lg[c].frame /\ LastOf(h).stage = lg[c].stage
       /\ LastOf(h).serial = lg[c].serial

ReadsLog(h, lg) ==
  /\ h.joined = 0 => h = EmptyHistory
  /\ h.joined # 0 =>
       /\ h.joined \in 1 .. Len(lg) /\ lg[h.joined].kind = "checkpoint"
       /\ h.received \in h.joined - 1 .. Len(lg)
       /\ ~h.refused =>
            /\ h.segments = << >> <=> h.received < h.joined
            /\ h.segments # << >> => FollowsLog(h, lg)

---------------------------------------------------------------------------
(* The playback. *)

Playback ==
  [bootstrapped : BOOLEAN, initialized : BOOLEAN, restore : BOOLEAN,
   restored : Nat, position : Nat, target : Nat, paused : BOOLEAN,
   seeking : BOOLEAN, following : BOOLEAN, liveRequested : BOOLEAN,
   failed : BOOLEAN]

(* The world shown is the one at the position, in a segment it entered. *)
InPlace(s, h, wd, w) ==
  /\ wd = Prefix(w, s.position)
  /\ \E k \in 1 .. Len(h.segments) :
       s.restored = h.segments[k].serial /\ Reaches(h, k, s.position)

PlaybackOK(s, h, wd, w) ==
  /\ ~s.failed
  /\ s.initialized <=> s.bootstrapped
  /\ ~s.bootstrapped => ~s.seeking /\ ~s.following /\ ~s.restore
                          /\ s.position = 0 /\ wd = Nothing
  /\ s.bootstrapped => h.segments # << >>
  /\ s.position <= h.next
  /\ wd # Nothing => wd = Prefix(w, s.position)
  /\ s.bootstrapped /\ ~s.restore => InPlace(s, h, wd, w)
  /\ s.restore => s.seeking
  /\ s.seeking => /\ s.bootstrapped /\ ~s.following
                  /\ FirstOf(h) <= s.target /\ s.target <= h.next
                  /\ ~s.restore => s.position <= s.target
                  /\ s.liveRequested => s.target <= Edge(h)
  /\ s.following => s.position <= Edge(h)

ViewerOK(h, s, wd, w, lg) ==
  /\ h \in History /\ s \in Playback
  /\ HistoryOK(h, w) /\ ReadsLog(h, lg) /\ PlaybackOK(s, h, wd, w)

ViewerInv == ViewerOK(viewer, playback, world, TheRun, log)

StreamInv == PubInv /\ LogInv /\ ViewerInv

---------------------------------------------------------------------------
(* Lemmas about records. *)

LEMMA StreamConstants ==
  Capacity \in Nat /\ Capacity > 0 /\ MaxFrame \in Nat
BY PublisherAssumption

LEMMA MatchesAgree ==
  ASSUME NEW v \in Seq(Input), NEW w \in Seq(Input), NEW f \in Nat, NEW r,
         f < Len(v), f < Len(w), \A i \in 1 .. f + 1 : v[i] = w[i],
         Matches(r, v, f)
  PROVE  Matches(r, w, f)
<1>1. Len(v) \in Nat /\ Len(w) \in Nat
  BY LenProperties
<1>2. Prefix(v, f) = Prefix(w, f)
  <2>1. f <= Len(v) /\ f <= Len(w) /\ \A i \in 1 .. f : v[i] = w[i]
    BY <1>1
  <2> QED
    BY <2>1, SamePrefix
<1>3. Prefix(v, f + 1) = Prefix(w, f + 1)
  <2>1. f + 1 \in Nat /\ f + 1 <= Len(v) /\ f + 1 <= Len(w)
    BY <1>1
  <2> QED
    BY <2>1, SamePrefix
<1>4. f # 0 => Prefix(v, f - 1) = Prefix(w, f - 1)
  <2> SUFFICES ASSUME f # 0 PROVE Prefix(v, f - 1) = Prefix(w, f - 1)
    OBVIOUS
  <2>1. f - 1 \in Nat /\ f - 1 <= Len(v) /\ f - 1 <= Len(w)
        /\ \A i \in 1 .. f - 1 : v[i] = w[i]
    BY <1>1
  <2> QED
    BY <2>1, SamePrefix
<1>5. Fresh(v, f) <=> Fresh(w, f)
  BY <1>2, <1>4 DEF Fresh
<1>6. v[f + 1] = w[f + 1]
  OBVIOUS
<1> HIDE DEF Prefix, Fresh
<1> QED
  BY <1>2, <1>3, <1>5, <1>6 DEF Matches

(* Two frames of a window of the ring have slots of their own. *)
LEMMA SlotsDiffer ==
  ASSUME NEW f \in Nat, NEW g \in Nat, f < g, g - f < Capacity
  PROVE  f % Capacity # g % Capacity
<1> DEFINE H == Capacity
           a == f \div H
           b == g \div H
           r == f % H
<1> SUFFICES ASSUME f % H = g % H PROVE FALSE
  OBVIOUS
<1>1. H \in Nat /\ H > 0 /\ g - f < H
  BY StreamConstants
<1>2. a \in Int /\ b \in Int /\ f = H * a + r /\ g = H * b + r /\ r \in Int
  BY <1>1
<1> HIDE DEF H, a, b, r
<1>3. H * a \in Int /\ H * b \in Int /\ H * a < H * b
  BY <1>1, <1>2
<1>4. a < b
  <2>1. ASSUME b <= a PROVE FALSE
    <3>1. H * (a - b) >= 0 /\ H * (a - b) = H * a - H * b
      BY <1>1, <1>2, <2>1
    <3> QED
      BY <1>3, <3>1
  <2> QED
    BY <1>2, <2>1
<1>5. H * b >= H * a + H
  <2>1. H * (b - a - 1) >= 0
    BY <1>1, <1>2, <1>4
  <2>2. H * (b - a - 1) = H * b - H * a - H
    BY <1>1, <1>2
  <2> QED
    BY <1>1, <1>3, <2>1, <2>2
<1> QED
  BY <1>1, <1>2, <1>3, <1>5

LEMMA SlotOf ==
  ASSUME NEW f \in Int
  PROVE  f % Capacity \in 0 .. Capacity - 1
BY StreamConstants

(* A stored record is in its slot, the others stay. *)
LEMMA StoreFacts ==
  ASSUME NEW s \in Publisher, NEW r \in RingRecord, r.frame \in Nat
  PROVE  /\ Store(s, r) \in Publisher
         /\ Store(s, r).next = s.next /\ Store(s, r).phase = s.phase
         /\ Store(s, r).stage = s.stage /\ Store(s, r).serial = s.serial
         /\ Store(s, r).checkpoint = s.checkpoint
         /\ Store(s, r).ended = s.ended /\ Store(s, r).retired = s.retired
         /\ \A k \in 0 .. Capacity - 1 : Store(s, r).records[k] =
              IF k = r.frame % Capacity THEN r ELSE s.records[k]
<1> DEFINE k == r.frame % Capacity
<1>1. k \in 0 .. Capacity - 1
  BY SlotOf
<1>2. s.records \in [0 .. Capacity - 1 -> RingRecord]
  BY DEF Publisher
<1>3. Store(s, r) = [s EXCEPT !.records = [s.records EXCEPT ![k] = r]]
  BY DEF Store
<1> HIDE DEF k
<1> DEFINE ring == [s.records EXCEPT ![k] = r]
<1>4. /\ ring \in [0 .. Capacity - 1 -> RingRecord]
      /\ \A j \in 0 .. Capacity - 1 : ring[j] = IF j = k THEN r ELSE s.records[j]
  BY <1>1, <1>2
<1> HIDE DEF ring
<1>5. Store(s, r) = [s EXCEPT !.records = ring]
  BY <1>3 DEF ring
<1>6. /\ Store(s, r) \in Publisher
      /\ Store(s, r).records = ring
      /\ Store(s, r).next = s.next /\ Store(s, r).phase = s.phase
      /\ Store(s, r).stage = s.stage /\ Store(s, r).serial = s.serial
      /\ Store(s, r).checkpoint = s.checkpoint
      /\ Store(s, r).ended = s.ended /\ Store(s, r).retired = s.retired
  BY <1>4, <1>5 DEF Publisher
<1> QED
  BY <1>4, <1>6 DEF k

---------------------------------------------------------------------------
(* The title and its records. *)

LEMMA PubFacts ==
  ASSUME PubInv
  PROVE  /\ confirmed \in Seq(Input) /\ executed \in Seq(Input)
         /\ Len(confirmed) \in Nat /\ Len(executed) \in Nat
         /\ pub \in Publisher
         /\ pub.next \in Nat /\ pub.phase \in 0 .. 2 /\ pub.serial \in Nat
         /\ pub.checkpoint \in Nat /\ pub.stage \in StageNumber
         /\ pub.ended \in BOOLEAN /\ pub.retired \in BOOLEAN
         /\ pub.records \in [0 .. Capacity - 1 -> RingRecord]
         /\ \A f \in Nat : Slot(pub, f) \in RingRecord
         /\ pub.next <= Len(confirmed)
<1>1. confirmed \in Seq(Input) /\ executed \in Seq(Input) /\ pub \in Publisher
  BY DEF PubInv, PubOK, TitleTypeOK
<1>2. Len(confirmed) \in Nat /\ Len(executed) \in Nat
  BY <1>1, LenProperties
<1>3. /\ pub.next \in Nat /\ pub.phase \in 0 .. 2 /\ pub.serial \in Nat
      /\ pub.checkpoint \in Nat /\ pub.stage \in StageNumber
      /\ pub.ended \in BOOLEAN /\ pub.retired \in BOOLEAN
      /\ pub.records \in [0 .. Capacity - 1 -> RingRecord]
  BY <1>1 DEF Publisher
<1>4. ASSUME NEW f \in Nat PROVE Slot(pub, f) \in RingRecord
  <2>1. f % Capacity \in 0 .. Capacity - 1
    BY SlotOf
  <2> QED
    BY <1>3, <2>1 DEF Slot
<1>5. pub.next <= Len(confirmed)
  BY DEF PubInv, PubOK, BoundsOK
<1> QED
  BY <1>1, <1>2, <1>3, <1>4, <1>5

LEMMA Reconciled ==
  ASSUME PubInv, Wrong = {}, NEW n \in Nat, n <= Len(confirmed),
         n <= Len(executed)
  PROVE  \A f \in 1 .. n : executed[f] = confirmed[f]
<1>1. Len(confirmed) \in Nat /\ Len(executed) \in Nat
  BY PubFacts
<1>2. ASSUME NEW f \in 1 .. n PROVE executed[f] = confirmed[f]
  <2>1. f \in 1 .. Min2(Len(confirmed), Len(executed))
    BY <1>1 DEF Min2
  <2> QED
    BY <2>1 DEF Wrong
<1> QED
  BY <1>2

(* A record of the ring that is not in the slot of frame f is of another   *)
(* frame, and one that is newer is newer by a whole ring.                  *)
LEMMA NewerInSlot ==
  ASSUME PubInv, RingOK(pub), NEW f \in Nat, Slot(pub, f).frame > f
  PROVE  Slot(pub, f).frame >= f + Capacity
<1> DEFINE g == Slot(pub, f).frame
           s == f % Capacity
<1>1. s \in 0 .. Capacity - 1 /\ g = pub.records[s].frame
  BY SlotOf DEF Slot
<1>2. g \in Nat
  BY PubFacts DEF RingRecord, INVALID_FRAME
<1>3. g % Capacity = f % Capacity
  BY <1>1, <1>2 DEF RingOK, INVALID_FRAME
<1> HIDE DEF g, s
<1>4. Capacity \in Nat
  BY StreamConstants
<1>5. ~ (g - f < Capacity)
  BY <1>2, <1>3, SlotsDiffer DEF g
<1> QED
  BY <1>2, <1>4, <1>5 DEF g

(* Where NeedsCheckpoint misses a record, the title has run ahead.         *)
LEMMA MissingIsAhead ==
  ASSUME PubInv, ~pub.retired, NEW stage,
         NeedsCheckpoint(pub, Len(executed), stage) = "MissingPredecessor"
  PROVE  RanAhead
<1> DEFINE F == Len(executed)
           N == pub.next
<1>1. F \in Nat /\ N \in Nat /\ Capacity \in Nat
  BY PubFacts, StreamConstants
<1>2. RecordsOK(pub, confirmed, executed)
  BY DEF PubInv, PubOK
<1>3. F >= N
  BY <1>1 DEF NeedsCheckpoint
<1>4. CASE F - N >= Capacity
  BY <1>4 DEF RanAhead
<1>5. CASE F - N < Capacity
  <2>1. F # 0 /\ \E f \in (N .. F - 1) \cup {F - 1} : ~ Holds(pub, f)
    BY <1>1, <1>3, <1>5 DEF NeedsCheckpoint
  <2>2. \A f \in N .. F - 1 : Holds(pub, f)
    BY <1>2 DEF RecordsOK, PendingOK
  <2>3. F = N /\ ~ Holds(pub, N - 1) /\ N > 0
    BY <1>1, <1>3, <2>1, <2>2
  <2>4. Slot(pub, N - 1).frame >= N - 1
    BY <1>2, <2>3 DEF RecordsOK, PredecessorOK
  <2>5. N - 1 \in Nat /\ Slot(pub, N - 1) \in RingRecord
    BY <1>1, <2>3, PubFacts
  <2>6. Slot(pub, N - 1).frame > N - 1
    BY <1>1, <2>3, <2>4, <2>5 DEF Holds, RingRecord, INVALID_FRAME
  <2>7. Slot(pub, N - 1).frame >= N - 1 + Capacity
    BY <1>2, <2>5, <2>6, NewerInSlot DEF RecordsOK
  <2>8. Slot(pub, N - 1).frame < N + Capacity
    <3>1. (N - 1) % Capacity \in 0 .. Capacity - 1
      BY <2>5, SlotOf
    <3> QED
      BY <1>2, <3>1 DEF RecordsOK, WithinRing, Slot
  <2>9. Slot(pub, N - 1).frame = N - 1 + Capacity
    <3>1. Slot(pub, N - 1).frame \in Nat \cup {INVALID_FRAME}
      BY <2>5 DEF RingRecord
    <3> QED
      BY <1>1, <2>7, <2>8, <3>1 DEF INVALID_FRAME
  <2> QED
    BY <2>3, <2>9 DEF RanAhead
<1> QED
  BY <1>1, <1>4, <1>5

(* Otherwise it asks for a checkpoint where a stage begins.                *)
LEMMA NeedsWhereFresh ==
  ASSUME PubInv, ~pub.retired, Wrong = {},
         pub.next <= Len(executed),
         NeedsCheckpoint(pub, Len(executed), Stage(executed))
           # "MissingPredecessor"
  PROVE  /\ Len(executed) - pub.next < Capacity
         /\ NeedsCheckpoint(pub, Len(executed), Stage(executed)) =
              IF Fresh(executed, Len(executed)) THEN "Required" ELSE "NotRequired"
<1> DEFINE F == Len(executed)
           N == pub.next
           need == NeedsCheckpoint(pub, F, Stage(executed))
<1>1. F \in Nat /\ N \in Nat /\ Capacity \in Nat /\ executed \in Seq(Input)
      /\ confirmed \in Seq(Input) /\ N <= Len(confirmed)
  BY PubFacts, StreamConstants
<1>2. RecordsOK(pub, confirmed, executed)
  BY DEF PubInv, PubOK
<1>3. Prefix(executed, F) = executed
  BY <1>1, SubSeqFull DEF Prefix
<1>4. F - N < Capacity /\ ~ (F < N) /\ ~ (F - N >= Capacity)
  BY <1>1 DEF NeedsCheckpoint
<1>5. CASE F = 0
  BY <1>1, <1>4, <1>5 DEF NeedsCheckpoint, Fresh
<1>6. CASE F # 0
  <2>1. Holds(pub, F - 1)
        /\ need = IF Slot(pub, F - 1).stage = Stage(executed)
                  THEN "NotRequired" ELSE "Required"
    BY <1>1, <1>4, <1>6 DEF NeedsCheckpoint
  <2>2. Slot(pub, F - 1).stage = Stage(Prefix(executed, F - 1))
    <3>1. CASE F - 1 >= N
      <4>1. F - 1 \in N .. F - 1
        BY <1>1, <3>1
      <4> QED
        BY <1>2, <4>1 DEF RecordsOK, PendingOK, Matches
    <3>2. CASE F - 1 < N
      <4>1. F = N /\ N - 1 \in Nat /\ N - 1 \in 0 .. N - 1
        BY <1>1, <1>6, <3>2
      <4>2. Slot(pub, N - 1).stage = Stage(Prefix(confirmed, N - 1))
        BY <1>2, <2>1, <4>1 DEF RecordsOK, PublishedOK, Matches
      <4>3. N - 1 <= Len(confirmed) /\ N - 1 <= Len(executed)
            /\ Len(confirmed) \in Nat
        BY <1>1, <4>1, PubFacts
      <4>4. \A f \in 1 .. N - 1 : executed[f] = confirmed[f]
        BY <4>1, <4>3, Reconciled
      <4>5. Prefix(confirmed, N - 1) = Prefix(executed, N - 1)
        BY <1>1, <4>1, <4>3, <4>4, SamePrefix
      <4> QED
        BY <4>1, <4>2, <4>5
    <3> QED
      BY <1>1, <3>1, <3>2
  <2>3. Fresh(executed, F) <=> Slot(pub, F - 1).stage # Stage(executed)
    BY <1>3, <1>6, <2>2 DEF Fresh
  <2> QED
    BY <1>4, <2>1, <2>3
<1> QED
  BY <1>5, <1>6

LEMMA PubInvNext ==
  PubInv' <=> /\ confirmed' \in Seq(Input) /\ executed' \in Seq(Input)
              /\ PubOK(pub', confirmed', executed')
BY DEF PubInv, TitleTypeOK, PubOK, BoundsOK, RecordsOK, RingOK, PendingOK,
       PublishedOK, BegunOK, PredecessorOK, WithinRing, StageOK, Matches,
       Fresh, Prefix,
       Holds, Slot, Publisher, RingRecord, StageNumber, BossMark, World,
       INVALID_FRAME

(* The record of the frame a title executes. *)
Recorded(i, records, need) ==
  [frame |-> Len(executed), stage |-> Stage(executed),
   initializer |-> IF need = "Required" THEN executed ELSE Nothing,
   input |-> IF records THEN i ELSE Nothing,
   boss |-> Boss(Append(executed, i))]

LEMMA RecordedFacts ==
  ASSUME PubInv, NEW i \in Input, NEW records \in BOOLEAN, NEW need
  PROVE  LET r == Recorded(i, records, need)
             w == Append(executed, i)
         IN  /\ r \in RingRecord /\ r.frame = Len(executed)
             /\ need = (IF Fresh(executed, Len(executed)) THEN "Required"
                                                      ELSE "NotRequired")
                  => Matches(r, w, Len(executed))
<1> DEFINE r == Recorded(i, records, need)
           w == Append(executed, i)
           F == Len(executed)
<1>1. executed \in Seq(Input) /\ F \in Nat
  BY PubFacts
<1>2. /\ w \in Seq(Input) /\ Len(w) = F + 1 /\ w[F + 1] = i
      /\ Extends(executed, w) /\ Prefix(w, F) = executed
  BY <1>1, AppendExtends
<1>3. Prefix(w, F + 1) = w
  BY <1>2, SubSeqFull DEF Prefix
<1> HIDE DEF w, Prefix
<1>4. /\ r.frame = F /\ r.stage = Stage(executed)
      /\ r.initializer = (IF need = "Required" THEN executed ELSE Nothing)
      /\ r.input = (IF records THEN i ELSE Nothing) /\ r.boss = Boss(w)
  BY DEF Recorded, w
<1>5. r \in RingRecord
  <2>1. Stage(executed) \in StageNumber /\ Boss(w) \in BossMark
    BY <1>1, <1>2 DEF StageNumber, BossMark
  <2>2. r = [frame |-> F, stage |-> Stage(executed),
             initializer |-> IF need = "Required" THEN executed ELSE Nothing,
             input |-> IF records THEN i ELSE Nothing, boss |-> Boss(w)]
    BY DEF Recorded, w
  <2> QED
    BY <1>1, <2>1, <2>2 DEF RingRecord, World
<1>6. Fresh(w, F) <=> Fresh(executed, F)
  <2>1. F # 0 => F - 1 \in 0 .. F
    BY <1>1
  <2>2. F # 0 => Prefix(executed, F - 1) = Prefix(w, F - 1)
    BY <1>1, <1>2, <2>1, ExtendsPrefix
  <2>3. Prefix(executed, F) = Prefix(w, F)
    BY <1>1, <1>2, ExtendsPrefix
  <2> QED
    BY <2>2, <2>3 DEF Fresh
<1>7. ASSUME need = IF Fresh(executed, F) THEN "Required" ELSE "NotRequired"
      PROVE  Matches(r, w, F)
  <2>1. need = "Required" <=> Fresh(w, F)
    BY <1>6, <1>7
  <2> QED
    BY <1>2, <1>3, <1>4, <2>1 DEF Matches
<1> HIDE DEF r
<1> QED
  BY <1>4, <1>5, <1>7 DEF r, w

(* What a step of the title keeps of the publisher. *)
SamePublication ==
  /\ pub'.next = pub.next /\ pub'.phase = pub.phase /\ pub'.stage = pub.stage
  /\ pub'.serial = pub.serial /\ pub'.checkpoint = pub.checkpoint
  /\ pub'.ended = pub.ended

(* A title that is told to go on does not have its record refused. *)
LEMMA RecordAccepted ==
  ASSUME PubInv, ~pub.retired, NEW i \in Input, NEW records \in BOOLEAN,
         Execute(i, records),
         NEW need, need = NeedsCheckpoint(pub, Len(executed), Stage(executed)),
         need # "MissingPredecessor"
  PROVE  Accepts(pub, Recorded(i, records, need))
<1> DEFINE r == Recorded(i, records, need)
           F == Len(executed)
           N == pub.next
           w == Append(executed, i)
<1>1. /\ F \in Nat /\ N \in Nat /\ Capacity \in Nat /\ executed \in Seq(Input)
      /\ confirmed \in Seq(Input) /\ N <= Len(confirmed)
      /\ Len(confirmed) \in Nat
  BY PubFacts, StreamConstants
<1>2. RecordsOK(pub, confirmed, executed)
  BY DEF PubInv, PubOK
<1>3. Wrong = {} /\ (F < Len(confirmed) => i = confirmed[F + 1])
  BY DEF Execute
<1>4. /\ w \in Seq(Input) /\ Len(w) = F + 1 /\ w[F + 1] = i
      /\ \A k \in 1 .. F : w[k] = executed[k]
  BY <1>1, AppendExtends
<1>5. r \in RingRecord /\ r.frame = F
  BY RecordedFacts
<1>6. r.input = (IF records THEN i ELSE Nothing)
  BY DEF Recorded
<1> HIDE DEF r, w
<1>7. CASE F < N
  <2>1. ASSUME Holds(pub, F) PROVE SameInputs(Slot(pub, F), r)
    <3>1. F \in 0 .. N - 1 /\ F < Len(confirmed)
      BY <1>1, <1>7
    <3>2. Slot(pub, F).input \in {Nothing, confirmed[F + 1]}
      BY <1>2, <2>1, <3>1 DEF RecordsOK, PublishedOK, Matches
    <3> QED
      BY <1>3, <1>6, <3>1, <3>2 DEF SameInputs
  <2> QED
    BY <1>5, <1>7, <2>1 DEF Accepts, r
<1>8. CASE F = N /\ pub.phase # 0
  <2>1. Holds(pub, N) /\ Matches(Slot(pub, N), confirmed, N)
    BY <1>2, <1>8 DEF RecordsOK, BegunOK
  <2>2. N < Len(confirmed) /\ i = confirmed[N + 1]
    BY <1>3, <1>8 DEF PubInv, PubOK, BoundsOK
  <2>3. \A k \in 1 .. N + 1 : confirmed[k] = w[k]
    <3>1. \A k \in 1 .. N : executed[k] = confirmed[k]
      BY <1>1, <1>3, <1>8, Reconciled
    <3>2. \A k \in 1 .. N + 1 : k \in 1 .. N \/ k = N + 1
      BY <1>1
    <3> QED
      BY <1>4, <1>8, <2>2, <3>1, <3>2
  <2>4. Matches(Slot(pub, N), w, N)
    BY <1>1, <1>4, <1>8, <2>1, <2>2, <2>3, MatchesAgree
  <2>5. Matches(r, w, N)
    <3>1. N <= Len(executed)
      BY <1>1, <1>8
    <3>2. need = IF Fresh(executed, F) THEN "Required" ELSE "NotRequired"
      BY <1>3, <3>1, NeedsWhereFresh
    <3> QED
      BY <1>8, <3>2, RecordedFacts DEF r, w
  <2>6. Slot(pub, N) \in RingRecord
    BY <1>1, PubFacts
  <2>7. [Slot(pub, N) EXCEPT !.input = Nothing] = [r EXCEPT !.input = Nothing]
    <3>1. /\ Slot(pub, N).frame = r.frame
          /\ Slot(pub, N).stage = r.stage
          /\ Slot(pub, N).initializer = r.initializer
          /\ Slot(pub, N).boss = r.boss
      BY <1>5, <1>8, <2>1, <2>4, <2>5 DEF Holds, Matches
    <3> HIDE DEF N
    <3> QED
      BY <1>5, <2>6, <3>1 DEF RingRecord
  <2>8. SameInputs(Slot(pub, N), r)
    BY <2>4, <2>5 DEF Matches, SameInputs
  <2> QED
    BY <1>5, <1>8, <2>1, <2>7, <2>8 DEF Accepts, r
<1>9. CASE ~ (F < N) /\ ~ (F = N /\ pub.phase # 0)
  <2>1. F - N < Capacity
    BY <1>1, <1>3, <1>9, NeedsWhereFresh
  <2> QED
    BY <1>5, <1>9, <2>1 DEF Accepts, r
<1> QED
  BY <1>7, <1>8, <1>9

LEMMA StoreKeeps ==
  ASSUME PubInv, ~pub.retired, NEW i \in Input, NEW records \in BOOLEAN,
         Execute(i, records),
         NEW need, need = NeedsCheckpoint(pub, Len(executed), Stage(executed)),
         need # "MissingPredecessor",
         pub.next <= Len(executed),
         ~ (Len(executed) = pub.next /\ pub.phase # 0)
  PROVE  RecordsOK(Store(pub, Recorded(i, records, need)), confirmed,
                   Append(executed, i))
<1> DEFINE r == Recorded(i, records, need)
           F == Len(executed)
           N == pub.next
           w == Append(executed, i)
           p == Store(pub, r)
<1>1. /\ F \in Nat /\ N \in Nat /\ Capacity \in Nat /\ executed \in Seq(Input)
      /\ confirmed \in Seq(Input) /\ N <= Len(confirmed)
      /\ Len(confirmed) \in Nat /\ pub \in Publisher
  BY PubFacts, StreamConstants
<1>2. RecordsOK(pub, confirmed, executed)
  BY DEF PubInv, PubOK
<1>3. /\ w \in Seq(Input) /\ Len(w) = F + 1 /\ w[F + 1] = i
      /\ \A k \in 1 .. F : w[k] = executed[k]
  BY <1>1, AppendExtends
<1>4. /\ F - N < Capacity
      /\ need = IF Fresh(executed, F) THEN "Required" ELSE "NotRequired"
  <2>1. Wrong = {}
    BY DEF Execute
  <2> QED
    BY <2>1, NeedsWhereFresh
<1>5. r \in RingRecord /\ r.frame = F /\ Matches(r, w, F)
  BY <1>4, RecordedFacts
<1> HIDE DEF r, w
<1>6. /\ p.next = N /\ p.phase = pub.phase /\ p.stage = pub.stage
      /\ \A k \in 0 .. Capacity - 1 :
           p.records[k] = IF k = F % Capacity THEN r ELSE pub.records[k]
  BY <1>1, <1>5, StoreFacts
<1> HIDE DEF p
<1>7. ASSUME NEW f \in Nat
      PROVE  Slot(p, f) = IF f % Capacity = F % Capacity THEN r ELSE Slot(pub, f)
  <2>1. f % Capacity \in 0 .. Capacity - 1
    BY SlotOf
  <2> QED
    BY <1>6, <2>1 DEF Slot
<1>8. RingOK(p)
  <2> SUFFICES ASSUME NEW s \in 0 .. Capacity - 1,
                      p.records[s].frame # INVALID_FRAME
               PROVE  p.records[s].frame % Capacity = s
    BY DEF RingOK
  <2>1. CASE s = F % Capacity
    BY <1>5, <1>6, <2>1
  <2>2. CASE s # F % Capacity
    BY <1>2, <1>6, <2>2 DEF RecordsOK, RingOK
  <2> QED
    BY <2>1, <2>2
<1>9. PendingOK(p, w)
  <2> SUFFICES ASSUME NEW f \in N .. Len(w) - 1
               PROVE  Holds(p, f) /\ Matches(Slot(p, f), w, f)
    BY <1>6 DEF PendingOK
  <2>1. f \in Nat /\ f <= F /\ N <= f
    BY <1>1, <1>3
  <2>2. CASE f = F
    BY <1>5, <1>7, <2>1, <2>2 DEF Holds
  <2>3. CASE f < F
    <3>1. f % Capacity # F % Capacity
      BY <1>1, <1>4, <2>1, <2>3, SlotsDiffer
    <3>2. Slot(p, f) = Slot(pub, f)
      BY <1>7, <2>1, <3>1
    <3>3. Holds(pub, f) /\ Matches(Slot(pub, f), executed, f)
      <4>1. f \in N .. F - 1
        BY <1>1, <2>1, <2>3
      <4> QED
        BY <1>2, <4>1 DEF RecordsOK, PendingOK
    <3>4. f < Len(w) /\ \A k \in 1 .. f + 1 : executed[k] = w[k]
      BY <1>1, <1>3, <2>1, <2>3
    <3>5. Matches(Slot(pub, f), w, f)
      BY <1>1, <1>3, <2>1, <2>3, <3>3, <3>4, MatchesAgree
    <3> QED
      BY <3>2, <3>3, <3>5 DEF Holds
  <2> QED
    BY <1>1, <2>1, <2>2, <2>3
<1>10. PublishedOK(p, confirmed)
  <2> SUFFICES ASSUME NEW f \in 0 .. N - 1, Holds(p, f)
               PROVE  Matches(Slot(p, f), confirmed, f)
    BY <1>6 DEF PublishedOK
  <2>1. f \in Nat /\ f < F
    BY <1>1
  <2>2. Slot(p, f) # r
    BY <1>5, <2>1 DEF Holds
  <2>3. Slot(p, f) = Slot(pub, f)
    BY <1>7, <2>1, <2>2
  <2> QED
    BY <1>2, <2>3 DEF Holds, RecordsOK, PublishedOK
<1>11. BegunOK(p, confirmed)
  <2> SUFFICES ASSUME pub.phase # 0
               PROVE  Holds(p, N) /\ Matches(Slot(p, N), confirmed, N)
    BY <1>6 DEF BegunOK
  <2>1. N < F
    BY <1>1
  <2>2. N % Capacity # F % Capacity
    BY <1>1, <1>4, <2>1, SlotsDiffer
  <2>3. Slot(p, N) = Slot(pub, N)
    BY <1>1, <1>7, <2>2
  <2> QED
    BY <1>2, <2>3 DEF Holds, RecordsOK, BegunOK
<1>12. PredecessorOK(p)
  <2> SUFFICES ASSUME N > 0 PROVE Slot(p, N - 1).frame >= N - 1
    BY <1>6 DEF PredecessorOK
  <2>1. N - 1 \in Nat
    BY <1>1
  <2>2. Slot(pub, N - 1).frame >= N - 1
    BY <1>2 DEF RecordsOK, PredecessorOK
  <2> QED
    BY <1>1, <1>5, <1>7, <2>1, <2>2
<1>13. StageOK(p, confirmed)
  BY <1>2, <1>6 DEF RecordsOK, StageOK
<1>14. WithinRing(p)
  <2> SUFFICES ASSUME NEW k \in 0 .. Capacity - 1
               PROVE  p.records[k].frame < N + Capacity
    BY <1>6 DEF WithinRing
  <2>1. CASE k = F % Capacity
    BY <1>1, <1>4, <1>5, <1>6, <2>1
  <2>2. CASE k # F % Capacity
    BY <1>2, <1>6, <2>2 DEF RecordsOK, WithinRing
  <2> QED
    BY <2>1, <2>2
<1> QED
  BY <1>8, <1>9, <1>10, <1>11, <1>12, <1>13, <1>14 DEF RecordsOK, p, r, w

(* A title that executes a frame, whatever it had published, keeps its     *)
(* records, and gives the stream up only when it ran ahead by the ring.    *)
LEMMA ExecuteKeeps ==
  ASSUME PubInv, NEW i \in Input, NEW records \in BOOLEAN, Execute(i, records)
  PROVE  /\ PubInv' /\ SamePublication
         /\ ~pub.retired /\ pub'.retired => RanAhead
<1> DEFINE F == Len(executed)
           need == NeedsCheckpoint(pub, F, Stage(executed))
           r == Recorded(i, records, need)
           w == Append(executed, i)
           gone == [pub EXCEPT !.retired = TRUE]
<1>1. /\ F \in Nat /\ executed \in Seq(Input) /\ confirmed \in Seq(Input)
      /\ pub \in Publisher /\ pub.next \in Nat /\ Len(confirmed) \in Nat
      /\ pub.retired \in BOOLEAN
  BY PubFacts
<1>2. /\ F < MaxFrame /\ executed' = w /\ confirmed' = confirmed
      /\ pub' = IF need = "MissingPredecessor" THEN gone ELSE Record(pub, r)
  BY DEF Execute, Recorded
<1>3. ~ pub.ended
  BY <1>1, <1>2, StreamConstants DEF PubInv, PubOK, BoundsOK
<1>4. w \in Seq(Input) /\ Len(w) = F + 1 /\ \A k \in 1 .. F : w[k] = executed[k]
  BY <1>1, AppendExtends
<1>5. r \in RingRecord /\ r.frame = F
  BY RecordedFacts
<1> HIDE DEF need, r, w
<1>6. gone \in Publisher /\ gone.retired /\ gone.next = pub.next
      /\ gone.phase = pub.phase /\ gone.stage = pub.stage
      /\ gone.serial = pub.serial /\ gone.checkpoint = pub.checkpoint
      /\ gone.ended = pub.ended
  BY <1>1 DEF Publisher
<1> HIDE DEF gone
<1> DEFINE q == Store(pub, r)
<1>7. /\ q \in Publisher /\ q.next = pub.next /\ q.phase = pub.phase
      /\ q.stage = pub.stage /\ q.serial = pub.serial
      /\ q.checkpoint = pub.checkpoint /\ q.ended = pub.ended
      /\ q.retired = pub.retired
  BY <1>1, <1>5, StoreFacts
<1>8. Record(pub, r) \in {gone, pub, q}
  BY DEF Record, gone
<1> HIDE DEF q
<1>9. SamePublication /\ pub' \in Publisher
  BY <1>1, <1>2, <1>6, <1>7, <1>8 DEF SamePublication
<1>10. BoundsOK(pub', confirmed', executed')
  BY <1>2, <1>3, <1>9 DEF PubInv, PubOK, BoundsOK, SamePublication
<1>11. CASE pub'.retired /\ pub.retired
  BY <1>1, <1>2, <1>4, <1>9, <1>10, <1>11, PubInvNext DEF PubOK
<1>12. ASSUME ~ pub.retired, need = "MissingPredecessor"
       PROVE  PubInv' /\ RanAhead
  <2>1. RanAhead
    BY <1>12, MissingIsAhead DEF need
  <2> QED
    BY <1>1, <1>2, <1>4, <1>6, <1>9, <1>10, <1>12, <2>1, PubInvNext DEF PubOK
<1>13. ASSUME ~ pub.retired, need # "MissingPredecessor"
       PROVE  RecordsOK(pub', confirmed, w) /\ ~ pub'.retired
  <2>1. Accepts(pub, r)
    BY <1>13, RecordAccepted DEF need, r
  <2>2. pub' = IF F < pub.next \/ (F = pub.next /\ pub.phase # 0)
               THEN pub ELSE q
    BY <1>2, <1>3, <1>5, <1>13, <2>1 DEF Record, q
  <2>3. RecordsOK(pub, confirmed, executed)
    BY <1>13 DEF PubInv, PubOK
  <2>4. CASE F < pub.next
    <3>1. PendingOK(pub, w)
      BY <1>1, <1>4, <2>4 DEF PendingOK
    <3> QED
      BY <1>13, <2>2, <2>3, <2>4, <3>1 DEF RecordsOK
  <2>5. CASE F = pub.next /\ pub.phase # 0
    <3>1. Holds(pub, F) /\ Matches(Slot(pub, F), confirmed, F)
      BY <2>3, <2>5 DEF RecordsOK, BegunOK
    <3>2. F < Len(confirmed)
      BY <2>5 DEF PubInv, PubOK, BoundsOK
    <3>3. \A k \in 1 .. F + 1 : confirmed[k] = w[k]
      <4>1. Wrong = {} /\ i = confirmed[F + 1]
        BY <3>2 DEF Execute
      <4>2. \A k \in 1 .. F : executed[k] = confirmed[k]
        BY <1>1, <3>2, <4>1, Reconciled
      <4>3. w[F + 1] = i
        BY <1>1, AppendExtends DEF w
      <4>4. \A k \in 1 .. F + 1 : k \in 1 .. F \/ k = F + 1
        BY <1>1
      <4> QED
        BY <1>4, <4>1, <4>2, <4>3, <4>4
    <3>4. Matches(Slot(pub, F), w, F)
      BY <1>1, <1>4, <3>1, <3>2, <3>3, MatchesAgree
    <3>5. PendingOK(pub, w)
      <4>1. \A f \in pub.next .. Len(w) - 1 : f = F
        BY <1>1, <1>4, <2>5
      <4> QED
        BY <3>1, <3>4, <4>1 DEF PendingOK
    <3> QED
      BY <1>13, <2>2, <2>3, <2>5, <3>5 DEF RecordsOK
  <2>6. CASE ~ (F < pub.next) /\ ~ (F = pub.next /\ pub.phase # 0)
    <3>1. RecordsOK(q, confirmed, w)
      BY <1>1, <1>13, <2>6, StoreKeeps DEF need, q, r, w
    <3> QED
      BY <1>7, <1>13, <2>2, <2>6, <3>1
  <2> QED
    BY <2>4, <2>5, <2>6
<1>14. CASE ~ pub.retired
  <2>1. CASE need = "MissingPredecessor"
    BY <1>9, <1>12, <1>14, <2>1
  <2>2. CASE need # "MissingPredecessor"
    BY <1>1, <1>2, <1>4, <1>9, <1>10, <1>13, <1>14, <2>2, PubInvNext DEF PubOK
  <2> QED
    BY <2>1, <2>2
<1>15. pub.retired => pub'.retired
  BY <1>2, <1>6, <1>7, <1>8
<1> QED
  BY <1>9, <1>11, <1>14, <1>15

LEMMA ConfirmKeeps ==
  ASSUME PubInv, NEW i \in Input, Confirm(i)
  PROVE  PubInv'
<1> DEFINE c == Append(confirmed, i)
<1>1. /\ executed \in Seq(Input) /\ confirmed \in Seq(Input)
      /\ pub \in Publisher /\ pub.next \in Nat /\ Len(confirmed) \in Nat
      /\ pub.next <= Len(confirmed) /\ pub.phase \in 0 .. 2
  BY PubFacts
<1>2. /\ Len(confirmed) < MaxFrame /\ confirmed' = c
      /\ executed' = executed /\ pub' = pub
  BY DEF Confirm
<1>3. /\ c \in Seq(Input) /\ Len(c) = Len(confirmed) + 1
      /\ \A k \in 1 .. Len(confirmed) : c[k] = confirmed[k]
      /\ Extends(confirmed, c)
  BY <1>1, AppendExtends
<1> HIDE DEF c
<1>4. BoundsOK(pub, c, executed)
  <2>1. ~ pub.ended
    BY <1>1, <1>2, StreamConstants DEF PubInv, PubOK, BoundsOK
  <2> QED
    BY <1>1, <1>3, <2>1 DEF PubInv, PubOK, BoundsOK
<1>5. ASSUME ~ pub.retired PROVE RecordsOK(pub, c, executed)
  <2>1. RecordsOK(pub, confirmed, executed)
    BY <1>5 DEF PubInv, PubOK
  <2>2. ASSUME NEW f \in Nat, NEW r, f < Len(confirmed), Matches(r, confirmed, f)
        PROVE  Matches(r, c, f)
    <3>1. f < Len(c) /\ \A k \in 1 .. f + 1 : confirmed[k] = c[k]
      BY <1>1, <1>3, <2>2
    <3> QED
      BY <1>1, <1>3, <2>2, <3>1, MatchesAgree
  <2>3. PublishedOK(pub, c)
    <3>1. \A f \in 0 .. pub.next - 1 : f \in Nat /\ f < Len(confirmed)
      BY <1>1
    <3> QED
      BY <2>1, <2>2, <3>1 DEF RecordsOK, PublishedOK
  <2>4. BegunOK(pub, c)
    <3>1. pub.phase # 0 => pub.next < Len(confirmed)
      BY DEF PubInv, PubOK, BoundsOK
    <3> QED
      BY <1>1, <2>1, <2>2, <3>1 DEF RecordsOK, BegunOK
  <2>5. StageOK(pub, c)
    <3> SUFFICES ASSUME pub.next > 0 \/ pub.phase # 0
                 PROVE  pub.stage = Stage(Prefix(c, IF pub.phase = 0
                                                    THEN pub.next - 1
                                                    ELSE pub.next))
      BY DEF StageOK
    <3> DEFINE n == IF pub.phase = 0 THEN pub.next - 1 ELSE pub.next
    <3>1. n \in 0 .. Len(confirmed)
      BY <1>1
    <3>2. Prefix(confirmed, n) = Prefix(c, n)
      BY <1>1, <1>3, <3>1, ExtendsPrefix
    <3> QED
      BY <2>1, <3>2 DEF RecordsOK, StageOK
  <2> QED
    BY <2>1, <2>3, <2>4, <2>5 DEF RecordsOK
<1> QED
  BY <1>1, <1>2, <1>3, <1>4, <1>5, PubInvNext DEF PubOK

LEMMA RollbackKeeps ==
  ASSUME PubInv, Rollback
  PROVE  PubInv'
<1>1. /\ executed \in Seq(Input) /\ confirmed \in Seq(Input)
      /\ pub \in Publisher /\ pub.next \in Nat /\ Len(confirmed) \in Nat
      /\ Len(executed) \in Nat
  BY PubFacts
<1>2. PICK first \in Wrong, back \in 0 .. Replay :
        /\ first - 1 - back >= 0
        /\ executed' = Prefix(executed, first - 1 - back)
  BY DEF Rollback
<1>3. confirmed' = confirmed /\ pub' = pub
  BY DEF Rollback
<1> DEFINE n == first - 1 - back
           e == Prefix(executed, n)
<1>4. first \in 1 .. Len(executed) /\ confirmed[first] # executed[first]
  BY <1>1 DEF Wrong, Min2
<1>5. n \in 0 .. Len(executed)
  BY <1>1, <1>2, <1>4, PublisherAssumption
<1> HIDE DEF n
<1>6. /\ e \in Seq(Input) /\ Len(e) = n
      /\ \A k \in 1 .. n : e[k] = executed[k]
  BY <1>1, <1>5, PrefixFacts
<1>7. executed' = e
  BY <1>2 DEF n
<1> HIDE DEF e
<1>8. BoundsOK(pub, confirmed, e)
  BY <1>4 DEF PubInv, PubOK, BoundsOK
<1>9. ASSUME ~ pub.retired PROVE RecordsOK(pub, confirmed, e)
  <2>1. RecordsOK(pub, confirmed, executed)
    BY <1>9 DEF PubInv, PubOK
  <2>2. PendingOK(pub, e)
    <3> SUFFICES ASSUME NEW f \in pub.next .. Len(e) - 1
                 PROVE  Holds(pub, f) /\ Matches(Slot(pub, f), e, f)
      BY DEF PendingOK
    <3>1. f \in pub.next .. Len(executed) - 1 /\ f \in Nat
          /\ f < Len(executed) /\ f < Len(e)
          /\ \A k \in 1 .. f + 1 : executed[k] = e[k]
      BY <1>1, <1>5, <1>6
    <3>2. Holds(pub, f) /\ Matches(Slot(pub, f), executed, f)
      BY <2>1, <3>1 DEF RecordsOK, PendingOK
    <3> QED
      BY <1>1, <1>6, <3>1, <3>2, MatchesAgree
  <2> QED
    BY <2>1, <2>2 DEF RecordsOK
<1> QED
  BY <1>1, <1>3, <1>6, <1>7, <1>8, <1>9, PubInvNext DEF PubOK

---------------------------------------------------------------------------
(* Publication. *)

(* What is due is recorded as it was confirmed, and a stage has begun with *)
(* its checkpoint.                                                         *)
LEMMA DueFacts ==
  ASSUME PubInv, IsDue
  PROVE  /\ pub.next < Len(confirmed) /\ pub.next < Len(executed)
         /\ ~pub.retired /\ ~pub.ended
         /\ Holds(pub, pub.next) /\ Current \in RingRecord
         /\ Matches(Current, confirmed, pub.next)
         /\ pub.phase = 0 /\ Current.initializer = Nothing =>
              pub.next > 0 /\ pub.checkpoint # 0 /\ Current.stage = pub.stage
         /\ pub.phase # 0 => Current.stage = pub.stage
         /\ Current.initializer # Nothing =>
              Current.initializer = Prefix(confirmed, pub.next)
<1> DEFINE N == pub.next
<1>1. /\ executed \in Seq(Input) /\ confirmed \in Seq(Input)
      /\ pub \in Publisher /\ N \in Nat /\ Len(confirmed) \in Nat
      /\ Len(executed) \in Nat /\ Current \in RingRecord
      /\ pub.phase \in 0 .. 2
  BY PubFacts DEF Current
<1>2. N < Len(confirmed) /\ N < Len(executed) /\ ~ pub.retired /\ ~ pub.ended
      /\ Wrong = {}
  BY <1>1 DEF IsDue, Min2
<1>3. RecordsOK(pub, confirmed, executed)
  BY <1>2 DEF PubInv, PubOK
<1>4. Holds(pub, N) /\ Matches(Current, executed, N)
  <2>1. N \in pub.next .. Len(executed) - 1
    BY <1>1, <1>2
  <2> QED
    BY <1>3, <2>1 DEF RecordsOK, PendingOK, Current
<1>5. Matches(Current, confirmed, N)
  <2>1. \A k \in 1 .. N + 1 : executed[k] = confirmed[k]
    BY <1>1, <1>2, Reconciled
  <2> QED
    BY <1>1, <1>2, <1>4, <2>1, MatchesAgree
<1>6. /\ Current.stage = Stage(Prefix(confirmed, N))
      /\ Current.initializer = IF Fresh(confirmed, N) THEN Prefix(confirmed, N)
                                                    ELSE Nothing
  BY <1>5 DEF Matches
<1>7. ASSUME pub.phase = 0, Current.initializer = Nothing
      PROVE  N > 0 /\ pub.checkpoint # 0 /\ Current.stage = pub.stage
  <2>1. ~ Fresh(confirmed, N)
    <3>1. N \in 0 .. Len(confirmed)
      BY <1>1, <1>2
    <3>2. Prefix(confirmed, N) \in Seq(Input)
      BY <1>1, <3>1, PrefixFacts
    <3> QED
      BY <1>6, <1>7, <3>2, NothingAssumption
  <2>2. N # 0 /\ Stage(Prefix(confirmed, N - 1)) = Stage(Prefix(confirmed, N))
    BY <2>1 DEF Fresh
  <2>3. N > 0
    BY <1>1, <2>2
  <2>4. pub.stage = Stage(Prefix(confirmed, N - 1))
    BY <1>3, <1>7, <2>3 DEF RecordsOK, StageOK
  <2> QED
    BY <1>6, <2>2, <2>3, <2>4 DEF PubInv, PubOK, BoundsOK
<1>8. pub.phase # 0 => Current.stage = pub.stage
  BY <1>3, <1>6 DEF RecordsOK, StageOK
<1> QED
  BY <1>1, <1>2, <1>4, <1>5, <1>6, <1>7, <1>8

(* No record that is due is missing, nor a checkpoint before it: publication *)
(* fails only where the title is asked for an input it did not record.     *)
LEMMA PublishFailsAsking ==
  ASSUME PubInv, PublishFails
  PROVE  /\ PubInv' /\ SamePublication /\ log' = log
         /\ ~pub.retired /\ IsDue /\ AsksTitle
         /\ confirmed' = confirmed /\ executed' = executed
<1> DEFINE gone == [pub EXCEPT !.retired = TRUE]
<1>1. IsDue
  BY DEF PublishFails
<1>2. AsksTitle /\ ~ pub.retired
  BY <1>1, DueFacts DEF PublishFails
<1>3. /\ executed \in Seq(Input) /\ confirmed \in Seq(Input)
      /\ pub \in Publisher
  BY PubFacts
<1>4. /\ pub' = gone /\ log' = log
      /\ confirmed' = confirmed /\ executed' = executed
  BY DEF PublishFails, titleVars
<1>5. /\ gone \in Publisher /\ gone.retired /\ gone.next = pub.next
      /\ gone.phase = pub.phase /\ gone.stage = pub.stage
      /\ gone.serial = pub.serial /\ gone.checkpoint = pub.checkpoint
      /\ gone.ended = pub.ended
  BY <1>3 DEF Publisher
<1> HIDE DEF gone
<1>6. BoundsOK(pub', confirmed, executed)
  BY <1>4, <1>5 DEF PubInv, PubOK, BoundsOK
<1>7. PubInv' /\ SamePublication
  BY <1>3, <1>4, <1>5, <1>6, PubInvNext DEF PubOK, SamePublication
<1> QED
  BY <1>1, <1>2, <1>4, <1>7

(* The frame that is due begins to be published, with or without a         *)
(* checkpoint, or its input has been.                                      *)
LEMMA BeginKeeps ==
  ASSUME PubInv, IsDue, NEW p \in Publisher,
         p.records = pub.records, p.next = pub.next, p.phase # 0,
         p.stage = Current.stage, p.checkpoint # 0, ~p.ended, ~p.retired
  PROVE  PubOK(p, confirmed, executed)
<1>1. /\ pub.next \in Nat /\ Len(confirmed) \in Nat
      /\ pub.next < Len(confirmed) /\ Holds(pub, pub.next) /\ ~ pub.retired
      /\ Matches(Current, confirmed, pub.next)
  BY PubFacts, DueFacts
<1>2. RecordsOK(pub, confirmed, executed)
  BY <1>1 DEF PubInv, PubOK
<1>3. \A f : Slot(p, f) = Slot(pub, f) /\ (Holds(p, f) <=> Holds(pub, f))
  BY DEF Slot, Holds
<1>4. BoundsOK(p, confirmed, executed)
  BY <1>1 DEF BoundsOK
<1>5. RingOK(p) /\ PredecessorOK(p) /\ WithinRing(p)
  BY <1>2, <1>3 DEF RecordsOK, RingOK, PredecessorOK, WithinRing
<1>6. PendingOK(p, executed) /\ PublishedOK(p, confirmed)
  BY <1>2, <1>3 DEF RecordsOK, PendingOK, PublishedOK
<1>7. BegunOK(p, confirmed)
  BY <1>1, <1>3 DEF BegunOK, Current
<1>8. StageOK(p, confirmed)
  BY <1>1 DEF StageOK, Matches
<1> QED
  BY <1>4, <1>5, <1>6, <1>7, <1>8 DEF PubOK, RecordsOK

(* The frame that is due has been published.                               *)
LEMMA CompleteKeeps ==
  ASSUME PubInv, IsDue, pub.phase # 0, NEW p \in Publisher,
         p.records = pub.records, p.next = pub.next + 1, p.phase = 0,
         p.stage = pub.stage, p.checkpoint = pub.checkpoint,
         ~p.ended, ~p.retired
  PROVE  PubOK(p, confirmed, executed)
<1>1. /\ pub.next \in Nat /\ Len(confirmed) \in Nat
      /\ pub.next < Len(confirmed) /\ Holds(pub, pub.next) /\ ~ pub.retired
      /\ Matches(Current, confirmed, pub.next) /\ Current.stage = pub.stage
      /\ Len(executed) \in Nat
  BY PubFacts, DueFacts
<1>2. RecordsOK(pub, confirmed, executed)
  BY <1>1 DEF PubInv, PubOK
<1>3. \A f : Slot(p, f) = Slot(pub, f) /\ (Holds(p, f) <=> Holds(pub, f))
  BY DEF Slot, Holds
<1>4. BoundsOK(p, confirmed, executed)
  BY <1>1 DEF BoundsOK, PubInv, PubOK
<1>5. RingOK(p) /\ WithinRing(p)
  <2>1. RingOK(p)
    BY <1>2 DEF RecordsOK, RingOK
  <2>2. ASSUME NEW k \in 0 .. Capacity - 1
        PROVE  p.records[k].frame < p.next + Capacity
    <3>1. pub.records[k].frame \in Nat \cup {INVALID_FRAME}
      BY PubFacts DEF RingRecord
    <3>2. pub.records[k].frame < pub.next + Capacity
      BY <1>2 DEF RecordsOK, WithinRing
    <3> QED
      BY <1>1, <3>1, <3>2, StreamConstants DEF INVALID_FRAME
  <2> QED
    BY <2>1, <2>2 DEF WithinRing
<1>6. PredecessorOK(p)
  BY <1>1, <1>3 DEF PredecessorOK, Holds
<1>7. PendingOK(p, executed)
  <2>1. \A f \in p.next .. Len(executed) - 1 : f \in pub.next .. Len(executed) - 1
    BY <1>1
  <2> QED
    BY <1>2, <1>3, <2>1 DEF RecordsOK, PendingOK
<1>8. PublishedOK(p, confirmed)
  <2>1. \A f \in 0 .. p.next - 1 : f \in 0 .. pub.next - 1 \/ f = pub.next
    BY <1>1
  <2> QED
    BY <1>1, <1>2, <1>3, <2>1 DEF RecordsOK, PublishedOK, Current
<1>9. BegunOK(p, confirmed)
  BY DEF BegunOK
<1>10. StageOK(p, confirmed)
  <2>1. p.next - 1 = pub.next
    BY <1>1
  <2> QED
    BY <1>1, <2>1 DEF StageOK, Matches
<1> QED
  BY <1>4, <1>5, <1>6, <1>7, <1>8, <1>9, <1>10 DEF PubOK, RecordsOK

LEMMA PublishKeeps ==
  ASSUME PubInv, Publish
  PROVE  PubInv'
<1>1. /\ executed \in Seq(Input) /\ confirmed \in Seq(Input)
      /\ pub \in Publisher /\ pub.serial \in Nat /\ pub.next \in Nat
      /\ pub.serial + 1 \in Nat /\ pub.next + 1 \in Nat
      /\ 0 \in 0 .. 2 /\ 1 \in 0 .. 2 /\ 2 \in 0 .. 2
  BY PubFacts
<1>2. ASSUME PublishCheckpoint PROVE PubInv'
  <2>1. IsDue /\ Current \in RingRecord
    BY <1>2, DueFacts DEF PublishCheckpoint
  <2>2. /\ pub' = [pub EXCEPT !.serial = @ + 1, !.checkpoint = pub.serial + 1,
                              !.stage = Current.stage, !.phase = 1]
        /\ confirmed' = confirmed /\ executed' = executed
    BY <1>2 DEF PublishCheckpoint, titleVars
  <2>3. Current.stage \in StageNumber
    BY <2>1 DEF RingRecord
  <2>4. ~ pub.ended /\ ~ pub.retired
    BY <2>1, DueFacts
  <2> HIDE DEF Current
  <2>5. /\ pub' \in Publisher /\ pub'.records = pub.records
        /\ pub'.next = pub.next /\ pub'.phase = 1
        /\ pub'.stage = Current.stage /\ pub'.checkpoint = pub.serial + 1
        /\ pub'.ended = pub.ended /\ pub'.retired = pub.retired
    BY <1>1, <2>2, <2>3 DEF Publisher
  <2>6. PubOK(pub', confirmed, executed)
    BY <1>1, <2>1, <2>4, <2>5, BeginKeeps
  <2> QED
    BY <1>1, <2>2, <2>6, PubInvNext
<1>3. ASSUME PublishNoCheckpoint PROVE PubInv'
  <2>1. IsDue
    BY <1>3 DEF PublishNoCheckpoint
  <2>2. /\ pub' = [pub EXCEPT !.phase = 1]
        /\ confirmed' = confirmed /\ executed' = executed
    BY <1>3 DEF PublishNoCheckpoint, titleVars
  <2>3. ~ pub.ended /\ ~ pub.retired
        /\ pub.checkpoint # 0 /\ Current.stage = pub.stage
    BY <1>3, <2>1, DueFacts DEF PublishNoCheckpoint
  <2>4. /\ pub' \in Publisher /\ pub'.records = pub.records
        /\ pub'.next = pub.next /\ pub'.phase = 1
        /\ pub'.stage = pub.stage /\ pub'.checkpoint = pub.checkpoint
        /\ pub'.ended = pub.ended /\ pub'.retired = pub.retired
    BY <1>1, <2>2 DEF Publisher
  <2>5. PubOK(pub', confirmed, executed)
    BY <2>1, <2>3, <2>4, BeginKeeps
  <2> QED
    BY <1>1, <2>2, <2>5, PubInvNext
<1>4. ASSUME PublishInput PROVE PubInv'
  <2>1. IsDue /\ pub.phase = 1
    BY <1>4 DEF PublishInput
  <2>2. /\ pub' = IF Current.boss THEN [pub EXCEPT !.phase = 2] ELSE Complete(pub)
        /\ confirmed' = confirmed /\ executed' = executed
    BY <1>4 DEF PublishInput, titleVars
  <2>3. ~ pub.ended /\ ~ pub.retired /\ Current.stage = pub.stage
        /\ pub.checkpoint # 0
    BY <2>1, DueFacts DEF PubInv, PubOK, BoundsOK
  <2>4. CASE pub' = [pub EXCEPT !.phase = 2]
    <3>1. /\ pub' \in Publisher /\ pub'.records = pub.records
          /\ pub'.next = pub.next /\ pub'.phase = 2
          /\ pub'.stage = pub.stage /\ pub'.checkpoint = pub.checkpoint
          /\ pub'.ended = pub.ended /\ pub'.retired = pub.retired
      BY <1>1, <2>4 DEF Publisher
    <3>2. PubOK(pub', confirmed, executed)
      BY <2>1, <2>3, <3>1, BeginKeeps
    <3> QED
      BY <1>1, <2>2, <3>2, PubInvNext
  <2>5. CASE pub' = Complete(pub)
    <3>1. /\ pub' \in Publisher /\ pub'.records = pub.records
          /\ pub'.next = pub.next + 1 /\ pub'.phase = 0
          /\ pub'.stage = pub.stage /\ pub'.checkpoint = pub.checkpoint
          /\ pub'.ended = pub.ended /\ pub'.retired = pub.retired
      BY <1>1, <2>5 DEF Publisher, Complete
    <3>2. PubOK(pub', confirmed, executed)
      BY <2>1, <2>3, <3>1, CompleteKeeps
    <3> QED
      BY <1>1, <2>2, <3>2, PubInvNext
  <2> QED
    BY <2>2, <2>4, <2>5
<1>5. ASSUME PublishNode PROVE PubInv'
  <2>1. IsDue /\ pub.phase = 2
    BY <1>5 DEF PublishNode
  <2>2. /\ pub' = [Complete(pub) EXCEPT !.serial = @ + 1]
        /\ confirmed' = confirmed /\ executed' = executed
    BY <1>5 DEF PublishNode, titleVars
  <2>3. ~ pub.ended /\ ~ pub.retired
    BY <2>1, DueFacts
  <2>4. /\ pub' \in Publisher /\ pub'.records = pub.records
        /\ pub'.next = pub.next + 1 /\ pub'.phase = 0
        /\ pub'.stage = pub.stage /\ pub'.checkpoint = pub.checkpoint
        /\ pub'.ended = pub.ended /\ pub'.retired = pub.retired
    BY <1>1, <2>2 DEF Publisher, Complete
  <2>5. PubOK(pub', confirmed, executed)
    BY <2>1, <2>3, <2>4, CompleteKeeps
  <2> QED
    BY <1>1, <2>2, <2>5, PubInvNext
<1> QED
  BY <1>2, <1>3, <1>4, <1>5, PublishFailsAsking DEF Publish

LEMMA FinishKeeps ==
  ASSUME PubInv, Finish
  PROVE  PubInv'
<1>1. /\ executed \in Seq(Input) /\ confirmed \in Seq(Input)
      /\ pub \in Publisher /\ pub.serial \in Nat /\ pub.next \in Nat
      /\ pub.serial + 1 \in Nat /\ pub.next + 1 \in Nat
      /\ 0 \in 0 .. 2 /\ 1 \in 0 .. 2 /\ 2 \in 0 .. 2
      /\ Len(confirmed) \in Nat
  BY PubFacts
<1>2. /\ pub' = [pub EXCEPT !.ended = TRUE, !.serial = @ + 1]
      /\ confirmed' = confirmed /\ executed' = executed
      /\ ~ pub.retired /\ pub.checkpoint # 0 /\ pub.phase = 0 /\ Wrong = {}
      /\ pub.next = Len(confirmed) /\ pub.next = Len(executed)
      /\ pub.next = MaxFrame
  BY DEF Finish, titleVars
<1>3. /\ pub' \in Publisher /\ pub'.records = pub.records
      /\ pub'.next = pub.next /\ pub'.phase = 0
      /\ pub'.stage = pub.stage /\ pub'.checkpoint = pub.checkpoint
      /\ pub'.retired = pub.retired
  BY <1>1, <1>2 DEF Publisher
<1>4. executed = confirmed
  <2>1. \A k \in 1 .. Len(executed) : executed[k] = confirmed[k]
    BY <1>1, <1>2, Reconciled
  <2> QED
    BY <1>1, <1>2, <2>1, SeqEqual
<1>5. BoundsOK(pub', confirmed, executed)
  BY <1>1, <1>2, <1>3, <1>4 DEF BoundsOK
<1>6. RecordsOK(pub', confirmed, executed)
  <2>1. \A f : Slot(pub', f) = Slot(pub, f) /\ (Holds(pub', f) <=> Holds(pub, f))
    BY <1>3 DEF Slot, Holds
  <2>2. RecordsOK(pub, confirmed, executed)
    BY <1>2 DEF PubInv, PubOK
  <2> QED
    BY <1>2, <1>3, <2>1, <2>2 DEF RecordsOK, RingOK, PendingOK, PublishedOK,
                                  BegunOK, PredecessorOK, WithinRing, StageOK
<1> QED
  BY <1>1, <1>2, <1>3, <1>5, <1>6, PubInvNext DEF PubOK

LEMMA PubInit == InitPublisher => PubInv
<1> SUFFICES ASSUME InitPublisher PROVE PubInv
  OBVIOUS
<1>1. confirmed = << >> /\ executed = << >> /\ pub = NewPublisher
  BY DEF InitPublisher
<1>2. << >> \in Seq(Input) /\ Len(<< >>) = 0
  OBVIOUS
<1>3. pub \in Publisher
  <2> DEFINE empty == [frame |-> INVALID_FRAME, stage |-> 0,
                       initializer |-> Nothing, input |-> Nothing,
                       boss |-> FALSE]
  <2>1. empty \in RingRecord
    BY DEF RingRecord, StageNumber, World, BossMark
  <2> HIDE DEF empty
  <2>2. [k \in 0 .. Capacity - 1 |-> empty] \in [0 .. Capacity - 1 -> RingRecord]
    BY <2>1
  <2>3. pub = [records |-> [k \in 0 .. Capacity - 1 |-> empty],
               next |-> 0, phase |-> 0, stage |-> 0, serial |-> 0,
               checkpoint |-> 0, ended |-> FALSE, retired |-> FALSE]
    BY <1>1 DEF NewPublisher, empty
  <2> HIDE DEF RingRecord
  <2>4. 0 \in StageNumber
    BY DEF StageNumber
  <2> QED
    BY <2>2, <2>3, <2>4 DEF Publisher
<1>4. /\ pub.next = 0 /\ pub.phase = 0 /\ ~ pub.ended
      /\ \A s \in 0 .. Capacity - 1 : pub.records[s].frame = INVALID_FRAME
  BY <1>1 DEF NewPublisher
<1>5. BoundsOK(pub, confirmed, executed)
  BY <1>1, <1>2, <1>4 DEF BoundsOK
<1>6. RecordsOK(pub, confirmed, executed)
  BY <1>1, <1>2, <1>4, StreamConstants
     DEF RecordsOK, RingOK, PendingOK, PublishedOK, BegunOK, PredecessorOK,
         WithinRing, StageOK, INVALID_FRAME
<1> QED
  BY <1>1, <1>2, <1>3, <1>5, <1>6 DEF PubInv, TitleTypeOK, PubOK

---------------------------------------------------------------------------
(* The publisher by itself. *)

(* Whoever publishes leaves the stream to the title. *)
LEMMA PublishRetires ==
  ASSUME PubInv, Publish \/ Finish, ~pub.retired, pub'.retired
  PROVE  executed' = executed /\ IsDue /\ AsksTitle
<1>1. pub \in Publisher
  BY PubFacts
<1>2. CASE PublishFails
  BY <1>2, PublishFailsAsking
<1>3. CASE PublishCheckpoint
  BY <1>1, <1>3 DEF PublishCheckpoint, Publisher
<1>4. CASE PublishNoCheckpoint
  BY <1>1, <1>4 DEF PublishNoCheckpoint, Publisher
<1>5. CASE PublishInput
  BY <1>1, <1>5 DEF PublishInput, Complete, Publisher
<1>6. CASE PublishNode
  BY <1>1, <1>6 DEF PublishNode, Complete, Publisher
<1>7. CASE Finish
  BY <1>1, <1>7 DEF Finish, Publisher
<1> QED
  BY <1>2, <1>3, <1>4, <1>5, <1>6, <1>7 DEF Publish

LEMMA RetiresForACause ==
  ASSUME PubInv, PublisherNext, ~pub.retired, pub'.retired
  PROVE  IF executed' = executed THEN IsDue /\ AsksTitle ELSE RanAhead
<1>1. CASE \E i \in Input : Confirm(i)
  BY <1>1 DEF Confirm
<1>2. ASSUME NEW i \in Input, NEW records \in BOOLEAN, Execute(i, records)
      PROVE  executed' # executed /\ RanAhead
  <2>1. executed \in Seq(Input) /\ Len(executed) \in Nat
    BY PubFacts
  <2>2. Len(Append(executed, i)) = Len(executed) + 1
    BY <2>1, AppendExtends
  <2>3. executed' = Append(executed, i)
    BY <1>2 DEF Execute
  <2> QED
    BY <1>2, <2>1, <2>2, <2>3, ExecuteKeeps
<1>3. CASE Rollback
  BY <1>3 DEF Rollback
<1>4. CASE Publish \/ Finish
  BY <1>4, PublishRetires
<1> QED
  BY <1>1, <1>2, <1>3, <1>4 DEF PublisherNext, TitleNext

LEMMA PubInvariance == PublisherSpec => []PubInv
<1>1. PubInv /\ UNCHANGED pubVars => PubInv'
  BY PubInvNext DEF pubVars, PubInv, TitleTypeOK
<1>2. PubInv /\ PublisherNext => PubInv'
  BY ConfirmKeeps, ExecuteKeeps, RollbackKeeps, PublishKeeps, FinishKeeps
     DEF PublisherNext, TitleNext
<1> QED
  BY <1>1, <1>2, PubInit, PTL DEF PublisherSpec

(* Theorem.  The stream is given up by a title that executes a frame only  *)
(* when it ran ahead by the ring, and by Publish only when it asks the     *)
(* title for an input that was not recorded: Record refuses nothing else,  *)
(* and there is no MissingRecord and no StageCheckpointMissing             *)
(* (NeedsCheckpoint, Record, Publish).                                     *)
THEOREM GivingUpHasACause == PublisherSpec => GivenUpForACause
<1>1. PubInv /\ [PublisherNext]_pubVars =>
        [~pub.retired /\ pub'.retired =>
           IF executed' = executed THEN IsDue /\ AsksTitle ELSE RanAhead]_pubVars
  BY RetiresForACause
<1> QED
  BY <1>1, PubInvariance, PTL DEF PublisherSpec, GivenUpForACause

---------------------------------------------------------------------------
(* The log. *)

LEMMA LogInvNext == LogInv' <=> LogOK(log', pub', confirmed')
BY DEF LogInv, LogOK, StreamOK, TailOK, RunOf, Published, Prefix, Packet,
       EventPacket, InputPacket, StageNumber, World, Tells, NextAfter, Rules,
       Chained, SerialsGrow, CheckpointsGrow, Belongs, Attributed, EndIsLast

LEMMA PacketFacts ==
  ASSUME NEW e \in Packet
  PROVE  /\ e.frame \in Nat /\ NextAfter(e) \in Nat
         /\ e.kind \in {"checkpoint", "node", "end", "input"}
         /\ e.kind = "input" => e \in InputPacket /\ e.input \in Input
         /\ e.kind # "input" =>
              /\ e \in EventPacket /\ e.stage \in StageNumber
              /\ e.serial \in Nat /\ e.state \in World
<1>1. CASE e \in EventPacket
  BY <1>1 DEF EventPacket, NextAfter
<1>2. CASE e \in InputPacket
  BY <1>2 DEF InputPacket, NextAfter
<1> QED
  BY <1>1, <1>2 DEF Packet

(* What is told of a run is told of its continuations. *)
LEMMA TellsOn ==
  ASSUME NEW e \in Packet, NEW w \in Seq(Input), NEW v \in Seq(Input),
         Extends(w, v), Tells(e, w)
  PROVE  Tells(e, v)
<1>1. e.frame \in Nat /\ NextAfter(e) \in Nat /\ Len(w) \in Nat /\ Len(v) \in Nat
  BY PacketFacts, LenProperties
<1>2. NextAfter(e) <= Len(w) /\ Len(w) <= Len(v)
  BY DEF Tells, Extends
<1>3. ASSUME e.kind = "input" PROVE e.input = v[e.frame + 1]
  <2>1. e.frame + 1 \in 1 .. Len(w)
    BY <1>1, <1>2, <1>3 DEF NextAfter
  <2> QED
    BY <1>3, <2>1 DEF Tells, Extends
<1>4. ASSUME e.kind = "checkpoint" PROVE e.state = Prefix(v, e.frame)
  <2>1. e.frame \in 0 .. Len(w)
    BY <1>1, <1>2, <1>4 DEF NextAfter
  <2>2. Prefix(w, e.frame) = Prefix(v, e.frame)
    BY <2>1, ExtendsPrefix
  <2> QED
    BY <1>4, <2>2 DEF Tells
<1> QED
  BY <1>1, <1>2, <1>3, <1>4 DEF Tells

LEMMA RulesAppend ==
  ASSUME NEW lg \in Seq(Packet), NEW x \in Packet,
         NEW i \in 1 .. Len(lg) + 1, Rules(Append(lg, x), i, Len(lg) + 1)
  PROVE  IF x.kind = "checkpoint" THEN i = Len(lg) + 1
         ELSE i \in 1 .. Len(lg) /\ Rules(lg, i, Len(lg))
<1> DEFINE n == Len(lg) + 1
           t == Append(lg, x)
<1>1. Len(lg) \in Nat
  BY LenProperties
<1>2. t[n] = x /\ \A k \in 1 .. Len(lg) : t[k] = lg[k]
  BY AppendExtends
<1> HIDE DEF t
<1>3. t[i].kind = "checkpoint" /\ \A k \in i + 1 .. n : t[k].kind # "checkpoint"
  BY DEF Rules, t
<1>4. CASE x.kind = "checkpoint"
  <2>1. ~ (n \in i + 1 .. n)
    BY <1>2, <1>3, <1>4
  <2> QED
    BY <1>1, <1>4, <2>1
<1>5. CASE x.kind # "checkpoint"
  <2>1. i \in 1 .. Len(lg)
    BY <1>1, <1>2, <1>3, <1>5
  <2>2. \A k \in i + 1 .. Len(lg) : k \in i + 1 .. n /\ k \in 1 .. Len(lg)
    BY <1>1, <2>1
  <2> QED
    BY <1>2, <1>3, <1>5, <2>1, <2>2 DEF Rules
<1> QED
  BY <1>4, <1>5

LEMMA AppendStream ==
  ASSUME NEW lg \in Seq(Packet), NEW x \in Packet,
         NEW w \in Seq(Input), NEW v \in Seq(Input), Extends(w, v),
         StreamOK(lg, w), Tells(x, v),
         lg # << >> => x.frame = NextAfter(lg[Len(lg)]),
         \A i \in 1 .. Len(lg) :
           /\ x.kind # "input" /\ lg[i].kind # "input" => lg[i].serial < x.serial
           /\ x.kind = "checkpoint" /\ lg[i].kind = "checkpoint" =>
                lg[i].frame < x.frame
           /\ Rules(lg, i, Len(lg)) => Belongs(x, lg[i])
           /\ lg[i].kind # "end"
  PROVE  Append(lg, x) \in Seq(Packet) /\ StreamOK(Append(lg, x), v)
<1> DEFINE n == Len(lg) + 1
           t == Append(lg, x)
<1>1. Len(lg) \in Nat
  BY LenProperties
<1>2. /\ t \in Seq(Packet) /\ Len(t) = n
      /\ t[n] = x /\ \A k \in 1 .. Len(lg) : t[k] = lg[k]
  BY AppendExtends
<1> HIDE DEF t
<1>3. \A i \in 1 .. n : i \in 1 .. Len(lg) \/ i = n
  BY <1>1
<1>4. \A i \in 1 .. Len(lg) : i < n
  BY <1>1
<1>5. \A i \in 1 .. Len(t) : Tells(t[i], v)
  <2> SUFFICES ASSUME NEW i \in 1 .. Len(t) PROVE Tells(t[i], v)
    OBVIOUS
  <2>1. CASE i = n
    BY <1>2, <2>1
  <2>2. CASE i \in 1 .. Len(lg)
    <3>1. Tells(lg[i], w) /\ lg[i] \in Packet
      BY <2>2, ElementOfSeq DEF StreamOK
    <3> QED
      BY <1>2, <2>2, <3>1, TellsOn
  <2> QED
    BY <1>2, <1>3, <2>1, <2>2
<1>6. Chained(t)
  <2> SUFFICES ASSUME NEW i \in 1 .. Len(t) - 1
               PROVE  t[i + 1].frame = NextAfter(t[i])
    BY DEF Chained
  <2>1. i \in 1 .. Len(lg)
    BY <1>1, <1>2
  <2>2. CASE i = Len(lg)
    <3>1. lg # << >> /\ i + 1 = n
      BY <2>1, <2>2
    <3> QED
      BY <1>2, <2>1, <2>2, <3>1
  <2>3. CASE i # Len(lg)
    <3>1. i \in 1 .. Len(lg) - 1 /\ i + 1 \in 1 .. Len(lg)
      BY <1>1, <2>1, <2>3
    <3> QED
      BY <1>2, <2>1, <3>1 DEF StreamOK, Chained
  <2> QED
    BY <2>2, <2>3
<1>7. SerialsGrow(t)
  <2> SUFFICES ASSUME NEW i \in 1 .. n, NEW j \in 1 .. n, i < j,
                      t[i].kind # "input", t[j].kind # "input"
               PROVE  t[i].serial < t[j].serial
    BY <1>2 DEF SerialsGrow
  <2>1. i \in 1 .. Len(lg)
    BY <1>1
  <2>2. CASE j = n
    BY <1>2, <2>1, <2>2
  <2>3. CASE j \in 1 .. Len(lg)
    BY <1>2, <2>1, <2>3 DEF StreamOK, SerialsGrow
  <2> QED
    BY <1>3, <2>2, <2>3
<1>8. CheckpointsGrow(t)
  <2> SUFFICES ASSUME NEW i \in 1 .. n, NEW j \in 1 .. n, i < j,
                      t[i].kind = "checkpoint", t[j].kind = "checkpoint"
               PROVE  t[i].frame < t[j].frame
    BY <1>2 DEF CheckpointsGrow
  <2>1. i \in 1 .. Len(lg)
    BY <1>1
  <2>2. CASE j = n
    BY <1>2, <2>1, <2>2
  <2>3. CASE j \in 1 .. Len(lg)
    BY <1>2, <2>1, <2>3 DEF StreamOK, CheckpointsGrow
  <2> QED
    BY <1>3, <2>2, <2>3
<1>9. Attributed(t)
  <2> SUFFICES ASSUME NEW i \in 1 .. n, NEW c \in 1 .. i - 1, Rules(t, c, i - 1)
               PROVE  Belongs(t[i], t[c])
    BY <1>2 DEF Attributed
  <2>1. i - 1 \in Nat /\ i - 1 <= Len(lg) /\ c \in 1 .. Len(lg)
    BY <1>1
  <2>2. \A k \in c + 1 .. i - 1 : k \in 1 .. Len(lg)
    BY <2>1
  <2>3. Rules(lg, c, i - 1)
    BY <1>2, <2>1, <2>2 DEF Rules
  <2>4. CASE i = n
    <3>1. i - 1 = Len(lg)
      BY <1>1, <2>4
    <3> QED
      BY <1>2, <2>1, <2>3, <2>4, <3>1
  <2>5. CASE i \in 1 .. Len(lg)
    BY <1>2, <2>1, <2>3, <2>5 DEF StreamOK, Attributed
  <2> QED
    BY <1>3, <2>4, <2>5
<1>10. EndIsLast(t)
  BY <1>2, <1>3 DEF EndIsLast
<1> QED
  BY <1>2, <1>5, <1>6, <1>7, <1>8, <1>9, <1>10 DEF StreamOK, t

(* The run a publisher has sent. *)
LEMMA RunFacts ==
  ASSUME NEW c \in Seq(Input), NEW p, Published(p) \in 0 .. Len(c)
  PROVE  RunOf(p, c) \in Seq(Input) /\ Len(RunOf(p, c)) = Published(p)
         /\ Extends(RunOf(p, c), c)
<1>1. Len(c) \in Nat /\ Len(c) \in 0 .. Len(c)
  BY LenProperties
<1>2. Prefix(c, Published(p)) \in Seq(Input)
      /\ Len(Prefix(c, Published(p))) = Published(p)
  BY PrefixFacts
<1>3. Extends(Prefix(c, Published(p)), c)
  BY <1>1, PrefixExtends
<1> QED
  BY <1>2, <1>3 DEF RunOf

LEMMA TheRunFacts ==
  ASSUME PubInv
  PROVE  /\ Published(pub) \in 0 .. Len(confirmed)
         /\ TheRun \in Seq(Input) /\ Len(TheRun) = Published(pub)
         /\ Extends(TheRun, confirmed)
<1>1. pub.next \in Nat /\ Len(confirmed) \in Nat /\ confirmed \in Seq(Input)
      /\ pub.next <= Len(confirmed)
      /\ (pub.phase # 0 => pub.next < Len(confirmed))
  BY PubFacts DEF PubInv, PubOK, BoundsOK
<1>2. Published(pub) \in 0 .. Len(confirmed)
  BY <1>1 DEF Published
<1> QED
  BY <1>1, <1>2, RunFacts DEF TheRun

(* A send, of packet x, that leaves the publisher at p.                    *)
LEMMA SendKeeps ==
  ASSUME PubInv, LogInv, NEW x \in Packet, NEW p \in Publisher,
         Published(p) \in 0 .. Len(confirmed), Published(pub) <= Published(p),
         x.frame = Published(pub), NextAfter(x) = Published(p),
         Tells(x, RunOf(p, confirmed)), ~pub.ended,
         pub.phase # 0 \/ x.kind # "input", pub.next <= p.next,
         pub.serial <= p.serial, p.checkpoint # 0,
         x.kind # "input" => x.serial = pub.serial + 1 /\ p.serial = x.serial,
         x.kind = "checkpoint" =>
           /\ pub.phase = 0 /\ p.phase # 0 /\ p.next = pub.next
           /\ x.serial = p.checkpoint /\ x.stage = p.stage,
         x.kind # "checkpoint" =>
           /\ pub.checkpoint = p.checkpoint /\ pub.stage = p.stage
           /\ p.phase = 0 => pub.phase = 0 \/ pub.next < p.next,
         x.kind \in {"node", "end"} => x.stage = pub.stage,
         x.kind = "node" => x.checkpoint = pub.checkpoint,
         x.kind = "end" => p.ended
  PROVE  LogOK(Append(log, x), p, confirmed)
<1> DEFINE n == Len(log) + 1
           t == Append(log, x)
           w == TheRun
           v == RunOf(p, confirmed)
<1>1. /\ log \in Seq(Packet) /\ Len(log) \in Nat /\ StreamOK(log, w)
      /\ TailOK(log, pub)
  BY LenProperties DEF LogInv, LogOK, TheRun
<1>2. /\ confirmed \in Seq(Input) /\ Len(confirmed) \in Nat
      /\ pub.next \in Nat /\ pub.serial \in Nat /\ p.next \in Nat
      /\ p.serial \in Nat /\ pub.phase \in 0 .. 2 /\ p.phase \in 0 .. 2
      /\ Published(pub) \in 0 .. Len(confirmed) /\ w \in Seq(Input)
  BY PubFacts, TheRunFacts DEF Publisher
<1>3. v \in Seq(Input) /\ Len(v) = Published(p)
  BY <1>2, RunFacts
<1>4. Extends(w, v)
  <2>1. Published(pub) \in 0 .. Published(p)
    BY <1>2
  <2> QED
    BY <1>2, <2>1, PrefixExtends DEF RunOf, TheRun
<1>5. /\ t \in Seq(Packet) /\ Len(t) = n
      /\ t[n] = x /\ \A k \in 1 .. Len(log) : t[k] = log[k]
  BY <1>1, AppendExtends
<1>6. \A i \in 1 .. Len(log) : log[i] \in Packet
  BY <1>1, ElementOfSeq
<1> HIDE DEF t, w, v
<1>7. x.serial \in Nat \/ x.kind = "input"
  BY <1>2
<1>8. ASSUME NEW i \in 1 .. Len(log)
      PROVE  /\ x.kind # "input" /\ log[i].kind # "input" =>
                  log[i].serial < x.serial
             /\ x.kind = "checkpoint" /\ log[i].kind = "checkpoint" =>
                  log[i].frame < x.frame
             /\ Rules(log, i, Len(log)) => Belongs(x, log[i])
             /\ log[i].kind # "end"
  <2>1. /\ log[i].kind # "input" => log[i].serial <= pub.serial
        /\ log[i].kind = "checkpoint" =>
             log[i].frame <= pub.next /\ (pub.phase = 0 => log[i].frame < pub.next)
        /\ log[i].kind = "end" => pub.ended
        /\ Rules(log, i, Len(log)) =>
             log[i].serial = pub.checkpoint /\ log[i].stage = pub.stage
    BY <1>1 DEF TailOK
  <2>2. log[i].frame \in Nat /\ (log[i].kind # "input" => log[i].serial \in Nat)
    BY <1>6, PacketFacts DEF EventPacket
  <2>3. pub.phase = 0 => x.frame = pub.next
    BY <1>2 DEF Published
  <2> QED
    BY <1>2, <2>1, <2>2, <2>3, SMTT(30) DEF Belongs
<1>9. log # << >> => x.frame = NextAfter(log[Len(log)])
  BY <1>1 DEF TailOK
<1>10. t \in Seq(Packet) /\ StreamOK(t, v)
  BY <1>1, <1>2, <1>3, <1>4, <1>8, <1>9, AppendStream DEF t, v
<1>11. TailOK(t, p)
  <2>1. t # << >> /\ NextAfter(t[Len(t)]) = Published(p)
    BY <1>1, <1>5
  <2>2. ASSUME NEW i \in 1 .. Len(t)
        PROVE  /\ t[i].kind # "input" => t[i].serial <= p.serial
               /\ t[i].kind = "checkpoint" =>
                    t[i].frame <= p.next /\ (p.phase = 0 => t[i].frame < p.next)
               /\ t[i].kind = "end" => p.ended
               /\ Rules(t, i, Len(t)) =>
                    t[i].serial = p.checkpoint /\ t[i].stage = p.stage
    <3>1. CASE i = n
      <4>1. x.kind = "checkpoint" => x.frame = pub.next
        BY <1>2 DEF Published
      <4>2. Rules(t, i, Len(t)) => x.kind = "checkpoint"
        BY <1>5, <3>1 DEF Rules
      <4> QED
        BY <1>2, <1>5, <3>1, <4>1, <4>2
    <3>2. CASE i # n
      <4>1. i \in 1 .. Len(log) /\ t[i] = log[i] /\ i \in 1 .. Len(log) + 1
        BY <1>1, <1>5, <3>2
      <4>2. log[i].frame \in Nat /\ (log[i].kind # "input" => log[i].serial \in Nat)
        BY <1>6, <4>1, PacketFacts DEF EventPacket
      <4>3. /\ log[i].kind # "input" => log[i].serial <= pub.serial
            /\ log[i].kind = "checkpoint" =>
                 /\ log[i].frame <= pub.next
                 /\ pub.phase = 0 => log[i].frame < pub.next
            /\ Rules(log, i, Len(log)) =>
                 log[i].serial = pub.checkpoint /\ log[i].stage = pub.stage
        BY <1>1, <4>1 DEF TailOK
      <4>4. Rules(t, i, Len(t)) =>
              x.kind # "checkpoint" /\ Rules(log, i, Len(log))
        BY <1>1, <1>5, <3>2, <4>1, RulesAppend DEF t
      <4>5. ASSUME log[i].kind = "checkpoint"
            PROVE  /\ log[i].frame <= p.next
                   /\ p.phase = 0 => log[i].frame < p.next
        <5>1. log[i].frame \in Nat /\ log[i].frame <= pub.next
          BY <4>2, <4>3, <4>5
        <5>2. ASSUME p.phase = 0 PROVE log[i].frame < p.next
          <6>1. x.kind # "checkpoint"
            BY <5>2
          <6>2. CASE pub.phase = 0
            BY <1>2, <4>3, <4>5, <5>1, <6>2, SMTT(30)
          <6>3. CASE pub.next < p.next
            BY <1>2, <5>1, <6>3, SMTT(30)
          <6> QED
            BY <5>2, <6>1, <6>2, <6>3
        <5> QED
          BY <1>2, <5>1, <5>2
      <4>6. log[i].kind # "input" => log[i].serial <= p.serial
        BY <1>2, <4>2, <4>3, SMTT(30)
      <4>7. log[i].kind # "end"
        BY <1>8, <4>1
      <4>8. Rules(t, i, Len(t)) =>
              log[i].serial = p.checkpoint /\ log[i].stage = p.stage
        BY <4>3, <4>4
      <4> QED
        BY <4>1, <4>5, <4>6, <4>7, <4>8
    <3> QED
      BY <3>1, <3>2
  <2> QED
    BY <2>1, <2>2 DEF TailOK
<1> QED
  BY <1>10, <1>11 DEF LogOK, t, v

---------------------------------------------------------------------------
(* What the publisher's steps do to the log and to the run it makes. *)

LEMMA TheRunNext == TheRun' = RunOf(pub', confirmed')
BY DEF TheRun, RunOf, Published, Prefix

Quiet == log' = log /\ TheRun' = TheRun
Sends ==
  \E x \in Packet :
    /\ log' = Append(log, x)
    /\ TheRun' = IF x.kind = "input" THEN Append(TheRun, x.input) ELSE TheRun

LEMMA QuietKeeps ==
  ASSUME PubInv, LogInv, SamePublication, log' = log,
         confirmed' \in Seq(Input), Extends(confirmed, confirmed')
  PROVE  LogInv' /\ Quiet
<1>1. Published(pub') = Published(pub)
  BY DEF SamePublication, Published
<1>2. RunOf(pub', confirmed') = TheRun
  <2>1. confirmed \in Seq(Input) /\ Published(pub) \in 0 .. Len(confirmed)
    BY PubFacts, TheRunFacts
  <2>2. Prefix(confirmed, Published(pub)) = Prefix(confirmed', Published(pub))
    BY <2>1, ExtendsPrefix
  <2> QED
    BY <1>1, <2>2 DEF RunOf, TheRun
<1>3. TailOK(log, pub')
  BY <1>1 DEF LogInv, LogOK, TailOK, SamePublication
<1>4. LogOK(log', pub', confirmed')
  BY <1>2, <1>3 DEF LogInv, LogOK, TheRun
<1> QED
  BY <1>2, <1>4, LogInvNext, TheRunNext DEF Quiet

LEMMA TitleKeeps ==
  ASSUME PubInv, LogInv, TitleNext
  PROVE  PubInv' /\ LogInv' /\ Quiet
<1>0. /\ confirmed \in Seq(Input) /\ Len(confirmed) \in Nat
  BY PubFacts
<1>1. Extends(confirmed, confirmed)
  BY <1>0 DEF Extends
<1>2. ASSUME NEW i \in Input, Confirm(i)
      PROVE  PubInv' /\ LogInv' /\ Quiet
  <2>1. PubInv'
    BY <1>2, ConfirmKeeps
  <2>2. confirmed' = Append(confirmed, i) /\ pub' = pub /\ log' = log
    BY <1>2 DEF Confirm
  <2>3. Extends(confirmed, confirmed') /\ confirmed' \in Seq(Input)
    BY <1>0, <2>2, AppendExtends
  <2>4. SamePublication
    BY <2>2 DEF SamePublication
  <2>5. LogInv' /\ Quiet
    BY <2>2, <2>3, <2>4, QuietKeeps
  <2> QED
    BY <2>1, <2>2, <2>5
<1>3. ASSUME NEW i \in Input, NEW records \in BOOLEAN, Execute(i, records)
      PROVE  PubInv' /\ LogInv' /\ Quiet
  <2>1. PubInv' /\ SamePublication
    BY <1>3, ExecuteKeeps
  <2>2. confirmed' = confirmed /\ log' = log
    BY <1>3 DEF Execute
  <2>3. LogInv' /\ Quiet
    BY <1>0, <1>1, <2>1, <2>2, QuietKeeps
  <2> QED
    BY <2>1, <2>3
<1>4. ASSUME Rollback
      PROVE  PubInv' /\ LogInv' /\ Quiet
  <2>1. PubInv'
    BY <1>4, RollbackKeeps
  <2>2. confirmed' = confirmed /\ pub' = pub /\ log' = log
    BY <1>4 DEF Rollback
  <2>3. SamePublication
    BY <2>2 DEF SamePublication
  <2>4. LogInv' /\ Quiet
    BY <1>0, <1>1, <2>2, <2>3, QuietKeeps
  <2> QED
    BY <2>1, <2>2, <2>4
<1> QED
  BY <1>2, <1>3, <1>4 DEF TitleNext

(* A send that is not an input leaves the run, one that is extends it.     *)
LEMMA SendFacts ==
  ASSUME PubInv, LogInv, PubInv', confirmed' = confirmed,
         NEW x \in Packet, log' = Append(log, x),
         LogOK(Append(log, x), pub', confirmed),
         RunOf(pub', confirmed) =
           IF x.kind = "input" THEN Append(TheRun, x.input) ELSE TheRun
  PROVE  LogInv' /\ Sends
BY LogInvNext, TheRunNext DEF Sends

LEMMA PublishCheckpointLog ==
  ASSUME PubInv, LogInv, PubInv', PublishCheckpoint
  PROVE  LogInv' /\ Sends
<1> DEFINE x == [Event("checkpoint", pub.next, Current.stage)
                   EXCEPT !.state = Current.initializer]
<1>0. pub' = [pub EXCEPT !.serial = @ + 1, !.checkpoint = pub.serial + 1,
                         !.stage = Current.stage, !.phase = 1]
  BY DEF PublishCheckpoint
<1>1. /\ IsDue /\ pub.phase = 0 /\ Current.initializer # Nothing
      /\ log' = Append(log, x) /\ confirmed' = confirmed
  BY DEF PublishCheckpoint, titleVars
<1>2. /\ Current \in RingRecord /\ ~ pub.ended
      /\ Current.initializer = Prefix(confirmed, pub.next)
      /\ pub.next < Len(confirmed)
  BY <1>1, DueFacts
<1>3. /\ pub \in Publisher /\ pub.next \in Nat /\ pub.serial \in Nat
      /\ confirmed \in Seq(Input) /\ Len(confirmed) \in Nat
      /\ pub.serial + 1 \in Nat /\ 1 \in 0 .. 2
  BY PubFacts
<1>4. Current.stage \in StageNumber /\ Current.initializer \in World
  BY <1>2 DEF RingRecord
<1> HIDE DEF Current
<1>5. /\ pub' \in Publisher /\ pub'.next = pub.next /\ pub'.phase = 1
      /\ pub'.serial = pub.serial + 1 /\ pub'.checkpoint = pub.serial + 1
      /\ pub'.stage = Current.stage /\ pub'.ended = pub.ended
  BY <1>0, <1>3, <1>4 DEF Publisher
<1>6. /\ x \in EventPacket /\ x.kind = "checkpoint" /\ x.frame = pub.next
      /\ x.stage = Current.stage /\ x.serial = pub.serial + 1
      /\ x.state = Prefix(confirmed, pub.next)
  <2>1. x = [kind |-> "checkpoint", frame |-> pub.next, stage |-> Current.stage,
             serial |-> pub.serial + 1, checkpoint |-> 0,
             state |-> Current.initializer]
    BY DEF Event
  <2> QED
    BY <1>2, <1>3, <1>4, <2>1 DEF EventPacket
<1>7. x \in Packet /\ NextAfter(x) = pub.next
  BY <1>6 DEF Packet, NextAfter
<1> HIDE DEF x
<1>8. Published(pub') = pub.next /\ Published(pub) = pub.next
  BY <1>1, <1>3, <1>5 DEF Published
<1>9. RunOf(pub', confirmed) = TheRun
  BY <1>8 DEF RunOf, TheRun
<1>10. Tells(x, RunOf(pub', confirmed))
  <2>1. pub.next \in 0 .. Len(confirmed) /\ pub.next \in 0 .. pub.next
    BY <1>2, <1>3
  <2>2. Prefix(Prefix(confirmed, pub.next), pub.next) = Prefix(confirmed, pub.next)
        /\ Len(Prefix(confirmed, pub.next)) = pub.next
    BY <1>3, <2>1, PrefixExtends, PrefixFacts
  <2> QED
    BY <1>3, <1>6, <1>7, <1>8, <2>2 DEF Tells, RunOf
<1>11. LogOK(Append(log, x), pub', confirmed)
  <2>1. Published(pub') \in 0 .. Len(confirmed) /\ Published(pub) <= Published(pub')
    BY <1>2, <1>3, <1>8
  <2>2. pub.next <= pub'.next /\ pub.serial <= pub'.serial /\ pub'.checkpoint # 0
    BY <1>3, <1>5
  <2> QED
    BY <1>1, <1>2, <1>5, <1>6, <1>7, <1>8, <1>10, <2>1, <2>2, SendKeeps
<1> QED
  BY <1>1, <1>6, <1>7, <1>9, <1>11, SendFacts

LEMMA PublishNoCheckpointLog ==
  ASSUME PubInv, LogInv, PublishNoCheckpoint
  PROVE  LogInv' /\ Quiet
<1>1. /\ pub' = [pub EXCEPT !.phase = 1] /\ pub.phase = 0
      /\ pub.checkpoint # 0 /\ confirmed' = confirmed /\ log' = log
  BY DEF PublishNoCheckpoint, titleVars
<1>2. pub \in Publisher /\ pub.next \in Nat
  BY PubFacts
<1>3. /\ pub'.next = pub.next /\ pub'.phase = 1 /\ pub'.serial = pub.serial
      /\ pub'.checkpoint = pub.checkpoint /\ pub'.stage = pub.stage
      /\ pub'.ended = pub.ended
  BY <1>1, <1>2 DEF Publisher
<1>4. Published(pub') = Published(pub)
  BY <1>1, <1>3 DEF Published
<1>5. RunOf(pub', confirmed') = TheRun
  BY <1>1, <1>4 DEF RunOf, TheRun
<1>6. TailOK(log, pub')
  BY <1>1, <1>3, <1>4 DEF LogInv, LogOK, TailOK
<1>7. LogOK(log', pub', confirmed')
  BY <1>1, <1>5, <1>6 DEF LogInv, LogOK, TheRun
<1> QED
  BY <1>1, <1>5, <1>7, LogInvNext, TheRunNext DEF Quiet

LEMMA PublishInputLog ==
  ASSUME PubInv, LogInv, PubInv', PublishInput
  PROVE  LogInv' /\ Sends
<1> DEFINE i == IF AsksTitle THEN confirmed[pub.next + 1]
                ELSE Current.input
           x == [kind |-> "input", frame |-> pub.next, input |-> i]
<1>0. pub' = IF Current.boss THEN [pub EXCEPT !.phase = 2] ELSE Complete(pub)
  BY DEF PublishInput
<1>1. /\ IsDue /\ pub.phase = 1
      /\ log' = Append(log, x) /\ confirmed' = confirmed
  BY DEF PublishInput, titleVars
<1>2. /\ ~ pub.ended /\ pub.next < Len(confirmed)
      /\ Matches(Current, confirmed, pub.next)
  BY <1>1, DueFacts
<1>3. /\ pub \in Publisher /\ pub.next \in Nat /\ pub.serial \in Nat
      /\ confirmed \in Seq(Input) /\ Len(confirmed) \in Nat
      /\ pub.next + 1 \in Nat /\ 0 \in 0 .. 2 /\ 2 \in 0 .. 2
  BY PubFacts
<1>4. i = confirmed[pub.next + 1]
  <2>1. AsksTitle <=> Current.input = Nothing
    BY <1>1, DueFacts DEF AsksTitle
  <2> QED
    BY <1>2, <2>1 DEF Matches
<1> HIDE DEF Current, i
<1>5. /\ pub' \in Publisher /\ pub'.serial = pub.serial
      /\ pub'.checkpoint = pub.checkpoint /\ pub'.stage = pub.stage
      /\ pub'.ended = pub.ended
      /\ \/ pub'.next = pub.next /\ pub'.phase = 2
         \/ pub'.next = pub.next + 1 /\ pub'.phase = 0
  <2>1. CASE pub' = [pub EXCEPT !.phase = 2]
    BY <1>3, <2>1 DEF Publisher
  <2>2. CASE pub' = Complete(pub)
    BY <1>3, <2>2 DEF Publisher, Complete
  <2> QED
    BY <1>0, <2>1, <2>2
<1>6. /\ Append(Prefix(confirmed, pub.next), i) = Prefix(confirmed, pub.next + 1)
      /\ i \in Input
  BY <1>2, <1>3, <1>4, PrefixTick
<1>7. /\ x \in Packet /\ x.kind = "input" /\ x.frame = pub.next /\ x.input = i
      /\ NextAfter(x) = pub.next + 1
  BY <1>3, <1>6 DEF Packet, InputPacket, NextAfter
<1> HIDE DEF x
<1>8. Published(pub') = pub.next + 1 /\ Published(pub) = pub.next
  BY <1>1, <1>3, <1>5 DEF Published
<1>9. RunOf(pub', confirmed) = Append(TheRun, x.input)
  BY <1>6, <1>7, <1>8 DEF RunOf, TheRun
<1>10. Tells(x, RunOf(pub', confirmed))
  <2>1. pub.next + 1 \in 0 .. Len(confirmed) /\ pub.next + 1 \in 1 .. pub.next + 1
    BY <1>2, <1>3
  <2>2. Prefix(confirmed, pub.next + 1)[pub.next + 1] = confirmed[pub.next + 1]
        /\ Len(Prefix(confirmed, pub.next + 1)) = pub.next + 1
    BY <1>3, <2>1, PrefixFacts
  <2> QED
    BY <1>3, <1>4, <1>7, <1>8, <2>2 DEF Tells, RunOf
<1>11. LogOK(Append(log, x), pub', confirmed)
  <2>1. Published(pub') \in 0 .. Len(confirmed) /\ Published(pub) <= Published(pub')
    BY <1>2, <1>3, <1>8
  <2>2. /\ pub.next <= pub'.next /\ pub.serial <= pub'.serial
        /\ pub'.phase = 0 => pub.phase = 0 \/ pub.next < pub'.next
    BY <1>3, <1>5
  <2>3. pub'.checkpoint # 0 /\ pub.phase # 0
    BY <1>1, <1>5 DEF PubInv, PubOK, BoundsOK
  <2> QED
    BY <1>2, <1>5, <1>7, <1>8, <1>10, <2>1, <2>2, <2>3, SendKeeps
<1> QED
  BY <1>1, <1>7, <1>9, <1>11, SendFacts

LEMMA PublishNodeLog ==
  ASSUME PubInv, LogInv, PubInv', PublishNode
  PROVE  LogInv' /\ Sends
<1> DEFINE x == [Event("node", BossFrame, pub.stage)
                   EXCEPT !.checkpoint = pub.checkpoint]
<1>0. pub' = [Complete(pub) EXCEPT !.serial = @ + 1]
  BY DEF PublishNode
<1>1. /\ IsDue /\ pub.phase = 2
      /\ log' = Append(log, x) /\ confirmed' = confirmed
  BY DEF PublishNode, titleVars
<1>2. ~ pub.ended /\ pub.next < Len(confirmed)
  BY <1>1, DueFacts
<1>3. /\ pub \in Publisher /\ pub.next \in Nat /\ pub.serial \in Nat
      /\ confirmed \in Seq(Input) /\ Len(confirmed) \in Nat
      /\ pub.next + 1 \in Nat /\ pub.serial + 1 \in Nat /\ 0 \in 0 .. 2
      /\ pub.stage \in StageNumber /\ pub.checkpoint \in Nat
  BY PubFacts
<1>5. /\ pub' \in Publisher /\ pub'.next = pub.next + 1 /\ pub'.phase = 0
      /\ pub'.serial = pub.serial + 1 /\ pub'.checkpoint = pub.checkpoint
      /\ pub'.stage = pub.stage /\ pub'.ended = pub.ended
  BY <1>0, <1>3 DEF Publisher, Complete
<1>6. /\ x \in EventPacket /\ x.kind = "node" /\ x.frame = pub.next + 1
      /\ x.stage = pub.stage /\ x.serial = pub.serial + 1
      /\ x.checkpoint = pub.checkpoint
  <2>1. x = [kind |-> "node", frame |-> pub.next + 1, stage |-> pub.stage,
             serial |-> pub.serial + 1, checkpoint |-> pub.checkpoint,
             state |-> Nothing]
    BY DEF Event, BossFrame
  <2> QED
    BY <1>3, <2>1 DEF EventPacket, World
<1>7. x \in Packet /\ NextAfter(x) = pub.next + 1
  BY <1>6 DEF Packet, NextAfter
<1> HIDE DEF x
<1>8. Published(pub') = pub.next + 1 /\ Published(pub) = pub.next + 1
  BY <1>1, <1>3, <1>5 DEF Published
<1>9. RunOf(pub', confirmed) = TheRun
  BY <1>8 DEF RunOf, TheRun
<1>10. Tells(x, RunOf(pub', confirmed))
  <2>1. Len(TheRun) = pub.next + 1
    BY <1>8, TheRunFacts
  <2> QED
    BY <1>3, <1>6, <1>7, <1>9, <2>1 DEF Tells
<1>11. LogOK(Append(log, x), pub', confirmed)
  <2>1. Published(pub') \in 0 .. Len(confirmed) /\ Published(pub) <= Published(pub')
    BY <1>2, <1>3, <1>8
  <2>2. pub.next <= pub'.next /\ pub.serial <= pub'.serial
        /\ pub.next < pub'.next
    BY <1>3, <1>5
  <2>3. pub'.checkpoint # 0 /\ pub.phase # 0
    BY <1>1, <1>5 DEF PubInv, PubOK, BoundsOK
  <2> QED
    BY <1>2, <1>5, <1>6, <1>7, <1>8, <1>10, <2>1, <2>2, <2>3, SendKeeps
<1> QED
  BY <1>1, <1>6, <1>7, <1>9, <1>11, SendFacts

LEMMA FinishLog ==
  ASSUME PubInv, LogInv, PubInv', Finish
  PROVE  LogInv' /\ Sends
<1> DEFINE x == Event("end", pub.next, pub.stage)
<1>0. pub' = [pub EXCEPT !.ended = TRUE, !.serial = @ + 1]
  BY DEF Finish
<1>1. /\ pub.phase = 0 /\ ~ pub.ended /\ pub.checkpoint # 0
      /\ pub.next = Len(confirmed)
      /\ log' = Append(log, x) /\ confirmed' = confirmed
  BY DEF Finish, titleVars
<1>3. /\ pub \in Publisher /\ pub.next \in Nat /\ pub.serial \in Nat
      /\ confirmed \in Seq(Input) /\ Len(confirmed) \in Nat
      /\ pub.serial + 1 \in Nat /\ pub.stage \in StageNumber
  BY PubFacts
<1>5. /\ pub' \in Publisher /\ pub'.next = pub.next /\ pub'.phase = pub.phase
      /\ pub'.serial = pub.serial + 1 /\ pub'.checkpoint = pub.checkpoint
      /\ pub'.stage = pub.stage /\ pub'.ended
  BY <1>0, <1>3 DEF Publisher
<1>6. /\ x \in EventPacket /\ x.kind = "end" /\ x.frame = pub.next
      /\ x.stage = pub.stage /\ x.serial = pub.serial + 1
  BY <1>3 DEF EventPacket, World, Event
<1>7. x \in Packet /\ NextAfter(x) = pub.next
  BY <1>6 DEF Packet, NextAfter
<1> HIDE DEF x
<1>8. Published(pub') = pub.next /\ Published(pub) = pub.next
  BY <1>1, <1>3, <1>5 DEF Published
<1>9. RunOf(pub', confirmed) = TheRun
  BY <1>8 DEF RunOf, TheRun
<1>10. Tells(x, RunOf(pub', confirmed))
  <2>1. Len(TheRun) = pub.next
    BY <1>8, TheRunFacts
  <2> QED
    BY <1>3, <1>6, <1>7, <1>9, <2>1 DEF Tells
<1>11. LogOK(Append(log, x), pub', confirmed)
  <2>1. Published(pub') \in 0 .. Len(confirmed) /\ Published(pub) <= Published(pub')
    BY <1>1, <1>3, <1>8
  <2>2. pub.next <= pub'.next /\ pub.serial <= pub'.serial
    BY <1>3, <1>5
  <2> QED
    BY <1>1, <1>5, <1>6, <1>7, <1>8, <1>10, <2>1, <2>2, SendKeeps
<1> QED
  BY <1>1, <1>6, <1>7, <1>9, <1>11, SendFacts

(* A step of the title or of the publisher: the stream stays true to what  *)
(* is confirmed.                                                           *)
LEMMA PublisherStep ==
  ASSUME PubInv, LogInv, PublisherNext
  PROVE  PubInv' /\ LogInv' /\ (Quiet \/ Sends)
<1>1. CASE TitleNext
  BY <1>1, TitleKeeps
<1>2. CASE Publish
  <2>1. PubInv'
    BY <1>2, PublishKeeps
  <2>2. CASE PublishFails
    <3>1. SamePublication /\ log' = log /\ confirmed' = confirmed
      BY <2>2, PublishFailsAsking
    <3>2. confirmed' \in Seq(Input) /\ Extends(confirmed, confirmed')
      BY <3>1, PubFacts DEF Extends
    <3> QED
      BY <2>1, <3>1, <3>2, QuietKeeps
  <2> QED
    BY <1>2, <2>1, <2>2, PublishCheckpointLog, PublishNoCheckpointLog,
       PublishInputLog, PublishNodeLog DEF Publish
<1>3. CASE Finish
  BY <1>3, FinishKeeps, FinishLog
<1> QED
  BY <1>1, <1>2, <1>3 DEF PublisherNext

---------------------------------------------------------------------------
(* The viewer, while the stream grows. *)

LEMMA ViewerInvNext ==
  ViewerInv' <=> ViewerOK(viewer', playback', world', TheRun', log')
BY DEF ViewerInv, ViewerOK, History, Segment, Playback, StageNumber, World,
       HistoryOK, SegmentOK, EndOf, FirstOf, LastOf, Reaches, ReadsLog,
       FollowsLog, EmptyHistory, NextAfter, Rules, PlaybackOK, InPlace, Edge,
       Min2, Prefix

LEMMA SegmentFacts ==
  ASSUME NEW h \in History, NEW k \in 1 .. Len(h.segments)
  PROVE  /\ h.segments[k] \in Segment
         /\ h.segments[k].frame \in Nat /\ h.segments[k].serial \in Nat
         /\ h.segments[k].stage \in StageNumber
         /\ h.segments[k].inputs \in Seq(Input)
         /\ Len(h.segments[k].inputs) \in Nat
         /\ h.segments[k].nodes \in Seq(Nat) /\ Len(h.segments[k].nodes) \in Nat
         /\ EndOf(h.segments[k]) \in Nat
<1>1. h.segments[k] \in Segment
  BY ElementOfSeq DEF History
<1>2. /\ h.segments[k].inputs \in Seq(Input) /\ h.segments[k].nodes \in Seq(Nat)
      /\ h.segments[k].frame \in Nat
  BY <1>1 DEF Segment
<1>3. Len(h.segments[k].inputs) \in Nat /\ Len(h.segments[k].nodes) \in Nat
  BY <1>2, LenProperties
<1> QED
  BY <1>1, <1>2, <1>3 DEF Segment, EndOf

LEMMA SegmentGrows ==
  ASSUME NEW s \in Segment, NEW w \in Seq(Input), NEW v \in Seq(Input),
         Extends(w, v), SegmentOK(s, w)
  PROVE  SegmentOK(s, v)
<1>1. /\ s.frame \in Nat /\ s.inputs \in Seq(Input) /\ Len(w) \in Nat
      /\ Len(v) \in Nat
  BY LenProperties DEF Segment
<1>2. Len(s.inputs) \in Nat
  BY <1>1, LenProperties
<1>3. EndOf(s) <= Len(w) /\ Len(w) <= Len(v)
  BY DEF SegmentOK, Extends
<1>4. Prefix(w, s.frame) = Prefix(v, s.frame)
  <2>1. s.frame \in 0 .. Len(w)
    BY <1>1, <1>2, <1>3 DEF EndOf
  <2> QED
    BY <2>1, ExtendsPrefix
<1>5. ASSUME NEW j \in 1 .. Len(s.inputs) PROVE s.inputs[j] = v[s.frame + j]
  <2>1. s.frame + j \in 1 .. Len(w)
    BY <1>1, <1>2, <1>3 DEF EndOf
  <2> QED
    BY <2>1 DEF SegmentOK, Extends
<1>6. EndOf(s) <= Len(v)
  BY <1>1, <1>2, <1>3 DEF EndOf
<1> QED
  BY <1>4, <1>5, <1>6 DEF SegmentOK

LEMMA HistoryGrows ==
  ASSUME NEW h \in History, NEW w \in Seq(Input), NEW v \in Seq(Input),
         Extends(w, v), HistoryOK(h, w)
  PROVE  HistoryOK(h, v)
<1>1. Len(w) \in Nat /\ Len(v) \in Nat /\ Len(w) <= Len(v) /\ h.next \in Nat
  BY LenProperties DEF Extends, History
<1>2. h.next <= Len(v)
  BY <1>1 DEF HistoryOK
<1>3. \A k \in 1 .. Len(h.segments) : SegmentOK(h.segments[k], v)
  BY SegmentFacts, SegmentGrows DEF HistoryOK
<1> QED
  BY <1>2, <1>3 DEF HistoryOK

LEMMA ReadsGrows ==
  ASSUME NEW h \in History, NEW lg \in Seq(Packet), NEW x \in Packet,
         ReadsLog(h, lg)
  PROVE  ReadsLog(h, Append(lg, x))
<1> DEFINE t == Append(lg, x)
<1>1. Len(lg) \in Nat /\ h.joined \in Nat /\ h.received \in Nat
  BY LenProperties DEF History
<1>2. Len(t) = Len(lg) + 1 /\ \A k \in 1 .. Len(lg) : t[k] = lg[k]
  BY AppendExtends
<1> HIDE DEF t
<1>3. CASE h.joined = 0
  BY <1>3 DEF ReadsLog, t
<1>4. CASE h.joined # 0
  <2>1. /\ h.joined \in 1 .. Len(lg) /\ lg[h.joined].kind = "checkpoint"
        /\ h.received \in h.joined - 1 .. Len(lg)
        /\ ~h.refused =>
             /\ h.segments = << >> <=> h.received < h.joined
             /\ h.segments # << >> => FollowsLog(h, lg)
    BY <1>4 DEF ReadsLog
  <2>2. /\ h.joined \in 1 .. Len(t) /\ t[h.joined].kind = "checkpoint"
        /\ h.received \in h.joined - 1 .. Len(t)
    BY <1>1, <1>2, <2>1
  <2>3. ASSUME ~h.refused, h.segments # << >> PROVE FollowsLog(h, t)
    <3>1. h.received >= h.joined /\ FollowsLog(h, lg)
      BY <1>1, <2>1, <2>3
    <3>2. \A k \in h.joined .. h.received : k \in 1 .. Len(lg) /\ t[k] = lg[k]
      BY <1>1, <1>2, <2>1
    <3>3. h.received \in h.joined .. h.received
      BY <1>1, <3>1
    <3>4. ASSUME NEW c \in h.joined .. h.received, Rules(lg, c, h.received)
          PROVE  Rules(t, c, h.received)
      <4>1. \A k \in c + 1 .. h.received : k \in h.joined .. h.received
        BY <1>1, <2>1
      <4> QED
        BY <3>2, <3>4, <4>1 DEF Rules
    <3> QED
      BY <3>1, <3>2, <3>3, <3>4 DEF FollowsLog
  <2> QED
    BY <1>4, <2>1, <2>2, <2>3 DEF ReadsLog, t
<1> QED
  BY <1>3, <1>4

LEMMA PlaybackGrows ==
  ASSUME NEW s \in Playback, NEW h \in History, NEW wd,
         NEW w \in Seq(Input), NEW v \in Seq(Input), Extends(w, v),
         HistoryOK(h, w), PlaybackOK(s, h, wd, w)
  PROVE  PlaybackOK(s, h, wd, v)
<1>1. Prefix(w, s.position) = Prefix(v, s.position)
  <2>1. s.position \in Nat /\ h.next \in Nat /\ Len(w) \in Nat
    BY LenProperties DEF Playback, History
  <2>2. s.position \in 0 .. Len(w)
    BY <2>1 DEF PlaybackOK, HistoryOK
  <2> QED
    BY <2>2, ExtendsPrefix
<1> QED
  BY <1>1 DEF PlaybackOK, InPlace

LEMMA ViewerStays ==
  ASSUME PubInv, LogInv, ViewerInv, Quiet \/ Sends, UNCHANGED viewerVars
  PROVE  ViewerInv'
<1>1. /\ viewer' = viewer /\ playback' = playback /\ world' = world
  BY DEF viewerVars
<1>2. CASE Quiet
  BY <1>1, <1>2, ViewerInvNext DEF Quiet, ViewerInv
<1>3. CASE Sends
  <2>1. PICK x \in Packet :
          /\ log' = Append(log, x)
          /\ TheRun' = IF x.kind = "input" THEN Append(TheRun, x.input) ELSE TheRun
    BY <1>3 DEF Sends
  <2>2. log \in Seq(Packet) /\ TheRun \in Seq(Input) /\ Len(TheRun) \in Nat
    BY TheRunFacts, LenProperties DEF LogInv, LogOK
  <2>3. Extends(TheRun, TheRun') /\ TheRun' \in Seq(Input)
    <3>1. CASE x.kind = "input"
      <4>1. x.input \in Input
        BY <3>1, PacketFacts
      <4> QED
        BY <2>1, <2>2, <3>1, <4>1, AppendExtends
    <3>2. CASE x.kind # "input"
      BY <2>1, <2>2, <3>2 DEF Extends
    <3> QED
      BY <3>1, <3>2
  <2>4. /\ viewer \in History /\ playback \in Playback
        /\ HistoryOK(viewer, TheRun) /\ ReadsLog(viewer, log)
        /\ PlaybackOK(playback, viewer, world, TheRun)
    BY DEF ViewerInv, ViewerOK
  <2>5. HistoryOK(viewer, TheRun')
    BY <2>2, <2>3, <2>4, HistoryGrows
  <2>6. ReadsLog(viewer, log')
    BY <2>1, <2>2, <2>4, ReadsGrows
  <2>7. PlaybackOK(playback, viewer, world, TheRun')
    BY <2>2, <2>3, <2>4, PlaybackGrows
  <2> QED
    BY <1>1, <2>4, <2>5, <2>6, <2>7, ViewerInvNext DEF ViewerOK
<1> QED
  BY <1>2, <1>3

---------------------------------------------------------------------------
(* What a history offers to its playback. *)

LEMMA HistoryFacts ==
  ASSUME NEW h \in History, NEW w \in Seq(Input), HistoryOK(h, w),
         h.segments # << >>
  PROVE  /\ h.next \in Nat /\ Len(h.segments) \in Nat /\ Len(h.segments) >= 1
         /\ h.next <= Len(w) /\ Len(w) \in Nat
         /\ FirstOf(h) \in Nat /\ FirstOf(h) <= h.next
         /\ LastOf(h) = h.segments[Len(h.segments)]
         /\ LastOf(h) \in Segment /\ LastOf(h).frame \in Nat
         /\ EndOf(LastOf(h)) = h.next /\ LastOf(h).frame <= h.next
         /\ FirstOf(h) <= LastOf(h).frame
<1>1. h.segments \in Seq(Segment) /\ h.next \in Nat
  BY DEF History
<1>2. Len(h.segments) \in Nat /\ Len(w) \in Nat
  BY <1>1, LenProperties
<1>3. Len(h.segments) # 0
  BY <1>1
<1>4. 1 \in 1 .. Len(h.segments) /\ Len(h.segments) \in 1 .. Len(h.segments)
  BY <1>2, <1>3
<1>5. /\ h.segments[1].frame \in Nat /\ LastOf(h).frame \in Nat
      /\ LastOf(h) \in Segment /\ Len(LastOf(h).inputs) \in Nat
      /\ Len(h.segments[1].inputs) \in Nat
  BY <1>4, SegmentFacts DEF LastOf
<1>6. /\ EndOf(h.segments[1]) <= h.next /\ EndOf(LastOf(h)) = h.next
      /\ FirstOf(h) <= LastOf(h).frame /\ h.next <= Len(w)
  BY <1>4 DEF HistoryOK, LastOf
<1> QED
  BY <1>1, <1>2, <1>3, <1>5, <1>6, SMTT(30) DEF FirstOf, EndOf, LastOf

LEMMA EdgeFacts ==
  ASSUME NEW h \in History, NEW w \in Seq(Input), HistoryOK(h, w),
         h.segments # << >>
  PROVE  /\ Edge(h) \in Nat /\ FirstOf(h) <= Edge(h) /\ Edge(h) <= h.next
         /\ Edge(h) = IF h.ended THEN h.next
                      ELSE h.next - Min2(BufferFrames, h.next - FirstOf(h))
<1>1. h.next \in Nat /\ FirstOf(h) \in Nat /\ FirstOf(h) <= h.next
      /\ BufferFrames \in Nat /\ h.ended \in BOOLEAN
  BY HistoryFacts, StreamAssumption DEF History
<1>2. Edge(h) = IF h.ended THEN h.next
                ELSE h.next - Min2(BufferFrames, h.next - FirstOf(h))
  <2>1. CASE h.ended
    BY <2>1 DEF Edge
  <2>2. CASE ~ h.ended
    BY <2>2 DEF Edge, FirstOf
  <2> QED
    BY <2>1, <2>2
<1> QED
  BY <1>1, <1>2 DEF Min2

(* A history h2 continues h for the playback of h. *)
Continues(h, h2) ==
  /\ Len(h.segments) <= Len(h2.segments)
  /\ \A k \in 1 .. Len(h.segments) :
       /\ h2.segments[k].frame = h.segments[k].frame
       /\ h2.segments[k].serial = h.segments[k].serial
       /\ EndOf(h.segments[k]) <= EndOf(h2.segments[k])
  /\ h.next <= h2.next /\ (h.ended => h2.ended)

LEMMA PlaybackContinues ==
  ASSUME NEW s \in Playback, NEW h \in History, NEW h2 \in History, NEW wd,
         NEW w \in Seq(Input), HistoryOK(h, w), HistoryOK(h2, w),
         Continues(h, h2), PlaybackOK(s, h, wd, w)
  PROVE  PlaybackOK(s, h2, wd, w)
<1>1. /\ s.position \in Nat /\ s.target \in Nat /\ h.next \in Nat
      /\ h2.next \in Nat /\ h.next <= h2.next /\ s.position <= h2.next
      /\ s.bootstrapped \in BOOLEAN
  BY DEF Playback, History, PlaybackOK, Continues
<1>2. CASE ~ s.bootstrapped
  BY <1>1, <1>2 DEF PlaybackOK
<1>3. CASE s.bootstrapped
  <2>1. h.segments # << >>
    BY <1>3 DEF PlaybackOK
  <2>2. /\ FirstOf(h) \in Nat /\ Edge(h) \in Nat /\ Len(h.segments) \in Nat
        /\ Len(h.segments) >= 1 /\ FirstOf(h) <= h.next
        /\ Edge(h) = IF h.ended THEN h.next
                     ELSE h.next - Min2(BufferFrames, h.next - FirstOf(h))
    BY <2>1, HistoryFacts, EdgeFacts
  <2>3. h2.segments # << >> /\ FirstOf(h2) = FirstOf(h)
        /\ Len(h2.segments) \in Nat
    <3>1. Len(h2.segments) \in Nat
      BY LenProperties DEF History
    <3>2. 1 \in 1 .. Len(h.segments) /\ Len(h2.segments) # 0
      BY <2>2, <3>1 DEF Continues
    <3> QED
      BY <3>1, <3>2 DEF Continues, FirstOf
  <2>4. /\ Edge(h2) \in Nat
        /\ Edge(h2) = IF h2.ended THEN h2.next
                      ELSE h2.next - Min2(BufferFrames, h2.next - FirstOf(h2))
    BY <2>3, EdgeFacts
  <2>5. Edge(h) <= Edge(h2)
    BY <1>1, <2>2, <2>3, <2>4, StreamAssumption, SMTT(30) DEF Min2, Continues
  <2>6. ASSUME InPlace(s, h, wd, w) PROVE InPlace(s, h2, wd, w)
    <3>1. PICK k \in 1 .. Len(h.segments) :
            s.restored = h.segments[k].serial /\ Reaches(h, k, s.position)
      BY <2>6 DEF InPlace
    <3>2. k \in 1 .. Len(h2.segments)
      BY <2>2, <2>3 DEF Continues
    <3>3. EndOf(h.segments[k]) \in Nat /\ EndOf(h2.segments[k]) \in Nat
      BY <3>2, SegmentFacts
    <3>4. Reaches(h2, k, s.position)
      BY <1>1, <3>1, <3>3 DEF Reaches, Continues
    <3>5. s.restored = h2.segments[k].serial
      BY <3>1 DEF Continues
    <3> QED
      BY <2>6, <3>2, <3>4, <3>5 DEF InPlace
  <2>7. /\ ~s.failed /\ (s.initialized <=> s.bootstrapped)
        /\ (wd # Nothing => wd = Prefix(w, s.position))
        /\ (~s.restore => InPlace(s, h, wd, w))
        /\ (s.restore => s.seeking)
        /\ (s.seeking => /\ ~s.following
                         /\ FirstOf(h) <= s.target /\ s.target <= h.next
                         /\ ~s.restore => s.position <= s.target
                         /\ s.liveRequested => s.target <= Edge(h))
        /\ (s.following => s.position <= Edge(h))
    BY <1>3 DEF PlaybackOK
  <2>8. /\ s.seeking => s.target <= h2.next
        /\ s.seeking /\ s.liveRequested => s.target <= Edge(h2)
        /\ s.following => s.position <= Edge(h2)
    BY <1>1, <2>2, <2>4, <2>5, <2>7
  <2> HIDE DEF Prefix
  <2> QED
    BY <1>1, <1>3, <2>3, <2>6, <2>7, <2>8 DEF PlaybackOK
<1> QED
  BY <1>1, <1>2, <1>3

LEMMA GreatestElement ==
  ASSUME NEW n \in Nat, NEW S \in SUBSET (1 .. n), S # {}
  PROVE  Max(S) \in S /\ \A y \in S : y <= Max(S)
<1> DEFINE T == {n - x : x \in S}
<1>1. T \subseteq Nat /\ T # {}
  OBVIOUS
<1>2. PICK t \in T : \A u \in T : ~ (<<u, t>> \in OpToRel(<, Nat))
  BY <1>1, WFMin, NatLessThanWellFounded
<1>3. PICK x \in S : t = n - x
  BY <1>2
<1>4. ASSUME NEW y \in S PROVE x >= y
  <2>1. x \in Nat /\ y \in Nat /\ n - y \in Nat
    OBVIOUS
  <2>2. n - y \in T
    OBVIOUS
  <2>3. t \in Nat
    BY <1>1
  <2>4. ~ (n - y < t)
    BY <1>2, <2>1, <2>2, <2>3 DEF OpToRel
  <2> HIDE DEF T
  <2> QED
    BY <1>3, <2>1, <2>3, <2>4
<1>5. \E z \in S : \A y \in S : z >= y
  BY <1>4
<1>6. Max(S) \in S /\ \A y \in S : Max(S) >= y
  BY <1>5 DEF Max
<1>7. \A y \in S : y \in Nat
  OBVIOUS
<1> QED
  BY <1>6, <1>7

LEMMA LocateFacts ==
  ASSUME NEW h \in History, NEW frame \in Nat
  PROVE  /\ Locate(h, frame) # 0 =>
              /\ Locate(h, frame) \in 1 .. Len(h.segments)
              /\ Reaches(h, Locate(h, frame), frame)
         /\ \A k \in 1 .. Len(h.segments) :
              Reaches(h, k, frame) =>
                Locate(h, frame) # 0 /\ k <= Locate(h, frame)
<1> DEFINE reach == {i \in DOMAIN h.segments :
                       /\ frame >= h.segments[i].frame
                       /\ frame - h.segments[i].frame <= Len(h.segments[i].inputs)}
<1>1. Len(h.segments) \in Nat /\ DOMAIN h.segments = 1 .. Len(h.segments)
  BY LenProperties DEF History
<1>2. \A k \in 1 .. Len(h.segments) : k \in reach <=> Reaches(h, k, frame)
  <2> SUFFICES ASSUME NEW k \in 1 .. Len(h.segments)
               PROVE  k \in reach <=> Reaches(h, k, frame)
    OBVIOUS
  <2>1. h.segments[k].frame \in Nat /\ Len(h.segments[k].inputs) \in Nat
    BY SegmentFacts
  <2> QED
    BY <1>1, <2>1 DEF Reaches, EndOf
<1>3. reach \in SUBSET (1 .. Len(h.segments))
  BY <1>1
<1>4. Locate(h, frame) = IF reach = {} THEN 0 ELSE Max(reach)
  BY DEF Locate
<1> HIDE DEF reach
<1>5. reach # {} => Max(reach) \in reach /\ \A y \in reach : y <= Max(reach)
  BY <1>1, <1>3, GreatestElement
<1>6. ASSUME Locate(h, frame) # 0
      PROVE  /\ Locate(h, frame) \in 1 .. Len(h.segments)
             /\ Reaches(h, Locate(h, frame), frame)
  <2>1. Locate(h, frame) = Max(reach) /\ Max(reach) \in reach
    BY <1>4, <1>5, <1>6
  <2>2. Max(reach) \in 1 .. Len(h.segments)
    BY <1>3, <2>1
  <2> QED
    BY <1>2, <2>1, <2>2
<1>7. ASSUME NEW k \in 1 .. Len(h.segments), Reaches(h, k, frame)
      PROVE  Locate(h, frame) # 0 /\ k <= Locate(h, frame)
  <2>1. k \in reach
    BY <1>2, <1>7
  <2>2. Locate(h, frame) = Max(reach) /\ Max(reach) \in reach
        /\ k <= Max(reach)
    BY <1>4, <1>5, <2>1
  <2>3. Max(reach) \in 1 .. Len(h.segments)
    BY <1>3, <2>2
  <2> QED
    BY <1>1, <2>2, <2>3
<1> QED
  BY <1>6, <1>7

(* Every frame of the history can be played from. *)
LEMMA FrameIsReached ==
  ASSUME NEW h \in History, NEW w \in Seq(Input), HistoryOK(h, w),
         h.segments # << >>, NEW frame \in Nat,
         FirstOf(h) <= frame, frame <= h.next
  PROVE  /\ Locate(h, frame) \in 1 .. Len(h.segments)
         /\ Reaches(h, Locate(h, frame), frame)
<1>1. frame \in FirstOf(h) .. h.next
  BY HistoryFacts
<1>2. PICK k \in 1 .. Len(h.segments) : Reaches(h, k, frame)
  BY <1>1 DEF HistoryOK
<1> QED
  BY <1>2, LocateFacts

---------------------------------------------------------------------------
(* The viewer's relay: joining, and each packet in order. *)

(* What is delivered to a history that follows the log is accepted.        *)
LEMMA DeliveredFacts ==
  ASSUME NEW h \in History, NEW lg \in Seq(Packet), NEW w \in Seq(Input),
         StreamOK(lg, w), HistoryOK(h, w), ReadsLog(h, lg),
         h.joined # 0, h.received < Len(lg), ~h.refused,
         NEW e, e = lg[h.received + 1]
  PROVE  /\ e \in Packet /\ Tells(e, w)
         /\ h.joined \in 1 .. h.received + 1 /\ h.received + 1 \in 1 .. Len(lg)
         /\ h.segments = << >> =>
              h.received + 1 = h.joined /\ e.kind = "checkpoint"
         /\ h.segments # << >> =>
              /\ h.received \in h.joined .. Len(lg) /\ FollowsLog(h, lg)
              /\ e.frame = h.next /\ ~h.ended
         /\ e.kind # "input" => AcceptsEvent(h, e)
<1> DEFINE r == h.received
<1>1. /\ Len(lg) \in Nat /\ h.joined \in Nat /\ r \in Nat
      /\ h.serial \in Nat /\ h.next \in Nat /\ h.ended \in BOOLEAN
  BY LenProperties DEF History
<1>2. /\ h.joined \in 1 .. Len(lg) /\ lg[h.joined].kind = "checkpoint"
      /\ r \in h.joined - 1 .. Len(lg)
      /\ h.segments = << >> <=> r < h.joined
      /\ h.segments # << >> => FollowsLog(h, lg)
  BY DEF ReadsLog
<1>3. r + 1 \in 1 .. Len(lg) /\ h.joined \in 1 .. r + 1
  BY <1>1, <1>2
<1>4. e \in Packet /\ Tells(e, w)
  BY <1>3, ElementOfSeq DEF StreamOK
<1>5. CASE h.segments = << >>
  <2>1. r + 1 = h.joined
    BY <1>1, <1>2, <1>5
  <2>2. e.kind = "checkpoint"
    BY <1>2, <2>1
  <2>3. AcceptsEvent(h, e)
    BY <1>5, <2>2 DEF AcceptsEvent
  <2> QED
    BY <1>3, <1>4, <1>5, <2>1, <2>2, <2>3
<1>6. CASE h.segments # << >>
  <2>1. r \in h.joined .. Len(lg) /\ FollowsLog(h, lg) /\ r \in 1 .. Len(lg) - 1
        /\ r \in 1 .. Len(lg)
    BY <1>1, <1>2, <1>6
  <2>2. h.next = NextAfter(lg[r]) /\ (h.ended <=> lg[r].kind = "end")
    BY <2>1 DEF FollowsLog
  <2>3. e.frame = h.next
    BY <2>1, <2>2 DEF StreamOK, Chained
  <2>4. ~ h.ended
    <3>1. lg[r].kind = "end" => r = Len(lg)
      BY <2>1 DEF StreamOK, EndIsLast
    <3> QED
      BY <1>1, <2>2, <3>1
  <2>5. PICK j \in h.joined .. r : lg[j].kind # "input" /\ h.serial = lg[j].serial
    BY <2>1 DEF FollowsLog
  <2>6. PICK c \in h.joined .. r :
          /\ Rules(lg, c, r)
          /\ LastOf(h).frame = lg[c].frame /\ LastOf(h).stage = lg[c].stage
          /\ LastOf(h).serial = lg[c].serial
    BY <2>1 DEF FollowsLog
  <2>7. /\ j \in 1 .. Len(lg) /\ j < r + 1
        /\ c \in 1 .. Len(lg) /\ c < r + 1 /\ c \in 1 .. (r + 1) - 1
        /\ (r + 1) - 1 = r
    BY <1>1, <1>2, <2>1, SMTT(30)
  <2>8. ASSUME e.kind # "input" PROVE AcceptsEvent(h, e)
    <3>1. e.serial \in Nat /\ e.frame \in Nat
      BY <1>4, <2>8, PacketFacts DEF EventPacket
    <3>2. e.serial > h.serial
      <4>1. lg[j].serial < lg[r + 1].serial
        BY <1>3, <2>5, <2>7, <2>8 DEF StreamOK, SerialsGrow
      <4> QED
        BY <1>1, <2>5, <3>1, <4>1
    <3>3. e.kind = "checkpoint" => e.frame > LastOf(h).frame
      <4> SUFFICES ASSUME e.kind = "checkpoint" PROVE e.frame > LastOf(h).frame
        OBVIOUS
      <4>1. lg[c].kind = "checkpoint"
        BY <2>6 DEF Rules
      <4>2. lg[c].frame < lg[r + 1].frame
        BY <1>3, <2>7, <4>1 DEF StreamOK, CheckpointsGrow
      <4>3. LastOf(h).frame \in Nat
        BY <1>6, HistoryFacts
      <4> QED
        BY <2>6, <3>1, <4>2, <4>3
    <3>4. Belongs(e, lg[c])
      BY <1>3, <2>6, <2>7 DEF StreamOK, Attributed
    <3>5. /\ e.kind # "checkpoint" => e.stage = LastOf(h).stage
          /\ e.kind = "node" => e.checkpoint = LastOf(h).serial
      <4>1. e.kind \in {"checkpoint", "node", "end"}
        BY <1>4, <2>8, PacketFacts
      <4> QED
        BY <2>6, <3>4, <4>1 DEF Belongs
    <3> QED
      BY <1>6, <2>3, <2>4, <3>2, <3>3, <3>5 DEF AcceptsEvent
  <2> QED
    BY <1>3, <1>4, <1>6, <2>1, <2>3, <2>4, <2>8
<1> QED
  BY <1>5, <1>6

(* A history that takes what is delivered goes on following the log.       *)
LEMMA FollowsNext ==
  ASSUME NEW h \in History, NEW lg \in Seq(Packet), NEW w \in Seq(Input),
         StreamOK(lg, w), HistoryOK(h, w), ReadsLog(h, lg),
         h.joined # 0, h.received < Len(lg), ~h.refused,
         NEW e, e = lg[h.received + 1],
         NEW h2, h2.joined = h.joined, h2.received = h.received + 1,
         h2.segments # << >>, h2.next = NextAfter(e),
         h2.ended <=> e.kind = "end",
         h2.serial = IF e.kind = "input" THEN h.serial ELSE e.serial,
         IF e.kind = "checkpoint"
         THEN /\ LastOf(h2).frame = e.frame /\ LastOf(h2).stage = e.stage
              /\ LastOf(h2).serial = e.serial
         ELSE /\ LastOf(h2).frame = LastOf(h).frame
              /\ LastOf(h2).stage = LastOf(h).stage
              /\ LastOf(h2).serial = LastOf(h).serial
  PROVE  ReadsLog(h2, lg)
<1> DEFINE r == h.received
<1>1. /\ Len(lg) \in Nat /\ h.joined \in Nat /\ r \in Nat
      /\ h.joined \in 1 .. r + 1 /\ r + 1 \in 1 .. Len(lg)
      /\ h.joined \in 1 .. Len(lg) /\ lg[h.joined].kind = "checkpoint"
      /\ r + 1 \in h.joined .. r + 1
  BY LenProperties, DeliveredFacts DEF History, ReadsLog
<1>2. h.segments # << >> => FollowsLog(h, lg) /\ r >= h.joined
  BY <1>1, DeliveredFacts
<1>3. h.segments = << >> => e.kind = "checkpoint"
  BY DeliveredFacts
<1>4. \E j \in h.joined .. r + 1 : lg[j].kind # "input" /\ h2.serial = lg[j].serial
  <2>1. CASE e.kind = "input"
    <3>1. PICK j \in h.joined .. r : lg[j].kind # "input" /\ h.serial = lg[j].serial
      BY <1>2, <1>3, <2>1 DEF FollowsLog
    <3>2. j \in h.joined .. r + 1
      BY <1>1
    <3> QED
      BY <2>1, <3>1, <3>2
  <2>2. CASE e.kind # "input"
    BY <1>1, <2>2
  <2> QED
    BY <2>1, <2>2
<1>5. \E c \in h.joined .. r + 1 :
        /\ Rules(lg, c, r + 1)
        /\ LastOf(h2).frame = lg[c].frame /\ LastOf(h2).stage = lg[c].stage
        /\ LastOf(h2).serial = lg[c].serial
  <2>1. CASE e.kind = "checkpoint"
    <3>1. Rules(lg, r + 1, r + 1)
      BY <1>1, <2>1 DEF Rules
    <3> QED
      BY <1>1, <2>1, <3>1
  <2>2. CASE e.kind # "checkpoint"
    <3>1. PICK c \in h.joined .. r :
            /\ Rules(lg, c, r)
            /\ LastOf(h).frame = lg[c].frame /\ LastOf(h).stage = lg[c].stage
            /\ LastOf(h).serial = lg[c].serial
      BY <1>2, <1>3, <2>2 DEF FollowsLog
    <3>2. c \in h.joined .. r + 1 /\ c \in 1 .. r + 1
          /\ \A k \in c + 1 .. r + 1 : k \in c + 1 .. r \/ k = r + 1
      BY <1>1
    <3>3. Rules(lg, c, r + 1)
      BY <2>2, <3>1, <3>2 DEF Rules
    <3> QED
      BY <2>2, <3>1, <3>2, <3>3
  <2> QED
    BY <2>1, <2>2
<1>6. FollowsLog(h2, lg)
  BY <1>4, <1>5 DEF FollowsLog
<1>7. h2.received \in h2.joined - 1 .. Len(lg) /\ ~ (h2.received < h2.joined)
  BY <1>1
<1> QED
  BY <1>1, <1>6, <1>7 DEF ReadsLog

(* The last segment of a history becomes seg.                              *)
LEMMA LastGrows ==
  ASSUME NEW h \in History, NEW w \in Seq(Input), HistoryOK(h, w),
         h.segments # << >>, ~h.ended,
         NEW seg \in Segment, seg.frame = LastOf(h).frame,
         seg.serial = LastOf(h).serial, SegmentOK(seg, w),
         NEW h2 \in History,
         h2.segments = [h.segments EXCEPT ![Len(h.segments)] = seg],
         EndOf(seg) = h2.next, h2.next \in {h.next, h.next + 1},
         h2.next <= Len(w),
         \A j \in 1 .. Len(seg.nodes) : seg.nodes[j] <= h2.next,
         h2.frames <= MaxFrames, ~h2.refused
  PROVE  /\ HistoryOK(h2, w) /\ Continues(h, h2)
         /\ LastOf(h2) = seg /\ h2.segments # << >>
<1> DEFINE n == Len(h.segments)
<1>1. /\ h.next \in Nat /\ n \in Nat /\ n >= 1 /\ n \in 1 .. n /\ 1 \in 1 .. n
      /\ FirstOf(h) \in Nat /\ FirstOf(h) <= h.next /\ EndOf(LastOf(h)) = h.next
      /\ LastOf(h) = h.segments[n] /\ h2.next \in Nat /\ h.next <= h2.next
      /\ FirstOf(h) <= LastOf(h).frame /\ LastOf(h).frame <= h.next
      /\ LastOf(h).frame \in Nat
  BY HistoryFacts
<1>2. h.segments \in Seq(Segment)
  BY DEF History
<1>3. /\ Len(h2.segments) = n /\ h2.segments[n] = seg
      /\ \A k \in 1 .. n : k # n => h2.segments[k] = h.segments[k]
  BY <1>1, <1>2, ExceptSeq
<1>4. \A k \in 1 .. n :
        /\ h.segments[k].frame \in Nat /\ EndOf(h.segments[k]) \in Nat
        /\ EndOf(h2.segments[k]) \in Nat
  BY <1>3, SegmentFacts
<1>5. \A k \in 1 .. n :
        /\ h2.segments[k].frame = h.segments[k].frame
        /\ h2.segments[k].serial = h.segments[k].serial
        /\ EndOf(h.segments[k]) <= EndOf(h2.segments[k])
        /\ EndOf(h2.segments[k]) <= h2.next
  <2> SUFFICES ASSUME NEW k \in 1 .. n
               PROVE  /\ h2.segments[k].frame = h.segments[k].frame
                      /\ h2.segments[k].serial = h.segments[k].serial
                      /\ EndOf(h.segments[k]) <= EndOf(h2.segments[k])
                      /\ EndOf(h2.segments[k]) <= h2.next
    OBVIOUS
  <2>1. CASE k = n
    BY <1>1, <1>3, <2>1
  <2>2. CASE k # n
    <3>1. EndOf(h.segments[k]) <= h.next
      BY DEF HistoryOK
    <3> QED
      BY <1>1, <1>3, <1>4, <2>2, <3>1, SMTT(30)
  <2> QED
    BY <2>1, <2>2
<1>6. Continues(h, h2)
  BY <1>1, <1>3, <1>5 DEF Continues
<1>7. LastOf(h2) = seg /\ FirstOf(h2) = FirstOf(h)
  BY <1>1, <1>3, <1>5 DEF LastOf, FirstOf
<1>8. h2.segments # << >>
  BY <1>1, <1>3
<1>9. ASSUME NEW k \in 1 .. n
      PROVE  /\ SegmentOK(h2.segments[k], w)
             /\ FirstOf(h2) <= h2.segments[k].frame
             /\ \A j \in 1 .. Len(h2.segments[k].nodes) :
                  h2.segments[k].nodes[j] <= h2.next
  <2>1. CASE k = n
    BY <1>1, <1>3, <1>7, <2>1
  <2>2. CASE k # n
    <3>1. /\ SegmentOK(h.segments[k], w) /\ FirstOf(h) <= h.segments[k].frame
          /\ h2.segments[k] = h.segments[k]
      BY <1>3, <2>2 DEF HistoryOK
    <3>2. ASSUME NEW j \in 1 .. Len(h.segments[k].nodes)
          PROVE  h.segments[k].nodes[j] <= h2.next
      <4>1. h.segments[k].nodes[j] <= h.next
        BY DEF HistoryOK
      <4>2. h.segments[k].nodes[j] \in Nat
        BY SegmentFacts, ElementOfSeq
      <4> QED
        BY <1>1, <4>1, <4>2
    <3> QED
      BY <1>7, <3>1, <3>2
  <2> QED
    BY <2>1, <2>2
<1>10. ASSUME NEW j \in 1 .. n, NEW k \in 1 .. n, j < k
       PROVE  EndOf(h2.segments[j]) <= h2.segments[k].frame
  <2>1. j # n
    BY <1>1, <1>10
  <2>2. EndOf(h.segments[j]) <= h.segments[k].frame
    BY <1>10 DEF HistoryOK
  <2> QED
    BY <1>3, <1>5, <2>1, <2>2
<1>11. ASSUME NEW frame \in FirstOf(h2) .. h2.next
       PROVE  \E k \in 1 .. n : Reaches(h2, k, frame)
  <2>0. frame \in Nat
    BY <1>1, <1>7
  <2>1. CASE frame <= h.next
    <3>1. frame \in FirstOf(h) .. h.next
      BY <1>1, <1>7, <2>1
    <3>2. PICK k \in 1 .. n : Reaches(h, k, frame)
      BY <3>1 DEF HistoryOK
    <3>3. Reaches(h2, k, frame)
      BY <1>4, <1>5, <2>0, <3>2 DEF Reaches
    <3> QED
      BY <3>3
  <2>2. CASE frame > h.next
    <3>1. frame = h2.next
      BY <1>1, <1>7, <2>2
    <3>2. seg.frame \in Nat /\ seg.frame <= h2.next
      BY <1>1
    <3>3. Reaches(h2, n, frame)
      BY <1>1, <1>3, <3>1, <3>2 DEF Reaches
    <3> QED
      BY <1>1, <3>3
  <2> QED
    BY <1>1, <2>0, <2>1, <2>2
<1>12. EndOf(LastOf(h2)) = h2.next
  BY <1>7
<1> QED
  BY <1>3, <1>5, <1>6, <1>7, <1>8, <1>9, <1>10, <1>11, <1>12 DEF HistoryOK

(* Such a history h2, which has seg for the last segment of h.             *)
GrowsLast(h, h2, seg, w) ==
  /\ h \in History /\ h2 \in History /\ seg \in Segment /\ w \in Seq(Input)
  /\ HistoryOK(h, w) /\ h.segments # << >> /\ ~h.ended
  /\ seg.frame = LastOf(h).frame /\ seg.serial = LastOf(h).serial
  /\ SegmentOK(seg, w)
  /\ h2.segments = [h.segments EXCEPT ![Len(h.segments)] = seg]
  /\ EndOf(seg) = h2.next /\ h2.next \in {h.next, h.next + 1}
  /\ h2.next <= Len(w) /\ h2.frames <= MaxFrames /\ ~h2.refused
  /\ \A j \in 1 .. Len(seg.nodes) : seg.nodes[j] <= h2.next

LEMMA LastGrew ==
  ASSUME NEW h, NEW h2, NEW seg, NEW w, GrowsLast(h, h2, seg, w)
  PROVE  /\ HistoryOK(h2, w) /\ Continues(h, h2)
         /\ LastOf(h2) = seg /\ h2.segments # << >>
BY LastGrows DEF GrowsLast

(* A segment begins where a history ends.                                  *)
LEMMA SegmentBegins ==
  ASSUME NEW h \in History, NEW w \in Seq(Input), HistoryOK(h, w), ~h.ended,
         NEW seg \in Segment, SegmentOK(seg, w),
         seg.inputs = << >>, seg.nodes = << >>,
         h.segments # << >> => seg.frame = h.next,
         h.segments = << >> => h.next <= seg.frame,
         NEW h2 \in History, h2.segments = Append(h.segments, seg),
         h2.next = seg.frame, h2.next <= Len(w),
         h2.frames <= MaxFrames, ~h2.refused
  PROVE  /\ HistoryOK(h2, w) /\ Continues(h, h2)
         /\ LastOf(h2) = seg /\ h2.segments # << >>
<1> DEFINE n == Len(h.segments)
<1>1. /\ h.next \in Nat /\ n \in Nat /\ h2.next \in Nat
      /\ h.segments \in Seq(Segment) /\ h.next <= h2.next
  BY LenProperties DEF History
<1>2. /\ Len(h2.segments) = n + 1 /\ h2.segments[n + 1] = seg
      /\ \A k \in 1 .. n : h2.segments[k] = h.segments[k]
  BY <1>1, AppendProperties
<1>3. EndOf(seg) = seg.frame /\ seg.frame \in Nat
  BY DEF EndOf, Segment
<1>4. \A k \in 1 .. n + 1 : k \in 1 .. n \/ k = n + 1
  BY <1>1
<1>5. ASSUME NEW k \in 1 .. n
      PROVE  /\ h.segments[k].frame \in Nat /\ EndOf(h.segments[k]) \in Nat
             /\ EndOf(h.segments[k]) <= h.next /\ h.segments # << >>
  <2>1. n # 0
    BY <1>1
  <2>2. h.segments # << >>
    BY <2>1
  <2>3. EndOf(h.segments[k]) <= h.next
    BY DEF HistoryOK
  <2> QED
    BY <2>2, <2>3, SegmentFacts
<1>6. LastOf(h2) = seg /\ h2.segments # << >>
  BY <1>1, <1>2 DEF LastOf
<1>7. /\ n = 0 => FirstOf(h2) = seg.frame
      /\ n > 0 => FirstOf(h2) = FirstOf(h) /\ FirstOf(h) <= h.next
                  /\ FirstOf(h) \in Nat /\ h.segments # << >>
  <2>1. CASE n = 0
    BY <1>2, <2>1 DEF FirstOf
  <2>2. CASE n > 0
    <3>1. 1 \in 1 .. n
      BY <1>1, <2>2
    <3> QED
      BY <1>1, <1>2, <1>5, <2>2, <3>1, HistoryFacts DEF FirstOf
  <2> QED
    BY <1>1, <2>1, <2>2
<1>8. Continues(h, h2)
  <2>1. \A k \in 1 .. n : EndOf(h.segments[k]) <= EndOf(h2.segments[k])
    BY <1>2, <1>5
  <2> QED
    BY <1>1, <1>2, <2>1 DEF Continues
<1>9. ASSUME NEW k \in 1 .. n + 1
      PROVE  /\ SegmentOK(h2.segments[k], w)
             /\ EndOf(h2.segments[k]) <= h2.next
             /\ FirstOf(h2) <= h2.segments[k].frame
             /\ \A j \in 1 .. Len(h2.segments[k].nodes) :
                  h2.segments[k].nodes[j] <= h2.next
  <2>1. CASE k = n + 1
    <3>1. FirstOf(h2) <= seg.frame
      BY <1>1, <1>3, <1>7
    <3> QED
      BY <1>2, <1>3, <2>1, <3>1
  <2>2. CASE k \in 1 .. n
    <3>1. /\ SegmentOK(h.segments[k], w) /\ FirstOf(h) <= h.segments[k].frame
          /\ h2.segments[k] = h.segments[k] /\ n > 0
      BY <1>1, <1>2, <2>2 DEF HistoryOK
    <3>2. ASSUME NEW j \in 1 .. Len(h.segments[k].nodes)
          PROVE  h.segments[k].nodes[j] <= h2.next
      <4>1. h.segments[k].nodes[j] <= h.next
        BY <2>2 DEF HistoryOK
      <4>2. h.segments[k].nodes[j] \in Nat
        BY <2>2, SegmentFacts, ElementOfSeq
      <4> QED
        BY <1>1, <4>1, <4>2
    <3>3. EndOf(h.segments[k]) <= h2.next
      BY <1>1, <1>5, <2>2
    <3> QED
      BY <1>7, <3>1, <3>2, <3>3
  <2> QED
    BY <1>4, <2>1, <2>2
<1>10. ASSUME NEW j \in 1 .. n + 1, NEW k \in 1 .. n + 1, j < k
       PROVE  EndOf(h2.segments[j]) <= h2.segments[k].frame
  <2>1. j \in 1 .. n
    BY <1>1, <1>10
  <2>2. CASE k = n + 1
    BY <1>1, <1>2, <1>5, <2>1, <2>2
  <2>3. CASE k \in 1 .. n
    BY <1>2, <1>10, <2>1, <2>3 DEF HistoryOK
  <2> QED
    BY <1>4, <2>2, <2>3
<1>11. ASSUME NEW frame \in FirstOf(h2) .. h2.next
       PROVE  \E k \in 1 .. n + 1 : Reaches(h2, k, frame)
  <2>1. CASE n = 0
    <3>1. frame = seg.frame /\ n + 1 \in 1 .. n + 1
      BY <1>1, <1>3, <1>7, <2>1
    <3>2. Reaches(h2, n + 1, frame)
      BY <1>2, <1>3, <3>1 DEF Reaches
    <3> QED
      BY <3>1, <3>2
  <2>2. CASE n > 0
    <3>1. frame \in FirstOf(h) .. h.next
      BY <1>7, <2>2
    <3>2. PICK k \in 1 .. n : Reaches(h, k, frame)
      BY <1>7, <2>2, <3>1 DEF HistoryOK
    <3>3. Reaches(h2, k, frame) /\ k \in 1 .. n + 1
      BY <1>1, <1>2, <3>2 DEF Reaches
    <3> QED
      BY <3>3
  <2> QED
    BY <1>1, <2>1, <2>2
<1>12. EndOf(LastOf(h2)) = h2.next
  BY <1>3, <1>6
<1> QED
  BY <1>2, <1>6, <1>8, <1>9, <1>10, <1>11, <1>12 DEF HistoryOK

(* Only the marks of a history change.                                     *)
LEMMA SameSegments ==
  ASSUME NEW h \in History, NEW w \in Seq(Input), HistoryOK(h, w),
         NEW h2 \in History, h2.segments = h.segments, h2.next = h.next,
         h2.frames = h.frames, h2.refused => h2.frames = MaxFrames,
         h.ended => h2.ended, h.segments = << >> => ~h2.ended
  PROVE  HistoryOK(h2, w) /\ Continues(h, h2)
         /\ LastOf(h2) = LastOf(h)
<1>1. /\ LastOf(h2) = LastOf(h) /\ FirstOf(h2) = FirstOf(h)
      /\ \A k, f : Reaches(h2, k, f) <=> Reaches(h, k, f)
  BY DEF LastOf, FirstOf, Reaches
<1>2. HistoryOK(h2, w)
  BY <1>1 DEF HistoryOK
<1>3. Len(h.segments) \in Nat /\ h.next \in Nat
      /\ \A k \in 1 .. Len(h.segments) : EndOf(h.segments[k]) \in Nat
  BY SegmentFacts, LenProperties DEF History
<1>4. Continues(h, h2)
  BY <1>3 DEF Continues
<1> QED
  BY <1>1, <1>2, <1>4

(* The history after a packet. *)
Receive(h, e) ==
  [(IF e.kind = "input" THEN AcceptInput(h, e) ELSE AcceptEvent(h, e))
     EXCEPT !.received = @ + 1]

Delivers(h, lg, w, e) ==
  /\ StreamOK(lg, w) /\ HistoryOK(h, w) /\ ReadsLog(h, lg)
  /\ h.joined # 0 /\ h.received < Len(lg) /\ ~h.refused
  /\ e = lg[h.received + 1]

LEMMA InputTaken ==
  ASSUME NEW h \in History, NEW lg \in Seq(Packet), NEW w \in Seq(Input),
         NEW e, Delivers(h, lg, w, e), e.kind = "input",
         NEW h2, h2 = Receive(h, e)
  PROVE  /\ h2 \in History /\ HistoryOK(h2, w) /\ ReadsLog(h2, lg)
         /\ Continues(h, h2)
<1> DEFINE n == Len(h.segments)
           r == h.received
<1>0. /\ StreamOK(lg, w) /\ HistoryOK(h, w) /\ ReadsLog(h, lg)
      /\ h.joined # 0 /\ h.received < Len(lg) /\ ~h.refused
      /\ e = lg[h.received + 1]
  BY DEF Delivers
<1>1. /\ e \in Packet /\ Tells(e, w) /\ h.segments # << >>
      /\ h.joined \in 1 .. r + 1 /\ r + 1 \in 1 .. Len(lg)
      /\ r \in h.joined .. Len(lg) /\ e.frame = h.next /\ ~h.ended
  BY <1>0, DeliveredFacts
<1>2. e.input \in Input /\ NextAfter(e) = h.next + 1
      /\ e.input = w[h.next + 1]
  BY <1>1, PacketFacts DEF NextAfter, Tells
<1>3. /\ h.next \in Nat /\ h.frames \in Nat /\ r \in Nat /\ Len(lg) \in Nat
      /\ h.joined \in Nat /\ r + 1 \in Nat /\ h.next + 1 \in Nat
      /\ h.frames + 1 \in Nat
  BY LenProperties DEF History
<1>4. h.frames <= MaxFrames /\ MaxFrames \in Nat
  BY <1>0, StreamAssumption DEF HistoryOK
<1>5. /\ n \in Nat /\ n \in 1 .. n /\ LastOf(h) = h.segments[n]
      /\ LastOf(h) \in Segment /\ EndOf(LastOf(h)) = h.next
      /\ LastOf(h).frame \in Nat /\ h.segments \in Seq(Segment)
  BY <1>0, <1>1, HistoryFacts DEF History
<1>6. CASE h.frames >= MaxFrames
  <2>1. AcceptInput(h, e) = [h EXCEPT !.refused = TRUE]
    BY <1>6 DEF AcceptInput, Refuse
  <2>2. h2 = [h EXCEPT !.refused = TRUE, !.received = r + 1]
    BY <2>1 DEF History, Receive
  <2>3. /\ h2 \in History /\ h2.refused /\ h2.received = r + 1
        /\ h2.joined = h.joined /\ h2.segments = h.segments
        /\ h2.next = h.next /\ h2.frames = h.frames /\ h2.ended = h.ended
    BY <1>3, <2>2 DEF History
  <2>4. HistoryOK(h2, w) /\ Continues(h, h2)
    <3>1. h2.frames = MaxFrames
      BY <1>3, <1>4, <1>6, <2>3
    <3> QED
      BY <1>0, <1>1, <2>3, <3>1, SameSegments
  <2>5. h2.received \in h2.joined - 1 .. Len(lg)
    BY <1>1, <1>3, <2>3
  <2>6. ReadsLog(h2, lg)
    BY <1>0, <2>3, <2>5 DEF ReadsLog
  <2> QED
    BY <2>3, <2>4, <2>6
<1>7. CASE ~ (h.frames >= MaxFrames)
  <2> DEFINE seg == [LastOf(h) EXCEPT !.inputs = Append(@, e.input)]
             a == [h EXCEPT !.segments = [h.segments EXCEPT ![n] = seg],
                            !.next = h.next + 1, !.frames = h.frames + 1]
  <2>1. AcceptInput(h, e) = a
    BY <1>1, <1>5, <1>7 DEF AcceptInput, History
  <2>2. LastOf(h).inputs \in Seq(Input) /\ Len(LastOf(h).inputs) \in Nat
        /\ LastOf(h).nodes \in Seq(Nat)
    BY <1>5, SegmentFacts
  <2> DEFINE inputs == Append(LastOf(h).inputs, e.input)
  <2>3. /\ inputs \in Seq(Input) /\ Len(inputs) = Len(LastOf(h).inputs) + 1
        /\ inputs[Len(LastOf(h).inputs) + 1] = e.input
        /\ \A j \in 1 .. Len(LastOf(h).inputs) : inputs[j] = LastOf(h).inputs[j]
    BY <1>2, <2>2, AppendProperties
  <2> HIDE DEF inputs
  <2>4. /\ seg \in Segment /\ seg.frame = LastOf(h).frame
        /\ seg.stage = LastOf(h).stage /\ seg.serial = LastOf(h).serial
        /\ seg.state = LastOf(h).state /\ seg.inputs = inputs
        /\ seg.nodes = LastOf(h).nodes
    <3>1. seg = [LastOf(h) EXCEPT !.inputs = inputs]
      BY DEF inputs
    <3> QED
      BY <1>5, <2>3, <3>1 DEF Segment
  <2> HIDE DEF seg
  <2>5. [h.segments EXCEPT ![n] = seg] \in Seq(Segment)
    BY <1>5, <2>4, ExceptSeq
  <2>6. h2 = [h EXCEPT !.segments = [h.segments EXCEPT ![n] = seg],
                       !.next = h.next + 1, !.frames = h.frames + 1,
                       !.received = r + 1]
    BY <2>1 DEF History, Receive
  <2>7. /\ h2 \in History /\ h2.refused = h.refused /\ h2.received = r + 1
        /\ h2.joined = h.joined
        /\ h2.segments = [h.segments EXCEPT ![n] = seg]
        /\ h2.next = h.next + 1 /\ h2.frames = h.frames + 1
        /\ h2.ended = h.ended /\ h2.serial = h.serial
    BY <1>3, <2>5, <2>6 DEF History
  <2>8. SegmentOK(LastOf(h), w)
    BY <1>0, <1>5 DEF HistoryOK
  <2> DEFINE F == LastOf(h).frame
             L == Len(LastOf(h).inputs)
  <2>0. h.next = F + L /\ F \in Nat /\ L \in Nat
    BY <1>5, <2>2 DEF EndOf
  <2>9. EndOf(seg) = h.next + 1
    <3>1. EndOf(seg) = F + (L + 1)
      BY <2>3, <2>4 DEF EndOf
    <3> HIDE DEF F, L
    <3> QED
      BY <2>0, <3>1
  <2>10. h.next + 1 <= Len(w)
    BY <1>1, <1>2 DEF Tells
  <2>11. SegmentOK(seg, w)
    <3>1. ASSUME NEW j \in 1 .. Len(inputs) PROVE inputs[j] = w[seg.frame + j]
      <4>1. CASE j \in 1 .. Len(LastOf(h).inputs)
        BY <2>3, <2>4, <2>8, <4>1 DEF SegmentOK
      <4>2. CASE j = Len(LastOf(h).inputs) + 1
        <5>1. F + j = h.next + 1
          <6> HIDE DEF F
          <6> QED
            BY <2>0, <4>2
        <5> QED
          BY <1>2, <2>3, <2>4, <4>2, <5>1
      <4> QED
        BY <2>2, <2>3, <4>1, <4>2
    <3> QED
      BY <2>4, <2>8, <2>9, <2>10, <3>1 DEF SegmentOK
  <2>12. ASSUME NEW j \in 1 .. Len(seg.nodes) PROVE seg.nodes[j] <= h2.next
    <3>1. LastOf(h).nodes[j] <= h.next
      BY <1>0, <1>5, <2>4 DEF HistoryOK
    <3>2. LastOf(h).nodes[j] \in Nat
      BY <2>2, <2>4, ElementOfSeq
    <3> QED
      BY <1>3, <2>4, <2>7, <3>1, <3>2
  <2>13. h2.frames <= MaxFrames
    BY <1>3, <1>4, <1>7, <2>7
  <2>14. HistoryOK(h2, w) /\ Continues(h, h2) /\ LastOf(h2) = seg
         /\ h2.segments # << >>
    <3>1. /\ EndOf(seg) = h2.next /\ h2.next \in {h.next, h.next + 1}
          /\ h2.next <= Len(w) /\ ~ h2.refused
      BY <1>0, <2>7, <2>9, <2>10
    <3>2. h2.segments = [h.segments EXCEPT ![Len(h.segments)] = seg]
          /\ h2 \in History
      BY <2>7
    <3>3. seg \in Segment /\ seg.frame = LastOf(h).frame
          /\ seg.serial = LastOf(h).serial
      BY <2>4
    <3>4. GrowsLast(h, h2, seg, w)
      BY ONLY h \in History, w \in Seq(Input), <1>0, <1>1, <2>11, <2>12,
              <2>13, <3>1, <3>2, <3>3 DEF GrowsLast
    <3> QED
      BY ONLY <3>4, LastGrew
  <2>15. ReadsLog(h2, lg)
    <3>1. /\ h2.next = NextAfter(e) /\ (h2.ended <=> e.kind = "end")
          /\ h2.serial = IF e.kind = "input" THEN h.serial ELSE e.serial
      BY <1>1, <1>2, <2>7
    <3>2. /\ LastOf(h2).frame = LastOf(h).frame
          /\ LastOf(h2).stage = LastOf(h).stage
          /\ LastOf(h2).serial = LastOf(h).serial
      BY <2>4, <2>14
    <3>3. e.kind # "checkpoint"
      OBVIOUS
    <3> QED
      BY <1>0, <2>7, <2>14, <3>1, <3>2, <3>3, FollowsNext
  <2> QED
    BY <2>7, <2>14, <2>15
<1> QED
  BY <1>6, <1>7

LEMMA CheckpointTaken ==
  ASSUME NEW h \in History, NEW lg \in Seq(Packet), NEW w \in Seq(Input),
         NEW e, Delivers(h, lg, w, e), e.kind = "checkpoint",
         NEW h2, h2 = Receive(h, e)
  PROVE  /\ h2 \in History /\ HistoryOK(h2, w) /\ ReadsLog(h2, lg)
         /\ Continues(h, h2)
<1> DEFINE r == h.received
           seg == [frame |-> e.frame, stage |-> e.stage, serial |-> e.serial,
                   state |-> e.state, inputs |-> << >>, nodes |-> << >>]
<1>0. /\ StreamOK(lg, w) /\ HistoryOK(h, w) /\ ReadsLog(h, lg)
      /\ h.joined # 0 /\ h.received < Len(lg) /\ ~h.refused
      /\ e = lg[h.received + 1]
  BY DEF Delivers
<1>1. /\ e \in Packet /\ Tells(e, w) /\ AcceptsEvent(h, e)
      /\ h.segments # << >> => e.frame = h.next /\ ~h.ended
  BY <1>0, DeliveredFacts
<1>2. /\ e.frame \in Nat /\ e.stage \in StageNumber /\ e.serial \in Nat
      /\ e.state \in World /\ NextAfter(e) = e.frame
      /\ e.state = Prefix(w, e.frame) /\ e.frame <= Len(w)
  BY <1>1, PacketFacts DEF NextAfter, Tells
<1>3. /\ h.next \in Nat /\ r \in Nat /\ r + 1 \in Nat
      /\ h.segments \in Seq(Segment) /\ h.frames <= MaxFrames
      /\ h.segments = << >> => h.next = 0 /\ ~h.ended
  BY <1>0 DEF History, HistoryOK
<1>4. AcceptEvent(h, e) =
        [h EXCEPT !.serial = e.serial, !.next = e.frame,
                  !.segments = Append(h.segments, seg)]
  BY <1>1 DEF AcceptEvent, History
<1>5. /\ seg \in Segment /\ seg.frame = e.frame /\ seg.stage = e.stage
      /\ seg.serial = e.serial /\ seg.state = e.state
      /\ seg.inputs = << >> /\ seg.nodes = << >>
  BY <1>2 DEF Segment
<1> HIDE DEF seg
<1>6. Append(h.segments, seg) \in Seq(Segment)
  BY <1>3, <1>5, AppendProperties
<1>7. h2 = [h EXCEPT !.serial = e.serial, !.next = e.frame,
                     !.segments = Append(h.segments, seg), !.received = r + 1]
  BY <1>4 DEF History, Receive
<1>8. /\ h2 \in History /\ h2.refused = h.refused /\ h2.received = r + 1
      /\ h2.joined = h.joined /\ h2.segments = Append(h.segments, seg)
      /\ h2.next = e.frame /\ h2.frames = h.frames
      /\ h2.ended = h.ended /\ h2.serial = e.serial
  BY <1>2, <1>3, <1>6, <1>7 DEF History
<1>9. SegmentOK(seg, w)
  BY <1>2, <1>5 DEF SegmentOK, EndOf
<1>10. ~ h.ended /\ (h.segments = << >> => h.next <= seg.frame)
  BY <1>1, <1>2, <1>3, <1>5
<1>11. HistoryOK(h2, w) /\ Continues(h, h2) /\ LastOf(h2) = seg
       /\ h2.segments # << >>
  <2>1. /\ h2.next = seg.frame /\ h2.next <= Len(w) /\ h2.frames <= MaxFrames
        /\ ~ h2.refused /\ (h.segments # << >> => seg.frame = h.next)
    BY <1>0, <1>1, <1>2, <1>3, <1>5, <1>8
  <2> QED
    BY ONLY h \in History, w \in Seq(Input), <1>0, <1>5, <1>8, <1>9, <1>10,
            <2>1, SegmentBegins
<1>12. ReadsLog(h2, lg)
  <2>1. /\ h2.next = NextAfter(e) /\ (h2.ended <=> e.kind = "end")
        /\ h2.serial = IF e.kind = "input" THEN h.serial ELSE e.serial
    BY <1>2, <1>8, <1>10
  <2>2. /\ LastOf(h2).frame = e.frame /\ LastOf(h2).stage = e.stage
        /\ LastOf(h2).serial = e.serial
    BY <1>5, <1>11
  <2> QED
    BY <1>0, <1>8, <1>11, <2>1, <2>2, FollowsNext
<1> QED
  BY <1>8, <1>11, <1>12

LEMMA NodeTaken ==
  ASSUME NEW h \in History, NEW lg \in Seq(Packet), NEW w \in Seq(Input),
         NEW e, Delivers(h, lg, w, e), e.kind = "node",
         NEW h2, h2 = Receive(h, e)
  PROVE  /\ h2 \in History /\ HistoryOK(h2, w) /\ ReadsLog(h2, lg)
         /\ Continues(h, h2)
<1> DEFINE n == Len(h.segments)
           r == h.received
           nodes == Append(LastOf(h).nodes, e.frame)
           seg == [LastOf(h) EXCEPT !.nodes = nodes]
<1>0. /\ StreamOK(lg, w) /\ HistoryOK(h, w) /\ ReadsLog(h, lg)
      /\ h.joined # 0 /\ h.received < Len(lg) /\ ~h.refused
      /\ e = lg[h.received + 1]
  BY DEF Delivers
<1>1. /\ e \in Packet /\ Tells(e, w) /\ AcceptsEvent(h, e)
      /\ h.segments # << >> /\ e.frame = h.next /\ ~h.ended
  BY <1>0, DeliveredFacts
<1>2. e.frame \in Nat /\ e.serial \in Nat /\ NextAfter(e) = h.next
  BY <1>1, PacketFacts DEF NextAfter
<1>3. /\ h.next \in Nat /\ r \in Nat /\ r + 1 \in Nat /\ h.frames <= MaxFrames
      /\ h.next <= Len(w)
  BY <1>0 DEF History, HistoryOK
<1>4. /\ n \in Nat /\ n \in 1 .. n /\ LastOf(h) = h.segments[n]
      /\ LastOf(h) \in Segment /\ EndOf(LastOf(h)) = h.next
      /\ LastOf(h).frame \in Nat /\ LastOf(h).frame <= h.next
      /\ h.segments \in Seq(Segment)
  BY <1>0, <1>1, HistoryFacts DEF History
<1>5. LastOf(h).nodes \in Seq(Nat) /\ Len(LastOf(h).nodes) \in Nat
  BY <1>4, SegmentFacts
<1>6. AcceptEvent(h, e) =
        [h EXCEPT !.serial = e.serial,
                  !.segments = [h.segments EXCEPT ![n] = seg]]
  BY <1>1, <1>4 DEF AcceptEvent, History
<1>7. /\ nodes \in Seq(Nat) /\ Len(nodes) = Len(LastOf(h).nodes) + 1
      /\ nodes[Len(LastOf(h).nodes) + 1] = e.frame
      /\ \A j \in 1 .. Len(LastOf(h).nodes) : nodes[j] = LastOf(h).nodes[j]
  BY <1>2, <1>5, AppendProperties
<1> HIDE DEF nodes
<1>8. /\ seg \in Segment /\ seg.frame = LastOf(h).frame
      /\ seg.stage = LastOf(h).stage /\ seg.serial = LastOf(h).serial
      /\ seg.state = LastOf(h).state /\ seg.inputs = LastOf(h).inputs
      /\ seg.nodes = nodes
  BY <1>4, <1>7 DEF Segment
<1> HIDE DEF seg
<1>9. [h.segments EXCEPT ![n] = seg] \in Seq(Segment)
  BY <1>4, <1>8, ExceptSeq
<1>10. h2 = [h EXCEPT !.serial = e.serial,
                      !.segments = [h.segments EXCEPT ![n] = seg],
                      !.received = r + 1]
  BY <1>6 DEF History, Receive
<1>11. /\ h2 \in History /\ h2.refused = h.refused /\ h2.received = r + 1
       /\ h2.joined = h.joined /\ h2.segments = [h.segments EXCEPT ![n] = seg]
       /\ h2.next = h.next /\ h2.frames = h.frames
       /\ h2.ended = h.ended /\ h2.serial = e.serial
  BY <1>2, <1>3, <1>9, <1>10 DEF History
<1>12. \A j \in 1 .. Len(nodes) :
         LastOf(h).frame <= nodes[j] /\ nodes[j] <= h.next
  <2> SUFFICES ASSUME NEW j \in 1 .. Len(nodes)
               PROVE  LastOf(h).frame <= nodes[j] /\ nodes[j] <= h.next
    OBVIOUS
  <2>1. CASE j \in 1 .. Len(LastOf(h).nodes)
    BY <1>0, <1>4, <1>7, <2>1 DEF HistoryOK, SegmentOK
  <2>2. CASE j = Len(LastOf(h).nodes) + 1
    BY <1>1, <1>2, <1>4, <1>7, <2>2
  <2> QED
    BY <1>5, <1>7, <2>1, <2>2
<1>13. EndOf(seg) = h.next
  BY <1>4, <1>8 DEF EndOf
<1>14. SegmentOK(seg, w)
  <2>1. SegmentOK(LastOf(h), w)
    BY <1>0, <1>4 DEF HistoryOK
  <2> QED
    BY <1>3, <1>8, <1>12, <1>13, <2>1 DEF SegmentOK
<1>15. HistoryOK(h2, w) /\ Continues(h, h2) /\ LastOf(h2) = seg
       /\ h2.segments # << >>
  <2>1. /\ EndOf(seg) = h2.next /\ h2.next \in {h.next, h.next + 1}
        /\ h2.next <= Len(w) /\ ~ h2.refused /\ h2.frames <= MaxFrames
    BY <1>0, <1>3, <1>11, <1>13
  <2>2. /\ h2.segments = [h.segments EXCEPT ![Len(h.segments)] = seg]
        /\ h2 \in History
        /\ \A j \in 1 .. Len(seg.nodes) : seg.nodes[j] <= h2.next
    BY <1>8, <1>11, <1>12
  <2>3. seg \in Segment /\ seg.frame = LastOf(h).frame
        /\ seg.serial = LastOf(h).serial
    BY <1>8
  <2>4. GrowsLast(h, h2, seg, w)
    BY ONLY h \in History, w \in Seq(Input), <1>0, <1>1, <1>14, <2>1, <2>2,
            <2>3 DEF GrowsLast
  <2> QED
    BY ONLY <2>4, LastGrew
<1>16. ReadsLog(h2, lg)
  <2>1. /\ h2.next = NextAfter(e) /\ (h2.ended <=> e.kind = "end")
        /\ h2.serial = IF e.kind = "input" THEN h.serial ELSE e.serial
    BY <1>1, <1>2, <1>11
  <2>2. /\ LastOf(h2).frame = LastOf(h).frame
        /\ LastOf(h2).stage = LastOf(h).stage
        /\ LastOf(h2).serial = LastOf(h).serial
    BY <1>8, <1>15
  <2>3. e.kind # "checkpoint"
    OBVIOUS
  <2> QED
    BY <1>0, <1>11, <1>15, <2>1, <2>2, <2>3, FollowsNext
<1> QED
  BY <1>11, <1>15, <1>16

LEMMA EndTaken ==
  ASSUME NEW h \in History, NEW lg \in Seq(Packet), NEW w \in Seq(Input),
         NEW e, Delivers(h, lg, w, e), e.kind = "end",
         NEW h2, h2 = Receive(h, e)
  PROVE  /\ h2 \in History /\ HistoryOK(h2, w) /\ ReadsLog(h2, lg)
         /\ Continues(h, h2)
<1> DEFINE r == h.received
<1>0. /\ StreamOK(lg, w) /\ HistoryOK(h, w) /\ ReadsLog(h, lg)
      /\ h.joined # 0 /\ h.received < Len(lg) /\ ~h.refused
      /\ e = lg[h.received + 1]
  BY DEF Delivers
<1>1. /\ e \in Packet /\ AcceptsEvent(h, e)
      /\ h.segments # << >> /\ e.frame = h.next /\ ~h.ended
  BY <1>0, DeliveredFacts
<1>2. e.serial \in Nat /\ NextAfter(e) = h.next
  BY <1>1, PacketFacts DEF NextAfter, EventPacket
<1>3. r \in Nat /\ r + 1 \in Nat
  BY DEF History
<1>4. AcceptEvent(h, e) = [h EXCEPT !.serial = e.serial, !.ended = TRUE]
  BY <1>1 DEF AcceptEvent, History
<1>5. h2 = [h EXCEPT !.serial = e.serial, !.ended = TRUE, !.received = r + 1]
  BY <1>4 DEF History, Receive
<1>6. /\ h2 \in History /\ h2.refused = h.refused /\ h2.received = r + 1
      /\ h2.joined = h.joined /\ h2.segments = h.segments
      /\ h2.next = h.next /\ h2.frames = h.frames
      /\ h2.ended /\ h2.serial = e.serial
  BY <1>2, <1>3, <1>5 DEF History
<1>7. HistoryOK(h2, w) /\ Continues(h, h2) /\ LastOf(h2) = LastOf(h)
  BY <1>0, <1>1, <1>6, SameSegments
<1>8. ReadsLog(h2, lg)
  <2>1. /\ h2.next = NextAfter(e) /\ (h2.ended <=> e.kind = "end")
        /\ h2.serial = IF e.kind = "input" THEN h.serial ELSE e.serial
    BY <1>2, <1>6
  <2>2. e.kind # "checkpoint"
    OBVIOUS
  <2> QED
    BY <1>0, <1>1, <1>6, <1>7, <2>1, <2>2, FollowsNext
<1> QED
  BY <1>6, <1>7, <1>8

LEMMA ViewerFacts ==
  ASSUME PubInv, LogInv, ViewerInv
  PROVE  /\ viewer \in History /\ playback \in Playback
         /\ TheRun \in Seq(Input) /\ log \in Seq(Packet) /\ StreamOK(log, TheRun)
         /\ HistoryOK(viewer, TheRun) /\ ReadsLog(viewer, log)
         /\ PlaybackOK(playback, viewer, world, TheRun)
BY TheRunFacts DEF ViewerInv, ViewerOK, LogInv, LogOK, TheRun

LEMMA SamePub ==
  ASSUME UNCHANGED pubVars
  PROVE  /\ PubInv => PubInv'
         /\ LogInv => LogInv'
         /\ TheRun' = TheRun /\ log' = log /\ pub' = pub
<1>1. confirmed' = confirmed /\ executed' = executed /\ pub' = pub /\ log' = log
  BY DEF pubVars
<1>2. PubInv => PubInv'
  BY <1>1, PubInvNext DEF PubInv, TitleTypeOK
<1>3. LogInv => LogInv'
  BY <1>1, LogInvNext DEF LogInv
<1>4. TheRun' = TheRun
  BY <1>1, TheRunNext DEF TheRun
<1> QED
  BY <1>1, <1>2, <1>3, <1>4

LEMMA JoinKeeps ==
  ASSUME PubInv, LogInv, ViewerInv, Join
  PROVE  ViewerInv'
<1> DEFINE h == viewer
<1>1. /\ h \in History /\ playback \in Playback /\ TheRun \in Seq(Input)
      /\ HistoryOK(h, TheRun) /\ ReadsLog(h, log) /\ log \in Seq(Packet)
      /\ PlaybackOK(playback, h, world, TheRun)
  BY ViewerFacts
<1>2. PICK i \in DOMAIN log :
        /\ log[i].kind = "checkpoint"
        /\ viewer' = [viewer EXCEPT !.joined = i, !.received = i - 1]
  BY DEF Join
<1>3. /\ h.joined = 0 /\ playback' = playback /\ world' = world
      /\ TheRun' = TheRun /\ log' = log
  BY SamePub DEF Join
<1>4. Len(log) \in Nat /\ i \in 1 .. Len(log) /\ i \in Nat /\ i - 1 \in Nat
  BY <1>1, <1>2, LenProperties
<1>5. h.segments = << >> /\ ~ h.refused
  BY <1>1, <1>3 DEF ReadsLog, EmptyHistory
<1>6. /\ viewer' \in History /\ viewer'.joined = i /\ viewer'.received = i - 1
      /\ viewer'.segments = h.segments /\ viewer'.next = h.next
      /\ viewer'.frames = h.frames /\ viewer'.ended = h.ended
      /\ viewer'.refused = h.refused
  BY <1>1, <1>2, <1>4 DEF History
<1>7. ~ h.ended
  BY <1>1, <1>5 DEF HistoryOK
<1>8. HistoryOK(viewer', TheRun) /\ Continues(h, viewer')
  BY <1>1, <1>5, <1>6, <1>7, SameSegments
<1>9. PlaybackOK(playback, viewer', world, TheRun)
  BY <1>1, <1>6, <1>8, PlaybackContinues
<1>10. ReadsLog(viewer', log)
  <2>1. /\ viewer'.joined # 0 /\ viewer'.joined \in 1 .. Len(log)
        /\ log[viewer'.joined].kind = "checkpoint"
        /\ viewer'.received \in viewer'.joined - 1 .. Len(log)
        /\ viewer'.received < viewer'.joined
    BY <1>2, <1>4, <1>6
  <2> QED
    BY <1>5, <1>6, <2>1 DEF ReadsLog
<1> QED
  BY <1>1, <1>3, <1>6, <1>8, <1>9, <1>10, ViewerInvNext DEF ViewerOK

LEMMA DeliverKeeps ==
  ASSUME PubInv, LogInv, ViewerInv, Deliver
  PROVE  ViewerInv'
<1> DEFINE h == viewer
           e == log[h.received + 1]
           h2 == Receive(h, e)
<1>1. /\ h \in History /\ playback \in Playback /\ TheRun \in Seq(Input)
      /\ HistoryOK(h, TheRun) /\ ReadsLog(h, log) /\ log \in Seq(Packet)
      /\ StreamOK(log, TheRun) /\ PlaybackOK(playback, h, world, TheRun)
  BY ViewerFacts
<1>2. /\ h.joined # 0 /\ h.received < Len(log) /\ ~h.refused
      /\ viewer' = h2 /\ playback' = playback /\ world' = world
      /\ TheRun' = TheRun /\ log' = log
  BY SamePub DEF Deliver, Receive
<1>3. Delivers(h, log, TheRun, e)
  BY <1>1, <1>2 DEF Delivers
<1>4. e \in Packet
  BY <1>1, <1>2, DeliveredFacts
<1> HIDE DEF e, h2
<1>5. h2 = Receive(h, e)
  BY DEF h2
<1>6. /\ h2 \in History /\ HistoryOK(h2, TheRun) /\ ReadsLog(h2, log)
      /\ Continues(h, h2)
  <2>1. e.kind \in {"checkpoint", "node", "end", "input"}
    BY <1>4, PacketFacts
  <2>2. CASE e.kind = "input"
    BY <1>1, <1>3, <1>5, <2>2, InputTaken
  <2>3. CASE e.kind = "checkpoint"
    BY <1>1, <1>3, <1>5, <2>3, CheckpointTaken
  <2>4. CASE e.kind = "node"
    BY <1>1, <1>3, <1>5, <2>4, NodeTaken
  <2>5. CASE e.kind = "end"
    BY <1>1, <1>3, <1>5, <2>5, EndTaken
  <2> QED
    BY <2>1, <2>2, <2>3, <2>4, <2>5
<1>7. PlaybackOK(playback, h2, world, TheRun)
  BY <1>1, <1>6, PlaybackContinues
<1> QED
  BY <1>1, <1>2, <1>6, <1>7, ViewerInvNext DEF ViewerOK

---------------------------------------------------------------------------
(* The playback. *)

LEMMA PlaybackFacts ==
  ASSUME NEW s \in Playback
  PROVE  /\ s.bootstrapped \in BOOLEAN /\ s.initialized \in BOOLEAN
         /\ s.restore \in BOOLEAN /\ s.restored \in Nat /\ s.position \in Nat
         /\ s.target \in Nat /\ s.paused \in BOOLEAN /\ s.seeking \in BOOLEAN
         /\ s.following \in BOOLEAN /\ s.liveRequested \in BOOLEAN
         /\ s.failed \in BOOLEAN
BY DEF Playback

(* A request for a frame the history has.                                  *)
LEMMA RequestKeeps ==
  ASSUME NEW s \in Playback, NEW h \in History, NEW wd, NEW w \in Seq(Input),
         HistoryOK(h, w), h.segments # << >>,
         s.bootstrapped, ~s.failed, s.position <= h.next,
         wd # Nothing => wd = Prefix(w, s.position),
         s.initialized /\ ~s.restore => InPlace(s, h, wd, w),
         NEW frame \in Nat, FirstOf(h) <= frame, frame <= h.next,
         NEW live \in BOOLEAN, live => frame <= Edge(h),
         NEW paused \in BOOLEAN,
         NEW t, t = [Request(s, h, frame, live) EXCEPT !.paused = paused]
  PROVE  t \in Playback /\ PlaybackOK(t, h, wd, w)
<1> DEFINE seg == h.segments[Locate(h, frame)]
           must == MustRestore(s, seg, frame)
<1>1. /\ Locate(h, frame) \in 1 .. Len(h.segments)
      /\ Reaches(h, Locate(h, frame), frame)
  BY FrameIsReached
<1>2. must \in BOOLEAN
  BY DEF MustRestore
<1>3. Request(s, h, frame, live) =
        [s EXCEPT !.restore = must, !.initialized = TRUE, !.target = frame,
                  !.seeking = TRUE, !.liveRequested = live,
                  !.following = FALSE, !.paused = FALSE]
  BY DEF Request
<1> DEFINE u == Request(s, h, frame, live)
<1>4. u = [s EXCEPT !.restore = must, !.initialized = TRUE, !.target = frame,
                    !.seeking = TRUE, !.liveRequested = live,
                    !.following = FALSE, !.paused = FALSE]
  BY <1>3
<1> HIDE DEF must, seg, u
<1>5. /\ u \in Playback /\ u.restore = must /\ u.initialized /\ u.target = frame
      /\ u.seeking /\ u.liveRequested = live /\ ~u.following
      /\ u.bootstrapped = s.bootstrapped /\ u.restored = s.restored
      /\ u.position = s.position /\ u.failed = s.failed
  BY ONLY s \in Playback, frame \in Nat, live \in BOOLEAN, <1>2, <1>4
     DEF Playback
<1>6. t = [u EXCEPT !.paused = paused]
  BY DEF u
<1>7. /\ t \in Playback /\ t.restore = must /\ t.initialized /\ t.target = frame
      /\ t.seeking /\ t.liveRequested = live /\ ~t.following
      /\ t.bootstrapped = s.bootstrapped /\ t.restored = s.restored
      /\ t.position = s.position /\ t.failed = s.failed
  BY ONLY <1>5, <1>6, paused \in BOOLEAN DEF Playback
<1>8. ASSUME ~ must
      PROVE  InPlace(t, h, wd, w) /\ t.position <= t.target
  <2>1. ~ s.restore /\ s.initialized /\ ~ (frame < s.position)
    BY <1>8 DEF must, MustRestore
  <2>2. s.position \in Nat
    BY PlaybackFacts
  <2> QED
    BY <1>7, <2>1, <2>2 DEF InPlace
<1>9. (wd # Nothing => wd = Prefix(w, t.position)) /\ t.position <= h.next
  BY <1>7
<1> HIDE DEF Prefix
<1> QED
  BY <1>7, <1>8, <1>9 DEF PlaybackOK

LEMMA BootstrapKeeps ==
  ASSUME PubInv, LogInv, ViewerInv, Bootstrap
  PROVE  ViewerInv'
<1> DEFINE h == viewer
           s == [playback EXCEPT !.bootstrapped = TRUE]
           target == BootstrapTarget(h)
           t == Request(s, h, target, FALSE)
<1>1. /\ h \in History /\ playback \in Playback /\ TheRun \in Seq(Input)
      /\ HistoryOK(h, TheRun) /\ ReadsLog(h, log) /\ log \in Seq(Packet)
      /\ PlaybackOK(playback, h, world, TheRun)
  BY ViewerFacts
<1>2. /\ h.segments # << >> /\ ~ playback.bootstrapped
      /\ playback' = t /\ viewer' = viewer /\ world' = world
      /\ TheRun' = TheRun /\ log' = log
  BY SamePub DEF Bootstrap
<1>3. /\ s \in Playback /\ s.bootstrapped /\ s.failed = playback.failed
      /\ s.initialized = playback.initialized /\ s.position = playback.position
  BY <1>1 DEF Playback
<1>4. /\ ~ s.failed /\ ~ s.initialized /\ s.position <= h.next
      /\ world # Nothing => world = Prefix(TheRun, s.position)
  BY <1>1, <1>2, <1>3 DEF PlaybackOK
<1>5. target \in Nat /\ FirstOf(h) <= target /\ target <= h.next
  <2> DEFINE n == Len(h.segments)
             seg == LastOf(h)
  <2>1. /\ seg.frame \in Nat /\ FirstOf(h) <= seg.frame /\ seg.frame <= h.next
        /\ FirstOf(h) \in Nat /\ h.next \in Nat /\ n \in 1 .. n
        /\ seg = h.segments[n]
    BY <1>1, <1>2, HistoryFacts
  <2>2. seg.nodes \in Seq(Nat) /\ Len(seg.nodes) \in Nat
    BY <1>1, <2>1, SegmentFacts
  <2>3. CASE seg.nodes = << >>
    BY <2>1, <2>3 DEF BootstrapTarget
  <2>4. CASE seg.nodes # << >>
    <3> DEFINE m == Len(seg.nodes)
    <3>1. m # 0
      BY <2>2, <2>4
    <3>2. m \in 1 .. m
      BY <2>2, <3>1
    <3>3. target = seg.nodes[m]
      BY <2>4 DEF BootstrapTarget, Last
    <3>4. seg.nodes[m] \in Nat
      BY <2>2, <3>2, ElementOfSeq
    <3>5. SegmentOK(h.segments[n], TheRun) /\ h.segments[n].nodes[m] <= h.next
      BY <1>1, <2>1, <3>2 DEF HistoryOK
    <3>6. seg.frame <= seg.nodes[m] /\ seg.nodes[m] <= h.next
      BY <2>1, <3>2, <3>5 DEF SegmentOK
    <3> HIDE DEF m, seg, target
    <3> QED
      BY <2>1, <3>3, <3>4, <3>6
  <2> QED
    BY <2>3, <2>4
<1> HIDE DEF s, target
<1>6. t.paused = FALSE
  BY <1>3 DEF Request, Playback
<1>7. t = [t EXCEPT !.paused = FALSE]
  <2>1. t = [s EXCEPT !.restore = MustRestore(s, h.segments[Locate(h, target)],
                                              target),
                      !.initialized = TRUE, !.target = target,
                      !.seeking = TRUE, !.liveRequested = FALSE,
                      !.following = FALSE, !.paused = FALSE]
    BY DEF Request
  <2> QED
    BY <1>3, <2>1 DEF Playback
<1>8. t \in Playback /\ PlaybackOK(t, h, world, TheRun)
  BY <1>1, <1>2, <1>3, <1>4, <1>5, <1>7, RequestKeeps
<1> QED
  BY <1>1, <1>2, <1>8, ViewerInvNext DEF ViewerOK

(* What the page can ask for is in the history. *)
LEMMA ControlKeeps ==
  ASSUME PubInv, LogInv, ViewerInv, Control
  PROVE  ViewerInv'
<1> DEFINE h == viewer
           s == playback
<1>1. /\ h \in History /\ s \in Playback /\ TheRun \in Seq(Input)
      /\ HistoryOK(h, TheRun) /\ ReadsLog(h, log) /\ log \in Seq(Packet)
      /\ PlaybackOK(s, h, world, TheRun)
  BY ViewerFacts
<1>2. /\ h.segments # << >> /\ s.bootstrapped /\ ~s.failed
      /\ viewer' = viewer /\ world' = world /\ TheRun' = TheRun /\ log' = log
  BY SamePub DEF Control, Usable
<1>3. /\ s.position <= h.next
      /\ world # Nothing => world = Prefix(TheRun, s.position)
      /\ s.initialized /\ ~s.restore => InPlace(s, h, world, TheRun)
  BY <1>1, <1>2 DEF PlaybackOK
<1>4. ASSUME NEW b \in BOOLEAN, playback' = [s EXCEPT !.paused = b]
      PROVE  playback' \in Playback /\ PlaybackOK(playback', h, world, TheRun)
  <2>1. /\ playback' \in Playback /\ playback'.bootstrapped = s.bootstrapped
        /\ playback'.initialized = s.initialized
        /\ playback'.restore = s.restore /\ playback'.restored = s.restored
        /\ playback'.position = s.position /\ playback'.target = s.target
        /\ playback'.seeking = s.seeking /\ playback'.following = s.following
        /\ playback'.liveRequested = s.liveRequested
        /\ playback'.failed = s.failed
    BY <1>1, <1>4 DEF Playback
  <2> HIDE DEF h, s
  <2>2. InPlace(s, h, world, TheRun) => InPlace(playback', h, world, TheRun)
    BY <2>1 DEF InPlace
  <2> QED
    BY <1>1, <2>1, <2>2 DEF PlaybackOK
<1>5. ASSUME NEW frame \in 0 .. Edge(h), Locate(h, frame) # 0,
             playback' = [Request(s, h, frame, FALSE) EXCEPT !.paused = s.paused]
      PROVE  playback' \in Playback /\ PlaybackOK(playback', h, world, TheRun)
  <2>1. frame \in Nat /\ FirstOf(h) \in Nat /\ h.next \in Nat
    BY <1>1, <1>2, HistoryFacts
  <2>2. /\ Locate(h, frame) \in 1 .. Len(h.segments)
        /\ Reaches(h, Locate(h, frame), frame)
    BY <1>1, <1>5, <2>1, LocateFacts
  <2>3. PICK k \in 1 .. Len(h.segments) : Reaches(h, k, frame)
    BY <2>2
  <2>4. /\ h.segments[k].frame \in Nat /\ EndOf(h.segments[k]) \in Nat
        /\ FirstOf(h) <= h.segments[k].frame
        /\ EndOf(h.segments[k]) <= h.next
    BY <1>1, SegmentFacts DEF HistoryOK
  <2>5. FirstOf(h) <= frame /\ frame <= h.next
    BY <2>1, <2>3, <2>4 DEF Reaches
  <2>6. s.paused \in BOOLEAN
    BY <1>1, PlaybackFacts
  <2> HIDE DEF h, s
  <2> QED
    BY <1>1, <1>2, <1>3, <1>5, <2>1, <2>5, <2>6, RequestKeeps
<1>6. ASSUME playback' = Request(s, h, Edge(h), TRUE)
      PROVE  playback' \in Playback /\ PlaybackOK(playback', h, world, TheRun)
  <2>1. Edge(h) \in Nat /\ FirstOf(h) <= Edge(h) /\ Edge(h) <= h.next
    BY <1>1, <1>2, EdgeFacts
  <2> DEFINE u == Request(s, h, Edge(h), TRUE)
  <2>2. u = [u EXCEPT !.paused = FALSE]
    <3>1. u = [s EXCEPT !.restore = MustRestore(s, h.segments[Locate(h, Edge(h))],
                                                Edge(h)),
                        !.initialized = TRUE, !.target = Edge(h),
                        !.seeking = TRUE, !.liveRequested = TRUE,
                        !.following = FALSE, !.paused = FALSE]
      BY DEF Request
    <3> QED
      BY <1>1, <3>1 DEF Playback
  <2>3. /\ playback' = [Request(s, h, Edge(h), TRUE) EXCEPT !.paused = FALSE]
    BY <1>6, <2>2
  <2>4. Edge(h) <= Edge(h)
    <3> DEFINE E == Edge(h)
    <3>1. E \in Nat
      BY <2>1
    <3> HIDE DEF E
    <3>2. E <= E
      BY <3>1
    <3> QED
      BY <3>2 DEF E
  <2> HIDE DEF h, s, u
  <2> QED
    BY <1>1, <1>2, <1>3, <2>1, <2>3, <2>4, RequestKeeps
<1>7. playback' \in Playback /\ PlaybackOK(playback', h, world, TheRun)
  BY <1>4, <1>5, <1>6 DEF Control
<1> QED
  BY <1>1, <1>2, <1>7, ViewerInvNext DEF ViewerOK

(* The checkpoint that a request restores is the world of its frame. *)
LEMMA RestoreKeeps ==
  ASSUME PubInv, LogInv, ViewerInv, Restore
  PROVE  ViewerInv'
<1> DEFINE h == viewer
           s == playback
           seg == h.segments[Locate(h, s.target)]
<1>1. /\ h \in History /\ s \in Playback /\ TheRun \in Seq(Input)
      /\ HistoryOK(h, TheRun) /\ ReadsLog(h, log) /\ log \in Seq(Packet)
      /\ PlaybackOK(s, h, world, TheRun)
  BY ViewerFacts
<1>2. /\ s.bootstrapped /\ ~s.failed /\ s.restore
      /\ playback' = RestoredAt(s, seg) /\ world' = seg.state
      /\ viewer' = viewer /\ TheRun' = TheRun /\ log' = log
  BY SamePub DEF Restore, Steps
<1>3. /\ h.segments # << >> /\ s.seeking /\ s.initialized /\ ~s.following
      /\ FirstOf(h) <= s.target /\ s.target <= h.next
      /\ s.liveRequested => s.target <= Edge(h)
  BY <1>1, <1>2 DEF PlaybackOK
<1>4. s.target \in Nat /\ h.next \in Nat
  BY <1>1 DEF Playback, History
<1>5. PICK k \in 1 .. Len(h.segments) :
        k = Locate(h, s.target) /\ Reaches(h, k, s.target)
  BY <1>1, <1>3, <1>4, FrameIsReached
<1>6. seg = h.segments[k]
  BY <1>5
<1> HIDE DEF seg
<1>7. /\ seg.frame \in Nat /\ seg.serial \in Nat /\ EndOf(seg) \in Nat
      /\ Len(seg.inputs) \in Nat
      /\ seg.state = Prefix(TheRun, seg.frame) /\ EndOf(seg) <= h.next
  BY <1>1, <1>6, SegmentFacts DEF HistoryOK, SegmentOK
<1>8. seg.frame <= s.target /\ seg.frame <= EndOf(seg) /\ seg.frame <= h.next
  <2> DEFINE F == seg.frame
             L == Len(seg.inputs)
             E == EndOf(seg)
             T == s.target
             N == h.next
  <2>1. F <= T /\ E = F + L
    BY <1>5, <1>6 DEF Reaches, EndOf
  <2>2. F \in Nat /\ L \in Nat /\ E <= N /\ T \in Nat /\ N \in Nat
    BY <1>4, <1>7
  <2> HIDE DEF F, L, E, T, N
  <2>3. F <= T /\ F <= E /\ F <= N
    BY <2>1, <2>2
  <2> QED
    BY <2>3 DEF F, E, T, N
<1>9. /\ playback' \in Playback /\ playback'.restored = seg.serial
      /\ playback'.position = seg.frame /\ ~playback'.restore
      /\ playback'.bootstrapped = s.bootstrapped
      /\ playback'.initialized = s.initialized
      /\ playback'.target = s.target /\ playback'.seeking = s.seeking
      /\ playback'.following = s.following
      /\ playback'.liveRequested = s.liveRequested
      /\ playback'.failed = s.failed
  <2>1. playback' = [s EXCEPT !.restored = seg.serial, !.position = seg.frame,
                              !.restore = FALSE]
    BY <1>2 DEF RestoredAt
  <2> QED
    BY <1>1, <1>7, <2>1 DEF Playback
<1>10. InPlace(playback', h, world', TheRun)
  <2>1. Reaches(h, k, playback'.position)
    BY <1>6, <1>8, <1>9, <1>7 DEF Reaches
  <2> QED
    BY <1>2, <1>6, <1>7, <1>9, <2>1 DEF InPlace
<1>11. PlaybackOK(playback', h, world', TheRun)
  <2>1. world' = Prefix(TheRun, playback'.position)
    BY <1>2, <1>7, <1>9
  <2> HIDE DEF h, s
  <2> QED
    BY <1>2, <1>3, <1>8, <1>9, <1>10, <2>1 DEF PlaybackOK
<1> QED
  BY <1>1, <1>2, <1>9, <1>11, ViewerInvNext DEF ViewerOK

LEMMA LimitFacts ==
  ASSUME PubInv, LogInv, ViewerInv, playback.bootstrapped
  PROVE  /\ Limit \in Nat /\ Limit <= viewer.next
         /\ Limit = IF playback.seeking THEN playback.target ELSE Edge(viewer)
         /\ viewer.next \in Nat /\ playback.position \in Nat
         /\ viewer.segments # << >> /\ playback.target \in Nat
<1>1. /\ viewer \in History /\ playback \in Playback /\ TheRun \in Seq(Input)
      /\ HistoryOK(viewer, TheRun)
      /\ PlaybackOK(playback, viewer, world, TheRun)
  BY ViewerFacts
<1>2. viewer.segments # << >>
      /\ (playback.seeking => playback.target <= viewer.next)
  BY <1>1 DEF PlaybackOK
<1>3. Edge(viewer) \in Nat /\ Edge(viewer) <= viewer.next
  BY <1>1, <1>2, EdgeFacts
<1>4. /\ viewer.next \in Nat /\ playback.position \in Nat
      /\ playback.target \in Nat
  BY <1>1 DEF History, Playback
<1> QED
  BY <1>2, <1>3, <1>4 DEF Limit

(* A request is met when playback is at its target. *)
LEMMA ArrivedKeeps ==
  ASSUME NEW s \in Playback, NEW h \in History, NEW wd, NEW w \in Seq(Input),
         s.bootstrapped, ~s.restore, s.position <= h.next, ~s.failed,
         s.initialized, h.segments # << >>, InPlace(s, h, wd, w),
         s.liveRequested => s.position <= Edge(h)
  PROVE  Arrived(s) \in Playback /\ PlaybackOK(Arrived(s), h, wd, w)
<1> DEFINE t == Arrived(s)
<1>1. /\ t \in Playback /\ ~t.seeking /\ t.following = s.liveRequested
      /\ t.bootstrapped = s.bootstrapped /\ t.restore = s.restore
      /\ t.restored = s.restored /\ t.position = s.position
      /\ t.initialized = s.initialized /\ t.failed = s.failed
  BY DEF Arrived, Playback
<1> HIDE DEF t
<1>2. InPlace(t, h, wd, w) /\ wd = Prefix(w, t.position)
  BY <1>1 DEF InPlace
<1> QED
  <2>1. PlaybackOK(t, h, wd, w)
    BY <1>1, <1>2 DEF PlaybackOK
  <2> QED
    BY <1>1, <2>1 DEF t

LEMMA ReachKeeps ==
  ASSUME PubInv, LogInv, ViewerInv, Reach
  PROVE  ViewerInv'
<1> DEFINE h == viewer
           s == playback
<1>1. /\ h \in History /\ s \in Playback /\ TheRun \in Seq(Input)
      /\ HistoryOK(h, TheRun) /\ ReadsLog(h, log) /\ log \in Seq(Packet)
      /\ PlaybackOK(s, h, world, TheRun)
  BY ViewerFacts
<1>2. /\ s.bootstrapped /\ ~s.failed /\ ~s.restore /\ s.seeking
      /\ s.position >= Limit /\ playback' = Arrived(s) /\ world' = world
      /\ viewer' = viewer /\ TheRun' = TheRun /\ log' = log
  BY SamePub DEF Reach, Steps
<1>3. /\ Limit \in Nat /\ Limit = s.target /\ s.position \in Nat
      /\ h.segments # << >>
  BY <1>2, LimitFacts
<1>4. /\ s.position <= s.target /\ s.position <= h.next /\ s.initialized
      /\ InPlace(s, h, world, TheRun)
      /\ s.liveRequested => s.target <= Edge(h)
  BY <1>1, <1>2 DEF PlaybackOK
<1>5. s.position = s.target
  BY <1>2, <1>3, <1>4
<1>6. playback' \in Playback /\ PlaybackOK(playback', h, world, TheRun)
  BY <1>1, <1>2, <1>3, <1>4, <1>5, ArrivedKeeps
<1> QED
  BY <1>1, <1>2, <1>6, ViewerInvNext DEF ViewerOK

(* PlayTick, of one segment. *)
TicksIn(segment, at) ==
  /\ at < Len(segment.inputs)
  /\ IF EntersStage(segment) /\ at # 0
     THEN playback' = PlaybackFails(playback) /\ world' = world
     ELSE /\ world' = Append(IF EntersStage(segment) THEN segment.state
                                                    ELSE world,
                             segment.inputs[at + 1])
          /\ \E t \in {[playback EXCEPT !.restored = segment.serial,
                                        !.position = @ + 1]} :
               playback' = IF t.seeking /\ t.position = t.target
                           THEN Arrived(t) ELSE t

LEMMA PlayTickFacts ==
  ASSUME PlayTick
  PROVE  /\ Locate(viewer, playback.position) # 0
         /\ \E segment \in {viewer.segments[Locate(viewer, playback.position)]} :
              TicksIn(segment, playback.position - segment.frame)
<1>1. PICK i \in {Locate(viewer, playback.position)} \ {0} :
        \E segment \in {viewer.segments[i]} :
          \E at \in {playback.position - segment.frame} : TicksIn(segment, at)
  BY DEF PlayTick, TicksIn
<1>2. i = Locate(viewer, playback.position) /\ i # 0
  BY <1>1
<1> QED
  BY <1>1, <1>2

(* A tick is of the frame playback is at: it is in the segment that was    *)
(* entered last, or at the first frame of a later one.                     *)
LEMMA PlayTickKeeps ==
  ASSUME PubInv, LogInv, ViewerInv, PlayTick
  PROVE  ViewerInv'
<1> DEFINE h == viewer
           s == playback
           w == TheRun
           m == Locate(h, s.position)
           seg == h.segments[m]
           at == s.position - seg.frame
           t == [s EXCEPT !.restored = seg.serial, !.position = @ + 1]
<1>1. /\ h \in History /\ s \in Playback /\ w \in Seq(Input)
      /\ HistoryOK(h, w) /\ ReadsLog(h, log) /\ log \in Seq(Packet)
      /\ PlaybackOK(s, h, world, w)
  BY ViewerFacts
<1>2. /\ s.bootstrapped /\ ~s.failed /\ ~s.restore /\ s.position < Limit
      /\ m # 0 /\ at < Len(seg.inputs)
      /\ viewer' = viewer /\ TheRun' = w /\ log' = log
  <2>1. m # 0 /\ TicksIn(seg, at)
    BY PlayTickFacts
  <2> HIDE DEF m, seg, at, t
  <2> QED
    BY <2>1, SamePub DEF PlayTick, Steps, TicksIn
<1>3. IF EntersStage(seg) /\ at # 0
      THEN playback' = PlaybackFails(s) /\ world' = world
      ELSE /\ world' = Append(IF EntersStage(seg) THEN seg.state ELSE world,
                              seg.inputs[at + 1])
           /\ playback' = IF t.seeking /\ t.position = t.target
                          THEN Arrived(t) ELSE t
  <2>1. TicksIn(seg, at)
    BY PlayTickFacts
  <2> HIDE DEF seg, at
  <2> QED
    BY <2>1 DEF TicksIn
<1>4. /\ Limit \in Nat /\ Limit <= h.next
      /\ Limit = IF s.seeking THEN s.target ELSE Edge(h)
      /\ h.next \in Nat /\ s.position \in Nat /\ h.segments # << >>
      /\ s.target \in Nat
  BY <1>2, LimitFacts
<1>5. /\ s.initialized /\ InPlace(s, h, world, w)
      /\ s.seeking => ~s.following /\ FirstOf(h) <= s.target
      /\ s.seeking /\ s.liveRequested => s.target <= Edge(h)
  BY <1>1, <1>2 DEF PlaybackOK
<1>6. m \in 1 .. Len(h.segments) /\ Reaches(h, m, s.position)
  BY <1>1, <1>2, <1>4, LocateFacts
<1>7. PICK k \in 1 .. Len(h.segments) :
        s.restored = h.segments[k].serial /\ Reaches(h, k, s.position)
  BY <1>5 DEF InPlace
<1>8. k <= m
  BY <1>1, <1>4, <1>7, LocateFacts
<1>9. /\ seg.frame \in Nat /\ seg.serial \in Nat /\ EndOf(seg) \in Nat
      /\ Len(seg.inputs) \in Nat /\ EndOf(seg) = seg.frame + Len(seg.inputs)
      /\ seg.state = Prefix(w, seg.frame) /\ EndOf(seg) <= Len(w)
      /\ \A j \in 1 .. Len(seg.inputs) : seg.inputs[j] = w[seg.frame + j]
      /\ EndOf(h.segments[k]) \in Nat /\ seg = h.segments[m]
  BY <1>1, <1>6, SegmentFacts DEF HistoryOK, SegmentOK, EndOf
<1>10. k < m => EndOf(h.segments[k]) <= seg.frame
  BY <1>1, <1>6 DEF HistoryOK
<1>11. m \in Nat /\ k \in Nat /\ Len(w) \in Nat
  BY <1>1, <1>6, LenProperties DEF History
<1>12. seg.frame <= s.position /\ s.position <= EndOf(seg)
       /\ s.position <= EndOf(h.segments[k])
  BY <1>6, <1>7, <1>9 DEF Reaches
<1> HIDE DEF m, seg
<1>13. EntersStage(seg) => seg.frame = s.position
  <2>1. ASSUME EntersStage(seg) PROVE k < m
    <3>1. seg = h.segments[m] /\ s.restored # seg.serial
      BY <1>9, <2>1 DEF EntersStage
    <3>2. k # m
      BY <1>7, <3>1
    <3> QED
      BY <1>8, <1>11, <3>2
  <2> QED
    BY <1>4, <1>9, <1>10, <1>12, <2>1, SMTT(30)
<1>14. at \in Nat /\ (EntersStage(seg) => at = 0)
  BY <1>4, <1>9, <1>12, <1>13, SMTT(30)
<1>15. world' = Append(Prefix(w, s.position), w[s.position + 1])
       /\ s.position < Len(w) /\ s.position + 1 <= EndOf(seg)
  <2> DEFINE F == seg.frame
             L == Len(seg.inputs)
             P == s.position
  <2>0. /\ F \in Nat /\ L \in Nat /\ P \in Nat /\ P - F < L /\ P - F \in Nat
        /\ EndOf(seg) = F + L /\ EndOf(seg) <= Len(w) /\ Len(w) \in Nat
        /\ at = P - F
    BY <1>2, <1>4, <1>9, <1>11, <1>14
  <2>1. at + 1 \in 1 .. L /\ F + (at + 1) = P + 1
    <3> HIDE DEF F, L, P, at
    <3> QED
      BY <2>0
  <2>2. seg.inputs[at + 1] = w[s.position + 1]
    BY <1>9, <2>1
  <2>3. P < Len(w) /\ P + 1 <= EndOf(seg)
    <3> HIDE DEF F, L, P, at, w, s, h
    <3> QED
      BY ONLY <2>0
  <2>4. (IF EntersStage(seg) THEN seg.state ELSE world) = Prefix(w, s.position)
    BY <1>5, <1>9, <1>13 DEF InPlace
  <2> HIDE DEF at
  <2> QED
    BY <1>3, <1>14, <2>2, <2>3, <2>4
<1>16. world' = Prefix(w, s.position + 1)
  BY <1>1, <1>4, <1>15, PrefixTick
<1>17. /\ t \in Playback /\ t.restored = seg.serial
       /\ t.position = s.position + 1 /\ t.target = s.target
       /\ t.seeking = s.seeking /\ t.following = s.following
       /\ t.bootstrapped = s.bootstrapped /\ t.initialized = s.initialized
       /\ t.restore = s.restore /\ t.liveRequested = s.liveRequested
       /\ t.failed = s.failed
  <2>1. t = [s EXCEPT !.restored = seg.serial, !.position = s.position + 1]
    OBVIOUS
  <2>2. s.position + 1 \in Nat /\ seg.serial \in Nat
    BY <1>4, <1>9
  <2> HIDE DEF t, s, at
  <2> QED
    BY <1>1, <2>1, <2>2 DEF Playback
<1>18. playback' = IF t.seeking /\ t.position = t.target THEN Arrived(t) ELSE t
  BY <1>3, <1>14
<1> HIDE DEF t, at
<1>19. s.position + 1 <= Limit /\ t.position <= h.next
  BY <1>2, <1>4, <1>17
<1>20. InPlace(t, h, world', w)
  <2>1. Reaches(h, m, t.position)
    BY <1>4, <1>9, <1>12, <1>15, <1>17, SMTT(30) DEF Reaches
  <2> QED
    BY <1>6, <1>9, <1>16, <1>17, <2>1 DEF InPlace
<1>21. CASE t.seeking /\ t.position = t.target
  <2>1. t.liveRequested => t.position <= Edge(h)
    BY <1>5, <1>17, <1>21
  <2>2. playback' = Arrived(t)
    BY <1>18, <1>21
  <2> HIDE DEF h, s, w
  <2>3. playback' \in Playback /\ PlaybackOK(playback', h, world', w)
    BY <1>1, <1>2, <1>4, <1>5, <1>17, <1>19, <1>20, <2>1, <2>2, ArrivedKeeps
  <2> QED
    BY <1>1, <1>2, <2>3, ViewerInvNext DEF ViewerOK, h, w
<1>22. CASE ~ (t.seeking /\ t.position = t.target)
  <2>1. playback' = t
    BY <1>18, <1>22
  <2>2. /\ t.following => t.position <= Edge(h)
        /\ t.seeking => t.position <= t.target /\ t.target <= h.next
    BY <1>4, <1>5, <1>17, <1>19
  <2>3. world' = Prefix(w, t.position)
    BY <1>16, <1>17
  <2> HIDE DEF h, s, w
  <2>4. PlaybackOK(t, h, world', w)
    BY <1>2, <1>4, <1>5, <1>17, <1>19, <1>20, <2>2, <2>3 DEF PlaybackOK
  <2> QED
    BY <1>1, <1>2, <1>17, <2>1, <2>4, ViewerInvNext DEF ViewerOK, h, w
<1> QED
  BY <1>21, <1>22

---------------------------------------------------------------------------
(* The invariant. *)

LEMMA StreamInit == Init => StreamInv
<1> SUFFICES ASSUME Init PROVE StreamInv
  OBVIOUS
<1>1. PubInv
  BY PubInit DEF Init
<1>2. /\ confirmed = << >> /\ pub = NewPublisher /\ log = << >>
      /\ viewer = EmptyHistory /\ playback = NewPlayback /\ world = Nothing
  BY DEF Init, InitPublisher
<1>3. Published(pub) = 0 /\ TheRun \in Seq(Input) /\ Len(TheRun) = 0
  <2>1. Published(pub) = 0
    BY <1>2 DEF Published, NewPublisher
  <2> QED
    BY <1>1, <2>1, TheRunFacts
<1>4. << >> \in Seq(Packet) /\ Len(<< >>) = 0
  OBVIOUS
<1>5. LogInv
  <2>1. StreamOK(<< >>, TheRun)
    BY <1>4 DEF StreamOK, Chained, SerialsGrow, CheckpointsGrow, Attributed,
                EndIsLast
  <2>2. TailOK(<< >>, pub)
    BY <1>2, <1>4 DEF TailOK, NewPublisher
  <2> QED
    BY <1>2, <1>4, <2>1, <2>2 DEF LogInv, LogOK, TheRun
<1>6. viewer \in History /\ HistoryOK(viewer, TheRun) /\ ReadsLog(viewer, log)
  <2>1. viewer \in History
    BY <1>2 DEF EmptyHistory, History
  <2>2. /\ viewer.segments = << >> /\ viewer.next = 0 /\ viewer.frames = 0
        /\ ~viewer.ended /\ ~viewer.refused /\ viewer.joined = 0
    BY <1>2 DEF EmptyHistory
  <2>3. MaxFrames \in Nat
    BY StreamAssumption
  <2> QED
    BY <1>2, <1>3, <2>1, <2>2, <2>3 DEF HistoryOK, ReadsLog
<1>7. playback \in Playback /\ PlaybackOK(playback, viewer, world, TheRun)
  <2>1. playback \in Playback
    BY <1>2 DEF NewPlayback, Playback
  <2>2. /\ ~playback.failed /\ ~playback.initialized /\ ~playback.bootstrapped
        /\ ~playback.seeking /\ ~playback.following /\ ~playback.restore
        /\ playback.position = 0
    BY <1>2 DEF NewPlayback
  <2>3. viewer.next = 0
    BY <1>2 DEF EmptyHistory
  <2> QED
    BY <1>2, <2>1, <2>2, <2>3 DEF PlaybackOK
<1> QED
  BY <1>1, <1>5, <1>6, <1>7 DEF StreamInv, ViewerInv, ViewerOK

LEMMA ViewerStep ==
  ASSUME PubInv, LogInv, ViewerInv, ViewerNext
  PROVE  ViewerInv' /\ UNCHANGED pubVars
<1>1. CASE Join
  BY <1>1, JoinKeeps DEF Join
<1>2. CASE Deliver
  BY <1>2, DeliverKeeps DEF Deliver
<1>3. CASE Bootstrap
  BY <1>3, BootstrapKeeps DEF Bootstrap
<1>4. CASE Control
  BY <1>4, ControlKeeps DEF Control
<1>5. CASE Restore
  BY <1>5, RestoreKeeps DEF Restore
<1>6. CASE Reach
  BY <1>6, ReachKeeps DEF Reach
<1>7. CASE PlayTick
  BY <1>7, PlayTickKeeps DEF PlayTick
<1> QED
  BY <1>1, <1>2, <1>3, <1>4, <1>5, <1>6, <1>7 DEF ViewerNext, Step

LEMMA StreamStep == StreamInv /\ [Next]_vars => StreamInv'
<1> SUFFICES ASSUME StreamInv, [Next]_vars PROVE StreamInv'
  OBVIOUS
<1>1. PubInv /\ LogInv /\ ViewerInv
  BY DEF StreamInv
<1>2. CASE PublisherNext /\ UNCHANGED viewerVars
  <2>1. PubInv' /\ LogInv' /\ (Quiet \/ Sends)
    BY <1>1, <1>2, PublisherStep
  <2>2. ViewerInv'
    BY <1>1, <1>2, <2>1, ViewerStays
  <2> QED
    BY <2>1, <2>2 DEF StreamInv
<1>3. CASE ViewerNext
  <2>1. ViewerInv' /\ UNCHANGED pubVars
    BY <1>1, <1>3, ViewerStep
  <2>2. PubInv' /\ LogInv'
    BY <1>1, <2>1, SamePub
  <2> QED
    BY <2>1, <2>2 DEF StreamInv
<1>4. CASE UNCHANGED vars
  <2>1. UNCHANGED pubVars /\ UNCHANGED viewerVars
    BY <1>4 DEF vars
  <2>2. PubInv' /\ LogInv' /\ Quiet
    BY <1>1, <2>1, SamePub DEF Quiet
  <2>3. ViewerInv'
    BY <1>1, <2>1, <2>2, ViewerStays
  <2> QED
    BY <2>2, <2>3 DEF StreamInv
<1> QED
  BY <1>2, <1>3, <1>4 DEF Next

(* Theorem.  At every step of a run the publisher's records follow the     *)
(* title, its log is a true and ordered account of the confirmed run, the  *)
(* viewer's history holds what the log told it, and its playback stands in *)
(* a segment of that history.                                              *)
THEOREM StreamInvariance == Spec => []StreamInv
<1>1. Init => StreamInv
  BY StreamInit
<1>2. StreamInv /\ [Next]_vars => StreamInv'
  BY StreamStep
<1> QED
  BY <1>1, <1>2, PTL DEF Spec

(* Theorem.  Whatever the title predicts, rolls back and executes again,   *)
(* and whichever sends fail and are repeated, a viewer refuses a packet    *)
(* only when its history is full (AcceptEvent and AcceptInput).            *)
THEOREM ViewerAcceptsTheStream == Spec => []HistoryAcceptsTheStream
<1>1. StreamInv => HistoryAcceptsTheStream
  BY ViewerFacts DEF StreamInv, HistoryAcceptsTheStream, HistoryOK
<1> QED
  BY <1>1, StreamInvariance, PTL

(* Theorem.  Playback never fails, and the native world it shows is the    *)
(* one after as many inputs as the position on the page, whichever way the *)
(* page went there (Request, Step).                                        *)
THEOREM ShownWorldIsAtPosition == Spec => []WorldIsAtPosition
<1>1. StreamInv => WorldIsAtPosition
  <2> SUFFICES ASSUME StreamInv PROVE WorldIsAtPosition
    OBVIOUS
  <2>1. /\ viewer \in History /\ playback \in Playback /\ TheRun \in Seq(Input)
        /\ HistoryOK(viewer, TheRun)
        /\ PlaybackOK(playback, viewer, world, TheRun)
    BY ViewerFacts DEF StreamInv
  <2>2. /\ playback.position \in Nat /\ viewer.next \in Nat
        /\ Len(TheRun) \in Nat
    BY <2>1, LenProperties DEF Playback, History
  <2>3. /\ playback.position <= viewer.next /\ viewer.next <= Len(TheRun)
        /\ ~playback.failed
        /\ world # Nothing => world = Prefix(TheRun, playback.position)
    BY <2>1 DEF PlaybackOK, HistoryOK
  <2>4. playback.position \in 0 .. Len(TheRun)
    BY <2>2, <2>3
  <2>5. Len(Prefix(TheRun, playback.position)) = playback.position
    BY <2>1, <2>4, PrefixFacts
  <2> QED
    BY <2>3, <2>5 DEF WorldIsAtPosition
<1> QED
  BY <1>1, StreamInvariance, PTL

(* Theorem.  Playback is never beyond what was received, and while it      *)
(* follows the stream it stays behind its edge (Edge, Step).               *)
THEOREM PlaybackKeepsItsBuffer == Spec => []PlaybackStaysBuffered
<1>1. StreamInv => PlaybackStaysBuffered
  BY ViewerFacts DEF StreamInv, PlaybackStaysBuffered, PlaybackOK
<1> QED
  BY <1>1, StreamInvariance, PTL

(* Theorem.  The stream that is read is given up for no other cause than   *)
(* the publisher's (PublisherNext of Next).                                *)
THEOREM StreamGivenUpForACause == Spec => GivenUpForACause
<1>1. Init => InitPublisher
  BY DEF Init
<1>2. ASSUME StreamInv, [Next]_vars PROVE [PublisherNext]_pubVars
  <2>1. PubInv /\ LogInv /\ ViewerInv
    BY <1>2 DEF StreamInv
  <2>2. CASE ViewerNext
    BY <2>1, <2>2, ViewerStep
  <2>3. CASE UNCHANGED vars
    BY <2>3 DEF vars
  <2> QED
    BY <1>2, <2>2, <2>3 DEF Next
<1>3. Spec => PublisherSpec
  BY <1>1, <1>2, StreamInvariance, PTL DEF Spec, PublisherSpec
<1> QED
  BY <1>3, GivingUpHasACause, PTL

---------------------------------------------------------------------------
(* What is published, read back from the log, is the run.                  *)

SentIn(lg) == {k \in DOMAIN lg : lg[k].kind = "input"}
UpTo(lg, k) == {j \in SentIn(lg) : j <= k}
SentAt(lg, i) == {k \in SentIn(lg) : Cardinality(UpTo(lg, k)) = i}

(* The i-th input in log lg is that of frame i of run w. *)
Carries(lg, w) ==
  /\ Cardinality(SentIn(lg)) = Len(w)
  /\ \A i \in 1 .. Len(w) :
       /\ SentAt(lg, i) # {}
       /\ \A k \in SentAt(lg, i) : lg[k].input = w[i]

LEMMA SentFacts ==
  ASSUME NEW lg \in Seq(Packet)
  PROVE  /\ SentIn(lg) \subseteq 1 .. Len(lg) /\ IsFiniteSet(SentIn(lg))
         /\ Cardinality(SentIn(lg)) \in Nat
         /\ \A k : /\ IsFiniteSet(UpTo(lg, k)) /\ Cardinality(UpTo(lg, k)) \in Nat
                   /\ Cardinality(UpTo(lg, k)) <= Cardinality(SentIn(lg))
<1>1. Len(lg) \in Nat /\ DOMAIN lg = 1 .. Len(lg)
  BY LenProperties
<1>2. SentIn(lg) \subseteq 1 .. Len(lg)
  BY <1>1 DEF SentIn
<1>3. IsFiniteSet(1 .. Len(lg))
  BY <1>1, FS_Interval
<1>4. IsFiniteSet(SentIn(lg))
  BY <1>2, <1>3, FS_Subset
<1>5. ASSUME NEW k
      PROVE  /\ IsFiniteSet(UpTo(lg, k)) /\ Cardinality(UpTo(lg, k)) \in Nat
             /\ Cardinality(UpTo(lg, k)) <= Cardinality(SentIn(lg))
  <2>1. UpTo(lg, k) \in SUBSET SentIn(lg)
    BY DEF UpTo
  <2> QED
    BY <1>4, <2>1, FS_Subset, FS_CardinalityType
<1> QED
  BY <1>2, <1>4, <1>5, FS_CardinalityType

LEMMA CarriesNothing ==
  ASSUME NEW w \in Seq(Input), Len(w) = 0
  PROVE  Carries(<< >>, w)
<1>1. SentIn(<< >>) = {}
  BY DEF SentIn
<1> QED
  BY <1>1, FS_EmptySet DEF Carries

LEMMA CarriesMore ==
  ASSUME NEW lg \in Seq(Packet), NEW x \in Packet, NEW w \in Seq(Input),
         NEW v \in Seq(Input), Carries(lg, w),
         v = IF x.kind = "input" THEN Append(w, x.input) ELSE w
  PROVE  Carries(Append(lg, x), v)
<1> DEFINE t == Append(lg, x)
           n == Len(lg)
           c == Cardinality(SentIn(lg))
<1>1. /\ n \in Nat /\ Len(w) \in Nat
      /\ SentIn(lg) \subseteq 1 .. n /\ IsFiniteSet(SentIn(lg)) /\ c \in Nat
      /\ \A k : /\ IsFiniteSet(UpTo(lg, k)) /\ Cardinality(UpTo(lg, k)) \in Nat
                /\ Cardinality(UpTo(lg, k)) <= c
  BY SentFacts, LenProperties
<1>2. /\ t \in Seq(Packet) /\ Len(t) = n + 1 /\ t[n + 1] = x
      /\ \A k \in 1 .. n : t[k] = lg[k]
  BY AppendExtends
<1>3. DOMAIN t = 1 .. n + 1 /\ DOMAIN lg = 1 .. n
  BY <1>2, LenProperties
<1> HIDE DEF t, n
<1>4. SentIn(t) = IF x.kind = "input" THEN SentIn(lg) \cup {n + 1} ELSE SentIn(lg)
  BY <1>1, <1>2, <1>3 DEF SentIn
<1>5. \A k \in 1 .. n : UpTo(t, k) = UpTo(lg, k)
  BY <1>1, <1>4 DEF UpTo
<1>6. n + 1 \notin SentIn(lg) /\ \A k \in SentIn(lg) : k \in 1 .. n
  BY <1>1
<1>7. CASE x.kind # "input"
  <2>1. SentIn(t) = SentIn(lg) /\ v = w
    BY <1>4, <1>7
  <2>2. \A i : SentAt(t, i) = SentAt(lg, i)
    BY <1>5, <1>6, <2>1, SMTT(30) DEF SentAt
  <2>3. \A i : \A k \in SentAt(lg, i) : t[k] = lg[k]
    BY <1>2, <1>6 DEF SentAt
  <2> QED
    BY <2>1, <2>2, <2>3 DEF Carries, t
<1>8. CASE x.kind = "input"
  <2>1. /\ SentIn(t) = SentIn(lg) \cup {n + 1} /\ v = Append(w, x.input)
        /\ x.input \in Input
    BY <1>4, <1>8, PacketFacts
  <2>2. Cardinality(SentIn(t)) = c + 1 /\ Len(w) = c
    BY <1>1, <1>6, <2>1, FS_AddElement DEF Carries
  <2>3. /\ Len(v) = c + 1 /\ v[c + 1] = x.input
        /\ \A i \in 1 .. c : v[i] = w[i]
    BY <2>1, <2>2, AppendExtends
  <2>4. UpTo(t, n + 1) = SentIn(t)
    BY <1>1, <2>1 DEF UpTo
  <2>5. \A i \in 1 .. c : SentAt(t, i) = SentAt(lg, i)
    <3> SUFFICES ASSUME NEW i \in 1 .. c PROVE SentAt(t, i) = SentAt(lg, i)
      OBVIOUS
    <3>1. i # c + 1
      BY <1>1
    <3>2. n + 1 \notin SentAt(t, i)
      BY <2>2, <2>4, <3>1 DEF SentAt
    <3>3. \A k \in SentIn(lg) : k \in SentAt(t, i) <=> k \in SentAt(lg, i)
      BY <1>5, <1>6, <2>1 DEF SentAt
    <3>4. SentAt(t, i) \subseteq SentIn(lg) \cup {n + 1}
          /\ SentAt(lg, i) \subseteq SentIn(lg)
      BY <2>1 DEF SentAt
    <3> QED
      BY <3>2, <3>3, <3>4
  <2>6. \A i \in 1 .. c :
          /\ SentAt(t, i) # {}
          /\ \A k \in SentAt(t, i) : t[k].input = v[i]
    <3> SUFFICES ASSUME NEW i \in 1 .. c
                 PROVE  /\ SentAt(t, i) # {}
                        /\ \A k \in SentAt(t, i) : t[k].input = v[i]
      OBVIOUS
    <3>1. /\ SentAt(lg, i) # {}
          /\ \A k \in SentAt(lg, i) : lg[k].input = w[i]
      BY <2>2 DEF Carries
    <3>2. \A k \in SentAt(lg, i) : t[k] = lg[k]
      BY <1>2, <1>6 DEF SentAt
    <3> QED
      BY <2>3, <2>5, <3>1, <3>2
  <2>7. /\ SentAt(t, c + 1) # {}
        /\ \A k \in SentAt(t, c + 1) : t[k].input = v[c + 1]
    <3>1. n + 1 \in SentAt(t, c + 1)
      BY <2>1, <2>2, <2>4 DEF SentAt
    <3>2. ASSUME NEW k \in SentAt(t, c + 1) PROVE k = n + 1
      <4>1. k \in SentIn(t) /\ Cardinality(UpTo(t, k)) = c + 1
        BY <3>2 DEF SentAt
      <4>2. ASSUME k \in SentIn(lg) PROVE FALSE
        <5>1. UpTo(t, k) = UpTo(lg, k)
          BY <1>5, <1>6, <4>2
        <5>2. Cardinality(UpTo(lg, k)) <= c
          BY <1>1
        <5> QED
          BY <1>1, <4>1, <5>1, <5>2
      <4> QED
        BY <2>1, <4>1, <4>2
    <3> QED
      BY <1>2, <2>3, <3>1, <3>2
  <2> HIDE DEF c
  <2>8. \A i \in 1 .. Len(v) : i \in 1 .. c \/ i = c + 1
    BY <1>1, <2>3
  <2> QED
    BY <2>2, <2>3, <2>6, <2>7, <2>8 DEF Carries, t
<1> QED
  BY <1>7, <1>8

LEMMA CarriedRun ==
  ASSUME NEW lg \in Seq(Packet), NEW w \in Seq(Input), Carries(lg, w)
  PROVE  [i \in 1 .. Cardinality(SentIn(lg)) |->
            lg[CHOOSE k \in SentAt(lg, i) : TRUE].input] = w
<1> DEFINE f == [i \in 1 .. Cardinality(SentIn(lg)) |->
                   lg[CHOOSE k \in SentAt(lg, i) : TRUE].input]
<1>1. /\ Len(w) \in Nat /\ DOMAIN w = 1 .. Len(w)
      /\ w = [i \in 1 .. Len(w) |-> w[i]]
  BY LenProperties
<1>2. Cardinality(SentIn(lg)) = Len(w)
  BY DEF Carries
<1>3. ASSUME NEW i \in 1 .. Len(w)
      PROVE  lg[CHOOSE k \in SentAt(lg, i) : TRUE].input = w[i]
  <2>1. SentAt(lg, i) # {} /\ \A k \in SentAt(lg, i) : lg[k].input = w[i]
    BY DEF Carries
  <2>2. (CHOOSE k \in SentAt(lg, i) : TRUE) \in SentAt(lg, i)
    BY <2>1
  <2> QED
    BY <2>1, <2>2
<1> QED
  BY <1>1, <1>2, <1>3

RunInv == Carries(log, TheRun)

LEMMA RunInvFacts ==
  ASSUME PubInv, LogInv, RunInv
  PROVE  PublishedRun = TheRun
<1>1. log \in Seq(Packet) /\ TheRun \in Seq(Input)
  BY TheRunFacts DEF LogInv, LogOK
<1>2. PublishedRun = [i \in 1 .. Cardinality(SentIn(log)) |->
                        log[CHOOSE k \in SentAt(log, i) : TRUE].input]
  BY DEF PublishedRun, InputsSent, SentAs, SentIn, SentAt, UpTo
<1> QED
  BY <1>1, <1>2, CarriedRun DEF RunInv

LEMMA RunInvNext == RunInv' <=> Carries(log', TheRun')
BY DEF RunInv, Carries, SentIn, SentAt, UpTo

LEMMA PublishedRunNext ==
  ASSUME log' \in Seq(Packet), TheRun' \in Seq(Input), RunInv'
  PROVE  PublishedRun' = TheRun'
<1>1. PublishedRun' = [i \in 1 .. Cardinality(SentIn(log')) |->
                         log'[CHOOSE k \in SentAt(log', i) : TRUE].input]
  BY DEF PublishedRun, InputsSent, SentAs, SentIn, SentAt, UpTo
<1> QED
  BY <1>1, CarriedRun, RunInvNext

LEMMA NextFacts ==
  ASSUME PubInv', LogInv'
  PROVE  /\ log' \in Seq(Packet) /\ confirmed' \in Seq(Input)
         /\ TheRun' \in Seq(Input) /\ Extends(TheRun', confirmed')
<1>1. /\ confirmed' \in Seq(Input) /\ pub' \in Publisher
      /\ BoundsOK(pub', confirmed', executed') /\ log' \in Seq(Packet)
  BY PubInvNext, LogInvNext DEF PubOK, LogOK
<1>2. Len(confirmed') \in Nat /\ pub'.next \in Nat /\ pub'.phase \in 0 .. 2
  BY <1>1, LenProperties DEF Publisher
<1>3. Published(pub') \in 0 .. Len(confirmed')
  BY <1>1, <1>2 DEF BoundsOK, Published
<1> QED
  BY <1>1, <1>3, RunFacts, TheRunNext

(* A step of the stream sends nothing, or one packet. *)
LEMMA NextSends ==
  ASSUME StreamInv, [Next]_vars
  PROVE  Quiet \/ Sends
<1>1. PubInv /\ LogInv /\ ViewerInv
  BY DEF StreamInv
<1>2. CASE PublisherNext
  BY <1>1, <1>2, PublisherStep
<1>3. CASE ViewerNext
  BY <1>1, <1>3, ViewerStep, SamePub DEF Quiet
<1>4. CASE UNCHANGED vars
  BY <1>4, SamePub DEF vars, Quiet
<1> QED
  BY <1>2, <1>3, <1>4 DEF Next

LEMMA RunInit == Init => RunInv
<1> SUFFICES ASSUME Init PROVE RunInv
  OBVIOUS
<1>1. PubInv /\ log = << >> /\ pub = NewPublisher
  BY PubInit DEF Init, InitPublisher
<1>2. TheRun \in Seq(Input) /\ Len(TheRun) = Published(pub)
  BY <1>1, TheRunFacts
<1>3. Published(pub) = 0
  BY <1>1 DEF Published, NewPublisher
<1> QED
  BY <1>1, <1>2, <1>3, CarriesNothing DEF RunInv

LEMMA RunStep == StreamInv /\ StreamInv' /\ RunInv /\ [Next]_vars => RunInv'
<1> SUFFICES ASSUME StreamInv, StreamInv', RunInv, [Next]_vars PROVE RunInv'
  OBVIOUS
<1>1. log \in Seq(Packet) /\ TheRun \in Seq(Input)
  BY TheRunFacts DEF StreamInv, LogInv, LogOK
<1>2. TheRun' \in Seq(Input)
  BY NextFacts DEF StreamInv
<1>3. CASE Quiet
  BY <1>3, RunInvNext DEF Quiet, RunInv
<1>4. CASE Sends
  <2>1. PICK x \in Packet :
          /\ log' = Append(log, x)
          /\ TheRun' = IF x.kind = "input" THEN Append(TheRun, x.input) ELSE TheRun
    BY <1>4 DEF Sends
  <2>2. Carries(Append(log, x), TheRun')
    BY <1>1, <1>2, <2>1, CarriesMore DEF RunInv
  <2> QED
    BY <2>1, <2>2, RunInvNext
<1> QED
  BY <1>3, <1>4, NextSends

---------------------------------------------------------------------------
(* The stream implements SpectatorRun. *)

LEMMA InitRun == Init => Run!Init
<1> SUFFICES ASSUME Init PROVE Run!Init
  OBVIOUS
<1>1. /\ PubInv /\ confirmed = << >> /\ log = << >> /\ world = Nothing
      /\ pub = NewPublisher
  BY PubInit DEF Init, InitPublisher
<1>2. LogInv /\ RunInv
  BY StreamInit, RunInit DEF StreamInv
<1>3. PublishedRun = TheRun /\ TheRun \in Seq(Input) /\ Len(TheRun) = 0
  <2>1. Published(pub) = 0
    BY <1>1 DEF Published, NewPublisher
  <2> QED
    BY <1>1, <1>2, <2>1, RunInvFacts, TheRunFacts
<1>4. TheRun = << >>
  BY <1>3
<1> QED
  BY <1>1, <1>3, <1>4 DEF Run!Init

(* Confirm is Confirm; the title's other steps publish and show nothing. *)
LEMMA TitleRefines ==
  ASSUME StreamInv, PublishedRun' = PublishedRun, TitleNext, world' = world
  PROVE  Run!Next \/ UNCHANGED <<confirmed, PublishedRun, world>>
<1>1. CASE \E i \in Input : Confirm(i)
  <2>1. PICK i \in Input : Confirm(i)
    BY <1>1
  <2>2. Run!Confirm(i)
    BY <2>1 DEF Confirm, Run!Confirm
  <2> QED
    BY <2>2 DEF Run!Next
<1>2. CASE \E i \in Input, records \in BOOLEAN : Execute(i, records)
  BY <1>2 DEF Execute
<1>3. CASE Rollback
  BY <1>3 DEF Rollback
<1> QED
  BY <1>1, <1>2, <1>3 DEF TitleNext

(* A sent input is Extend; another send, or none, changes nothing there. *)
LEMMA SendRefines ==
  ASSUME PubInv, LogInv, RunInv, PubInv', LogInv', RunInv', Quiet \/ Sends,
         confirmed' = confirmed, world' = world
  PROVE  Run!Next \/ UNCHANGED <<confirmed, PublishedRun, world>>
<1>1. PublishedRun = TheRun /\ PublishedRun' = TheRun'
  BY RunInvFacts, NextFacts, PublishedRunNext
<1>2. CASE Quiet
  BY <1>1, <1>2 DEF Quiet
<1>3. CASE Sends
  <2>1. PICK x \in Packet :
          /\ log' = Append(log, x)
          /\ TheRun' = IF x.kind = "input" THEN Append(TheRun, x.input) ELSE TheRun
    BY <1>3 DEF Sends
  <2>2. CASE x.kind # "input"
    BY <1>1, <2>1, <2>2
  <2>3. CASE x.kind = "input"
    <3>1. /\ TheRun \in Seq(Input) /\ x.input \in Input /\ Len(TheRun) \in Nat
          /\ confirmed \in Seq(Input) /\ Len(confirmed) \in Nat
      BY <2>3, TheRunFacts, PacketFacts, PubFacts, LenProperties
    <3>2. TheRun' = Append(TheRun, x.input) /\ Extends(TheRun', confirmed)
      BY <2>1, <2>3, NextFacts
    <3>3. Len(TheRun') = Len(TheRun) + 1 /\ TheRun'[Len(TheRun) + 1] = x.input
      BY <3>1, <3>2, AppendExtends
    <3>4. /\ Len(TheRun) < Len(confirmed)
          /\ confirmed[Len(TheRun) + 1] = x.input
      BY <3>1, <3>2, <3>3 DEF Extends
    <3>5. Run!Extend
      BY <1>1, <3>2, <3>4 DEF Run!Extend
    <3> QED
      BY <3>5 DEF Run!Next
  <2> QED
    BY <2>2, <2>3
<1> QED
  BY <1>2, <1>3

(* A restored checkpoint or a tick shows a prefix of the run. *)
LEMMA StepRefines ==
  ASSUME PubInv, LogInv, ViewerInv, RunInv, ViewerInv', RunInv',
         Restore \/ PlayTick
  PROVE  Run!Next
<1>1. /\ playback \in Playback
      /\ confirmed' = confirmed /\ TheRun' = TheRun /\ log' = log
      /\ log \in Seq(Packet) /\ TheRun \in Seq(Input)
  BY SamePub, ViewerFacts DEF Restore, PlayTick, pubVars
<1>2. PublishedRun = TheRun /\ PublishedRun' = TheRun
  BY <1>1, RunInvFacts, PublishedRunNext
<1>3. playback'.bootstrapped /\ ~playback'.restore
  <2>1. CASE Restore
    <3>1. playback.bootstrapped
      BY <2>1 DEF Restore, Steps
    <3>2. PICK segment : playback' = RestoredAt(playback, segment)
      BY <2>1 DEF Restore
    <3> QED
      BY <1>1, <3>1, <3>2 DEF RestoredAt, Playback
  <2>2. CASE PlayTick
    <3>1. playback.bootstrapped /\ ~playback.restore
      BY <2>2 DEF PlayTick, Steps
    <3> DEFINE Ticked(segment) == [playback EXCEPT !.restored = segment.serial,
                                                   !.position = @ + 1]
    <3>2. PICK segment : \/ playback' = PlaybackFails(playback)
                         \/ playback' = Arrived(Ticked(segment))
                         \/ playback' = Ticked(segment)
      BY <2>2 DEF PlayTick
    <3>3. /\ Ticked(segment).bootstrapped = playback.bootstrapped
          /\ Ticked(segment).restore = playback.restore
          /\ Arrived(Ticked(segment)).bootstrapped = playback.bootstrapped
          /\ Arrived(Ticked(segment)).restore = playback.restore
      BY <1>1 DEF Arrived, Playback
    <3>4. /\ PlaybackFails(playback).bootstrapped = playback.bootstrapped
          /\ PlaybackFails(playback).restore = playback.restore
      BY <1>1 DEF PlaybackFails, Playback
    <3> HIDE DEF Ticked
    <3> QED
      BY <3>1, <3>2, <3>3, <3>4
  <2> QED
    BY <2>1, <2>2
<1>4. /\ playback' \in Playback /\ viewer' \in History
      /\ HistoryOK(viewer', TheRun) /\ PlaybackOK(playback', viewer', world', TheRun)
  BY <1>1, ViewerInvNext DEF ViewerOK
<1>5. /\ world' = Prefix(TheRun, playback'.position)
      /\ playback'.position <= viewer'.next /\ viewer'.next <= Len(TheRun)
  BY <1>3, <1>4 DEF PlaybackOK, InPlace, HistoryOK
<1>6. playback'.position \in Nat /\ viewer'.next \in Nat /\ Len(TheRun) \in Nat
  BY <1>1, <1>4, LenProperties DEF Playback, History
<1>7. playback'.position \in 0 .. Len(PublishedRun)
  BY <1>2, <1>5, <1>6
<1>8. Run!Show(playback'.position)
  BY <1>1, <1>2, <1>5 DEF Run!Show, Prefix
<1> QED
  BY <1>7, <1>8 DEF Run!Next

LEMMA NextRun ==
  StreamInv /\ StreamInv' /\ RunInv /\ RunInv' /\ [Next]_vars
    => [Run!Next]_<<confirmed, PublishedRun, world>>
<1> SUFFICES ASSUME StreamInv, StreamInv', RunInv, RunInv', [Next]_vars
             PROVE  Run!Next \/ UNCHANGED <<confirmed, PublishedRun, world>>
  OBVIOUS
<1>1. /\ PubInv /\ LogInv /\ ViewerInv /\ PubInv' /\ LogInv' /\ ViewerInv'
      /\ (Quiet \/ Sends)
  BY NextSends DEF StreamInv
<1>2. PublishedRun = TheRun /\ PublishedRun' = TheRun'
  BY <1>1, RunInvFacts, NextFacts, PublishedRunNext
<1>3. CASE PublisherNext /\ UNCHANGED viewerVars
  <2>1. world' = world
    BY <1>3 DEF viewerVars
  <2>2. CASE TitleNext
    <3>1. PublishedRun' = PublishedRun
      BY <1>1, <1>2, <2>2, TitleKeeps DEF Quiet
    <3> QED
      BY <2>1, <2>2, <3>1, TitleRefines
  <2>3. CASE Publish \/ Finish
    <3>1. confirmed' = confirmed
      BY <2>3 DEF Publish, Finish, PublishFails, PublishCheckpoint,
                  PublishNoCheckpoint, PublishInput, PublishNode, titleVars
    <3> QED
      BY <1>1, <2>1, <3>1, SendRefines
  <2> QED
    BY <1>3, <2>2, <2>3 DEF PublisherNext
<1>4. CASE ViewerNext
  <2>1. confirmed' = confirmed
    BY <1>1, <1>4, ViewerStep DEF pubVars
  <2>2. CASE Restore \/ PlayTick
    BY <1>1, <2>2, StepRefines
  <2>3. CASE Join \/ Deliver \/ Bootstrap \/ Control \/ Reach
    <3>1. world' = world
      BY <2>3 DEF Join, Deliver, Bootstrap, Control, Reach
    <3> QED
      BY <1>1, <2>1, <3>1, SendRefines
  <2> QED
    BY <1>4, <2>2, <2>3 DEF ViewerNext, Step
<1>5. CASE UNCHANGED vars
  <2>1. confirmed' = confirmed /\ world' = world
    BY <1>5 DEF vars, pubVars, viewerVars
  <2> QED
    BY <1>1, <2>1, SendRefines
<1> QED
  BY <1>3, <1>4, <1>5 DEF Next

(* Theorem.  What is published is the confirmed run and is never amended,  *)
(* and every world a viewer is shown is the one after a prefix of it,      *)
(* whatever the title predicted and wherever the page went: the publisher, *)
(* the history and the playback implement SpectatorRun.                    *)
THEOREM StreamImplementsRun == Spec => ImplementsRun
<1>1. Init => StreamInv /\ RunInv /\ Run!Init
  BY StreamInit, RunInit, InitRun
<1>2. StreamInv /\ StreamInv' /\ RunInv /\ [Next]_vars => RunInv'
  BY RunStep
<1>3. StreamInv /\ StreamInv' /\ RunInv /\ RunInv' /\ [Next]_vars
        => [Run!Next]_<<confirmed, PublishedRun, world>>
  BY NextRun
<1> QED
  BY <1>1, <1>2, <1>3, StreamInvariance, PTL DEF Spec, ImplementsRun, Run!Spec
=============================================================================
