----------------------- MODULE SessionChannelProofs -----------------------
(***************************************************************************)
(* Sessions one after the other, for any number of peers, sessions, faults *)
(* and messages under way: a start is mutual, frontiers are true, history  *)
(* is dropped only when it is done with, and honest peers do not fail.     *)
(*                                                                         *)
(* The inductive invariant, SessionInv, relates each peer to every other   *)
(* one (Related) and to the messages on the links between them (LinkOK).   *)
(* The two facts that carry the others: nobody is more than one session    *)
(* ahead, for it needed the other's confirmations to leave the session     *)
(* before; and no message speaks of a session that its sender has not      *)
(* reached, or confirms what its receiver has not captured.                *)
(***************************************************************************)
EXTENDS SessionChannel, SequenceTheorems, TLAPS

ControlMessage ==
  [kind : {"hello", "ready"}, lane : {"reliable"}, session : Generations,
   contract : {contract[q] : q \in Player}]
InputMessage ==
  [kind : {"input"}, lane : {"reliable", "fast"}, session : Generations,
   first : Frontier, upTo : Frontier, ack : Frontier, overtaken : BOOLEAN]
Message == ControlMessage \cup InputMessage

WireTypeOK == wire \in [Player -> [Player -> Seq(Message)]]

(* What a peer may say of itself: it captured only in a session it could   *)
(* start, it left the last one complete, and it owes terminal ACKs of no   *)
(* session but one it left, to peers that did not say HELLO since.         *)
Consistent(p, s) ==
  /\ s.generation = 0 => ~s.active
  /\ s.needed \subseteq Others(p)
  /\ s.ready \subseteq s.hello
  /\ s.localReady => Others(p) \subseteq s.hello
  /\ s.captured > 0 => s.localReady /\ Others(p) \subseteq s.ready
  /\ s.active => s.hello \cap s.needed = {} /\ s.previous < s.generation
  /\ s.previous <= s.generation
  /\ (s.generation > 0 /\ ~s.active) =>
       /\ s.captured = Frames
       /\ \A q \in Others(p) : s.confirmed[q] = Frames /\ s.acked[q] = Frames
  /\ \A q \in Others(p) : s.acked[q] <= s.captured

(* When everybody has said HELLO nothing is owed any more. *)
Released(s) == (s.active /\ s.localReady /\ s.needed = {}) => s.previous = 0

Left(s, generation) ==
  \/ s.generation > generation
  \/ s.generation = generation /\ ~s.active

(* What peer p, in state s, knows of peer q, in state t. *)
Related(p, s, q, t) ==
  /\ s.generation <= t.generation + 1
  /\ t.generation < s.generation => s.confirmed[q] = 0 /\ s.acked[q] = 0
  /\ t.generation = s.generation => /\ s.confirmed[q] <= t.captured
                                    /\ s.acked[q] <= t.confirmed[p]
  /\ q \in s.hello => t.generation >= s.generation
  /\ q \in s.ready => /\ contract[q] = contract[p]
                      /\ t.generation = s.generation => t.localReady
  /\ (s.generation > 0 /\ Left(t, s.generation)) =>
       s.confirmed[q] = Frames /\ s.captured = Frames

(* A message from q, in state t, to p, in state s. *)
Truthful(q, t, p, s, m) ==
  /\ m.session > 0 /\ m.session <= t.generation
  /\ m.kind # "input" => m.contract = contract[q]
  /\ m.kind = "ready" => /\ s.generation >= m.session
                         /\ t.generation = m.session => t.localReady
  /\ m.kind = "input" =>
       /\ t.generation = m.session => /\ m.upTo <= t.captured
                                      /\ m.ack <= t.confirmed[p]
       /\ s.generation = m.session => m.ack <= s.captured
       /\ s.generation < m.session => m.ack = 0

(* A READY is preceded by a HELLO, until that HELLO has been received. *)
Greets(m, generation) == m.kind = "hello" /\ m.session = generation

HelloFirst(q, p, s, messages) ==
  \A i \in DOMAIN messages :
    (messages[i].kind = "ready" /\ messages[i].session = s.generation)
      => \/ q \in s.hello \/ Failed(s)
         \/ \E j \in 1 .. i - 1 : Greets(messages[j], s.generation)

LinkOK(q, t, p, s, messages) ==
  /\ messages \in Seq(Message)
  /\ HelloFirst(q, p, s, messages)
  /\ \A i \in DOMAIN messages : Truthful(q, t, p, s, messages[i])

Justified(p, s) ==
  \/ s.failure \in {"None", "Timeout"}
  \/ /\ s.failure = "ContractMismatch"
     /\ \E q \in Others(p) : contract[q] # contract[p]

SoundPeers == \A p \in Player : /\ Consistent(p, peer[p]) /\ Released(peer[p])
                                /\ Justified(p, peer[p])
SoundPairs == \A p \in Player : \A q \in Others(p) :
                Related(p, peer[p], q, peer[q])
SoundLinks == \A p \in Player : \A q \in Others(p) :
                LinkOK(q, peer[q], p, peer[p], wire[q][p])

SessionInv == TypeOK /\ WireTypeOK /\ SoundPeers /\ SoundPairs /\ SoundLinks

---------------------------------------------------------------------------
(* A peer within a session. *)

(* Within a session a peer never takes anything back. *)
Grows(s, t) ==
  /\ t.generation = s.generation
  /\ s.captured <= t.captured
  /\ \A q \in Player : s.confirmed[q] <= t.confirmed[q] /\ s.acked[q] <= t.acked[q]
  /\ s.hello \subseteq t.hello /\ s.ready \subseteq t.ready
  /\ s.localReady => t.localReady
  /\ t.active => s.active
  /\ Failed(s) => Failed(t)

(* t differs from s in timers and in what is to be sent next only. *)
Alike(s, t) ==
  /\ t.generation = s.generation /\ t.active = s.active
  /\ t.failure = s.failure /\ t.hello = s.hello /\ t.ready = s.ready
  /\ t.localReady = s.localReady /\ t.captured = s.captured
  /\ t.confirmed = s.confirmed /\ t.acked = s.acked
  /\ t.previous = s.previous /\ t.needed = s.needed

LEMMA PeerFacts ==
  ASSUME NEW s \in PeerState
  PROVE  /\ s.generation \in Int /\ s.generation >= 0
         /\ s.previous \in Int /\ s.previous >= 0
         /\ s.captured \in Int /\ s.captured >= 0 /\ s.captured <= Frames
         /\ \A q \in Player :
              /\ s.confirmed[q] \in Int /\ s.confirmed[q] >= 0
              /\ s.confirmed[q] <= Frames
              /\ s.acked[q] \in Int /\ s.acked[q] >= 0 /\ s.acked[q] <= Frames
         /\ Frames \in Int /\ Frames > 0
<1>1. /\ s.generation \in 0 .. MaxGeneration /\ s.previous \in 0 .. MaxGeneration
      /\ s.captured \in 0 .. Frames
      /\ s.confirmed \in [Player -> 0 .. Frames]
      /\ s.acked \in [Player -> 0 .. Frames]
  BY DEF PeerState, Generations, Frontier
<1>2. Frames \in Int /\ Frames > 0 /\ MaxGeneration \in Int
  BY ChannelAssumption
<1>3. ASSUME NEW q \in Player
      PROVE  /\ s.confirmed[q] \in Int /\ s.confirmed[q] >= 0
             /\ s.confirmed[q] <= Frames
             /\ s.acked[q] \in Int /\ s.acked[q] >= 0 /\ s.acked[q] <= Frames
  <2> DEFINE x == s.confirmed[q]
             y == s.acked[q]
  <2>1. x \in 0 .. Frames /\ y \in 0 .. Frames
    BY <1>1
  <2> HIDE DEF x, y
  <2>2. /\ x \in Int /\ x >= 0 /\ x <= Frames
        /\ y \in Int /\ y >= 0 /\ y <= Frames
    BY <1>2, <2>1
  <2> QED
    BY <2>2 DEF x, y
<1> QED
  BY <1>1, <1>2, <1>3

LEMMA MessageFacts ==
  ASSUME NEW m \in Message
  PROVE  /\ m.session \in Int
         /\ m.kind \in {"hello", "ready", "input"}
         /\ m.kind # "input" => m \in ControlMessage /\ m.lane = "reliable"
         /\ m.kind = "input" => /\ m \in InputMessage
                                /\ m.first \in Frontier /\ m.upTo \in Frontier
                                /\ m.ack \in Frontier /\ m.ack \in Int
                                /\ m.upTo \in Int /\ m.first \in Int
                                /\ m.ack >= 0
<1>1. m \in ControlMessage => /\ m.session \in Int /\ m.lane = "reliable"
                              /\ m.kind \in {"hello", "ready"}
  BY DEF ControlMessage, Generations
<1>2. m \in InputMessage => /\ m.session \in Int /\ m.kind = "input"
                            /\ m.first \in Frontier /\ m.upTo \in Frontier
                            /\ m.ack \in Frontier /\ m.ack \in Int
                            /\ m.upTo \in Int /\ m.first \in Int /\ m.ack >= 0
  BY DEF InputMessage, Generations, Frontier
<1> QED
  BY <1>1, <1>2 DEF Message

LEMMA AlikeGrows ==
  ASSUME NEW s \in PeerState, NEW t, Alike(s, t)
  PROVE  Grows(s, t)
<1>1. s.captured <= s.captured
      /\ \A q \in Player : s.confirmed[q] <= s.confirmed[q]
                           /\ s.acked[q] <= s.acked[q]
  BY PeerFacts
<1> QED
  BY <1>1 DEF Alike, Grows, Failed

LEMMA AlikeConsistent ==
  ASSUME NEW p \in Player, NEW s, NEW t, Alike(s, t)
  PROVE  /\ Consistent(p, s) => Consistent(p, t)
         /\ Released(s) => Released(t)
         /\ Justified(p, s) => Justified(p, t)
         /\ \A q, u : Related(p, s, q, u) => Related(p, t, q, u)
BY DEF Alike, Consistent, Released, Justified, Related

LEMMA GrowsTransitive ==
  ASSUME NEW s \in PeerState, NEW t \in PeerState, NEW u \in PeerState,
         Grows(s, t), Grows(t, u)
  PROVE  Grows(s, u)
<1>1. \A a, b, c \in Int : a <= b /\ b <= c => a <= c
  OBVIOUS
<1>2. /\ s.captured \in Int /\ t.captured \in Int /\ u.captured \in Int
      /\ \A q \in Player : /\ s.confirmed[q] \in Int /\ t.confirmed[q] \in Int
                           /\ u.confirmed[q] \in Int /\ s.acked[q] \in Int
                           /\ t.acked[q] \in Int /\ u.acked[q] \in Int
  BY PeerFacts
<1>3. s.captured <= u.captured
  BY <1>1, <1>2 DEF Grows
<1>4. ASSUME NEW q \in Player
      PROVE  s.confirmed[q] <= u.confirmed[q] /\ s.acked[q] <= u.acked[q]
  <2>1. /\ s.confirmed[q] <= t.confirmed[q] /\ t.confirmed[q] <= u.confirmed[q]
        /\ s.acked[q] <= t.acked[q] /\ t.acked[q] <= u.acked[q]
    BY DEF Grows
  <2> QED
    BY <1>1, <1>2, <2>1
<1> QED
  BY <1>3, <1>4 DEF Grows

---------------------------------------------------------------------------
(* What others know of a peer, and what is under way, stays true when the  *)
(* peer goes on.                                                           *)

LEMMA RelatedGrows ==
  ASSUME NEW p \in Player, NEW q \in Player, NEW s \in PeerState,
         NEW t \in PeerState, NEW u \in PeerState,
         Related(p, s, q, t), Grows(t, u),
         Left(u, s.generation) => \/ Left(t, s.generation)
                                  \/ /\ s.confirmed[q] = Frames
                                     /\ s.captured = Frames
  PROVE  Related(p, s, q, u)
<1>1. /\ s.generation \in Int /\ t.generation \in Int
      /\ s.confirmed[q] \in Int /\ s.acked[q] \in Int
      /\ t.captured \in Int /\ u.captured \in Int
      /\ t.confirmed[p] \in Int /\ u.confirmed[p] \in Int
  BY PeerFacts
<1>2. /\ u.generation = t.generation /\ t.captured <= u.captured
      /\ t.confirmed[p] <= u.confirmed[p] /\ (t.localReady => u.localReady)
  BY DEF Grows
<1>3. t.generation = s.generation => /\ s.confirmed[q] <= u.captured
                                     /\ s.acked[q] <= u.confirmed[p]
  BY <1>1, <1>2 DEF Related
<1> QED
  BY <1>2, <1>3 DEF Related

LEMMA TruthfulGrows ==
  ASSUME NEW p \in Player, NEW q \in Player, NEW t \in PeerState,
         NEW s \in PeerState, NEW m \in Message, Truthful(q, t, p, s, m),
         NEW u \in PeerState
  PROVE  /\ Grows(t, u) => Truthful(q, u, p, s, m)
         /\ Grows(s, u) => Truthful(q, t, p, u, m)
<1>1. /\ t.captured \in Int /\ u.captured \in Int /\ s.captured \in Int
      /\ t.confirmed[p] \in Int /\ u.confirmed[p] \in Int
      /\ m.kind = "input" => m.ack \in Int /\ m.upTo \in Int
  BY PeerFacts, MessageFacts
<1>2. ASSUME Grows(t, u)
      PROVE  Truthful(q, u, p, s, m)
  <2>1. /\ u.generation = t.generation /\ t.captured <= u.captured
        /\ t.confirmed[p] <= u.confirmed[p] /\ (t.localReady => u.localReady)
    BY <1>2 DEF Grows
  <2>2. (m.kind = "input" /\ t.generation = m.session) =>
          m.upTo <= u.captured /\ m.ack <= u.confirmed[p]
    BY <1>1, <2>1 DEF Truthful
  <2> QED
    BY <2>1, <2>2 DEF Truthful
<1>3. ASSUME Grows(s, u)
      PROVE  Truthful(q, t, p, u, m)
  <2>1. u.generation = s.generation /\ s.captured <= u.captured
    BY <1>3 DEF Grows
  <2>2. (m.kind = "input" /\ s.generation = m.session) => m.ack <= u.captured
    BY <1>1, <2>1 DEF Truthful
  <2> QED
    BY <2>1, <2>2 DEF Truthful
<1> QED
  BY <1>2, <1>3

LEMMA LinkGrows ==
  ASSUME NEW p \in Player, NEW q \in Player, NEW t \in PeerState,
         NEW s \in PeerState, NEW messages, LinkOK(q, t, p, s, messages),
         NEW u \in PeerState
  PROVE  /\ Grows(t, u) => LinkOK(q, u, p, s, messages)
         /\ Grows(s, u) => LinkOK(q, t, p, u, messages)
<1>1. \A i \in DOMAIN messages : messages[i] \in Message
  BY DEF LinkOK
<1>2. Grows(s, u) => HelloFirst(q, p, u, messages)
  BY DEF LinkOK, HelloFirst, Grows
<1> QED
  BY <1>1, <1>2, TruthfulGrows DEF LinkOK

---------------------------------------------------------------------------
(* What a step of one peer has to show. *)

LEMMA SameContract ==
  ASSUME contract' = contract, NEW p, NEW q
  PROVE  /\ Justified(p, peer[p])' <=> Justified(p, peer'[p])
         /\ Related(p, peer[p], q, peer[q])' <=> Related(p, peer'[p], q, peer'[q])
         /\ LinkOK(q, peer[q], p, peer[p], wire[q][p])'
              <=> LinkOK(q, peer'[q], p, peer'[p], wire'[q][p])
BY DEF Message, ControlMessage, InputMessage, Justified, Related, Left, LinkOK,
       HelloFirst, Truthful, Greets, Failed, Others, Generations, Frontier

LEMMA StepKeeps ==
  ASSUME SessionInv, NEW p \in Player, NEW t \in PeerState,
         contract' = contract, peer' = [peer EXCEPT ![p] = t],
         wire' \in [Player -> [Player -> Seq(Message)]],
         Grows(peer[p], t),
         Consistent(p, t), Released(t), Justified(p, t),
         \A q \in Others(p) :
           /\ Related(p, t, q, peer[q])
           /\ Left(t, peer[q].generation) =>
                \/ Left(peer[p], peer[q].generation)
                \/ peer[q].confirmed[p] = Frames /\ peer[q].captured = Frames
           /\ LinkOK(p, t, q, peer[q], wire'[p][q])
           /\ LinkOK(q, peer[q], p, t, wire'[q][p]),
         \A q \in Others(p) : \A r \in Others(q) \ {p} : wire'[q][r] = wire[q][r]
  PROVE  SessionInv'
<1>1. peer \in [Player -> PeerState] /\ contract \in Contracts
  BY DEF SessionInv, TypeOK
<1>2. peer'[p] = t /\ \A q \in Others(p) : peer'[q] = peer[q]
  BY <1>1 DEF Others
<1>3. TypeOK'
  BY <1>1 DEF TypeOK, PeerState, Generations, Failures, Frontier
<1>4. WireTypeOK'
  BY DEF WireTypeOK, Message, ControlMessage, InputMessage, Generations, Frontier
<1>5. SoundPeers'
  <2> SUFFICES ASSUME NEW q \in Player
               PROVE  /\ Consistent(q, peer'[q]) /\ Released(peer'[q])
                      /\ Justified(q, peer[q])'
    BY DEF SoundPeers, Consistent, Released, Others
  <2>1. CASE q = p
    BY <1>2, <2>1, SameContract
  <2>2. CASE q # p
    BY <1>2, <2>2, SameContract DEF SessionInv, SoundPeers, Others
  <2> QED
    BY <2>1, <2>2
<1>6. ASSUME NEW q \in Player, NEW r \in Others(q)
      PROVE  /\ Related(q, peer[q], r, peer[r])'
             /\ LinkOK(r, peer[r], q, peer[q], wire[r][q])'
  <2>1. r \in Player /\ r # q /\ q \in Others(r)
    BY DEF Others
  <2>2. /\ Related(q, peer[q], r, peer[r])
        /\ LinkOK(r, peer[r], q, peer[q], wire[r][q])
    BY <1>6 DEF SessionInv, SoundPairs, SoundLinks
  <2>3. CASE q = p
    BY <1>2, <2>1, <2>3, SameContract
  <2>4. CASE r = p
    <3>1. peer[q] \in PeerState /\ peer[p] \in PeerState /\ q \in Others(p)
      BY <1>1, <2>1, <2>4 
    <3>2. Related(q, peer[q], p, t)
      BY <2>2, <2>4, <3>1, RelatedGrows
    <3> QED
      BY <1>2, <2>4, <3>1, <3>2, SameContract
  <2>5. CASE q # p /\ r # p
    <3>1. peer'[q] = peer[q] /\ peer'[r] = peer[r] /\ wire'[r][q] = wire[r][q]
      BY <1>2, <2>1, <2>5 DEF Others
    <3> QED
      BY <2>2, <3>1, SameContract
  <2> QED
    BY <2>3, <2>4, <2>5
<1>7. SoundPairs' /\ SoundLinks'
  BY <1>6 DEF SoundPairs, SoundLinks, Others
<1> QED
  BY <1>3, <1>4, <1>5, <1>7 DEF SessionInv

---------------------------------------------------------------------------
(* What a peer sends. *)

LEMMA SendKeeps ==
  ASSUME NEW p \in Player, NEW q \in Player, NEW t, NEW s, NEW messages,
         LinkOK(q, t, p, s, messages), NEW x \in Message,
         Truthful(q, t, p, s, x),
         (x.kind = "ready" /\ x.session = s.generation) =>
           \/ q \in s.hello \/ Failed(s)
           \/ \E j \in DOMAIN messages : Greets(messages[j], s.generation)
  PROVE  /\ LinkOK(q, t, p, s, Send(messages, x))
         /\ x.lane = "reliable" =>
              \E j \in DOMAIN Send(messages, x) : Send(messages, x)[j] = x
<1>1. CASE HasRoom(messages, x)
  <2> DEFINE sent == Append(messages, x)
  <2>1. messages \in Seq(Message)
    BY DEF LinkOK
  <2>2. /\ sent \in Seq(Message) /\ Len(sent) = Len(messages) + 1
        /\ DOMAIN sent = 1 .. Len(messages) + 1
        /\ DOMAIN messages = 1 .. Len(messages)
        /\ Len(messages) \in Nat /\ sent[Len(messages) + 1] = x
        /\ \A i \in 1 .. Len(messages) : sent[i] = messages[i]
    BY <2>1
  <2>3. Send(messages, x) = sent
    BY <1>1 DEF Send
  <2> HIDE DEF sent
  <2>4. ASSUME NEW i \in DOMAIN sent
        PROVE  Truthful(q, t, p, s, sent[i])
    <3>1. i = Len(messages) + 1 \/ i \in DOMAIN messages
      BY <2>2
    <3> QED
      BY <2>2, <3>1 DEF LinkOK
  <2>5. ASSUME NEW i \in DOMAIN sent,
               sent[i].kind = "ready" /\ sent[i].session = s.generation
        PROVE  \/ q \in s.hello \/ Failed(s)
               \/ \E j \in 1 .. i - 1 : Greets(sent[j], s.generation)
    <3>1. CASE i \in DOMAIN messages
      <4>1. \/ q \in s.hello \/ Failed(s)
            \/ \E j \in 1 .. i - 1 : Greets(messages[j], s.generation)
        BY <2>2, <2>5, <3>1 DEF LinkOK, HelloFirst
      <4>2. \A j \in 1 .. i - 1 : sent[j] = messages[j]
        BY <2>2, <3>1
      <4> QED
        BY <4>1, <4>2
    <3>2. CASE i = Len(messages) + 1
      <4>1. \/ q \in s.hello \/ Failed(s)
            \/ \E j \in DOMAIN messages : Greets(messages[j], s.generation)
        BY <2>2, <2>5, <3>2
      <4>2. \A j \in DOMAIN messages : sent[j] = messages[j] /\ j \in 1 .. i - 1
        BY <2>2, <3>2
      <4> QED
        BY <4>1, <4>2
    <3> QED
      BY <2>2, <3>1, <3>2
  <2>6. HelloFirst(q, p, s, sent)
    BY <2>5 DEF HelloFirst
  <2> QED
    BY <2>2, <2>3, <2>4, <2>6 DEF LinkOK
<1>2. CASE ~HasRoom(messages, x)
  <2>1. Send(messages, x) = messages
    BY <1>2 DEF Send
  <2>2. x.lane = "reliable" => \E j \in DOMAIN messages : messages[j] = x
    BY <1>2 DEF HasRoom
  <2> QED
    BY <2>1, <2>2
<1> QED
  BY <1>1, <1>2

LEMMA EchoKeeps ==
  ASSUME NEW p \in Player, NEW q \in Others(p),
         NEW s \in PeerState, NEW t \in PeerState, NEW messages,
         Consistent(p, s), Related(p, s, q, t), Related(q, t, p, s),
         LinkOK(p, s, q, t, messages), s.previous # 0
  PROVE  LinkOK(p, s, q, t, Echo(messages, s, q))
<1> DEFINE x == TerminalAck(s.previous)
<1>1. /\ s.generation \in Int /\ t.generation \in Int /\ t.generation >= 0
      /\ s.previous \in Int /\ s.previous > 0 /\ Frames \in Int /\ Frames > 0
      /\ s.captured \in Int /\ t.captured \in Int /\ s.confirmed[q] \in Int
      /\ q \in Player /\ s.previous \in Generations
  BY PeerFacts DEF Others, PeerState
<1>2. x \in Message
  BY <1>1 DEF TerminalAck, Message, InputMessage, Frontier
<1>3. /\ x.kind = "input" /\ x.session = s.previous
      /\ x.upTo = Frames /\ x.ack = Frames
  BY DEF TerminalAck
<1> HIDE DEF x
<1>4. s.previous <= s.generation /\ (s.active => s.previous < s.generation)
  BY DEF Consistent
<1>5. s.generation = s.previous =>
        ~s.active /\ s.captured = Frames /\ s.confirmed[q] = Frames
  BY <1>1, <1>4 DEF Consistent
<1>6. t.generation = s.previous => t.captured = Frames
  BY <1>1, <1>4, <1>5 DEF Related, Left
<1>7. ~(t.generation < s.previous)
  <2>1. t.generation < s.previous => s.generation = s.previous
    BY <1>1, <1>4 DEF Related
  <2> QED
    BY <1>1, <1>5, <2>1 DEF Related
<1>8. Truthful(p, s, q, t, x)
  BY <1>1, <1>3, <1>4, <1>5, <1>6, <1>7 DEF Truthful
<1> QED
  BY <1>1, <1>2, <1>3, <1>8, SendKeeps DEF Echo, x

LEMMA SessionKeeps ==
  ASSUME NEW p \in Player, NEW q \in Others(p),
         NEW s \in PeerState, NEW t \in PeerState, NEW messages,
         Consistent(p, s), Related(p, s, q, t), s.active,
         LinkOK(p, s, q, t, messages)
  PROVE  LinkOK(p, s, q, t, Session(messages, p, s))
<1> DEFINE h == Hello(p, s)
           r == Ready(p, s)
           greeted == Send(messages, h)
<1>1. /\ s.generation \in Int /\ s.generation > 0 /\ t.generation \in Int
      /\ q \in Player /\ s.generation \in Generations
  BY PeerFacts DEF Others, PeerState, Consistent
<1>2. /\ h \in Message /\ h.kind = "hello" /\ h.session = s.generation
      /\ h.contract = contract[p] /\ h.lane = "reliable"
  BY <1>1 DEF Hello, Message, ControlMessage
<1>3. /\ r \in Message /\ r.kind = "ready" /\ r.session = s.generation
      /\ r.contract = contract[p]
  BY <1>1 DEF Ready, Hello, Message, ControlMessage
<1> HIDE DEF h, r
<1>4. Truthful(p, s, q, t, h)
  BY <1>1, <1>2 DEF Truthful
<1>5. /\ LinkOK(p, s, q, t, greeted)
      /\ \E j \in DOMAIN greeted : greeted[j] = h
  BY <1>1, <1>2, <1>4, SendKeeps
<1> HIDE DEF greeted
<1>6. ASSUME s.localReady
      PROVE  LinkOK(p, s, q, t, Send(greeted, r))
  <2>1. t.generation >= s.generation
    BY <1>6 DEF Consistent, Related
  <2>2. Truthful(p, s, q, t, r)
    BY <1>1, <1>3, <1>6, <2>1 DEF Truthful
  <2>3. r.session = t.generation =>
          \E j \in DOMAIN greeted : Greets(greeted[j], t.generation)
    BY <1>2, <1>3, <1>5 DEF Greets
  <2> QED
    BY <1>1, <1>3, <1>5, <2>2, <2>3, SendKeeps
<1> QED
  BY <1>5, <1>6 DEF Session, greeted, h, r

LEMMA PacketKeeps ==
  ASSUME NEW p \in Player, NEW q \in Others(p),
         NEW s \in PeerState, NEW t \in PeerState, NEW messages,
         Consistent(p, s), Related(p, s, q, t), s.active,
         LinkOK(p, s, q, t, messages), NEW lane \in {"reliable", "fast"}
  PROVE  LinkOK(p, s, q, t, Send(messages, InputPacket(s, q, lane)))
<1> DEFINE x == InputPacket(s, q, lane)
<1>1. /\ s.generation \in Int /\ s.generation > 0 /\ t.generation \in Int
      /\ q \in Player /\ s.generation \in Generations
      /\ s.captured \in Int /\ t.captured \in Int /\ s.confirmed[q] \in Int
      /\ s.captured \in Frontier /\ s.confirmed[q] \in Frontier
      /\ s.acked[q] \in Frontier
  BY PeerFacts DEF Others, PeerState, Consistent
<1>2. /\ x \in Message /\ x.kind = "input" /\ x.session = s.generation
      /\ x.upTo = s.captured /\ x.ack = s.confirmed[q]
  BY <1>1 DEF InputPacket, Message, InputMessage
<1> HIDE DEF x
<1>3. Truthful(p, s, q, t, x)
  BY <1>1, <1>2 DEF Truthful, Related
<1> QED
  BY <1>1, <1>2, <1>3, SendKeeps DEF x

LEMMA InputsKeep ==
  ASSUME NEW p \in Player, NEW q \in Others(p),
         NEW s \in PeerState, NEW t \in PeerState, NEW messages,
         Consistent(p, s), Related(p, s, q, t), s.active,
         LinkOK(p, s, q, t, messages), NEW due, NEW fast
  PROVE  LinkOK(p, s, q, t, Inputs(messages, s, q, due, fast))
BY PacketKeeps DEF Inputs

---------------------------------------------------------------------------
(* What a peer receives. *)

(* Two messages that differ in having been overtaken only. *)
Same(m, n) ==
  /\ m.kind = n.kind /\ m.lane = n.lane /\ m.session = n.session
  /\ m.kind # "input" => m = n
  /\ m.kind = "input" => /\ m.first = n.first /\ m.upTo = n.upTo
                         /\ m.ack = n.ack

LEMMA RemoveOne ==
  ASSUME NEW S, NEW messages \in Seq(S), NEW i \in DOMAIN messages
  PROVE  /\ RemoveAt(messages, i) \in Seq(S)
         /\ DOMAIN RemoveAt(messages, i) = 1 .. Len(messages) - 1
         /\ \A j \in 1 .. Len(messages) - 1 :
              RemoveAt(messages, i)[j] =
                messages[IF j < i THEN j ELSE j + 1]
<1> DEFINE n == Len(messages)
           a == SubSeq(messages, 1, i - 1)
           b == SubSeq(messages, i + 1, n)
<1>1. n \in Nat /\ i \in 1 .. n /\ DOMAIN messages = 1 .. n
  OBVIOUS
<1>2. /\ a \in Seq(S) /\ Len(a) = i - 1
      /\ \A j \in 1 .. i - 1 : a[j] = messages[j]
  BY <1>1
<1>3. /\ b \in Seq(S) /\ Len(b) = n - i
      /\ \A j \in 1 .. n - i : b[j] = messages[i + j]
  BY <1>1
<1>4. RemoveAt(messages, i) = a \o b
  BY DEF RemoveAt
<1> HIDE DEF a, b
<1> DEFINE c == a \o b
<1>5. /\ c \in Seq(S) /\ Len(c) = Len(a) + Len(b)
      /\ \A j \in 1 .. Len(a) + Len(b) :
           c[j] = IF j <= Len(a) THEN a[j] ELSE b[j - Len(a)]
  BY <1>2, <1>3, ConcatProperties, Zenon
<1> HIDE DEF c
<1>6. DOMAIN c = 1 .. Len(c)
  BY <1>5, LenProperties, Zenon
<1>7. Len(a) + Len(b) = n - 1
  BY <1>1, <1>2, <1>3
<1> HIDE DEF n
<1>8. ASSUME NEW j \in 1 .. n - 1
      PROVE  c[j] = messages[IF j < i THEN j ELSE j + 1]
  <2>1. c[j] = IF j <= i - 1 THEN a[j] ELSE b[j - (i - 1)]
    BY <1>2, <1>5, <1>7
  <2>2. CASE j < i
    <3>1. j <= i - 1 /\ j \in 1 .. i - 1
      BY <1>1, <2>2
    <3> QED
      BY <1>2, <2>1, <2>2, <3>1
  <2>3. CASE ~(j < i)
    <3>1. /\ j - (i - 1) \in 1 .. n - i /\ i + (j - (i - 1)) = j + 1
          /\ ~(j <= i - 1)
      BY <1>1, <2>3
    <3>2. c[j] = b[j - (i - 1)]
      BY <2>1, <3>1
    <3>3. b[j - (i - 1)] = messages[j + 1]
      BY <1>3, <3>1
    <3> QED
      BY <2>3, <3>2, <3>3
  <2> QED
    BY <2>2, <2>3
<1> QED
  BY <1>4, <1>5, <1>6, <1>7, <1>8 DEF c, n

LEMMA ArrivalLeaves ==
  ASSUME NEW messages \in Seq(Message), NEW i \in DOMAIN messages, NEW s
  PROVE  /\ AfterArrival(messages, i, s) \in Seq(Message)
         /\ DOMAIN AfterArrival(messages, i, s) = 1 .. Len(messages) - 1
         /\ \A j \in 1 .. Len(messages) - 1 :
              Same(AfterArrival(messages, i, s)[j],
                   messages[IF j < i THEN j ELSE j + 1])
<1> DEFINE Marked(j) ==
             /\ j < i /\ {messages[i].kind, messages[j].kind} = {"input"}
             /\ IsCurrent(s, messages[i])
           marked == [j \in DOMAIN messages |->
                        IF Marked(j)
                        THEN [messages[j] EXCEPT !.overtaken = TRUE]
                        ELSE messages[j]]
<1>1. AfterArrival(messages, i, s) = RemoveAt(marked, i)
  BY DEF AfterArrival
<1>2. ASSUME NEW j \in DOMAIN messages
      PROVE  marked[j] \in Message /\ Same(marked[j], messages[j])
  <2>1. messages[j] \in Message
    OBVIOUS
  <2>2. Marked(j) => messages[j] \in InputMessage
    <3>1. Marked(j) => messages[j].kind = "input"
      OBVIOUS
    <3> HIDE DEF Marked
    <3> QED
      BY <2>1, <3>1, MessageFacts
  <2> HIDE DEF Marked
  <2>3. CASE Marked(j)
    <3>1. marked[j] = [messages[j] EXCEPT !.overtaken = TRUE]
      BY <2>3
    <3>2. messages[j] \in InputMessage
      BY <2>2, <2>3
    <3> QED
      BY <3>1, <3>2 DEF InputMessage, Message, Same
  <2>4. CASE ~Marked(j)
    <3>1. marked[j] = messages[j]
      BY <2>4
    <3> QED
      BY <2>1, <3>1 DEF Same
  <2> QED
    BY <2>3, <2>4
<1> HIDE DEF Marked
<1>3. DOMAIN marked = DOMAIN messages /\ DOMAIN messages = 1 .. Len(messages)
      /\ Len(messages) \in Nat
  OBVIOUS
<1> HIDE DEF marked
<1>4. marked \in Seq(Message) /\ Len(marked) = Len(messages)
  <2>1. marked \in [1 .. Len(messages) -> Message]
    <3>1. marked = [j \in 1 .. Len(messages) |-> marked[j]]
      BY <1>3 DEF marked
    <3> QED
      BY <1>2, <1>3, <3>1
  <2> QED
    BY <1>3, <2>1
<1>5. /\ RemoveAt(marked, i) \in Seq(Message)
      /\ DOMAIN RemoveAt(marked, i) = 1 .. Len(messages) - 1
      /\ \A j \in 1 .. Len(messages) - 1 :
           RemoveAt(marked, i)[j] = marked[IF j < i THEN j ELSE j + 1]
  BY <1>3, <1>4, RemoveOne
<1>6. ASSUME NEW j \in 1 .. Len(messages) - 1
      PROVE  (IF j < i THEN j ELSE j + 1) \in DOMAIN messages
  BY <1>3
<1> QED
  BY <1>1, <1>2, <1>5, <1>6

LEMMA SameTruth ==
  ASSUME NEW p, NEW q, NEW s, NEW t, NEW m, NEW n, Same(m, n),
         Truthful(q, t, p, s, n)
  PROVE  Truthful(q, t, p, s, m)
BY DEF Same, Truthful

(* What is left on a link when a message has been received: a HELLO goes   *)
(* only when it has done its work. *)
LEMMA ArrivalKeeps ==
  ASSUME NEW p, NEW q, NEW s, NEW t, NEW messages, NEW i \in DOMAIN messages,
         LinkOK(q, t, p, s, messages), ~Failed(s),
         NEW r, NEW u, LinkOK(q, t, p, r, messages),
         r.generation = s.generation, s.hello \subseteq r.hello,
         Greets(messages[i], s.generation) => q \in r.hello \/ Failed(r)
  PROVE  LinkOK(q, t, p, r, AfterArrival(messages, i, u))
<1> DEFINE left == AfterArrival(messages, i, u)
           From(j) == IF j < i THEN j ELSE j + 1
<1>1. /\ messages \in Seq(Message) /\ Len(messages) \in Nat
      /\ DOMAIN messages = 1 .. Len(messages) /\ i \in 1 .. Len(messages)
  BY DEF LinkOK
<1>2. /\ left \in Seq(Message) /\ DOMAIN left = 1 .. Len(messages) - 1
      /\ \A j \in 1 .. Len(messages) - 1 : Same(left[j], messages[From(j)])
  BY <1>1, ArrivalLeaves
<1>3. \A j \in 1 .. Len(messages) - 1 : From(j) \in DOMAIN messages
  BY <1>1
<1> HIDE DEF left
<1>4. ASSUME NEW j \in DOMAIN left
      PROVE  Truthful(q, t, p, r, left[j])
  BY <1>2, <1>3, <1>4, SameTruth DEF LinkOK
<1>5. ASSUME NEW j \in DOMAIN left,
             left[j].kind = "ready", left[j].session = r.generation
      PROVE  \/ q \in r.hello \/ Failed(r)
             \/ \E k \in 1 .. j - 1 : Greets(left[k], r.generation)
  <2>1. /\ messages[From(j)].kind = "ready"
        /\ messages[From(j)].session = s.generation /\ From(j) \in DOMAIN messages
    BY <1>2, <1>3, <1>5 DEF Same
  <2>2. \/ q \in s.hello
        \/ \E k \in 1 .. From(j) - 1 : Greets(messages[k], s.generation)
    BY <2>1 DEF LinkOK, HelloFirst
  <2>3. CASE q \in s.hello
    BY <2>3
  <2>4. ASSUME NEW k \in 1 .. From(j) - 1, Greets(messages[k], s.generation)
        PROVE  \/ q \in r.hello \/ Failed(r)
               \/ \E l \in 1 .. j - 1 : Greets(left[l], r.generation)
    <3>1. CASE k = i
      BY <2>4, <3>1
    <3>2. CASE k # i
      <4> DEFINE l == IF k < i THEN k ELSE k - 1
      <4>1. /\ l \in 1 .. j - 1 /\ From(l) = k /\ l \in 1 .. Len(messages) - 1
        BY <1>1, <1>2, <1>5, <3>2
      <4>2. Same(left[l], messages[k])
        BY <1>2, <4>1
      <4>3. Greets(left[l], r.generation)
        BY <2>4, <4>2 DEF Same, Greets
      <4> HIDE DEF l
      <4> QED
        BY <4>1, <4>3
    <3> QED
      BY <3>1, <3>2
  <2> QED
    BY <2>2, <2>3, <2>4
<1> QED
  BY <1>2, <1>4, <1>5 DEF LinkOK, HelloFirst, left

LEMMA ReceiveMessageType ==
  ASSUME NEW p \in Player, NEW q \in Player, NEW s \in PeerState,
         NEW m \in Message, NEW due
  PROVE  ReceiveMessage(p, s, q, m, due) \in PeerState
<1>1. ReceiveHello(p, s, q, due) \in PeerState
  BY DEF ReceiveHello, PeerState, CanStart
<1>2. ReceiveReady(s, q) \in PeerState
  BY DEF ReceiveReady, Fail, PeerState, Failures
<1>3. ASSUME m.kind = "input"
      PROVE  ReceiveInput(s, q, m) \in PeerState
  <2>1. /\ m.ack \in Frontier /\ m.upTo \in Frontier
        /\ s.acked \in [Player -> Frontier] /\ s.confirmed \in [Player -> Frontier]
        /\ Frontier \subseteq Int /\ s.forceInputs \in BOOLEAN
        /\ s.needsAck \subseteq Player /\ Failures = Failures
    BY <1>3, MessageFacts DEF PeerState, Frontier
  <2>2. \A a, b \in Frontier : Max({a, b}) \in Frontier
    <3>1. ASSUME NEW a \in Frontier, NEW b \in Frontier
          PROVE  Max({a, b}) \in {a, b}
      <4>1. a \in Int /\ b \in Int
        BY <2>1
      <4>2. \E x \in {a, b} : \A y \in {a, b} : x >= y
        BY <4>1
      <4> QED
        BY <4>2 DEF Max
    <3> QED
      BY <3>1
  <2>3. Fail(s, "MalformedPacket") \in PeerState
    BY DEF Fail, PeerState, Failures
  <2> DEFINE acked == Max({s.acked[q], m.ack})
             through == IF m.first <= s.confirmed[q]
                        THEN Max({m.upTo, s.confirmed[q]}) ELSE s.confirmed[q]
             needs == IF m.overtaken THEN s.needsAck
                      ELSE IF m.first < m.upTo THEN s.needsAck \cup {q}
                      ELSE s.needsAck \ {q}
             t == [s EXCEPT !.acked[q] = acked, !.confirmed[q] = through,
                            !.forceInputs = @ \/ through # s.confirmed[q],
                            !.needsAck = needs]
  <2>4. acked \in Frontier /\ through \in Frontier
    BY <2>1, <2>2
  <2>5. needs \subseteq Player
    BY <2>1
  <2>6. ReceiveInput(s, q, m) =
          IF m.ack > s.captured THEN Fail(s, "MalformedPacket") ELSE t
    BY DEF ReceiveInput, PeerState
  <2> HIDE DEF acked, through, needs
  <2>7. t \in PeerState
    BY <2>4, <2>5 DEF PeerState
  <2> QED
    BY <2>3, <2>6, <2>7
<1>4. Fail(s, "ContractMismatch") \in PeerState
  BY DEF Fail, PeerState, Failures
<1>5. m.kind \in {"hello", "ready", "input"}
  BY MessageFacts
<1> QED
  BY <1>1, <1>2, <1>3, <1>4, <1>5 DEF ReceiveMessage

(* An input packet of this session moves the two frontiers of its sender,  *)
(* up to what the sender has.                                              *)
LEMMA InputMoves ==
  ASSUME NEW p \in Player, NEW q \in Others(p), NEW s \in PeerState,
         NEW t \in PeerState, NEW m \in Message, m.kind = "input",
         m.session = s.generation,
         Truthful(q, t, p, s, m), Related(p, s, q, t)
  PROVE  LET r == ReceiveInput(s, q, m)
         IN  /\ r.generation = s.generation /\ r.active = s.active
             /\ r.failure = s.failure /\ r.hello = s.hello /\ r.ready = s.ready
             /\ r.localReady = s.localReady /\ r.captured = s.captured
             /\ r.previous = s.previous /\ r.needed = s.needed
             /\ \A o \in Player \ {q} : /\ r.confirmed[o] = s.confirmed[o]
                                        /\ r.acked[o] = s.acked[o]
             /\ s.confirmed[q] <= r.confirmed[q] /\ s.acked[q] <= r.acked[q]
             /\ t.generation = s.generation => /\ r.confirmed[q] <= t.captured
                                               /\ r.acked[q] <= t.confirmed[p]
             /\ r.acked[q] = s.acked[q] \/ r.acked[q] <= s.captured
<1> DEFINE a == s.acked[q]
           b == s.confirmed[q]
           acked == Max({a, m.ack})
           through == IF m.first <= b THEN Max({m.upTo, b}) ELSE b
<1>1. /\ a \in Int /\ b \in Int /\ m.ack \in Int /\ m.upTo \in Int
      /\ m.first \in Int /\ s.captured \in Int /\ t.captured \in Int
      /\ t.confirmed[p] \in Int /\ q \in Player
  BY PeerFacts, MessageFacts DEF Others
<1>2. /\ m.ack <= s.captured
      /\ t.generation = s.generation =>
           /\ m.upTo <= t.captured /\ m.ack <= t.confirmed[p]
           /\ b <= t.captured /\ a <= t.confirmed[p]
  BY DEF Truthful, Related
<1>3. \A x, y \in Int : Max({x, y}) = IF x >= y THEN x ELSE y
  <2> SUFFICES ASSUME NEW x \in Int, NEW y \in Int
               PROVE  Max({x, y}) = IF x >= y THEN x ELSE y
    OBVIOUS
  <2> QED
    BY DEF Max
<1>4. ~(m.ack > s.captured)
  BY <1>1, <1>2
<1>5. /\ ReceiveInput(s, q, m).acked = [s.acked EXCEPT ![q] = acked]
      /\ ReceiveInput(s, q, m).confirmed = [s.confirmed EXCEPT ![q] = through]
      /\ LET r == ReceiveInput(s, q, m)
         IN  /\ r.generation = s.generation /\ r.active = s.active
             /\ r.failure = s.failure /\ r.hello = s.hello /\ r.ready = s.ready
             /\ r.localReady = s.localReady /\ r.captured = s.captured
             /\ r.previous = s.previous /\ r.needed = s.needed
  BY <1>4 DEF ReceiveInput, PeerState
<1>6. /\ a <= acked /\ (acked = a \/ acked <= s.captured) /\ b <= through
      /\ t.generation = s.generation => /\ acked <= t.confirmed[p]
                                        /\ through <= t.captured
  BY <1>1, <1>2, <1>3
<1>7. s.acked \in [Player -> Frontier] /\ s.confirmed \in [Player -> Frontier]
  BY DEF PeerState
<1> HIDE DEF acked, through
<1>8. LET r == ReceiveInput(s, q, m)
      IN  /\ r.acked[q] = acked /\ r.confirmed[q] = through
          /\ \A o \in Player \ {q} : /\ r.confirmed[o] = s.confirmed[o]
                                     /\ r.acked[o] = s.acked[o]
  BY <1>1, <1>5, <1>7
<1> QED
  BY <1>5, <1>6, <1>8

LEMMA Receives ==
  ASSUME NEW p \in Player, NEW q \in Others(p), NEW s \in PeerState,
         NEW t \in PeerState, NEW m \in Message, NEW due,
         ~Failed(s), Consistent(p, s), Released(s), Justified(p, s),
         Related(p, s, q, t), Truthful(q, t, p, s, m),
         (m.kind = "ready" /\ m.session = s.generation) => q \in s.hello
  PROVE  LET r == ReceiveMessage(p, s, q, m, due)
         IN  /\ Grows(s, r) /\ r.active = s.active
             /\ Consistent(p, r) /\ Justified(p, r)
             /\ Failed(r) => Released(r)
             /\ Related(p, r, q, t)
             /\ \A u : \A o \in Others(p) \ {q} :
                  Related(p, s, o, u) => Related(p, r, o, u)
             /\ Greets(m, s.generation) /\ s.active => q \in r.hello \/ Failed(r)
<1> DEFINE r == ReceiveMessage(p, s, q, m, due)
<1>1. Grows(s, s)
  BY AlikeGrows DEF Alike
<1>2. m.kind \in {"hello", "ready", "input"} /\ q \in Player
  BY MessageFacts DEF Others
<1>3. CASE ~IsCurrent(s, m)
  <2>1. r = s
    BY <1>3 DEF ReceiveMessage
  <2>2. ~(Greets(m, s.generation) /\ s.active)
    BY <1>3 DEF Greets, IsCurrent
  <2> HIDE DEF r
  <2> QED
    BY <1>1, <2>1, <2>2 DEF r
<1>4. CASE IsCurrent(s, m)
  <2>1. /\ s.active /\ m.session = s.generation /\ s.generation \in Int
        /\ t.generation \in Int /\ t.generation >= s.generation
    BY <1>4, PeerFacts DEF IsCurrent, Truthful
  <2>2. CASE m.kind = "input"
    <3>1. r = ReceiveInput(s, q, m)
      BY <1>4, <2>2 DEF ReceiveMessage
    <3> DEFINE i == ReceiveInput(s, q, m)
    <3>2. /\ i.generation = s.generation /\ i.active = s.active
          /\ i.failure = s.failure /\ i.hello = s.hello /\ i.ready = s.ready
          /\ i.localReady = s.localReady /\ i.captured = s.captured
          /\ i.previous = s.previous /\ i.needed = s.needed
          /\ \A o \in Player \ {q} : /\ i.confirmed[o] = s.confirmed[o]
                                     /\ i.acked[o] = s.acked[o]
          /\ s.confirmed[q] <= i.confirmed[q] /\ s.acked[q] <= i.acked[q]
          /\ t.generation = s.generation => /\ i.confirmed[q] <= t.captured
                                            /\ i.acked[q] <= t.confirmed[p]
          /\ i.acked[q] = s.acked[q] \/ i.acked[q] <= s.captured
      BY <2>1, <2>2, InputMoves
    <3>3. s.confirmed[q] = Frames => i.confirmed[q] = Frames
      BY <1>2, <3>1, <3>2, PeerFacts, ReceiveMessageType
    <3> HIDE DEF i
    <3>4. Grows(s, i)
      BY <1>1, <3>2 DEF Grows, Failed
    <3>5. Consistent(p, i)
      BY <2>1, <3>2 DEF Consistent, Others
    <3>6. Released(i) /\ Justified(p, i)
      BY <3>2 DEF Released, Justified
    <3>7. Related(p, i, q, t)
      BY <2>1, <3>2, <3>3 DEF Related
    <3>8. \A u : \A o \in Others(p) \ {q} : Related(p, s, o, u) => Related(p, i, o, u)
      BY <3>2 DEF Related, Others
    <3> QED
      BY <2>2, <3>1, <3>2, <3>4, <3>5, <3>6, <3>7, <3>8 DEF i, Greets
  <2>3. CASE m.kind # "input"
    <3>1. m.contract = contract[q]
      BY <2>3 DEF Truthful
    <3>2. CASE contract[q] # contract[p]
      <4>1. r = Fail(s, "ContractMismatch")
        BY <1>4, <2>3, <3>1, <3>2 DEF ReceiveMessage
      <4>2. /\ r = [s EXCEPT !.failure = "ContractMismatch"]
        BY <4>1 DEF Fail
      <4> HIDE DEF r
      <4>3. /\ r.generation = s.generation /\ r.active = s.active
            /\ r.failure = "ContractMismatch" /\ r.hello = s.hello
            /\ r.ready = s.ready /\ r.localReady = s.localReady
            /\ r.captured = s.captured /\ r.confirmed = s.confirmed
            /\ r.acked = s.acked /\ r.previous = s.previous /\ r.needed = s.needed
        BY <4>2 DEF PeerState
      <4>4. Grows(s, r) /\ Consistent(p, r) /\ Justified(p, r) /\ Released(r)
        BY <1>1, <3>2, <4>3 DEF Grows, Consistent, Justified, Released, Failed
      <4>5. \A o, u : Related(p, s, o, u) => Related(p, r, o, u)
        BY <4>3 DEF Related
      <4> QED
        BY <4>3, <4>4, <4>5 DEF r, Failed
    <3>3. CASE contract[q] = contract[p] /\ m.kind = "hello"
      <4>1. r = ReceiveHello(p, s, q, due)
        BY <1>4, <3>1, <3>3 DEF ReceiveMessage
      <4> DEFINE force == ReceiveHello(p, s, q, due).forceControl
      <4>2. r = [s EXCEPT !.hello = @ \cup {q}, !.needed = @ \ {q},
                          !.forceControl = force]
        BY <4>1 DEF ReceiveHello, PeerState
      <4> HIDE DEF r, force
      <4>3. /\ r.generation = s.generation /\ r.active = s.active
            /\ r.failure = s.failure /\ r.hello = s.hello \cup {q}
            /\ r.ready = s.ready /\ r.localReady = s.localReady
            /\ r.captured = s.captured /\ r.confirmed = s.confirmed
            /\ r.acked = s.acked /\ r.previous = s.previous
            /\ r.needed = s.needed \ {q}
        BY <4>2 DEF PeerState
      <4>4. Grows(s, r)
        BY <1>1, <4>3 DEF Grows, Failed
      <4>5. Consistent(p, r)
        BY <4>3 DEF Consistent
      <4>6. Justified(p, r) /\ ~Failed(r)
        BY <4>3 DEF Justified, Failed
      <4>7. \A u : \A o \in Others(p) \ {q} : Related(p, s, o, u) => Related(p, r, o, u)
        BY <4>3 DEF Related
      <4>8. Related(p, r, q, t)
        BY <2>1, <4>3 DEF Related
      <4> QED
        BY <4>3, <4>4, <4>5, <4>6, <4>7, <4>8 DEF r
    <3>4. CASE contract[q] = contract[p] /\ m.kind = "ready"
      <4>1. q \in s.hello
        BY <2>1, <3>4
      <4>2. r = [s EXCEPT !.ready = @ \cup {q}]
        BY <1>4, <3>1, <3>4, <4>1 DEF ReceiveMessage, ReceiveReady
      <4> HIDE DEF r
      <4>3. /\ r.generation = s.generation /\ r.active = s.active
            /\ r.failure = s.failure /\ r.hello = s.hello
            /\ r.ready = s.ready \cup {q} /\ r.localReady = s.localReady
            /\ r.captured = s.captured /\ r.confirmed = s.confirmed
            /\ r.acked = s.acked /\ r.previous = s.previous
            /\ r.needed = s.needed
        BY <4>2 DEF PeerState
      <4>4. Grows(s, r)
        BY <1>1, <4>3 DEF Grows, Failed
      <4>5. Consistent(p, r)
        BY <4>1, <4>3 DEF Consistent
      <4>6. Justified(p, r) /\ Released(r)
        BY <4>3 DEF Justified, Released
      <4>7. \A u : \A o \in Others(p) \ {q} : Related(p, s, o, u) => Related(p, r, o, u)
        BY <4>3 DEF Related
      <4>8. Related(p, r, q, t)
        BY <2>1, <3>4, <4>3 DEF Related, Truthful
      <4> QED
        BY <3>4, <4>3, <4>4, <4>5, <4>6, <4>7, <4>8 DEF r, Greets
    <3> QED
      BY <1>2, <2>3, <3>2, <3>3, <3>4
  <2> QED
    BY <2>2, <2>3
<1> QED
  BY <1>3, <1>4

---------------------------------------------------------------------------
(* What is left of Pump after Receive. *)

LEMMA SettleFacts ==
  ASSUME NEW p \in Player, NEW s \in PeerState, Consistent(p, s)
  PROVE  LET t == Settle(p, s)
         IN  /\ t \in PeerState /\ Grows(s, t) /\ t.active = s.active
             /\ Consistent(p, t) /\ Released(t)
             /\ Justified(p, s) => Justified(p, t)
             /\ \A q, u : Related(p, s, q, u) => Related(p, t, q, u)
<1> DEFINE t == Settle(p, s)
           previous == IF s.needed = {} THEN 0 ELSE s.previous
           ready == s.localReady \/ (s.active /\ AllPeersHello(p, s))
           force == t.forceControl
<1>1. /\ 0 \in Generations /\ previous \in Generations /\ ready \in BOOLEAN
      /\ previous \in {0, s.previous} /\ s.generation \in Int
      /\ s.generation >= 0
  BY ChannelAssumption, PeerFacts DEF Generations, PeerState
<1>2. t \in PeerState
  BY <1>1, ZenonT(30) DEF Settle, PeerState
<1>3. t = [s EXCEPT !.previous = previous, !.localReady = ready,
                    !.forceControl = force]
  BY <1>2 DEF Settle, PeerState
<1> HIDE DEF t, previous, ready, force
<1>4. /\ t.generation = s.generation /\ t.active = s.active
      /\ t.failure = s.failure /\ t.hello = s.hello /\ t.ready = s.ready
      /\ t.captured = s.captured /\ t.confirmed = s.confirmed
      /\ t.acked = s.acked /\ t.needed = s.needed
      /\ t.previous = previous /\ t.localReady = ready
  BY <1>3 DEF PeerState
<1>5. ready => s.localReady \/ (s.active /\ Others(p) \subseteq s.hello)
  BY DEF ready, AllPeersHello
<1>6. s.localReady => ready
  BY DEF ready
<1>7. Grows(s, t)
  <2>1. Grows(s, s)
    BY AlikeGrows DEF Alike
  <2> QED
    BY <1>4, <1>6, <2>1 DEF Grows, Failed
<1>8. Consistent(p, t)
  BY <1>1, <1>4, <1>5, <1>6 DEF Consistent
<1>9. Released(t)
  BY <1>4 DEF Released, previous
<1>10. /\ Justified(p, s) => Justified(p, t)
       /\ \A q, u : Related(p, s, q, u) => Related(p, t, q, u)
  BY <1>4 DEF Justified, Related
<1> QED
  BY <1>2, <1>4, <1>7, <1>8, <1>9, <1>10 DEF t

LEMMA AlikeSent ==
  ASSUME NEW s \in PeerState
  PROVE  \A t \in {AfterInputs(s), AfterDeferral(s), s,
                   [s EXCEPT !.forceControl = FALSE]} :
           t \in PeerState /\ Alike(s, t)
<1>1. s \in PeerState /\ Alike(s, s)
  BY DEF Alike
<1>2. AfterInputs(s) \in PeerState /\ Alike(s, AfterInputs(s))
  BY DEF AfterInputs, Alike, PeerState
<1>3. AfterDeferral(s) \in PeerState /\ Alike(s, AfterDeferral(s))
  BY DEF AfterDeferral, Alike, PeerState
<1>4. [s EXCEPT !.forceControl = FALSE] \in PeerState
      /\ Alike(s, [s EXCEPT !.forceControl = FALSE])
  BY DEF Alike, PeerState
<1> QED
  BY <1>1, <1>2, <1>3, <1>4

LEMMA AlikeTransitive ==
  ASSUME NEW s, NEW t, NEW u, Alike(s, t), Alike(t, u)
  PROVE  Alike(s, u)
BY DEF Alike

LEMMA PostedLinks ==
  ASSUME NEW w \in [Player -> [Player -> Seq(Message)]], NEW p \in Player,
         NEW links, \A q \in Others(p) : links[q] \in Seq(Message)
  PROVE  /\ Posted(w, p, links) \in [Player -> [Player -> Seq(Message)]]
         /\ \A q \in Others(p) : /\ Posted(w, p, links)[p][q] = links[q]
                                 /\ Posted(w, p, links)[q] = w[q]
<1> DEFINE out == [q \in Player |-> IF q = p THEN << >> ELSE links[q]]
<1>1. << >> \in Seq(Message)
  OBVIOUS
<1>2. out \in [Player -> Seq(Message)]
  <2>1. ASSUME NEW q \in Player
        PROVE  (IF q = p THEN << >> ELSE links[q]) \in Seq(Message)
    BY <1>1 DEF Others
  <2> QED
    BY <2>1
<1>3. Posted(w, p, links) = [w EXCEPT ![p] = out]
  BY DEF Posted
<1>4. \A q \in Others(p) : out[q] = links[q] /\ q # p /\ q \in Player
  BY DEF Others
<1> HIDE DEF out
<1> QED
  BY <1>2, <1>3, <1>4

LEMMA TailKeeps ==
  ASSUME SessionInv, NEW p \in Player, NEW received \in PeerState,
         NEW messages \in [Player -> [Player -> Seq(Message)]],
         NEW due, NEW defer, NEW fast, contract' = contract,
         PumpTail(p, received, messages, due, defer, fast),
         Grows(peer[p], received), received.active = peer[p].active,
         Consistent(p, received), Justified(p, received),
         Failed(received) => Released(received),
         \A q \in Others(p) :
           /\ Related(p, received, q, peer[q])
           /\ messages[p][q] = wire[p][q]
           /\ LinkOK(q, peer[q], p, received, messages[q][p]),
         \A q \in Others(p) : \A r \in Others(q) \ {p} :
           messages[q][r] = wire[q][r]
  PROVE  SessionInv'
<1>1. /\ \A q \in Player : peer[q] \in PeerState
      /\ Others(p) \subseteq Player
      /\ \A q \in Others(p) : /\ p \in Others(q)
                              /\ Related(q, peer[q], p, peer[p])
                              /\ LinkOK(p, peer[p], q, peer[q], wire[p][q])
  BY DEF SessionInv, TypeOK, Others, SoundPairs, SoundLinks
<1>2. ASSUME NEW u \in PeerState, Grows(received, u), u.active = received.active
      PROVE  /\ Grows(peer[p], u)
             /\ \A g : Left(u, g) => Left(peer[p], g)
             /\ \A q \in Others(p) : LinkOK(q, peer[q], p, u, messages[q][p])
  <2>1. Grows(peer[p], u)
    BY <1>1, <1>2, GrowsTransitive
  <2>2. \A g : Left(u, g) => Left(peer[p], g)
    BY <1>2, <2>1 DEF Left, Grows
  <2>3. \A q \in Others(p) : LinkOK(q, peer[q], p, u, messages[q][p])
    BY <1>1, <1>2, LinkGrows
  <2> QED
    BY <2>1, <2>2, <2>3
<1>3. ASSUME NEW q \in Others(p)
      PROVE  /\ LinkOK(p, received, q, peer[q], messages[p][q])
             /\ Related(q, peer[q], p, received)
  <2>1. \A g : Left(received, g) => Left(peer[p], g)
    BY DEF Left, Grows
  <2>2. LinkOK(p, peer[p], q, peer[q], messages[p][q])
    BY <1>1, <1>3
  <2>3. LinkOK(p, received, q, peer[q], messages[p][q])
    BY <1>1, <1>3, <2>2, LinkGrows
  <2>4. Related(q, peer[q], p, received)
    BY <1>1, <1>3, <2>1, RelatedGrows
  <2> QED
    BY <2>3, <2>4
<1>4. CASE Failed(received)
  <2>1. peer' = [peer EXCEPT ![p] = received] /\ wire' = messages
    BY <1>4 DEF PumpTail
  <2>2. Grows(received, received)
    BY AlikeGrows DEF Alike
  <2>3. /\ \A g : Left(received, g) => Left(peer[p], g)
        /\ Released(received)
    BY <1>2, <1>4, <2>2
  <2> QED
    BY <1>3, <2>1, <2>3, StepKeeps
<1>5. CASE ~Failed(received)
  <2> DEFINE s == Settle(p, received)
             echo    == Echoes(received, due)
             session == SendsSession(p, s, due)
             inputs  == SendsInputs(s, s.forceInputs, due)
             defers  == inputs /\ defer /\ CanStart(p, s) /\ CanDefer(p, s, due)
             sent    == IF session THEN [s EXCEPT !.forceControl = FALSE] ELSE s
             Echoed(q) == IF echo THEN Echo(messages[p][q], received, q)
                                  ELSE messages[p][q]
             Control(q) == IF session THEN Session(Echoed(q), p, s)
                                      ELSE Echoed(q)
             links == [q \in Player |->
                         IF inputs /\ ~defers
                         THEN Inputs(Control(q), s, q, due, fast) ELSE Control(q)]
             u == CASE defers -> AfterDeferral(sent)
                    [] inputs /\ ~defers -> AfterInputs(sent)
                    [] OTHER -> sent
  <2>1. wire' = Posted(messages, p, links) /\ peer' = [peer EXCEPT ![p] = u]
    BY <1>5 DEF PumpTail
  <2>2. /\ s \in PeerState /\ Grows(received, s) /\ s.active = received.active
        /\ Consistent(p, s) /\ Released(s) /\ Justified(p, s)
        /\ \A q \in Others(p) : Related(p, s, q, peer[q])
    BY SettleFacts
  <2> HIDE DEF s
  <2>3. /\ echo => received.previous # 0
        /\ session => s.active
        /\ inputs => s.active
    BY DEF Echoes, SendsSession, SendsInputs
  <2>4. u \in PeerState /\ Alike(s, u)
    <3>1. sent \in PeerState /\ Alike(s, sent)
      BY <2>2, AlikeSent
    <3>2. u \in {AfterDeferral(sent), AfterInputs(sent), sent}
      OBVIOUS
    <3> HIDE DEF sent, u
    <3>3. u \in PeerState /\ Alike(sent, u)
      BY <3>1, <3>2, AlikeSent
    <3> QED
      BY <3>1, <3>3, AlikeTransitive
  <2> HIDE DEF echo, session, inputs, defers, sent, u
  <2>5. /\ Grows(s, u) /\ Grows(received, u) /\ u.active = received.active
        /\ Consistent(p, u) /\ Released(u) /\ Justified(p, u)
        /\ \A q \in Others(p) : Related(p, u, q, peer[q])
    <3>1. Grows(s, u) /\ Grows(received, u)
      BY <2>2, <2>4, AlikeGrows, GrowsTransitive
    <3>2. u.active = received.active
      BY <2>2, <2>4 DEF Alike
    <3> QED
      BY <2>2, <2>4, <3>1, <3>2, AlikeConsistent
  <2>6. ASSUME NEW q \in Others(p)
        PROVE  LinkOK(p, u, q, peer[q], links[q])
    <3>1. peer[q] \in PeerState /\ q \in Player
      BY <1>1
    <3>2. LinkOK(p, received, q, peer[q], Echoed(q))
      BY <1>3, <2>3, <3>1, EchoKeeps
    <3> HIDE DEF Echoed
    <3>3. LinkOK(p, s, q, peer[q], Echoed(q))
      BY <2>2, <3>1, <3>2, LinkGrows
    <3>4. LinkOK(p, s, q, peer[q], Control(q))
      BY <2>2, <2>3, <3>1, <3>3, SessionKeeps
    <3> DEFINE control == Control(q)
    <3>5. LinkOK(p, s, q, peer[q], control)
      BY <3>4
    <3>6. links[q] = IF inputs /\ ~defers THEN Inputs(control, s, q, due, fast)
                                          ELSE control
      BY <3>1
    <3> HIDE DEF Control, control, links
    <3>7. LinkOK(p, s, q, peer[q], links[q])
      BY <2>2, <2>3, <3>1, <3>5, <3>6, InputsKeep
    <3> QED
      BY <2>2, <2>4, <2>5, <3>1, <3>7, LinkGrows
  <2> HIDE DEF links
  <2>7. /\ wire' \in [Player -> [Player -> Seq(Message)]]
        /\ \A q \in Others(p) : wire'[p][q] = links[q] /\ wire'[q] = messages[q]
    <3>1. \A q \in Others(p) : links[q] \in Seq(Message)
      BY <2>6 DEF LinkOK
    <3>2. /\ Posted(messages, p, links) \in [Player -> [Player -> Seq(Message)]]
          /\ \A q \in Others(p) : /\ Posted(messages, p, links)[p][q] = links[q]
                                  /\ Posted(messages, p, links)[q] = messages[q]
      BY <3>1, PostedLinks, ZenonT(30)
    <3> QED
      BY <2>1, <3>2, Zenon
  <2>8. /\ Grows(peer[p], u)
        /\ \A g : Left(u, g) => Left(peer[p], g)
        /\ \A q \in Others(p) : LinkOK(q, peer[q], p, u, messages[q][p])
    BY <1>2, <2>4, <2>5
  <2>9. /\ \A q \in Others(p) :
             /\ Related(p, u, q, peer[q])
             /\ Left(u, peer[q].generation) => Left(peer[p], peer[q].generation)
             /\ LinkOK(p, u, q, peer[q], wire'[p][q])
             /\ LinkOK(q, peer[q], p, u, wire'[q][p])
        /\ \A q \in Others(p) : \A r \in Others(q) \ {p} : wire'[q][r] = wire[q][r]
    BY <2>5, <2>6, <2>7, <2>8
  <2> QED
    BY <2>1, <2>4, <2>5, <2>7, <2>8, <2>9, StepKeeps
<1> QED
  BY <1>4, <1>5

---------------------------------------------------------------------------
(* The steps. *)

LEMMA PairFacts ==
  ASSUME SessionInv, NEW p \in Player
  PROVE  /\ peer[p] \in PeerState /\ Others(p) \subseteq Player
         /\ wire \in [Player -> [Player -> Seq(Message)]]
         /\ Consistent(p, peer[p]) /\ Released(peer[p]) /\ Justified(p, peer[p])
         /\ \A q \in Others(p) :
              /\ p \in Others(q) /\ q # p /\ peer[q] \in PeerState
              /\ Related(p, peer[p], q, peer[q]) /\ Related(q, peer[q], p, peer[p])
              /\ LinkOK(p, peer[p], q, peer[q], wire[p][q])
              /\ LinkOK(q, peer[q], p, peer[p], wire[q][p])
BY DEF SessionInv, TypeOK, WireTypeOK, Others, SoundPeers, SoundPairs, SoundLinks

(* A peer that has left its session was greeted by everybody, and owes     *)
(* terminal ACKs only of sessions before.                                  *)
LEMMA Played ==
  ASSUME NEW p \in Player, NEW s \in PeerState, Consistent(p, s),
         s.generation > 0, s.captured = Frames
  PROVE  /\ Others(p) \subseteq s.hello /\ s.localReady
         /\ s.active /\ Released(s) => s.previous = 0
<1>1. s.captured > 0
  BY PeerFacts
<1>2. /\ Others(p) \subseteq s.ready /\ s.ready \subseteq s.hello /\ s.localReady
      /\ s.needed \subseteq Others(p)
      /\ s.active => s.hello \cap s.needed = {}
  BY <1>1 DEF Consistent
<1>3. Others(p) \subseteq s.hello
  BY <1>2
<1>4. ASSUME s.active PROVE s.needed = {}
  <2>1. s.hello \cap s.needed = {} /\ s.needed \subseteq s.hello
    BY <1>2, <1>3, <1>4
  <2> QED
    BY <2>1
<1>5. ASSUME s.active, Released(s) PROVE s.previous = 0
  BY <1>2, <1>4, <1>5, Zenon DEF Released
<1> QED
  BY <1>2, <1>3, <1>5, Zenon

LEMMA PostKeeps ==
  ASSUME SessionInv, NEW p \in Player, NEW u \in PeerState, NEW links,
         contract' = contract, peer' = [peer EXCEPT ![p] = u],
         wire' = Posted(wire, p, links),
         Grows(peer[p], u), Consistent(p, u), Released(u), Justified(p, u),
         \A q \in Others(p) :
           /\ Related(p, u, q, peer[q])
           /\ Left(u, peer[q].generation) =>
                \/ Left(peer[p], peer[q].generation)
                \/ peer[q].confirmed[p] = Frames /\ peer[q].captured = Frames
           /\ LinkOK(p, u, q, peer[q], links[q])
  PROVE  SessionInv'
<1>1. \A q \in Others(p) : links[q] \in Seq(Message)
  <2> SUFFICES ASSUME NEW q \in Others(p)
               PROVE  links[q] \in Seq(Message)
    OBVIOUS
  <2>1. LinkOK(p, u, q, peer[q], links[q])
    OBVIOUS
  <2> QED
    BY <2>1 DEF LinkOK
<1>0. wire \in [Player -> [Player -> Seq(Message)]]
  BY PairFacts
<1>2. /\ Posted(wire, p, links) \in [Player -> [Player -> Seq(Message)]]
      /\ \A q \in Others(p) : /\ Posted(wire, p, links)[p][q] = links[q]
                              /\ Posted(wire, p, links)[q] = wire[q]
  BY ONLY p \in Player, <1>0, <1>1, PostedLinks, ZenonT(30)
<1>3. /\ wire' \in [Player -> [Player -> Seq(Message)]]
      /\ \A q \in Others(p) : wire'[p][q] = links[q] /\ wire'[q] = wire[q]
  BY <1>2, Zenon
<1>4. \A q \in Others(p) : LinkOK(q, peer[q], p, u, wire'[q][p])
  BY <1>3, PairFacts, LinkGrows
<1> QED
  BY <1>3, <1>4, StepKeeps

LEMMA PumpIdleKeeps ==
  ASSUME SessionInv, NEW p \in Player, NEW due, NEW defer, NEW fast,
         PumpIdle(p, due, defer, fast)
  PROVE  SessionInv'
<1>1. PumpTail(p, peer[p], wire, due, defer, fast) /\ contract' = contract
  BY DEF PumpIdle
<1>2. Grows(peer[p], peer[p])
  BY PairFacts, AlikeGrows DEF Alike
<1> QED
  BY <1>1, <1>2, PairFacts, TailKeeps

LEMMA PumpMessageKeeps ==
  ASSUME SessionInv, NEW p \in Player, NEW q \in Others(p),
         NEW i \in Arriving(wire[q][p]), NEW due, NEW defer, NEW fast,
         PumpMessage(p, q, i, due, defer, fast)
  PROVE  SessionInv'
<1> DEFINE s == peer[p]
           queue == wire[q][p]
           m == queue[i]
           r == ReceiveMessage(p, s, q, m, due)
           messages == [wire EXCEPT ![q][p] = AfterArrival(@, i, s)]
<1>1. /\ ~Failed(s) /\ contract' = contract
      /\ PumpTail(p, r, messages, due, defer, fast)
  BY DEF PumpMessage
<1>2. /\ s \in PeerState /\ q \in Player /\ q # p
      /\ wire \in [Player -> [Player -> Seq(Message)]]
      /\ Consistent(p, s) /\ Released(s) /\ Justified(p, s)
      /\ peer[q] \in PeerState /\ Related(p, s, q, peer[q])
      /\ LinkOK(q, peer[q], p, s, queue)
  BY PairFacts
<1>3. i \in DOMAIN queue /\ m \in Message /\ Truthful(q, peer[q], p, s, m)
  BY <1>2 DEF Arriving, LinkOK
<1>4. (m.kind = "ready" /\ m.session = s.generation) => q \in s.hello
  <2> SUFFICES ASSUME m.kind = "ready", m.session = s.generation, q \notin s.hello
               PROVE  FALSE
    OBVIOUS
  <2>1. PICK j \in 1 .. i - 1 : Greets(queue[j], s.generation)
    BY <1>1, <1>2, <1>3 DEF LinkOK, HelloFirst
  <2>2. j \in DOMAIN queue
    BY <1>2, <1>3, <2>1 DEF LinkOK
  <2>3. queue[j].lane = "reliable" /\ m.lane = "reliable"
    BY <1>2, <1>3, <2>1, <2>2, MessageFacts DEF LinkOK, Greets
  <2> QED
    BY <2>1, <2>3 DEF Arriving
<1>5. /\ Grows(s, r) /\ r.active = s.active
      /\ Consistent(p, r) /\ Justified(p, r)
      /\ Failed(r) => Released(r)
      /\ Related(p, r, q, peer[q])
      /\ \A u : \A o \in Others(p) \ {q} : Related(p, s, o, u) => Related(p, r, o, u)
      /\ Greets(m, s.generation) /\ s.active => q \in r.hello \/ Failed(r)
  BY <1>1, <1>2, <1>3, <1>4, Receives
<1>6. r \in PeerState
  BY <1>2, <1>3, ReceiveMessageType
<1>7. Greets(m, s.generation) => q \in r.hello \/ Failed(r)
  <2> SUFFICES ASSUME Greets(m, s.generation), ~s.active
               PROVE  q \in r.hello
    BY <1>5
  <2>1. s.generation > 0
    BY <1>3 DEF Greets, Truthful
  <2>2. s.captured = Frames
    BY <1>2, <2>1 DEF Consistent
  <2>3. q \in s.hello
    BY <1>2, <2>1, <2>2, Played
  <2> QED
    BY <1>5, <2>3 DEF Grows
<1> HIDE DEF r
<1>8. LinkOK(q, peer[q], p, r, AfterArrival(queue, i, s))
  <2>1. LinkOK(q, peer[q], p, r, queue)
    BY <1>2, <1>5, <1>6, LinkGrows
  <2>2. r.generation = s.generation /\ s.hello \subseteq r.hello
    BY <1>5 DEF Grows
  <2> QED
    BY <1>1, <1>2, <1>3, <1>7, <2>1, <2>2, ArrivalKeeps
<1>9. /\ messages \in [Player -> [Player -> Seq(Message)]]
      /\ messages[p] = wire[p]
      /\ messages[q][p] = AfterArrival(queue, i, s)
      /\ \A o \in Player : \A k \in Player :
           (o # q \/ k # p) => messages[o][k] = wire[o][k]
  <2>1. AfterArrival(queue, i, s) \in Seq(Message)
    BY <1>8 DEF LinkOK
  <2>2. messages = [wire EXCEPT ![q] = [wire[q] EXCEPT ![p] = AfterArrival(queue, i, s)]]
    BY <1>2
  <2> HIDE DEF messages
  <2> DEFINE row == [wire[q] EXCEPT ![p] = AfterArrival(queue, i, s)]
  <2>3. row \in [Player -> Seq(Message)] /\ row[p] = AfterArrival(queue, i, s)
        /\ \A k \in Player : k # p => row[k] = wire[q][k]
    BY <1>2, <2>1
  <2> HIDE DEF row
  <2>4. messages = [wire EXCEPT ![q] = row]
    BY <2>2 DEF row
  <2> QED
    BY <1>2, <2>3, <2>4
<1> HIDE DEF messages
<1>10. ASSUME NEW o \in Others(p)
       PROVE  /\ Related(p, r, o, peer[o])
              /\ messages[p][o] = wire[p][o]
              /\ LinkOK(o, peer[o], p, r, messages[o][p])
  <2>1. o \in Player /\ peer[o] \in PeerState /\ Related(p, s, o, peer[o])
        /\ LinkOK(o, peer[o], p, s, wire[o][p])
    BY PairFacts
  <2>2. CASE o = q
    BY <1>5, <1>8, <1>9, <2>1, <2>2
  <2>3. CASE o # q
    <3>1. messages[o][p] = wire[o][p]
      BY <1>9, <2>1, <2>3
    <3>2. LinkOK(o, peer[o], p, r, wire[o][p])
      BY <1>2, <1>5, <1>6, <2>1, LinkGrows
    <3> QED
      BY <1>5, <1>9, <2>1, <2>3, <3>1, <3>2
  <2> QED
    BY <2>2, <2>3
<1>11. \A o \in Others(p) : \A k \in Others(o) \ {p} : messages[o][k] = wire[o][k]
  BY <1>9 DEF Others
<1> QED
  BY <1>1, <1>5, <1>6, <1>9, <1>10, <1>11, TailKeeps DEF r, messages

LEMMA PumpRetirementKeeps ==
  ASSUME SessionInv, NEW p \in Player, PumpRetirement(p)
  PROVE  SessionInv'
<1> DEFINE s == peer[p]
           previous == IF s.needed = {} THEN 0 ELSE s.previous
           u == [s EXCEPT !.previous = previous]
           links == [q \in Player |-> IF Echoes(s, {"echo"})
                                      THEN Echo(wire[p][q], s, q) ELSE wire[p][q]]
<1>1. /\ s \in PeerState /\ peer \in [Player -> PeerState]
      /\ Consistent(p, s) /\ Justified(p, s) /\ 0 \in Generations
      /\ s.generation \in Int /\ s.generation >= 0
  BY PairFacts, PeerFacts, ChannelAssumption DEF SessionInv, TypeOK, Generations
<1>2. /\ ~s.active /\ s.previous # 0 /\ contract' = contract
      /\ wire' = Posted(wire, p, links)
  BY DEF PumpRetirement
<1>3. peer' = [peer EXCEPT ![p] = u]
  BY <1>1 DEF PumpRetirement
<1>4. previous \in Generations /\ (previous = 0 \/ previous = s.previous)
  BY <1>1 DEF PeerState
<1> HIDE DEF previous
<1>5. /\ u \in PeerState /\ u.generation = s.generation /\ u.active = s.active
      /\ u.failure = s.failure /\ u.hello = s.hello /\ u.ready = s.ready
      /\ u.localReady = s.localReady /\ u.captured = s.captured
      /\ u.confirmed = s.confirmed /\ u.acked = s.acked /\ u.needed = s.needed
      /\ u.previous = previous
  BY <1>1, <1>4 DEF PeerState
<1> HIDE DEF u, s
<1>6. Grows(s, u)
  <2>1. Grows(s, s)
    BY <1>1, AlikeGrows DEF Alike
  <2> QED
    BY <1>5, <2>1 DEF Grows, Failed
<1>7. Consistent(p, u) /\ Released(u) /\ Justified(p, u)
  BY <1>1, <1>2, <1>4, <1>5 DEF Consistent, Released, Justified
<1>8. ASSUME NEW q \in Others(p)
      PROVE  /\ Related(p, u, q, peer[q])
             /\ Left(u, peer[q].generation) => Left(s, peer[q].generation)
             /\ LinkOK(p, u, q, peer[q], links[q])
  <2>1. /\ q \in Player /\ peer[q] \in PeerState /\ Related(p, s, q, peer[q])
        /\ Related(q, peer[q], p, s) /\ LinkOK(p, s, q, peer[q], wire[p][q])
    BY PairFacts DEF s
  <2>2. LinkOK(p, s, q, peer[q], Echo(wire[p][q], s, q))
    BY <1>1, <1>2, <2>1, EchoKeeps
  <2>3. LinkOK(p, s, q, peer[q], links[q])
    BY <2>1, <2>2
  <2> HIDE DEF links
  <2>4. LinkOK(p, u, q, peer[q], links[q])
    BY <1>1, <1>5, <1>6, <2>1, <2>3, LinkGrows
  <2> QED
    BY <1>5, <2>1, <2>4 DEF Related, Left
<1> HIDE DEF links
<1> QED
  BY <1>2, <1>3, <1>5, <1>6, <1>7, <1>8, PostKeeps DEF s

LEMMA CaptureKeeps ==
  ASSUME SessionInv, NEW p \in Player, NEW due, NEW fast, Capture(p, due, fast)
  PROVE  SessionInv'
<1> DEFINE o == peer[p]
           s == [o EXCEPT !.captured = @ + 1]
           u == AfterInputs(s)
           links == [q \in Player |-> Inputs(wire[p][q], s, q, due, fast)]
<1>1. /\ o \in PeerState /\ Consistent(p, o) /\ Released(o) /\ Justified(p, o)
      /\ o.captured \in Int /\ o.captured >= 0 /\ o.captured <= Frames
      /\ Frames \in Int
  BY PairFacts, PeerFacts
<1>2. /\ CanStart(p, s) /\ s.captured <= Frames /\ contract' = contract
      /\ peer' = [peer EXCEPT ![p] = u] /\ wire' = Posted(wire, p, links)
  BY DEF Capture
<1> HIDE DEF o
<1>3. s.captured = o.captured + 1
  BY <1>1 DEF PeerState
<1>4. o.captured + 1 \in Frontier
  BY <1>1, <1>2, <1>3 DEF Frontier
<1>5. /\ s \in PeerState /\ s.generation = o.generation /\ s.active = o.active
      /\ s.failure = o.failure /\ s.hello = o.hello /\ s.ready = o.ready
      /\ s.localReady = o.localReady /\ s.confirmed = o.confirmed
      /\ s.acked = o.acked /\ s.needed = o.needed /\ s.previous = o.previous
  BY <1>1, <1>4 DEF PeerState
<1> HIDE DEF s
<1>6. /\ s.active /\ s.localReady /\ Others(p) \subseteq s.ready
      /\ o.captured # Frames
  BY <1>1, <1>2, <1>3 DEF CanStart
<1>7. /\ Consistent(p, s) /\ Released(s) /\ Justified(p, s)
  <2>1. \A q \in Others(p) : s.acked[q] <= s.captured
    <3> SUFFICES ASSUME NEW q \in Others(p) PROVE s.acked[q] <= s.captured
      OBVIOUS
    <3>1. o.acked[q] \in Int /\ o.acked[q] <= o.captured
      BY <1>1, PeerFacts DEF Consistent, Others
    <3> QED
      BY <1>1, <1>3, <1>5, <3>1
  <2>2. Consistent(p, s)
    BY <1>1, <1>5, <1>6, <2>1 DEF Consistent
  <2> QED
    BY <1>1, <1>5, <2>2 DEF Released, Justified
<1>8. Grows(o, s)
  <2>1. Grows(o, o)
    BY <1>1, AlikeGrows DEF Alike
  <2>2. o.captured <= s.captured
    BY <1>1, <1>3
  <2> QED
    BY <1>5, <2>1, <2>2 DEF Grows, Failed
<1>9. u \in PeerState /\ Alike(s, u)
  BY <1>5, AlikeSent
<1> HIDE DEF u
<1>10. /\ Grows(s, u) /\ Grows(o, u) /\ Consistent(p, u) /\ Released(u)
       /\ Justified(p, u)
  BY <1>1, <1>5, <1>7, <1>8, <1>9, AlikeGrows, AlikeConsistent, GrowsTransitive
<1>11. ASSUME NEW q \in Others(p)
       PROVE  /\ Related(p, u, q, peer[q])
              /\ Left(u, peer[q].generation) => Left(o, peer[q].generation)
              /\ LinkOK(p, u, q, peer[q], links[q])
  <2>1. /\ q \in Player /\ peer[q] \in PeerState /\ Related(p, o, q, peer[q])
        /\ LinkOK(p, o, q, peer[q], wire[p][q])
    BY PairFacts DEF o
  <2>2. Related(p, s, q, peer[q])
    BY <1>5, <1>6, <2>1 DEF Related
  <2>3. LinkOK(p, s, q, peer[q], wire[p][q])
    BY <1>1, <1>5, <1>8, <2>1, LinkGrows
  <2>4. LinkOK(p, s, q, peer[q], links[q])
    BY <1>5, <1>6, <1>7, <2>1, <2>2, <2>3, InputsKeep
  <2> HIDE DEF links
  <2>5. LinkOK(p, u, q, peer[q], links[q])
    BY <1>5, <1>9, <1>10, <2>1, <2>4, LinkGrows
  <2>6. Related(p, u, q, peer[q])
    BY <1>9, <2>2, AlikeConsistent
  <2>7. Left(u, peer[q].generation) => Left(o, peer[q].generation)
    BY <1>5, <1>9 DEF Left, Alike
  <2> QED
    BY <2>5, <2>6, <2>7
<1> HIDE DEF links
<1> QED
  BY <1>2, <1>9, <1>10, <1>11, PostKeeps DEF o

LEMMA FenceKeeps ==
  ASSUME SessionInv, NEW p \in Player, Fence(p)
  PROVE  SessionInv'
<1> DEFINE s == peer[p]
           links == [q \in Player |->
                       Send(wire[p][q], InputPacket(s, q, "reliable"))]
<1>1. /\ s \in PeerState /\ Consistent(p, s) /\ Released(s) /\ Justified(p, s)
      /\ peer \in [Player -> PeerState]
  BY PairFacts DEF SessionInv, TypeOK
<1>2. /\ s.active /\ contract' = contract /\ peer' = peer
      /\ wire' = Posted(wire, p, links)
  BY DEF Fence
<1>3. peer' = [peer EXCEPT ![p] = s]
  BY <1>1, <1>2
<1>4. Grows(s, s)
  BY <1>1, AlikeGrows DEF Alike
<1>5. ASSUME NEW q \in Others(p)
      PROVE  /\ Related(p, s, q, peer[q])
             /\ LinkOK(p, s, q, peer[q], links[q])
  <2>1. /\ q \in Player /\ peer[q] \in PeerState /\ Related(p, s, q, peer[q])
        /\ LinkOK(p, s, q, peer[q], wire[p][q])
    BY PairFacts
  <2>2. LinkOK(p, s, q, peer[q], links[q])
    BY <1>1, <1>2, <2>1, PacketKeeps
  <2> QED
    BY <2>1, <2>2
<1> HIDE DEF links
<1> QED
  BY <1>1, <1>2, <1>3, <1>4, <1>5, PostKeeps

LEMMA RetireKeeps ==
  ASSUME SessionInv, NEW p \in Player, Retire(p)
  PROVE  SessionInv'
<1> DEFINE s == peer[p]
           u == [s EXCEPT !.active = FALSE, !.deferred = FALSE,
                          !.previous = s.generation, !.needed = Others(p)]
           links == [q \in Player |-> Echo(wire[p][q], u, q)]
<1>1. /\ s \in PeerState /\ Consistent(p, s) /\ Released(s) /\ Justified(p, s)
      /\ s.generation \in Int /\ s.generation >= 0 /\ Others(p) \subseteq Player
  BY PairFacts, PeerFacts
<1>2. /\ CanRetire(p, s) /\ contract' = contract
      /\ s.previous = 0 => peer' = [peer EXCEPT ![p] = u]
                           /\ wire' = Posted(wire, p, links)
  BY DEF Retire
<1> HIDE DEF s
<1>3. /\ s.active /\ s.captured = Frames /\ s.generation > 0
      /\ \A q \in Others(p) : s.confirmed[q] = Frames /\ s.acked[q] = Frames
  BY <1>1, <1>2 DEF CanRetire, Consistent
<1>4. s.previous = 0
  BY <1>1, <1>3, Played
<1>5. /\ u \in PeerState /\ u.generation = s.generation /\ u.active = FALSE
      /\ u.failure = s.failure /\ u.hello = s.hello /\ u.ready = s.ready
      /\ u.localReady = s.localReady /\ u.captured = s.captured
      /\ u.confirmed = s.confirmed /\ u.acked = s.acked
      /\ u.needed = Others(p) /\ u.previous = s.generation
  BY <1>1 DEF PeerState
<1>6. peer' = [peer EXCEPT ![p] = u] /\ wire' = Posted(wire, p, links)
  BY <1>2, <1>4
<1> HIDE DEF u
<1>7. Grows(s, u)
  <2>1. Grows(s, s)
    BY <1>1, AlikeGrows DEF Alike
  <2> QED
    BY <1>3, <1>5, <2>1 DEF Grows, Failed
<1>8. Consistent(p, u) /\ Released(u) /\ Justified(p, u)
  BY <1>1, <1>3, <1>5 DEF Consistent, Released, Justified
<1>9. ASSUME NEW q \in Others(p)
      PROVE  /\ Related(p, u, q, peer[q])
             /\ Left(u, peer[q].generation) =>
                  \/ Left(s, peer[q].generation)
                  \/ peer[q].confirmed[p] = Frames /\ peer[q].captured = Frames
             /\ LinkOK(p, u, q, peer[q], links[q])
  <2>1. /\ q \in Player /\ peer[q] \in PeerState /\ Related(p, s, q, peer[q])
        /\ Related(q, peer[q], p, s) /\ LinkOK(p, s, q, peer[q], wire[p][q])
    BY PairFacts DEF s
  <2>2. Left(u, peer[q].generation) =>
          \/ Left(s, peer[q].generation)
          \/ peer[q].confirmed[p] = Frames /\ peer[q].captured = Frames
    <3>1. peer[q].generation = s.generation =>
            Frames <= peer[q].captured /\ Frames <= peer[q].confirmed[p]
      BY <1>3, <2>1 DEF Related
    <3>2. /\ peer[q].captured \in Int /\ peer[q].captured <= Frames
          /\ peer[q].confirmed[p] \in Int /\ peer[q].confirmed[p] <= Frames
          /\ Frames \in Int
      BY <2>1, PeerFacts
    <3>3. peer[q].generation = s.generation =>
            peer[q].captured = Frames /\ peer[q].confirmed[p] = Frames
      BY <3>1, <3>2
    <3> QED
      BY <1>5, <3>3 DEF Left
  <2>3. Related(p, u, q, peer[q])
    BY <1>5, <2>1 DEF Related
  <2>4. Related(q, peer[q], p, u)
    BY <1>1, <1>5, <1>7, <2>1, <2>2, RelatedGrows
  <2>5. LinkOK(p, u, q, peer[q], wire[p][q])
    BY <1>1, <1>5, <1>7, <2>1, LinkGrows
  <2>6. LinkOK(p, u, q, peer[q], Echo(wire[p][q], u, q))
    BY <1>3, <1>5, <1>8, <2>1, <2>3, <2>4, <2>5, EchoKeeps
  <2> QED
    BY <2>1, <2>2, <2>3, <2>6
<1> HIDE DEF links
<1> QED
  BY <1>2, <1>5, <1>6, <1>7, <1>8, <1>9, PostKeeps DEF s

LEMMA GiveUpKeeps ==
  ASSUME SessionInv, NEW p \in Player, GiveUp(p)
  PROVE  SessionInv'
<1> DEFINE s == peer[p]
           u == Fail(s, "Timeout")
<1>1. /\ s \in PeerState /\ Consistent(p, s) /\ Released(s)
      /\ wire \in [Player -> [Player -> Seq(Message)]]
      /\ peer \in [Player -> PeerState]
  BY PairFacts DEF SessionInv, TypeOK
<1>2. contract' = contract /\ wire' = wire /\ peer' = [peer EXCEPT ![p] = u]
      /\ ~Failed(s)
  BY <1>1 DEF GiveUp, Fail
<1> HIDE DEF s
<1>3. /\ u \in PeerState /\ u.generation = s.generation /\ u.active = s.active
      /\ u.failure = "Timeout" /\ u.hello = s.hello /\ u.ready = s.ready
      /\ u.localReady = s.localReady /\ u.captured = s.captured
      /\ u.confirmed = s.confirmed /\ u.acked = s.acked
      /\ u.needed = s.needed /\ u.previous = s.previous
  BY <1>1 DEF PeerState, Fail, Failures
<1> HIDE DEF u
<1>4. Grows(s, u)
  <2>1. Grows(s, s)
    BY <1>1, AlikeGrows DEF Alike
  <2> QED
    BY <1>2, <1>3, <2>1 DEF Grows, Failed
<1>5. Consistent(p, u) /\ Released(u) /\ Justified(p, u)
  BY <1>1, <1>3 DEF Consistent, Released, Justified
<1>6. ASSUME NEW q \in Others(p)
      PROVE  /\ Related(p, u, q, peer[q])
             /\ Left(u, peer[q].generation) => Left(s, peer[q].generation)
             /\ LinkOK(p, u, q, peer[q], wire'[p][q])
             /\ LinkOK(q, peer[q], p, u, wire'[q][p])
  <2>1. /\ q \in Player /\ peer[q] \in PeerState /\ Related(p, s, q, peer[q])
        /\ LinkOK(p, s, q, peer[q], wire[p][q])
        /\ LinkOK(q, peer[q], p, s, wire[q][p])
    BY PairFacts DEF s
  <2> QED
    BY <1>1, <1>2, <1>3, <1>4, <2>1, LinkGrows DEF Related, Left
<1>7. \A q \in Others(p) : \A r \in Others(q) \ {p} : wire'[q][r] = wire[q][r]
  BY <1>2
<1>8. wire' \in [Player -> [Player -> Seq(Message)]]
  BY <1>1, <1>2
<1> QED
  BY <1>2, <1>3, <1>4, <1>5, <1>6, <1>7, <1>8, StepKeeps DEF s

(* A prefix of the queue, and the fast packet of the rest.                 *)
LEMMA BrokenLinks ==
  ASSUME NEW p \in Player, NEW q \in Player, NEW t, NEW s, NEW messages,
         LinkOK(q, t, p, s, messages), NEW i \in DOMAIN messages
  PROVE  LinkOK(q, t, p, s, SubSeq(messages, 1, i - 1) \o FastFrom(messages, i))
<1> DEFINE a == SubSeq(messages, 1, i - 1)
           b == FastFrom(messages, i)
           c == a \o b
           later == {j \in InFastLane(messages) : j >= i}
<1>1. /\ messages \in Seq(Message) /\ Len(messages) \in Nat
      /\ DOMAIN messages = 1 .. Len(messages) /\ i \in 1 .. Len(messages)
  BY DEF LinkOK
<1>2. a \in Seq(Message) /\ Len(a) = i - 1 /\ \A j \in 1 .. i - 1 : a[j] = messages[j]
  BY <1>1
<1>3. /\ b \in Seq(Message) /\ Len(b) \in {0, 1}
      /\ Len(b) = 1 => /\ b[1].kind = "input" /\ Truthful(q, t, p, s, b[1])
  <2>1. CASE later = {}
    <3>1. b = << >>
      BY <2>1 DEF FastFrom
    <3> QED
      BY <3>1
  <2>2. CASE later # {}
    <3> DEFINE k == CHOOSE j \in later : TRUE
    <3>1. k \in later
      BY <2>2
    <3>2. b = <<messages[k]>>
      BY <2>2 DEF FastFrom
    <3> HIDE DEF k, b
    <3>3. /\ k \in DOMAIN messages /\ messages[k] \in Message
          /\ messages[k].lane = "fast"
      BY <1>1, <3>1 DEF InFastLane
    <3>4. messages[k].kind = "input" /\ Truthful(q, t, p, s, messages[k])
      BY <3>3, MessageFacts DEF LinkOK
    <3> QED
      BY <3>2, <3>3, <3>4
  <2> QED
    BY <2>1, <2>2
<1> HIDE DEF a, b
<1>4. /\ c \in Seq(Message) /\ Len(c) = Len(a) + Len(b)
      /\ \A j \in 1 .. Len(a) + Len(b) :
           c[j] = IF j <= Len(a) THEN a[j] ELSE b[j - Len(a)]
  BY <1>2, <1>3, ConcatProperties, Zenon
<1> HIDE DEF c
<1>5. DOMAIN c = 1 .. Len(c)
  BY <1>4, LenProperties, Zenon
<1>6. ASSUME NEW j \in DOMAIN c
      PROVE  \/ j \in 1 .. i - 1 /\ c[j] = messages[j] /\ j \in DOMAIN messages
             \/ Len(b) = 1 /\ c[j] = b[1]
  <2>1. j \in 1 .. Len(a) + Len(b) /\ Len(a) = i - 1 /\ Len(b) \in {0, 1}
    BY <1>2, <1>3, <1>4, <1>5
  <2>2. CASE j <= i - 1
    BY <1>1, <1>2, <1>4, <2>1, <2>2
  <2>3. CASE ~(j <= i - 1)
    <3>1. Len(b) = 1 /\ j - Len(a) = 1
      <4> DEFINE n == Len(b)
      <4>1. j \in 1 .. (i - 1) + n /\ n \in {0, 1} /\ i \in Int
        BY <1>1, <2>1
      <4> HIDE DEF n
      <4>2. n = 1 /\ j = i
        BY <2>3, <4>1
      <4> QED
        BY <1>1, <2>1, <4>2 DEF n
    <3> QED
      BY <1>4, <2>1, <2>3, <3>1
  <2> QED
    BY <2>2, <2>3
<1>7. \A j \in DOMAIN c : Truthful(q, t, p, s, c[j])
  BY <1>3, <1>6 DEF LinkOK
<1>8. HelloFirst(q, p, s, c)
  <2> SUFFICES ASSUME NEW j \in DOMAIN c, c[j].kind = "ready",
                      c[j].session = s.generation
               PROVE  \/ q \in s.hello \/ Failed(s)
                      \/ \E k \in 1 .. j - 1 : Greets(c[k], s.generation)
    BY DEF HelloFirst
  <2>1. j \in 1 .. i - 1 /\ c[j] = messages[j] /\ j \in DOMAIN messages
    BY <1>3, <1>6
  <2>2. \/ q \in s.hello \/ Failed(s)
        \/ \E k \in 1 .. j - 1 : Greets(messages[k], s.generation)
    BY <2>1 DEF LinkOK, HelloFirst
  <2>3. \A k \in 1 .. j - 1 : c[k] = messages[k]
    <3> SUFFICES ASSUME NEW k \in 1 .. j - 1 PROVE c[k] = messages[k]
      OBVIOUS
    <3>1. k \in 1 .. i - 1 /\ k \in 1 .. Len(a) + Len(b) /\ k <= Len(a)
      BY <1>1, <1>2, <1>3, <2>1
    <3> QED
      BY <1>2, <1>4, <3>1
  <2> QED
    BY <2>2, <2>3
<1> QED
  BY <1>4, <1>7, <1>8 DEF LinkOK, c, a, b

LEMMA BreakKeeps ==
  ASSUME SessionInv, NEW p \in Player, NEW q \in Others(p), Break(p, q)
  PROVE  SessionInv'
<1> DEFINE s == peer[p]
<1>1. /\ s \in PeerState /\ Consistent(p, s) /\ Released(s) /\ Justified(p, s)
      /\ peer \in [Player -> PeerState] /\ q \in Player /\ q # p
      /\ wire \in [Player -> [Player -> Seq(Message)]]
      /\ LinkOK(p, s, q, peer[q], wire[p][q])
  BY PairFacts DEF SessionInv, TypeOK
<1>2. contract' = contract /\ peer' = [peer EXCEPT ![p] = s]
  BY <1>1 DEF Break
<1>3. PICK i \in DOMAIN wire[p][q] :
        wire' = [wire EXCEPT ![p][q] = SubSeq(@, 1, i - 1) \o FastFrom(@, i)]
  BY DEF Break
<1> DEFINE rest == SubSeq(wire[p][q], 1, i - 1) \o FastFrom(wire[p][q], i)
           row == [wire[p] EXCEPT ![q] = rest]
<1>4. LinkOK(p, s, q, peer[q], rest)
  BY <1>1, BrokenLinks
<1>5. wire' = [wire EXCEPT ![p] = row]
  BY <1>1, <1>3
<1> HIDE DEF rest, s
<1>6. row \in [Player -> Seq(Message)] /\ row[q] = rest
      /\ \A r \in Player : r # q => row[r] = wire[p][r]
  BY <1>1, <1>4 DEF LinkOK
<1> HIDE DEF row
<1>7. /\ wire' \in [Player -> [Player -> Seq(Message)]]
      /\ \A r \in Player : r # p => wire'[r] = wire[r]
      /\ wire'[p] = row
  BY <1>1, <1>5, <1>6
<1>8. Grows(s, s)
  BY <1>1, AlikeGrows DEF Alike
<1>9. ASSUME NEW r \in Others(p)
      PROVE  /\ Related(p, s, r, peer[r])
             /\ LinkOK(p, s, r, peer[r], wire'[p][r])
             /\ LinkOK(r, peer[r], p, s, wire'[r][p])
  <2>1. /\ r \in Player /\ r # p /\ Related(p, s, r, peer[r])
        /\ LinkOK(p, s, r, peer[r], wire[p][r])
        /\ LinkOK(r, peer[r], p, s, wire[r][p])
    BY PairFacts DEF s
  <2>2. LinkOK(p, s, r, peer[r], wire'[p][r])
    BY <1>4, <1>6, <1>7, <2>1
  <2> QED
    BY <1>7, <2>1, <2>2
<1>10. \A r \in Others(p) : \A k \in Others(r) \ {p} : wire'[r][k] = wire[r][k]
  BY <1>7 DEF Others
<1> QED
  BY <1>1, <1>2, <1>7, <1>8, <1>9, <1>10, StepKeeps DEF s

(* A new session: nobody is left behind by more than one, and no message   *)
(* of the new session can be under way to a peer that has not begun it.    *)
LEMMA BeginSessionKeeps ==
  ASSUME SessionInv, NEW p \in Player, BeginSession(p)
  PROVE  SessionInv'
<1> DEFINE s == peer[p]
           t == [NewSession(s.generation + 1) EXCEPT
                   !.previous = s.previous, !.needed = s.needed]
<1>1. /\ s \in PeerState /\ Consistent(p, s) /\ s.generation \in Int
      /\ s.generation >= 0 /\ Frames \in Int /\ Frames > 0
      /\ MaxGeneration \in Int
      /\ peer \in [Player -> PeerState] /\ contract \in Contracts
      /\ wire \in [Player -> [Player -> Seq(Message)]]
  BY PairFacts, PeerFacts, ChannelAssumption DEF SessionInv, TypeOK
<1>2. /\ ~s.active /\ s.generation < MaxGeneration
      /\ contract' = contract /\ wire' = wire
      /\ peer' = [peer EXCEPT ![p] = t]
  BY DEF BeginSession
<1> HIDE DEF s
<1>3. /\ s.generation + 1 \in Generations /\ s.generation + 1 > 0
      /\ 0 \in Frontier
  BY <1>1, <1>2 DEF Generations, Frontier
<1>4. /\ t \in PeerState /\ t.generation = s.generation + 1 /\ t.active = TRUE
      /\ t.failure = "None" /\ t.hello = {} /\ t.ready = {}
      /\ t.localReady = FALSE /\ t.captured = 0
      /\ \A q \in Player : t.confirmed[q] = 0 /\ t.acked[q] = 0
      /\ t.needed = s.needed /\ t.previous = s.previous
  BY <1>1, <1>3 DEF PeerState, NewSession, Failures
<1> HIDE DEF t
<1>5. Consistent(p, t) /\ Released(t) /\ Justified(p, t)
  <2>1. \A q \in Others(p) : t.acked[q] <= t.captured
    BY <1>4 DEF Others
  <2>2. t.needed \subseteq Others(p) /\ t.previous <= s.generation
        /\ t.previous \in Int
    BY <1>1, <1>4, PeerFacts DEF Consistent
  <2>3. Consistent(p, t)
    BY <1>1, <1>3, <1>4, <2>1, <2>2 DEF Consistent
  <2> QED
    BY <1>4, <2>3 DEF Released, Justified
<1>6. ASSUME NEW q \in Others(p)
      PROVE  /\ Related(p, t, q, peer[q]) /\ Related(q, peer[q], p, t)
             /\ LinkOK(p, t, q, peer[q], wire[p][q])
             /\ LinkOK(q, peer[q], p, t, wire[q][p])
  <2> DEFINE u == peer[q]
  <2>1. /\ q \in Player /\ u \in PeerState /\ Related(p, s, q, u)
        /\ Related(q, u, p, s) /\ Consistent(q, u) /\ p \in Others(q)
        /\ LinkOK(p, s, q, u, wire[p][q]) /\ LinkOK(q, u, p, s, wire[q][p])
    <3>1. q \in Player
      BY PairFacts
    <3> QED
      BY <3>1, PairFacts DEF s
  <2> HIDE DEF u
  <2>2. /\ u.generation \in Int /\ u.generation >= 0
        /\ u.captured \in Int /\ u.captured >= 0
        /\ u.confirmed[p] \in Int /\ u.confirmed[p] >= 0
    BY <2>1, PeerFacts
  <2>3. s.generation <= u.generation
    <3>1. s.generation > 0 => s.confirmed[q] = Frames
      BY <1>1, <1>2, <2>1 DEF Consistent
    <3>2. u.generation < s.generation => s.confirmed[q] = 0
      BY <2>1 DEF Related
    <3> QED
      BY <1>1, <2>2, <3>1, <3>2
  <2>4. /\ u.generation <= s.generation + 1
        /\ u.generation = s.generation + 1 =>
             u.confirmed[p] = 0 /\ u.acked[p] = 0
    BY <1>1, <2>1, <2>2 DEF Related
  <2>5. u.generation = s.generation + 1 => u.active
    BY <1>1, <2>1, <2>2, <2>4 DEF Consistent
  <2>6. ~Left(u, t.generation)
    BY <1>1, <1>4, <2>2, <2>4, <2>5 DEF Left
  <2>7. Related(p, t, q, u)
    <3>1. t.confirmed[q] = 0 /\ t.acked[q] = 0 /\ q \notin t.hello /\ q \notin t.ready
      BY <1>4, <2>1
    <3> QED
      BY <1>1, <1>4, <2>2, <2>3, <2>6, <3>1 DEF Related
  <2>8. u.generation = s.generation + 1 => p \notin u.hello /\ p \notin u.ready
    BY <1>1, <2>1, <2>2 DEF Related, Consistent
  <2>9. Left(t, u.generation) => Left(s, u.generation)
    BY <1>1, <1>2, <1>4, <2>2 DEF Left
  <2>10. Related(q, u, p, t)
    <3>1. /\ u.generation <= t.generation + 1 /\ ~(t.generation < u.generation)
          /\ p \in u.hello => t.generation >= u.generation
      BY <1>1, <1>4, <2>2, <2>4
    <3>2. t.generation = u.generation => /\ u.confirmed[p] <= t.captured
                                         /\ u.acked[p] <= t.confirmed[q]
      BY <1>4, <2>1, <2>2, <2>4
    <3>3. p \in u.ready => /\ contract[p] = contract[q]
                           /\ t.generation = u.generation => t.localReady
      BY <1>4, <2>1, <2>8 DEF Related
    <3>4. (u.generation > 0 /\ Left(t, u.generation)) =>
            u.confirmed[p] = Frames /\ u.captured = Frames
      BY <2>1, <2>9 DEF Related
    <3> QED
      BY <3>1, <3>2, <3>3, <3>4 DEF Related
  <2>11. LinkOK(p, t, q, u, wire[p][q])
    <3>1. ASSUME NEW m \in Message, Truthful(p, s, q, u, m)
          PROVE  Truthful(p, t, q, u, m)
      <4>1. m.session \in Int /\ m.session <= s.generation
        BY <3>1, MessageFacts DEF Truthful
      <4>2. m.session <= t.generation /\ t.generation # m.session
        BY <1>1, <1>4, <4>1
      <4> QED
        BY <3>1, <4>2 DEF Truthful
    <3>2. \A i \in DOMAIN wire[p][q] : wire[p][q][i] \in Message
      BY <2>1 DEF LinkOK
    <3> QED
      BY <2>1, <3>1, <3>2 DEF LinkOK
  <2>12. LinkOK(q, u, p, t, wire[q][p])
    <3>1. ASSUME NEW m \in Message, Truthful(q, u, p, s, m)
          PROVE  /\ Truthful(q, u, p, t, m)
                 /\ m.kind = "ready" => m.session # t.generation
      <4>1. m.session \in Int
        BY <3>1, MessageFacts
      <4>2. m.kind = "ready" => s.generation >= m.session
        BY <3>1 DEF Truthful
      <4>3. m.kind = "ready" => t.generation >= m.session /\ m.session # t.generation
        BY <1>1, <1>4, <4>1, <4>2
      <4>4. (m.kind = "input" /\ t.generation <= m.session) => m.ack = 0
        BY <1>1, <1>4, <3>1, <4>1 DEF Truthful
      <4>5. m.kind = "input" => /\ t.generation = m.session => m.ack <= t.captured
                                /\ t.generation < m.session => m.ack = 0
        BY <1>1, <1>4, <4>1, <4>4
      <4> QED
        BY <3>1, <4>3, <4>5 DEF Truthful
    <3>2. \A i \in DOMAIN wire[q][p] : wire[q][p][i] \in Message
      BY <2>1 DEF LinkOK
    <3>3. \A i \in DOMAIN wire[q][p] :
            /\ Truthful(q, u, p, t, wire[q][p][i])
            /\ wire[q][p][i].kind = "ready" => wire[q][p][i].session # t.generation
      BY <2>1, <3>1, <3>2 DEF LinkOK
    <3> QED
      BY <2>1, <3>3 DEF LinkOK, HelloFirst
  <2> QED
    BY <2>7, <2>10, <2>11, <2>12 DEF u
<1>7. peer'[p] = t /\ \A q \in Player : q # p => peer'[q] = peer[q]
  BY <1>1, <1>2
<1>8. TypeOK' /\ WireTypeOK'
  <2>1. peer' \in [Player -> PeerState]
    BY <1>1, <1>2, <1>4
  <2>2. TypeOK'
    BY <1>1, <1>2, <2>1 DEF TypeOK, PeerState, Generations, Failures, Frontier
  <2>3. WireTypeOK'
    BY <1>1, <1>2 DEF WireTypeOK, Message, ControlMessage, InputMessage,
                      Generations, Frontier
  <2> QED
    BY <2>2, <2>3
<1>9. SoundPeers'
  <2> SUFFICES ASSUME NEW q \in Player
               PROVE  /\ Consistent(q, peer'[q]) /\ Released(peer'[q])
                      /\ Justified(q, peer[q])'
    BY DEF SoundPeers, Consistent, Released, Others
  <2>1. CASE q = p
    BY <1>2, <1>5, <1>7, <2>1, SameContract
  <2>2. CASE q # p
    BY <1>2, <1>7, <2>2, PairFacts, SameContract
  <2> QED
    BY <2>1, <2>2
<1>10. ASSUME NEW q \in Player, NEW r \in Others(q)
       PROVE  /\ Related(q, peer[q], r, peer[r])'
              /\ LinkOK(r, peer[r], q, peer[q], wire[r][q])'
  <2>1. r \in Player /\ r # q /\ q \in Others(r)
    BY DEF Others
  <2>2. CASE q = p
    BY <1>2, <1>6, <1>7, <2>1, <2>2, SameContract
  <2>3. CASE r = p
    BY <1>2, <1>6, <1>7, <2>1, <2>3, SameContract
  <2>4. CASE q # p /\ r # p
    BY <1>2, <1>7, <2>1, <2>4, PairFacts, SameContract
  <2> QED
    BY <2>2, <2>3, <2>4
<1>11. SoundPairs' /\ SoundLinks'
  BY <1>10 DEF SoundPairs, SoundLinks, Others
<1> QED
  BY <1>8, <1>9, <1>11 DEF SessionInv

---------------------------------------------------------------------------
(* The theorems. *)

LEMMA SessionInit == Init => SessionInv
<1> SUFFICES ASSUME Init PROVE SessionInv
  OBVIOUS
<1> DEFINE s == NewSession(0)
<1>1. 0 \in Generations /\ 0 \in Frontier /\ 0 <= 0
  BY ChannelAssumption DEF Generations, Frontier
<1>2. /\ s \in PeerState /\ s.generation = 0 /\ s.active = FALSE
      /\ s.failure = "None" /\ s.hello = {} /\ s.ready = {}
      /\ s.localReady = FALSE /\ s.captured = 0
      /\ \A q \in Player : s.confirmed[q] = 0 /\ s.acked[q] = 0
      /\ s.needed = {} /\ s.previous = 0
  <2>1. (0 > 0) = FALSE
    OBVIOUS
  <2>2. [q \in Player |-> 0] \in [Player -> Frontier]
    BY <1>1
  <2> QED
    BY <1>1, <2>1, <2>2 DEF NewSession, PeerState, Failures
<1> HIDE DEF s
<1>3. /\ \A p \in Player : peer[p] = s
      /\ peer \in [Player -> PeerState] /\ contract \in Contracts
      /\ wire = [p \in Player |-> [q \in Player |-> << >>]]
  BY <1>2 DEF Init, s
<1>4. TypeOK
  BY <1>3 DEF TypeOK
<1>5. << >> \in Seq(Message) /\ DOMAIN << >> = {}
  OBVIOUS
<1>6. WireTypeOK
  BY <1>3, <1>5 DEF WireTypeOK
<1>7. SoundPeers
  BY <1>1, <1>2, <1>3 DEF SoundPeers, Consistent, Released, Justified, Others
<1>8. SoundPairs
  BY <1>1, <1>2, <1>3 DEF SoundPairs, Related, Left, Others
<1>9. SoundLinks
  BY <1>3, <1>5 DEF SoundLinks, LinkOK, HelloFirst, Others
<1> QED
  BY <1>4, <1>6, <1>7, <1>8, <1>9 DEF SessionInv

LEMMA SessionStep == SessionInv /\ [Next]_vars => SessionInv'
<1> SUFFICES ASSUME SessionInv, [Next]_vars PROVE SessionInv'
  OBVIOUS
<1>1. CASE Next
  <2>1. PICK p \in Player :
          \/ \E fast \in SUBSET Reachable(p) :
               \/ \E due \in Due(p), defer \in Deferring(p) :
                    \/ PumpIdle(p, due, defer, fast)
                    \/ \E q \in Others(p) : \E i \in Arriving(wire[q][p]) :
                         PumpMessage(p, q, i, due, defer, fast)
               \/ \E due \in SUBSET {"repair"} : Capture(p, due, fast)
          \/ PumpRetirement(p) \/ BeginSession(p) \/ Fence(p) \/ Retire(p)
          \/ GiveUp(p)
          \/ \E q \in Others(p) : Break(p, q)
    BY <1>1, Zenon DEF Next
  <2> QED
    BY <2>1, PumpIdleKeeps, PumpMessageKeeps, CaptureKeeps, PumpRetirementKeeps,
       BeginSessionKeeps, FenceKeeps, RetireKeeps, GiveUpKeeps, BreakKeeps, Zenon
<1>2. CASE UNCHANGED vars
  <2>1. contract' = contract /\ peer' = peer /\ wire' = wire
    BY <1>2 DEF vars
  <2>2. TypeOK'
    BY <2>1 DEF SessionInv, TypeOK, PeerState, Generations, Failures, Frontier
  <2>3. WireTypeOK'
    BY <2>1 DEF SessionInv, WireTypeOK, Message, ControlMessage, InputMessage,
                Generations, Frontier
  <2>4. ASSUME NEW p \in Player
        PROVE  /\ (Consistent(p, peer[p]) /\ Released(peer[p]))'
               /\ Justified(p, peer[p])'
    <3>1. Justified(p, peer[p])'
      BY <2>1, PairFacts, SameContract
    <3>2. (Consistent(p, peer[p]) /\ Released(peer[p]))'
      BY <2>1, PairFacts DEF Consistent, Released, Others
    <3> QED
      BY <3>1, <3>2
  <2>5. ASSUME NEW p \in Player, NEW q \in Others(p)
        PROVE  /\ Related(p, peer[p], q, peer[q])'
               /\ LinkOK(q, peer[q], p, peer[p], wire[q][p])'
    BY <2>1, PairFacts, SameContract
  <2>6. SoundPeers'
    BY <2>4 DEF SoundPeers
  <2>7. SoundPairs' /\ SoundLinks'
    BY <2>5 DEF SoundPairs, SoundLinks, Others
  <2> QED
    BY <2>2, <2>3, <2>6, <2>7 DEF SessionInv
<1> QED
  BY <1>1, <1>2

(* The invariant of the sessions, from which the other theorems follow,    *)
(* with the types of the peers in it.                                      *)
THEOREM SessionInvariance == Spec => [](TypeOK /\ SessionInv)
<1>1. SessionInv => TypeOK
  BY DEF SessionInv
<1> QED
  BY SessionInit, SessionStep, <1>1, PTL DEF Spec

(* However handshakes interleave and lose messages, a peer that starts has *)
(* every other one with it, under the same contract (SessionGate).         *)
THEOREM StartsAreMutual == Spec => []StartIsMutual
<1>1. SessionInv => StartIsMutual
  <2> SUFFICES ASSUME SessionInv, NEW p \in Player, CanStart(p, peer[p]),
                      NEW q \in Others(p)
               PROVE  /\ contract[q] = contract[p]
                      /\ \/ peer[q].generation > peer[p].generation
                         \/ /\ peer[q].generation = peer[p].generation
                            /\ peer[q].localReady
    BY DEF StartIsMutual
  <2>1. /\ Related(p, peer[p], q, peer[q]) /\ Consistent(p, peer[p])
        /\ q \in peer[p].ready
    BY PairFacts DEF CanStart
  <2>2. q \in peer[p].hello
    BY <2>1 DEF Consistent
  <2>3. peer[q].generation \in Int /\ peer[p].generation \in Int
    BY PairFacts, PeerFacts
  <2> QED
    BY <2>1, <2>2, <2>3 DEF Related
<1> QED
  BY SessionInit, SessionStep, <1>1, PTL DEF Spec

(* A frontier speaks of this session only, and never of more than the peer *)
(* it speaks of has done (Receive, BuildInputPacket, SendRetired).         *)
THEOREM FrontiersStayTrue == Spec => []FrontiersAreTrue
<1>1. SessionInv => FrontiersAreTrue
  <2> SUFFICES ASSUME SessionInv, NEW p \in Player, NEW q \in Others(p)
               PROVE  CASE peer[q].generation < peer[p].generation ->
                             peer[p].confirmed[q] = 0 /\ peer[p].acked[q] = 0
                        [] peer[q].generation = peer[p].generation ->
                             /\ peer[p].confirmed[q] <= peer[q].captured
                             /\ peer[p].acked[q] <= peer[q].confirmed[p]
                        [] OTHER -> TRUE
    BY DEF FrontiersAreTrue
  <2>1. Related(p, peer[p], q, peer[q])
    BY PairFacts
  <2>2. peer[q].generation \in Int /\ peer[p].generation \in Int
    BY PairFacts, PeerFacts
  <2> QED
    BY <2>1, <2>2 DEF Related
<1> QED
  BY SessionInit, SessionStep, <1>1, PTL DEF Spec

(* A peer leaves a session, and its history with it, only when every other *)
(* peer of the session has all of its input (CanRetire, Retire).           *)
THEOREM HistoryOutlivesItsUse == Spec => []HistoryIsDroppedWhenDone
<1>1. SessionInv => HistoryIsDroppedWhenDone
  <2> SUFFICES ASSUME SessionInv, NEW p \in Player, NEW q \in Others(p),
                      peer[q].active, HasLeft(p, peer[q].generation)
               PROVE  peer[q].confirmed[p] = Frames
    BY DEF HistoryIsDroppedWhenDone
  <2>1. q \in Player
    BY PairFacts
  <2>2. Related(q, peer[q], p, peer[p]) /\ Consistent(q, peer[q])
    BY <2>1, PairFacts
  <2>3. peer[q].generation \in Int /\ peer[q].generation >= 0
    BY <2>1, PairFacts, PeerFacts
  <2>4. peer[q].generation > 0
    BY <2>2, <2>3 DEF Consistent
  <2> QED
    BY <2>2, <2>4 DEF Related, Left, HasLeft
<1> QED
  BY SessionInit, SessionStep, <1>1, PTL DEF Spec

(* No order of handshakes, late packets, terminal ACKs and restarts makes  *)
(* an honest peer fail (SetFailure in the receiving code and in Retire).   *)
THEOREM HonestPeersDoNotFail == Spec => []NoSpuriousFailure
<1>1. SessionInv => NoSpuriousFailure
  BY DEF SessionInv, SoundPeers, Justified, NoSpuriousFailure
<1> QED
  BY SessionInit, SessionStep, <1>1, PTL DEF Spec
===========================================================================
