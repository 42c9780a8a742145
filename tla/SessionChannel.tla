--------------------------- MODULE SessionChannel ---------------------------
(***************************************************************************)
(* The life of netplay sessions: the handshake of SessionGate, the input   *)
(* and repair lanes of SessionChannel, and the retirement of one session   *)
(* generation while the next one begins                                    *)
(* (src/src/netplay/SessionChannel.cpp, NetplaySession.cpp).               *)
(*                                                                         *)
(* The cores are reduced to their frontiers, as numbers of frames: what    *)
(* was captured here, confirmed of the others, acknowledged by the others. *)
(* RollbackNet shows what the full cores do with the same packets.  A      *)
(* timer is due or not whenever a peer runs.                               *)
(***************************************************************************)
EXTENDS Integers, FiniteSets, SequencesExt

CONSTANTS
  Player,
  Contracts,       \* what the players may have been configured with: c[p]
                   \* stands for the seed, the game id and the ABI of p
  Frames,          \* the frames of a session; the last one is terminal
  Defers,          \* the titles let Pump postpone a send to their capture
  FastLinks,       \* the links whose fast lane delivers anything at all
  GivesUp,         \* the handshake or the confirmed timeout may expire
  TimersTogether,  \* bound: all timers of a peer expire together
  MaxGeneration,   \* bound: sessions played one after the other
  MaxFaults,       \* bound: broken lanes and expired timeouts in all
  Capacity         \* bound: messages under way on a link

ASSUME ChannelAssumption ==
  /\ IsFiniteSet(Player) /\ \A c \in Contracts : DOMAIN c = Player
  /\ Frames \in Nat \ {0} /\ MaxGeneration \in Nat
  /\ FastLinks \subseteq Player \X Player
  /\ MaxFaults \in Nat /\ Capacity \in Nat /\ Defers \in BOOLEAN /\ GivesUp \in BOOLEAN
  /\ TimersTogether \in BOOLEAN

VARIABLES
  contract, \* contract[p]: the configuration of p in every session
  peer,     \* peer[p]: the gate, the channel and the core frontiers of p
  wire,     \* wire[p][q]: the messages from p to q, in the order of sending
  faults    \* breaks of a reliable lane and timeouts so far

vars == <<contract, peer, wire, faults>>

Others(p) == Player \ {p}
Generations == 0 .. MaxGeneration
Timers == {"control", "input", "repair", "echo"}
Kinds == {"hello", "ready", "input"}

---------------------------------------------------------------------------
(* The state of a peer. *)

Frontier == 0 .. Frames
Failures == {"None", "ContractMismatch", "MalformedPacket",
             "InvalidRetirement", "Timeout"}
PeerState ==
  [generation     : Generations,        \* sessionId, in order of sessions
   active         : BOOLEAN,
   failure        : Failures,
   hello          : SUBSET Player,      \* peerHello_
   ready          : SUBSET Player,      \* peerReady_
   localReady     : BOOLEAN,
   forceControl   : BOOLEAN,
   forceInputs    : BOOLEAN,
   deferred       : BOOLEAN,            \* deferredInput_
   captured       : Frontier,           \* latestCapture_ + 1
   confirmed      : [Player -> Frontier],
   acked          : [Player -> Frontier],
   repairFrontier : [Player -> Frontier],
   needsAck       : SUBSET Player,      \* peerNeedsAck_
   previous       : Generations,        \* previousSession_, 0 when none
   needed         : SUBSET Player]      \* previousNeeded_

NewSession(generation) ==
  [generation |-> generation, active |-> generation > 0, failure |-> "None",
   hello |-> {}, ready |-> {}, localReady |-> FALSE,
   forceControl |-> generation > 0, forceInputs |-> FALSE, deferred |-> FALSE,
   captured |-> 0,
   confirmed |-> [q \in Player |-> 0], acked |-> [q \in Player |-> 0],
   repairFrontier |-> [q \in Player |-> 0], needsAck |-> {},
   previous |-> 0, needed |-> {}]

Fail(s, failure) == [s EXCEPT !.failure = failure]
Failed(s) == s.failure # "None"

AllPeersHello(p, s) == Others(p) \subseteq s.hello

(* Mutant: nobody waits for READY. *)
CanStartOnHello(p, s) == s.active /\ s.localReady /\ AllPeersHello(p, s)

(* A session starts when this peer is ready and every other one said so.   *)
CanStart(p, s) == s.active /\ s.localReady /\ Others(p) \subseteq s.ready

(* Mutant: a title retires when it has all input itself. *)
CanRetireUnacknowledged(p, s) ==
  /\ s.active /\ s.captured = Frames
  /\ \A q \in Others(p) : s.confirmed[q] = Frames

(* CanRetire at the terminal frame.  The title has simulated it once the   *)
(* input of every player for it is confirmed, with no rollback pending.    *)
CanRetire(p, s) ==
  /\ s.active /\ s.captured = Frames
  /\ \A q \in Others(p) : s.confirmed[q] = Frames /\ s.acked[q] = Frames

---------------------------------------------------------------------------
(* The messages.  The reliable lane (the control channel, which repairs    *)
(* share) keeps its order.  The fast lane may lose a packet, and deliver   *)
(* it before or after reliable ones.  Bound: a link carries one fast       *)
(* packet, and no second copy of a reliable message under way.             *)

Hello(p, s) == [kind |-> "hello", lane |-> "reliable",
                session |-> s.generation, contract |-> contract[p]]
Ready(p, s) == [Hello(p, s) EXCEPT !.kind = "ready"]

(* Mutant: an off-by-one counts one frame more than was captured. *)
InputPacketTooLong(s, q, lane) ==
  [kind |-> "input", lane |-> lane, session |-> s.generation,
   first |-> s.acked[q], upTo |-> s.captured + 1, ack |-> s.confirmed[q],
   overtaken |-> FALSE]

(* BuildInputPacket.  An overtaken packet has a smaller sequence number    *)
(* than one its receiver already saw.                                      *)
InputPacket(s, q, lane) ==
  [kind |-> "input", lane |-> lane, session |-> s.generation,
   first |-> s.acked[q], upTo |-> s.captured, ack |-> s.confirmed[q],
   overtaken |-> FALSE]

(* The ACK Retire stores: it echoes the terminal frame and has no input.   *)
TerminalAck(session) ==
  [kind |-> "input", lane |-> "reliable", session |-> session,
   first |-> Frames, upTo |-> Frames, ack |-> Frames, overtaken |-> FALSE]

InFastLane(messages) == {i \in DOMAIN messages : messages[i].lane = "fast"}
HasRoom(messages, x) ==
  IF x.lane = "fast" THEN InFastLane(messages) = {}
                     ELSE \A i \in DOMAIN messages : messages[i] # x
Send(messages, x) ==
  IF HasRoom(messages, x) THEN Append(messages, x) ELSE messages

(* Mutant: the session of a message is not looked at. *)
IsCurrentOfAny(s, msg) == s.active

IsCurrent(s, msg) == s.active /\ msg.session = s.generation

(* The messages that may arrive next: the oldest reliable one and any fast *)
(* one.                                                                    *)
Arriving(messages) ==
  {i \in DOMAIN messages :
     messages[i].lane = "reliable" =>
       \A j \in 1 .. i - 1 : messages[j].lane # "reliable"}

(* What is left of the wire when s has received message i. *)
AfterArrival(messages, i, s) ==
  RemoveAt([j \in DOMAIN messages |->
              IF /\ j < i /\ {messages[i].kind, messages[j].kind} = {"input"}
                 /\ IsCurrent(s, messages[i])
              THEN [messages[j] EXCEPT !.overtaken = TRUE] ELSE messages[j]], i)

---------------------------------------------------------------------------
(* Receive: one message from q.  With fewer or more messages per Pump only *)
(* the number of answers differs.                                          *)

(* Mutant: a HELLO from a peer that is owed a terminal ACK is taken for an *)
(* old one.                                                                *)
ReceiveHelloStillEchoing(p, s, q, due) ==
  IF q \in s.needed THEN s
  ELSE [s EXCEPT !.hello = @ \cup {q},
                 !.forceControl = \/ @
                                    \/ /\ q \in s.hello /\ CanStart(p, s)
                                       /\ "control" \in due]

(* A second HELLO after the start comes from a peer that missed our READY. *)
ReceiveHello(p, s, q, due) ==
  [s EXCEPT !.hello = @ \cup {q},
            !.needed = @ \ {q},
            !.forceControl = \/ @
                               \/ /\ q \in s.hello /\ CanStart(p, s)
                                  /\ "control" \in due]

ReceiveReady(s, q) ==
  IF q \in s.hello THEN [s EXCEPT !.ready = @ \cup {q}] 
  ELSE Fail(s, "MalformedPacket")

ReceiveInput(s, q, pkt) ==
  IF pkt.ack > s.captured THEN Fail(s, "MalformedPacket")
  ELSE LET through == IF pkt.first <= s.confirmed[q]
                      THEN Max({pkt.upTo, s.confirmed[q]}) ELSE s.confirmed[q]
       IN  [s EXCEPT !.acked[q]     = Max({@, pkt.ack}),
                     !.confirmed[q] = through,
                     !.forceInputs  = @ \/ through # s.confirmed[q],
                     !.needsAck     = IF pkt.overtaken THEN @
                                  ELSE IF pkt.first < pkt.upTo THEN @ \cup {q}
                                  ELSE @ \ {q}]

ReceiveMessage(p, s, q, msg, due) ==
  IF ~IsCurrent(s, msg) THEN s
  ELSE IF msg.kind = "input" THEN ReceiveInput(s, q, msg)
  ELSE IF msg.contract # contract[p] THEN Fail(s, "ContractMismatch")
  ELSE IF msg.kind = "hello" THEN ReceiveHello(p, s, q, due)
  ELSE ReceiveReady(s, q)

---------------------------------------------------------------------------
(* Sending.  Echo, Session and Inputs are the messages on a link to peer q *)
(* when what they send has been added; `fast' are the peers whose fast     *)
(* lane does not lose the packet at once.                                  *)

(* Mutant: the terminal ACKs are sent only once, by Retire. *)
EchoesNever(s, due) == FALSE

(* SendRetired: the terminal ACK is repeated until every peer has said     *)
(* HELLO for the next session, in the repair lane or over the relay.       *)
Echoes(s, due) == s.previous # 0 /\ s.needed # {} /\ "echo" \in due

Echo(messages, s, q) ==
  IF q \in s.needed THEN Send(messages, TerminalAck(s.previous)) ELSE messages

(* SendSession: HELLO, and READY after it. *)
SendsSession(p, s, due) ==
  s.active /\ (s.forceControl \/ (~CanStart(p, s) /\ "control" \in due))

Session(messages, p, s) ==
  LET hello == Send(messages, Hello(p, s))
  IN  IF s.localReady THEN Send(hello, Ready(p, s)) ELSE hello

(* SendInputs.  A tail, or an acknowledgement the peer keeps asking for,   *)
(* is repeated in the reliable lane when its frontier stalls.              *)
SendsInputs(s, force, due) ==
  /\ s.active /\ s.captured > 0
  /\ force \/ s.deferred \/ "input" \in due

RepairIsDue(s, q, due) == s.acked[q] = s.repairFrontier[q] /\ "repair" \in due

CanDefer(p, s, due) ==
  ~s.deferred /\ \A q \in Others(p) : ~RepairIsDue(s, q, due)

Repairs(s, q, due) ==
  RepairIsDue(s, q, due) /\ (s.acked[q] < s.captured \/ q \in s.needsAck)

Inputs(messages, s, q, due, fast) ==
  LET sent == IF q \in fast THEN Send(messages, InputPacket(s, q, "fast"))
                            ELSE messages
  IN  IF Repairs(s, q, due) THEN Send(sent, InputPacket(s, q, "reliable"))
                            ELSE sent

AfterInputs(s) ==
  [s EXCEPT !.deferred = FALSE, !.forceInputs = FALSE,
            !.repairFrontier = s.acked]
AfterDeferral(s) == [s EXCEPT !.deferred = TRUE, !.repairFrontier = s.acked]

---------------------------------------------------------------------------
(* The steps of a peer. *)

Init ==
  /\ contract \in Contracts
  /\ peer = [p \in Player |-> NewSession(0)]
  /\ wire = [p \in Player |-> [q \in Player |-> << >>]]
  /\ faults = 0

(* The messages w when p has sent to every other peer q: links[q] is what  *)
(* is then under way to it.                                                *)
Posted(w, p, links) ==
  [w EXCEPT ![p] = [q \in Player |-> IF q = p THEN << >> ELSE links[q]]]

(* The rest of Pump after Receive: SendRetired, READY, SendSession and     *)
(* SendInputs.                                                             *)
Settle(p, s) ==
  [s EXCEPT !.previous   = IF s.needed = {} THEN 0 ELSE @,
            !.localReady = @ \/ (s.active /\ AllPeersHello(p, s)),
            !.forceControl = \/ @
                               \/ /\ s.active /\ ~s.localReady
                                  /\ AllPeersHello(p, s)]

PumpTail(p, received, messages, due, defer, fast) ==
  IF Failed(received)
  THEN /\ peer' = [peer EXCEPT ![p] = received]
       /\ wire' = messages
  ELSE \E s \in {Settle(p, received)} :
         LET echo    == Echoes(received, due)
             session == SendsSession(p, s, due)
             inputs  == SendsInputs(s, s.forceInputs, due)
             defers  == inputs /\ defer /\ CanStart(p, s) /\ CanDefer(p, s, due)
             sent    == IF session THEN [s EXCEPT !.forceControl = FALSE] ELSE s
             Control(m, q) ==
               LET echoed == IF echo THEN Echo(m, received, q) ELSE m
               IN  IF session THEN Session(echoed, p, s) ELSE echoed
         IN  /\ wire' = Posted(messages, p, [q \in Player |->
                         LET m == Control(messages[p][q], q)
                         IN  IF inputs /\ ~defers THEN Inputs(m, s, q, due, fast)
                                                 ELSE m])
             /\ peer' = [peer EXCEPT ![p] =
                           CASE defers -> AfterDeferral(sent)
                             [] inputs /\ ~defers -> AfterInputs(sent)
                             [] OTHER -> sent]

(* Pump, when nothing has arrived. *)
PumpIdle(p, due, defer, fast) ==
  /\ ~Failed(peer[p])
  /\ PumpTail(p, peer[p], wire, due, defer, fast)
  /\ UNCHANGED <<contract, faults>>

(* Pump, when message i from q has arrived. *)
PumpMessage(p, q, i, due, defer, fast) ==
  /\ ~Failed(peer[p])
  /\ \E received \in {ReceiveMessage(p, peer[p], q, wire[q][p][i], due)},
        messages \in {[wire EXCEPT ![q][p] = AfterArrival(@, i, peer[p])]} :
       PumpTail(p, received, messages, due, defer, fast)
  /\ UNCHANGED <<contract, faults>>

(* PumpRetirement, while the next session is not begun yet. *)
PumpRetirement(p) ==
  LET s == peer[p]
  IN  /\ ~Failed(s) /\ ~s.active /\ s.previous # 0
      /\ peer' = [peer EXCEPT ![p].previous = IF s.needed = {} THEN 0 ELSE @]
      /\ wire' = Posted(wire, p, [q \in Player |->
                    IF Echoes(s, {"echo"}) THEN Echo(wire[p][q], s, q)
                                           ELSE wire[p][q]])
      /\ UNCHANGED <<contract, faults>>

(* BeginSession, after the gate and the core were reset. *)
BeginSession(p) ==
  LET s == peer[p]
  IN  /\ ~Failed(s) /\ ~s.active /\ s.generation < MaxGeneration
      /\ peer' = [peer EXCEPT ![p] =
                    [NewSession(s.generation + 1) EXCEPT
                       !.previous = s.previous, !.needed = s.needed]]
      /\ UNCHANGED <<contract, wire, faults>>

(* The title captures its next frame; LocalCaptured sends it at once. *)
Capture(p, due, fast) ==
  LET s == [peer[p] EXCEPT !.captured = @ + 1]
  IN  /\ ~Failed(s) /\ CanStart(p, s) /\ s.captured <= Frames
      /\ wire' = Posted(wire, p, [q \in Player |->
                    Inputs(wire[p][q], s, q, due, fast)])
      /\ peer' = [peer EXCEPT ![p] = AfterInputs(s)]
      /\ UNCHANGED <<contract, faults>>

(* FlushRetirementFence: gameplay has stopped at the terminal frame, which *)
(* may still be predicted.                                                 *)
Fence(p) ==
  LET s == peer[p]
  IN  /\ ~Failed(s) /\ s.active /\ s.captured = Frames
      /\ wire' = Posted(wire, p,
                        [q \in Player |->
                    Send(wire[p][q], InputPacket(s, q, "reliable"))])
      /\ UNCHANGED <<contract, peer, faults>>

(* Retire, and its first SendRetired. *)
Retire(p) ==
  LET s == [peer[p] EXCEPT !.active = FALSE, !.deferred = FALSE,
                           !.previous = peer[p].generation,
                           !.needed = Others(p)]
  IN  /\ ~Failed(s) /\ CanRetire(p, peer[p])
      /\ IF peer[p].previous # 0
         THEN /\ peer' = [peer EXCEPT ![p] = Fail(@, "InvalidRetirement")]
              /\ UNCHANGED wire
         ELSE /\ peer' = [peer EXCEPT ![p] = s]
              /\ wire' = Posted(wire, p, [q \in Player |-> Echo(wire[p][q], s, q)])
      /\ UNCHANGED <<contract, faults>>

(* The handshake timeout, or the watchdog of a confirmed frontier. *)
GiveUp(p) ==
  /\ GivesUp /\ faults < MaxFaults
  /\ ~Failed(peer[p]) /\ peer[p].active
  /\ peer' = [peer EXCEPT ![p] = Fail(@, "Timeout")]
  /\ faults' = faults + 1
  /\ UNCHANGED <<contract, wire>>

(* The fast packet among the messages from i on: there is at most one. *)
FastFrom(messages, i) ==
  LET later == {j \in InFastLane(messages) : j >= i}
  IN  IF later = {} THEN << >> ELSE <<messages[CHOOSE j \in later : TRUE]>>

(* The connection under the reliable lane breaks, or a send fails: the     *)
(* newest reliable messages are gone.                                      *)
Break(p, q) ==
  /\ faults < MaxFaults
  /\ \E i \in DOMAIN wire[p][q] :
       /\ wire[p][q][i].lane = "reliable"
       /\ wire' = [wire EXCEPT ![p][q] =
                     SubSeq(@, 1, i - 1) \o FastFrom(@, i)]
  /\ faults' = faults + 1
  /\ UNCHANGED <<contract, peer>>

(* The timers that make a difference to peer p now. *)
Running(p) ==
  {t \in Timers :
     CASE t = "echo"    -> peer[p].previous # 0
       [] t = "control" -> peer[p].active
       [] OTHER         -> peer[p].active /\ peer[p].captured > 0}

Due(p) == IF TimersTogether THEN {{}, Running(p)} ELSE SUBSET Running(p)
Deferring(p) ==
  IF Defers /\ CanStart(p, peer[p]) /\ peer[p].captured > 0 /\ ~peer[p].deferred
  THEN BOOLEAN ELSE {FALSE}
Reachable(p) ==
  {q \in Others(p) : <<p, q>> \in FastLinks /\ InFastLane(wire[p][q]) = {}}

Next ==
  \E p \in Player :
    /\ \/ \E fast \in SUBSET Reachable(p) :
            \/ \E due \in Due(p), defer \in Deferring(p) :
                 \/ PumpIdle(p, due, defer, fast)
                 \/ \E q \in Others(p) : \E i \in Arriving(wire[q][p]) :
                      PumpMessage(p, q, i, due, defer, fast)
            \/ \E due \in SUBSET {"repair"} : Capture(p, due, fast)
       \/ PumpRetirement(p) \/ BeginSession(p) \/ Fence(p) \/ Retire(p)
       \/ GiveUp(p)
       \/ \E q \in Others(p) : Break(p, q)
    /\ \A q \in Others(p) : Len(wire'[p][q]) <= Capacity

Spec == Init /\ [][Next]_vars

Advance(p) == Capture(p, {}, {}) \/ Retire(p) \/ BeginSession(p)
Arrives(p, q, kind) ==
  \E defer \in Deferring(p), i \in Arriving(wire[q][p]) :
    /\ wire[q][p][i].lane = "reliable" /\ wire[q][p][i].kind = kind
    /\ PumpMessage(p, q, i, Timers, defer, {})

(* Every peer runs for ever and the reliable lane is delivered.  The       *)
(* control timer is restarted only by what it sends, so HELLOs that keep   *)
(* coming find it expired again and again.  The fast lane may lose all.    *)
Fairness ==
  \A p \in Player :
    /\ WF_vars(\E defer \in Deferring(p) : PumpIdle(p, Timers, defer, {}))
    /\ WF_vars(Advance(p))
    /\ \A q \in Others(p) : /\ WF_vars(\E kind \in Kinds : Arrives(p, q, kind))
                            /\ SF_vars(Arrives(p, q, "hello"))

FairSpec == Spec /\ Fairness

---------------------------------------------------------------------------
(* Properties. *)

TypeOK == contract \in Contracts /\ peer \in [Player -> PeerState]

(* A peer starts only a session that all the others are ready for, under   *)
(* the same contract: nobody plays alone, whatever READYs were lost,       *)
(* repeated or late from another session.                                  *)
StartIsMutual ==
  \A p \in Player : CanStart(p, peer[p]) =>
    \A q \in Others(p) :
      /\ contract[q] = contract[p]
      /\ \/ peer[q].generation > peer[p].generation
         \/ peer[q].generation = peer[p].generation /\ peer[q].localReady

(* No frontier of a session is moved by a message of another session, or   *)
(* ahead of the peer it speaks of.                                         *)
FrontiersAreTrue ==
  \A p \in Player : \A q \in Others(p) : peer[p].active =>
    CASE peer[q].generation < peer[p].generation ->
           peer[p].confirmed[q] = 0 /\ peer[p].acked[q] = 0
      [] peer[q].generation = peer[p].generation ->
           /\ peer[p].confirmed[q] <= peer[q].captured
           /\ peer[p].acked[q] <= peer[q].confirmed[p]
      [] OTHER -> TRUE

HasLeft(p, generation) ==
  \/ peer[p].generation > generation
  \/ peer[p].generation = generation /\ ~peer[p].active

(* Once a peer has left a session, its history is dropped: every other     *)
(* peer of this session has all of its input already.                      *)
HistoryIsDroppedWhenDone ==
  \A p \in Player : \A q \in Others(p) :
    (peer[q].active /\ HasLeft(p, peer[q].generation))
      => peer[q].confirmed[p] = Frames

(* Honest peers fail only when a timeout expires, or for a difference of   *)
(* contracts that there really is: no order of handshake messages, late    *)
(* packets of a retired session, terminal ACKs and quick restarts looks    *)
(* like a protocol violation.                                              *)
NoSpuriousFailure ==
  \A p \in Player :
    \/ peer[p].failure \in {"None", "Timeout"}
    \/ /\ peer[p].failure = "ContractMismatch"
       /\ \E q \in Others(p) : contract[q] # contract[p]

(* Every peer plays and retires every session, even if the fast lane never *)
(* delivers anything: neither a lost READY nor a lost final ACK strands it.*)
EverySessionRetires ==
  \A p \in Player :
    <>(peer[p].generation = MaxGeneration /\ ~peer[p].active)

(* The terminal ACKs of a session are released once the next one has begun *)
(* everywhere.                                                             *)
EchoEnds ==
  \A p \in Player : <>[](peer[p].previous \in {0, MaxGeneration})
===========================================================================
