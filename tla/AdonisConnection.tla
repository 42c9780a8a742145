--------------------------- MODULE AdonisConnection ---------------------------
(***************************************************************************)
(* The players' calibrations over their transports, and the hand-over of   *)
(* the transport to the gameplay channel once a title has applied the      *)
(* committed delay                                                         *)
(* (src/include/eagler/netplay/AdonisConnection.hpp).                      *)
(*                                                                         *)
(* The controls of a link are in the order of sending; probes, echoes and  *)
(* gameplay input arrive in any order.  What goes wrong from outside, a    *)
(* late callback, a passed deadline, a lost packet, a link that closes, is *)
(* counted in faults.                                                      *)
(***************************************************************************)
EXTENDS AdonisStartup

CONSTANTS
  Configs,     \* how the players may have been configured: c[p] is their
               \* session, mode, requested delay and prediction reserve
  Tails,       \* what the retired session may have left under way
  HasRetired,  \* Prepare was told of the retired session
  DeferLimit,  \* gameplay packets that wait for the commit
  Faults,      \* the faults that may happen
  MaxFaults    \* bound: how many of them

ASSUME ConnectionAssumption ==
  /\ \A c \in Configs : DOMAIN c = Player /\ \A p \in Player : IsSetup(c[p])
  /\ \A tail \in Tails :
       /\ tail \in Seq(ToSet(tail)) /\ (tail # << >> => HasRetired)
       /\ \A x \in ToSet(tail), c \in Configs, p \in Player :
            x.config.session # c[p].session
  /\ HasRetired \in BOOLEAN /\ DeferLimit \in Nat /\ MaxFaults \in Nat

VARIABLES
  config,   \* config[p]: what Prepare was given
  link,     \* link[p]: the transport of p, as it says of itself
  startup,  \* startup[p]: the AdonisStartup of p
  conn,     \* conn[p]: the AdonisConnection of p
  game,     \* game[p]: whose HELLO and READY the gameplay gate of p has
  control,  \* control[p][q]: the packets from p to q in the reliable lane
  input,    \* input[p][q]: those in the input lane
  faults    \* faults so far

vars == <<config, link, startup, conn, game, control, input, faults>>

LinkStates == {"open", "closed", "recovering", "suspended", "failed"}

(* A gameplay packet: HELLO, READY, or input. *)
Gameplay(p, kind) == [kind |-> kind, config |-> config[p]]
GameKinds == {"hello", "ready", "input"}

Init ==
  /\ config \in Configs
  /\ link = [p \in Player |-> "open"]
  /\ startup = [p \in Player |-> Idle]
  /\ conn = [p \in Player |-> [begun |-> FALSE, applied |-> FALSE,
                               failed |-> FALSE, pending |-> << >>]]
  /\ game = [p \in Player |-> [hello |-> {}, ready |-> {}, failed |-> FALSE]]
  /\ \E tail \in Tails :
       control = [p \in Player |-> [q \in Player |->
                    IF p = Host /\ q # Host THEN tail ELSE << >>]]
  /\ input = [p \in Player |-> NoInputs]
  /\ faults = 0

---------------------------------------------------------------------------
(* The transport.  Bound: no second copy of a control waits on a link.     *)

Fresh(queue, packets, i) ==
  IF i \in DOMAIN packets /\ packets[i] \notin ToSet(queue)
  THEN <<packets[i]>> ELSE << >>

(* A Tick sends at most a restart, a HELLO, a summary and a bargain.       *)
Posted(wire, p, packets) ==
  [wire EXCEPT ![p] = [q \in Player |->
     IF q = p THEN << >>
     ELSE @[q] \o Fresh(@[q], packets, 1) \o Fresh(@[q], packets, 2)
               \o Fresh(@[q], packets, 3) \o Fresh(@[q], packets, 4)]]
Put(wire, p, packets) ==
  [wire EXCEPT ![p] = [q \in Player |-> @[q] \cup packets[q]]]

Fault(kind) == kind \in Faults /\ faults < MaxFaults /\ faults' = faults + 1
Punctual(kind) == kind = "none" /\ UNCHANGED faults

(* The link of p stops being usable. *)
Disturb(p, state) ==
  /\ link[p] = "open" /\ state # "open" /\ Fault(state)
  /\ link' = [link EXCEPT ![p] = state]
  /\ UNCHANGED <<config, startup, conn, game, control, input>>

Restore(p) ==
  /\ UNCHANGED <<config, startup, conn, game, control, input, faults>>
  /\ link[p] \in {"closed", "recovering", "suspended"}
  /\ link' = [link EXCEPT ![p] = "open"]

(* The repeats of the calibration make up for a lost control of its own.   *)
LoseControl(p, q) ==
  /\ control[p][q] # << >> /\ Head(control[p][q]).kind \in Kinds
  /\ Fault("lost control")
  /\ control' = [control EXCEPT ![p][q] = Tail(@)]
  /\ UNCHANGED <<config, link, startup, conn, game, input>>

LoseInput(p, q, pkt) ==
  /\ pkt \in input[p][q] /\ Fault("lost input")
  /\ input' = [input EXCEPT ![p][q] = @ \ {pkt}]
  /\ UNCHANGED <<config, link, startup, conn, game, control>>

---------------------------------------------------------------------------
(* Pump. *)

Pumps(p) == conn[p].begun /\ ~conn[p].failed /\ startup[p].stage # "Failed"

(* The first Pump after the world is ready. *)
BeginPump(p) ==
  /\ UNCHANGED <<config, link, game, control, input, faults>>
  /\ ~conn[p].begun
  /\ conn' = [conn EXCEPT ![p].begun = TRUE]
  /\ startup' = [startup EXCEPT ![p] = Begin(@)]

(* What a handler sends, unless the transport takes nothing. *)
Posts(p, result, controls, inputs, late) ==
  /\ startup' = [startup EXCEPT ![p] = result.state]
  /\ control' = IF late = "unsent" THEN controls
                ELSE Posted(controls, p, result.controls)
  /\ input' = IF late = "unsent" THEN inputs ELSE Put(inputs, p, result.inputs)

(* The tail of the measurement ends while an echo is still under way.      *)
ProbesUnderWay(p) ==
  \E q \in Others(p) :
    \/ \E x \in input[p][q] : x.kind = "Probe" /\ x.attempt = startup[p].attempt
    \/ \E x \in input[q][p] : x.kind = "Echo" /\ x.attempt = startup[p].attempt
EndsTailEarly(p, due) == Measured(startup[p], due) /\ ProbesUnderWay(p)

PumpTick(p, env) ==
  /\ UNCHANGED <<config, link, conn, game>>
  /\ Pumps(p)
  /\ IF env.late = "none" /\ EndsTailEarly(p, env.due) THEN Fault("tail")
     ELSE Punctual(env.late) \/ Fault(env.late)
  /\ \E kept \in {Deadlines(startup[p], link[p], env.late)} :
       \E s \in {AfterRetry(p, kept)} :
         \E result \in {Tick(p, config[p], s, link[p], env)} :
           Posts(p, result, control, input, env.late)

IsStartup(pkt) == pkt.kind \in Kinds
OfThisSession(p, pkt) == pkt.config.session = config[p].session

(* A gameplay packet that arrives before the delay is applied: HELLO and   *)
(* READY wait, the tail of the retired session is dropped, and there can   *)
(* be nothing else.                                                        *)
Deferred(c, q, pkt) ==
  IF Len(c.pending) >= DeferLimit THEN [c EXCEPT !.failed = TRUE]
  ELSE [c EXCEPT !.pending = Append(@, [from |-> q, pkt |-> pkt])]

BeforeApplied(p, c, q, pkt) ==
  IF OfThisSession(p, pkt) /\ pkt.kind \in {"hello", "ready"}
  THEN Deferred(c, q, pkt)
  ELSE [c EXCEPT !.failed = @ \/ ~HasRetired \/ OfThisSession(p, pkt)]

(* Pump, before the delay is applied, reads one packet. *)
PumpReceive(p, q, pkt, controls, inputs, late) ==
  /\ UNCHANGED <<config, link, game>>
  /\ Pumps(p) /\ ~conn[p].applied
  /\ IF IsStartup(pkt)
     THEN /\ Punctual(late) \/ Fault(late)
          /\ \E now \in {ObserveClock(startup[p], late)} :
               \E result \in {Receive(p, config[p], now, link[p], q, pkt)} :
                 Posts(p, result, controls, inputs, "none")
          /\ UNCHANGED conn
     ELSE /\ Punctual(late)
          /\ conn' = [conn EXCEPT ![p] = BeforeApplied(p, @, q, pkt)]
          /\ control' = controls /\ input' = inputs
          /\ UNCHANGED startup

(* The title applies the committed delay. *)
Apply(p) ==
  /\ UNCHANGED <<config, link, startup, game, control, input, faults>>
  /\ Pumps(p) /\ startup[p].stage = "Committed" /\ ~conn[p].applied
  /\ conn' = [conn EXCEPT ![p].applied = TRUE]

---------------------------------------------------------------------------
(* The gameplay channel after that, reduced to its gate: HELLO until every *)
(* peer said it, then READY, then input.  SessionChannel has the rest.     *)

GameRuns(p) == conn[p].applied /\ Pumps(p) /\ ~game[p].failed
CanStart(p) == game[p].ready = Player

GameReceive(p, q, pkt) ==
  IF ~OfThisSession(p, pkt) THEN game
  ELSE CASE pkt.kind = "hello" -> [game EXCEPT ![p].hello = @ \cup {q}]
         [] pkt.kind = "ready" /\ q \in game[p].hello ->
              [game EXCEPT ![p].ready = @ \cup {q}]
         [] pkt.kind = "ready" /\ q \notin game[p].hello ->
              [game EXCEPT ![p].failed = TRUE]
         [] OTHER -> game

(* Poll hands over what waited first. *)
PollPending(p) ==
  /\ UNCHANGED <<config, link, startup, control, input, faults>>
  /\ GameRuns(p) /\ conn[p].pending # << >>
  /\ \E first \in {Head(conn[p].pending)} :
       game' = GameReceive(p, first.from, first.pkt)
  /\ conn' = [conn EXCEPT ![p].pending = Tail(@)]

(* After that it hands over the wire, but still serves the calibration.    *)
PollWire(p, q, pkt, controls, inputs) ==
  /\ UNCHANGED <<config, link, faults>>
  /\ GameRuns(p) /\ conn[p].pending = << >>
  /\ IF IsStartup(pkt)
     THEN /\ \E result \in {Receive(p, config[p], startup[p], link[p], q, pkt)} :
               /\ Posts(p, result, controls, inputs, "none")
               /\ conn' = [conn EXCEPT ![p].failed = result.state.stage = "Failed"]
          /\ UNCHANGED game
     ELSE /\ game' = GameReceive(p, q, pkt)
          /\ control' = controls /\ input' = inputs
          /\ UNCHANGED <<startup, conn>>

(* HELLO is repeated, READY with it once every peer said HELLO. *)
LocalReady(p) == Others(p) \subseteq game[p].hello
SendSession(p) ==
  /\ UNCHANGED <<config, link, startup, conn, input, faults>>
  /\ GameRuns(p) /\ ~CanStart(p)
  /\ control' = Posted(control, p,
       <<Gameplay(p, "hello")>>
         \o IF LocalReady(p) THEN <<Gameplay(p, "ready")>> ELSE << >>)
  /\ game' = IF LocalReady(p) THEN [game EXCEPT ![p].ready = @ \cup {p}] ELSE game
  /\ <<control', game'>> # <<control, game>>

SendInput(p) ==
  /\ UNCHANGED <<config, link, startup, conn, game, control, faults>>
  /\ GameRuns(p) /\ CanStart(p)
  /\ input' = Put(input, p, [q \in Player |->
                IF q = p THEN {} ELSE {Gameplay(p, "input")}])
  /\ input' # input

---------------------------------------------------------------------------
ReceiveControl(p, q, late) ==
  /\ control[q][p] # << >>
  /\ PumpReceive(p, q, Head(control[q][p]),
                 [control EXCEPT ![q][p] = Tail(@)], input, late)
ReceiveInput(p, q, late) ==
  \E pkt \in input[q][p] :
    PumpReceive(p, q, pkt, control, [input EXCEPT ![q][p] = @ \ {pkt}], late)
PollControl(p, q) ==
  /\ control[q][p] # << >>
  /\ PollWire(p, q, Head(control[q][p]),
              [control EXCEPT ![q][p] = Tail(@)], input)
PollInput(p, q) ==
  \E pkt \in input[q][p] :
    PollWire(p, q, pkt, control, [input EXCEPT ![q][p] = @ \ {pkt}])

AnyRtt(p) == CHOOSE r \in Rtts[p] : TRUE
AllTimers == {"hello", "control", "probe"}

(* How a Tick may find the world; a percentile only when it is measured.   *)
(* Bound: one timer is due, or all are.                                    *)
Environments(p) ==
  [late : (Lateness \cap Faults) \cup {"none"}, due : {AllTimers} \cup {{timer} : timer \in AllTimers},
   p95 : IF Measured(startup[p], AllTimers) THEN Rtts[p] ELSE {AnyRtt(p)}]
OnTime(p) == [late |-> "none", due |-> AllTimers, p95 |-> AnyRtt(p)]

Next ==
  \E p \in Player :
    \/ BeginPump(p) \/ Apply(p) \/ PollPending(p) \/ SendSession(p) \/ SendInput(p)
    \/ Restore(p)
    \/ \E state \in LinkStates : Disturb(p, state)
    \/ \E env \in Environments(p) : PumpTick(p, env)
    \/ \E q \in Others(p) :
         \/ \E late \in {"none", "gap"} :
              ReceiveControl(p, q, late) \/ ReceiveInput(p, q, late)
         \/ PollControl(p, q) \/ PollInput(p, q)
         \/ LoseControl(q, p)
         \/ \E pkt \in input[q][p] : LoseInput(q, p, pkt)

Spec == Init /\ [][Next]_vars
---------------------------------------------------------------------------
(***************************************************************************)
(* Fairness.  Browsers run the pump of every title and deliver what is not *)
(* lost; a link that was disturbed comes back; timers fall due.  The steps *)
(* of Once happen a bounded number of times.                               *)
(***************************************************************************)
Once(p) == BeginPump(p) \/ Restore(p) \/ Apply(p) \/ PollPending(p)

Fairness ==
  /\ WF_vars(\E p \in Player : Once(p))
  /\ \A p \in Player :
       /\ WF_vars(PumpTick(p, OnTime(p)))
       /\ WF_vars(SendSession(p) \/ SendInput(p))
       /\ \A q \in Others(p) :
            /\ WF_vars(ReceiveControl(p, q, "none") \/ PollControl(p, q))
            /\ WF_vars(ReceiveInput(p, q, "none") \/ PollInput(p, q))

FairSpec == Spec /\ Fairness

---------------------------------------------------------------------------
(* Properties. *)

Committed(p) == startup[p].stage = "Committed"
Clients == Player \ {Host}

(* Nobody is committed alone: the host only when every client has accepted *)
(* in this very attempt, a client only when the host is, and then they     *)
(* have the same configuration, reports and delay.  No packet of an        *)
(* attempt that was given up can do that (AdonisStartup.hpp:14-15).        *)
CommitIsUnanimous ==
  \A p \in Clients :
    /\ Committed(Host) => /\ startup[p].attempt = startup[Host].attempt
                         /\ startup[p].accepted
    /\ Committed(p) => /\ Committed(Host)
                      /\ config[p] = config[Host]
                      /\ startup[p].reports = startup[Host].reports
                      /\ startup[p].choice = startup[Host].choice

(* A committed delay and its prediction together are the first whole       *)
(* number of frames that contains half of the worst round trip; an         *)
(* automatic delay leaves a frame queued.                                  *)
ChoiceCoversThePath ==
  \A p \in Player :
    Committed(p) =>
      LET c == startup[p].choice
          half == Max({startup[p].reports[q] : q \in Player}) \div 2
      IN  /\ c.full * Second >= half * 60
          /\ c.full > 1 => (c.full - 1) * Second < half * 60
          /\ c.delay \in 0 .. MaxDelay
          /\ config[p].requested = Automatic =>
               c.delay + c.prediction = c.full /\ c.delay >= 1

(* Players configured alike never fail each other's calibration, whatever  *)
(* is lost, late or left over from the retired session; the only failure   *)
(* of a connection is more gameplay HELLOs than it can hold; and the       *)
(* gameplay channel behind it is served in order.                          *)
NoSpuriousFailure ==
  (\A p, q \in Player : config[p] = config[q]) =>
    \A p \in Player :
      /\ startup[p].stage # "Failed" /\ ~game[p].failed
      /\ conn[p].failed => Len(conn[p].pending) = DeferLimit

(* Calibration never hangs: the game starts everywhere, or some player is  *)
(* told that it will not.  A retry that was asked for is answered, unless  *)
(* the host had committed; the commit of the host is repeated until every  *)
(* client that waits for it has heard it.                                  *)
AllStarted == \A p \in Player : conn[p].applied /\ CanStart(p)
SomebodyStopped ==
  \E p \in Player : \/ startup[p].stage \in {"Unavailable", "Failed"}
                    \/ conn[p].failed
                    \/ Committed(Host) /\ startup[p].stage = "Retrying"
CalibrationEnds == <>(AllStarted \/ SomebodyStopped)
=============================================================================
