---------------------------- MODULE AdonisStartup ----------------------------
(***************************************************************************)
(* The calibration before frame zero                                       *)
(* (src/include/eagler/netplay/AdonisStartup.hpp): the players measure     *)
(* their links, publish the result, and the host, player 0, has the delay  *)
(* they all compute from it accepted and committed.  A measurement that    *)
(* fails is repeated as a new attempt, which only the host begins.         *)
(*                                                                         *)
(* This module holds the handlers, as functions from the state of one      *)
(* player to its next state and what it sends; AdonisConnection composes   *)
(* them with the transport.  A timer is due or not whenever Tick runs; a   *)
(* deadline that has passed is the argument `late'.  A report is reduced   *)
(* to its 95th percentile.  The reasons of a retry are for display and     *)
(* are left out.                                                           *)
(***************************************************************************)
EXTENDS Integers, FiniteSets, SequencesExt

CONSTANTS
  Player,
  Host,        \* player 0
  Warmup,      \* the slots of the first probes, which are not counted
  Samples,     \* the slots that are counted
  Needed,      \* counted echoes each link must have
  MaxRetries,
  Rtts,        \* bound: Rtts[p] are the percentiles the worst link of p may
               \* show, in microseconds
  None         \* no report, no choice

Second == 1000000  \* in microseconds

ASSUME StartupAssumption ==
  /\ IsFiniteSet(Player) /\ Host \in Player
  /\ Warmup \in Nat \ {0} /\ Samples \in Nat \ {0}
  /\ Needed \in 1 .. Samples /\ MaxRetries \in Nat
  /\ \A p \in Player : /\ Rtts[p] \subseteq 1 .. Second /\ Rtts[p] # {}
                        /\ None \notin Rtts[p]

Others(p) == Player \ {p}
ProbeCount == Warmup + Samples - 1
Automatic == -1
MaxDelay == 9

(* What Begin takes; the reserve of a player that does not predict is 0.   *)
IsSetup(c) ==
  /\ c.mode \in {"Delay", "Hybrid"} /\ c.reserve \in 0 .. 2
  /\ c.requested \in {Automatic} \cup 0 .. MaxDelay

Stages == {"Idle", "WaitingPeer", "Measuring", "Negotiating", "Committed",
           "Failed", "Retrying", "Unavailable"}
Retries == {"RetryRequest", "Restart", "Stop"}
Bargains == {"Proposal", "Accept", "Commit", "CommitAck"}
Kinds == {"Hello", "Probe", "Echo", "Summary"} \cup Bargains \cup Retries

(* What can be late when a player runs: a deadline, its own callback, or   *)
(* the transport, which takes none of the packets of this Tick.            *)
Lateness == {"none", "startup", "peer", "measurement", "gap", "resends",
             "unsent"}

---------------------------------------------------------------------------
(* The choice of the delay. *)

(* Mutant: the division rounds down. *)
FramesContainingFloor(us) == Max({1, (us * 60) \div Second})

(* The first 60 Hz frame boundary that contains us microseconds. *)
FramesContaining(us) == IF us = 0 THEN 1 ELSE (us * 60 + Second - 1) \div Second

Choose(p95, c) ==
  LET full       == FramesContaining(p95 \div 2)
      available  == full - (IF c.requested = Automatic THEN 1 ELSE 0)
      prediction == IF c.mode = "Hybrid" THEN Min({available, c.reserve, 2})
                                         ELSE 0
  IN  [full       |-> full,
       prediction |-> prediction,
       delay      |-> IF c.requested = Automatic THEN full - prediction
                                                 ELSE c.requested]

(* The worst report of all. *)
WorstReport(s) == Max({s.reports[q] : q \in Player})
ChooseAll(s, c) == Choose(WorstReport(s), c)

---------------------------------------------------------------------------
(* The state of a player. *)

(* Mutant: a new attempt keeps the reports of the last one. *)
ResetAttemptKeepingReports(s, attempt) ==
  [s EXCEPT !.attempt = attempt, !.stage = "WaitingPeer", !.probes = 0,
            !.hello = {}, !.acceptedBy = {}, !.ackedBy = {},
            !.haveLocal = FALSE, !.accepted = FALSE, !.choice = None,
            !.sent = [q \in Player |-> {}], !.rtt = [q \in Player |-> {}]]

(* Mutant: a new attempt keeps who had accepted the last one. *)
ResetAttemptKeepingAccepts(s, attempt) ==
  [s EXCEPT !.attempt = attempt, !.stage = "WaitingPeer", !.probes = 0,
            !.hello = {}, !.ackedBy = {},
            !.haveLocal = FALSE, !.accepted = FALSE, !.choice = None,
            !.reports = [q \in Player |-> None],
            !.sent = [q \in Player |-> {}], !.rtt = [q \in Player |-> {}]]

ResetAttempt(s, attempt) ==
  [s EXCEPT !.attempt = attempt, !.stage = "WaitingPeer", !.probes = 0,
            !.hello = {}, !.acceptedBy = {}, !.ackedBy = {},
            !.haveLocal = FALSE, !.accepted = FALSE, !.choice = None,
            !.reports = [q \in Player |-> None],
            !.sent = [q \in Player |-> {}], !.rtt = [q \in Player |-> {}]]

(* The object before Begin. *)
Idle ==
  [stage      |-> "Idle", attempt |-> 0, probes |-> 0,
   hello      |-> {},                        \* peerHelloMask_
   reports    |-> [q \in Player |-> None],   \* reports_, summaryMask_
   haveLocal  |-> FALSE,
   accepted   |-> FALSE,
   acceptedBy |-> {}, ackedBy |-> {},        \* acceptedMask_, commitAckMask_
   sent       |-> [q \in Player |-> {}],     \* the slots of sentAt_
   rtt        |-> [q \in Player |-> {}],     \* the slots of rtt_
   choice     |-> None,
   resends    |-> TRUE]                      \* less than 5 s since the commit

Begin(s) == [Idle EXCEPT !.stage = "WaitingPeer"]

Fail(s) == [s EXCEPT !.stage = "Failed"]
Retry(s) ==
  IF s.stage \in {"Committed", "Unavailable", "Retrying"} THEN s
  ELSE [s EXCEPT !.stage = "Retrying"]
GiveUp(s) == [s EXCEPT !.stage = "Unavailable"]

AllHello(p, s) == Others(p) \subseteq s.hello
AllSummaries(s) == \A q \in Player : s.reports[q] # None
AllAccepted(p, s) == Others(p) \subseteq s.acceptedBy

---------------------------------------------------------------------------
(* The packets. *)

(* A field that the kind has no use for is zero, or none. *)
Numbered(c, s, kind, slot) ==
  [kind |-> kind, config |-> c, attempt |-> s.attempt, slot |-> slot,
   p95 |-> None, choice |-> None]
Control(p, c, s, kind) ==
  [kind |-> kind, config |-> c, attempt |-> s.attempt, slot |-> 0,
   p95    |-> IF kind = "Summary" THEN s.reports[p] ELSE None,
   choice |-> IF kind \in Bargains THEN s.choice ELSE None]

(* What a handler leaves: the next state, the controls broadcast in the    *)
(* reliable lane, and what goes to each player in the input lane.          *)
Sends(s, controls, inputs) ==
  [state |-> s, controls |-> controls, inputs |-> inputs]
NoInputs == [q \in Player |-> {}]
Quiet(s) == Sends(s, << >>, NoInputs)

---------------------------------------------------------------------------
(* Tick. *)

(* ObserveClock: a callback that came half a second late. *)
ObserveClock(s, late) ==
  IF late = "gap" /\ s.stage = "Measuring" /\ s.probes > 0 THEN Retry(s) ELSE s

ConnectionLost(s, link) == link = "failed" /\ s.stage # "Committed"
StartupIsOver(s, late) ==
  late = "startup" /\ s.stage \notin {"Committed", "Unavailable"}
PeerIsMissing(s, late) == late = "peer" /\ s.stage = "WaitingPeer"

Deadlines(s, link, late) ==
  IF ConnectionLost(s, link) \/ StartupIsOver(s, late) \/ PeerIsMissing(s, late)
  THEN GiveUp(s)
  ELSE IF \/ late = "gap" /\ s.stage = "Measuring" /\ s.probes > 0
          \/ late = "measurement" /\ s.stage \in {"Measuring", "Negotiating"}
          \/ link \notin {"open", "failed"} /\ s.stage = "Measuring" /\ s.probes > 0
  THEN Retry(s)
  ELSE IF late = "resends" /\ s.stage = "Committed"
  THEN [s EXCEPT !.resends = FALSE]
  ELSE s

(* The host turns a retry into the next attempt; a client asks it to. *)
AfterRetry(p, s) ==
  IF s.stage # "Retrying" \/ p # Host THEN s
  ELSE IF s.attempt >= MaxRetries THEN GiveUp(s)
  ELSE ResetAttempt(s, s.attempt + 1)

(* One probe per Tick to every other player, the numbered slot with it.    *)
Probing(s, due) ==
  s.stage = "Measuring" /\ s.probes < ProbeCount /\ "probe" \in due
AfterProbe(p, s) ==
  [s EXCEPT !.probes = @ + 1,
            !.sent = [q \in Player |->
                        IF q = p THEN {} ELSE @[q] \cup {s.probes + 1}]]
Probes(p, c, s) ==
  [q \in Player |-> IF q = p THEN {} ELSE {Numbered(c, s, "Probe", s.probes + 1)}]

(* Every link must have its samples. *)
LinksUsable(p, s) == \A q \in Others(p) : Cardinality(s.rtt[q]) >= Needed

(* The end of the tail after the last probe. *)
Measured(s, due) ==
  s.stage = "Measuring" /\ s.probes = ProbeCount /\ "probe" \in due
Publish(p, s, p95) ==
  [s EXCEPT !.reports[p] = p95, !.haveLocal = TRUE, !.stage = "Negotiating"]

(* Summaries, the proposal and the commit of the host, the accept of a     *)
(* client.  The host is committed once its Commit was taken.               *)
Negotiate(p, c, s, sends) ==
  LET chosen == [s EXCEPT !.choice = ChooseAll(s, c)]
      summary == Control(p, c, s, "Summary")
  IN  IF ~AllSummaries(s) THEN Sends(s, <<summary>>, NoInputs)
      ELSE IF chosen.choice.delay > MaxDelay
      THEN Sends(GiveUp(chosen), <<summary>>, NoInputs)
      ELSE CASE p = Host /\ ~AllAccepted(p, s) ->
                  Sends(chosen, <<summary, Control(p, c, chosen, "Proposal")>>,
                        NoInputs)
             [] p = Host /\ AllAccepted(p, s) ->
                  Sends([chosen EXCEPT !.stage = IF sends THEN "Committed" ELSE @],
                        <<summary, Control(p, c, chosen, "Commit")>>, NoInputs)
             [] p # Host /\ s.accepted ->
                  Sends(chosen, <<summary, Control(p, c, chosen, "Accept")>>,
                        NoInputs)
             [] OTHER -> Sends(chosen, <<summary>>, NoInputs)

(* Mutant: only HELLO tells of a new attempt. *)
GreetingsWithoutRestart(p, c, s, link, due) ==
  IF "hello" \notin due \/ link = "suspended" THEN << >>
  ELSE <<Control(p, c, s, "Hello")>>

(* HELLO, and before it the Restart of an attempt nobody else may know of. *)
Greetings(p, c, s, link, due) ==
  IF "hello" \notin due THEN << >>
  ELSE (IF p = Host /\ s.attempt > 0 /\ s.stage = "WaitingPeer"
        THEN <<Control(p, c, s, "Restart")>> ELSE << >>)
       \o IF link = "suspended" THEN << >> ELSE <<Control(p, c, s, "Hello")>>

(* Tick while the calibration goes on and its link is open. *)
Calibrate(p, c, s, link, env) ==
  LET greetings == Greetings(p, c, s, link, env.due)
      waited    == IF s.stage = "WaitingPeer" /\ AllHello(p, s)
                   THEN [s EXCEPT !.stage = "Measuring"] ELSE s
      After(result) == [result EXCEPT !.controls = greetings \o @]
      sends == env.late # "unsent"
  IN  IF link # "open" THEN Sends(s, greetings, NoInputs)
      ELSE IF Probing(s, env.due)
      THEN Sends(IF sends THEN AfterProbe(p, s) ELSE [s EXCEPT !.probes = @ + 1],
                 greetings, Probes(p, c, s))
      ELSE IF Measured(s, env.due)
      THEN IF LinksUsable(p, s)
           THEN After(Negotiate(p, c, Publish(p, s, env.p95), sends))
           ELSE Sends(Retry(s), greetings, NoInputs)
      ELSE IF s.haveLocal /\ "control" \in env.due
      THEN After(Negotiate(p, c, s, sends))
      ELSE Sends(waited, greetings, NoInputs)

RepeatsCommit(p, s, due) ==
  p = Host /\ ~(Others(p) \subseteq s.ackedBy) /\ s.resends /\ "control" \in due

Repeat(p, c, s, kind, due) ==
  IF "control" \in due THEN Sends(s, <<Control(p, c, s, kind)>>, NoInputs)
                       ELSE Quiet(s)

(* Tick, from the state the deadlines and a retry leave. *)
Tick(p, c, s, link, env) ==
  IF link \in {"closed", "failed"} THEN Quiet(s)
  ELSE CASE s.stage = "Unavailable" -> Repeat(p, c, s, "Stop", env.due)
         [] s.stage = "Retrying" -> Repeat(p, c, s, "RetryRequest", env.due)
         [] s.stage = "Committed" ->
              IF RepeatsCommit(p, s, env.due)
              THEN Sends(s, <<Control(p, c, s, "Commit")>>, NoInputs)
              ELSE Quiet(s)
         [] OTHER -> Calibrate(p, c, s, link, env)

---------------------------------------------------------------------------
(* Receive: one packet from player q, from the state the clock leaves. *)

ReceiveRetry(p, s, pkt) ==
  CASE pkt.kind = "Stop" ->
         IF pkt.attempt < s.attempt \/ s.stage = "Committed" THEN s ELSE GiveUp(s)
    [] pkt.kind = "Restart" ->
         IF pkt.attempt > s.attempt /\ s.stage \notin {"Committed", "Unavailable"}
         THEN ResetAttempt(s, pkt.attempt) ELSE s
    [] pkt.kind = "RetryRequest" ->
         IF p = Host /\ pkt.attempt = s.attempt THEN Retry(s) ELSE s

OfThisAttempt(s, pkt) ==
  pkt.attempt = s.attempt /\ s.stage \notin {"Unavailable", "Retrying"}

(* The first echo of a probe that was sent and is counted, before the      *)
(* statistics are frozen.                                                  *)
ReceiveEcho(s, q, pkt) ==
  IF ~s.haveLocal /\ pkt.slot >= Warmup /\ pkt.slot \in s.sent[q]
  THEN [s EXCEPT !.rtt[q] = @ \cup {pkt.slot}]
  ELSE s

ReceiveSummary(s, q, pkt) ==
  IF s.reports[q] \notin {None, pkt.p95} THEN Fail(s)
  ELSE [s EXCEPT !.reports[q] = pkt.p95]

(* Proposals and commits count from the host, accepts and acknowledgements *)
(* at the host.                                                            *)
Bargain(p, c, s, q, kind) ==
  CASE p # Host /\ q # Host /\ kind \in {"Accept", "CommitAck"} -> Quiet(s)
    [] p # Host /\ q = Host /\ kind = "Proposal" ->
         Sends([s EXCEPT !.accepted = TRUE], <<Control(p, c, s, "Accept")>>,
               NoInputs)
    [] p = Host /\ kind = "Accept" ->
         Quiet([s EXCEPT !.acceptedBy = @ \cup {q}])
    [] p # Host /\ q = Host /\ kind = "Commit" /\ s.accepted ->
         Sends([s EXCEPT !.stage = "Committed"],
               <<Control(p, c, s, "CommitAck")>>, NoInputs)
    [] p = Host /\ kind = "CommitAck" /\ s.stage = "Committed" ->
         Quiet([s EXCEPT !.ackedBy = @ \cup {q}])
    [] OTHER -> Quiet(Fail(s))

Receive(p, c, s, link, q, pkt) ==
  IF pkt.config.session # c.session THEN Quiet(s)
  ELSE IF pkt.config # c THEN Quiet(Fail(s))
  ELSE IF pkt.kind \in Retries THEN Quiet(ReceiveRetry(p, s, pkt))
  ELSE IF ~OfThisAttempt(s, pkt) THEN Quiet(s)
  ELSE CASE pkt.kind = "Hello" -> Quiet([s EXCEPT !.hello = @ \cup {q}])
         [] pkt.kind \in {"Probe", "Echo"} /\ link = "suspended" -> Quiet(Retry(s))
         [] pkt.kind = "Probe" /\ link # "suspended" ->
              Sends(s, << >>, [NoInputs EXCEPT ![q] =
                                 {Numbered(c, s, "Echo", pkt.slot)}])
         [] pkt.kind = "Echo" /\ link # "suspended" -> Quiet(ReceiveEcho(s, q, pkt))
         [] pkt.kind = "Summary" -> Quiet(ReceiveSummary(s, q, pkt))
         [] OTHER ->
              IF ~s.haveLocal \/ ~AllSummaries(s) THEN Quiet(s)
              ELSE IF \/ pkt.choice # ChooseAll(s, c)
                      \/ ChooseAll(s, c).delay > MaxDelay THEN Quiet(Fail(s))
              ELSE Bargain(p, c, [s EXCEPT !.choice = pkt.choice], q, pkt.kind)
=============================================================================
