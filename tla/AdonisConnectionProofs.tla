---------------------- MODULE AdonisConnectionProofs ----------------------
(***************************************************************************)
(* The calibration of Adonis, for every number of players, configuration,  *)
(* link, number of probes and of attempts, and whatever is lost, late or   *)
(* left over: nobody commits alone or to another delay, the delay covers   *)
(* the path, and players that are configured alike never fail each other.  *)
(*                                                                         *)
(* The three follow from one inductive invariant, CInv, in two parts.      *)
(* PlayerFacts is what the players know of each other: what each published *)
(* in each attempt is in one log, which every report that arrived agrees   *)
(* with; an accept the host has counted is still standing; no attempt is   *)
(* ahead of the host's.  WireFacts is what a packet still under way says   *)
(* of its sender.  GInv adds, for players that are configured alike, the   *)
(* order in which the game behind the calibration is greeted.              *)
(*                                                                         *)
(* Both are stated of explicit states, not of the variables, so that a     *)
(* handler that does one thing after another is followed step by step.     *)
(***************************************************************************)
EXTENDS AdonisConnection, SequenceTheorems, WellFoundedInduction, TLAPS

---------------------------------------------------------------------------
(* Types. *)

Report == UNION {Rtts[p] : p \in Player}
Choice == [full : Nat, prediction : Nat, delay : Int]
Startups ==
  [stage : Stages, attempt : 0 .. MaxRetries, probes : Nat,
   hello : SUBSET Player, reports : [Player -> Report \cup {None}],
   haveLocal : BOOLEAN, accepted : BOOLEAN,
   acceptedBy : SUBSET Player, ackedBy : SUBSET Player,
   sent : [Player -> SUBSET Nat], rtt : [Player -> SUBSET Nat],
   choice : Choice \cup {None}, resends : BOOLEAN]
Setups == UNION {{c[p] : p \in Player} : c \in Configs}
CalibrationPackets ==
  [kind : Kinds, config : Setups, attempt : 0 .. MaxRetries, slot : Nat,
   p95 : Report \cup {None}, choice : Choice \cup {None}]
GamePackets == [kind : GameKinds, config : Setups]
Leftovers == UNION {ToSet(tail) : tail \in Tails}
Packets == CalibrationPackets \cup GamePackets \cup Leftovers

---------------------------------------------------------------------------
(* The parts of the invariant. *)

(* What a player knows of itself. *)
OwnFacts(p, c, s) ==
  /\ s.haveLocal <=> s.reports[p] # None
  /\ s.stage \in {"Idle", "WaitingPeer", "Measuring"} => ~s.haveLocal
  /\ s.stage = "Committed" => /\ AllSummaries(s) /\ s.choice = ChooseAll(s, c)
                              /\ s.choice.delay <= MaxDelay

(* log[p][a]: the report p published in its attempt a.  The model has no   *)
(* such variable; the invariant says that there is one that fits.          *)
Logs == [Player -> [0 .. MaxRetries -> Report \cup {None}]]

KeepsLog(log, p, s) ==
  /\ log[p][s.attempt] = s.reports[p]
  /\ \A a \in 0 .. MaxRetries : a > s.attempt => log[p][a] = None

Recorded(log, s) ==
  \A q \in Player : s.reports[q] # None => s.reports[q] = log[q][s.attempt]

(* The choice of the players that are configured as c, in attempt a.       *)
Agreed(log, c, a, choice) ==
  /\ \A q \in Player : log[q][a] # None
  /\ choice = Choose(Max({log[q][a] : q \in Player}), c)
  /\ choice.delay <= MaxDelay

(* The client has accepted what the host, in state h, proposes. *)
HasAccepted(h, s) == s.accepted /\ s.attempt = h.attempt

CommitIsHosts(h, s) ==
  s.stage = "Committed" => h.stage = "Committed" /\ s.attempt = h.attempt

PlayerFacts(log, cf, st) ==
  /\ \A p \in Player : /\ OwnFacts(p, cf[p], st[p])
                        /\ KeepsLog(log, p, st[p]) /\ Recorded(log, st[p])
  /\ \A p \in Player : st[p].attempt <= st[Host].attempt
  /\ \A q \in st[Host].acceptedBy :
       q # Host /\ cf[q] = cf[Host] /\ HasAccepted(st[Host], st[q])
  /\ st[Host].stage = "Committed" => AllAccepted(Host, st[Host])
  /\ \A p \in Player : CommitIsHosts(st[Host], st[p])

(* What a packet of q says of q, in state s, and of the host, in state h.  *)
Truthful(log, c, h, s, q, x) ==
  /\ x \in CalibrationPackets /\ x.attempt <= s.attempt
  /\ x.kind \in {"Proposal", "Commit"} => q = Host
  /\ x.kind \in {"Accept", "CommitAck"} => q # Host
  /\ x.kind = "Summary" => x.p95 = log[q][x.attempt] /\ x.p95 # None
  /\ x.kind \in Bargains => Agreed(log, c, x.attempt, x.choice)
  /\ x.kind = "Accept" /\ x.attempt = s.attempt => s.accepted
  /\ x.kind \in {"Commit", "CommitAck"} =>
       h.stage = "Committed" /\ x.attempt = h.attempt

(* What is left of a retired session. *)
Stale(cf, x) ==
  HasRetired /\ \A p \in Player : x.config.session # cf[p].session
Genuine(log, cf, st, q, x) ==
  /\ x.config = cf[q]
  /\ IF x.kind \in Kinds THEN Truthful(log, cf[q], st[Host], st[q], q, x)
     ELSE x.kind \in {"hello", "ready"}

(* A packet of the calibration that q sends. *)
Told(log, cf, st, q, x) == x.kind \in Kinds /\ Genuine(log, cf, st, q, x)

WireFacts(log, cf, st, ctl) ==
  \A q, r \in Player :
    \A x \in ToSet(ctl[q][r]) : Stale(cf, x) \/ Genuine(log, cf, st, q, x)

Sound(log, cf, st, ctl) ==
  /\ log \in Logs /\ cf \in Configs
  /\ st \in [Player -> Startups]
  /\ ctl \in [Player -> [Player -> Seq(Packets)]]
  /\ PlayerFacts(log, cf, st)
  /\ WireFacts(log, cf, st, ctl)

---------------------------------------------------------------------------
(* The choice of the delay. *)

LEMMA SecondFacts == Second \in Nat
BY SMT DEF Second

LEMMA ReportFacts ==
  /\ Report \subseteq 1 .. Second /\ None \notin Report
  /\ \A p \in Player : Rtts[p] \subseteq Report
  /\ Host \in Player
BY StartupAssumption DEF Report

LEMMA GreatestElement ==
  ASSUME NEW n \in Nat, NEW S \in SUBSET (1 .. n), S # {}
  PROVE  Max(S) \in S /\ \A y \in S : Max(S) >= y
<1> DEFINE T == {n - x : x \in S}
<1>1. T \subseteq Nat /\ T # {}
  OBVIOUS
<1>2. PICK t \in T : \A u \in T : ~ (<<u, t>> \in OpToRel(<, Nat))
  BY <1>1, WFMin, NatLessThanWellFounded
<1>3. PICK x \in S : t = n - x
  BY <1>2
<1>4. ASSUME NEW y \in S PROVE x >= y
  <2>1. x \in Nat /\ y \in Nat /\ n - y \in Nat
    OBVIOUS
  <2>2. n - y \in T
    OBVIOUS
  <2>3. t \in Nat
    BY <1>1
  <2>4. ~ (n - y < t)
    BY <1>2, <2>1, <2>2, <2>3 DEF OpToRel
  <2> HIDE DEF T
  <2> QED
    BY <1>3, <2>1, <2>3, <2>4
<1>5. \E z \in S : \A y \in S : z >= y
  BY <1>4
<1> QED
  BY <1>5 DEF Max

LEMMA WorstFacts ==
  ASSUME NEW s \in Startups, AllSummaries(s)
  PROVE  /\ WorstReport(s) \in 1 .. Second
         /\ WorstReport(s) = Max({s.reports[q] : q \in Player})
<1>1. s.reports \in [Player -> Report \cup {None}]
  BY DEF Startups
<1>2. \A q \in Player : s.reports[q] \in 1 .. Second
  BY <1>1, ReportFacts DEF AllSummaries
<1>3. {s.reports[q] : q \in Player} # {}
  BY ReportFacts
<1>4. {s.reports[q] : q \in Player} \in SUBSET (1 .. Second)
  BY <1>2
<1> QED
  BY <1>3, <1>4, SecondFacts, GreatestElement DEF WorstReport

LEMMA WholeFrames ==
  ASSUME NEW us \in Nat
  PROVE  LET n == FramesContaining(us)
         IN  /\ n \in Nat /\ n >= 1 /\ n * Second >= us * 60
             /\ n > 1 => (n - 1) * Second < us * 60
<1>1. us = 0 => FramesContaining(us) = 1
  BY DEF FramesContaining
<1>2. us # 0 => FramesContaining(us) = (us * 60 + Second - 1) \div Second
  BY DEF FramesContaining
<1>3. ASSUME us # 0
      PROVE  LET n == (us * 60 + Second - 1) \div Second
             IN  /\ n \in Nat /\ n >= 1 /\ n * Second >= us * 60
                 /\ n > 1 => (n - 1) * Second < us * 60
  BY <1>3, SMTT(30) DEF Second
<1>4. us = 0 => 1 * Second >= us * 60
  BY SMT DEF Second
<1> QED
  BY <1>1, <1>2, <1>3, <1>4

(* A choice covers half of the round trip with the fewest whole frames.    *)
Covers(x, c, p95) ==
  /\ x \in Choice /\ x.delay >= 0
  /\ x.full * Second >= (p95 \div 2) * 60
  /\ x.full > 1 => (x.full - 1) * Second < (p95 \div 2) * 60
  /\ c.requested = Automatic => x.delay + x.prediction = x.full /\ x.delay >= 1

LEMMA LeastOfThree ==
  ASSUME NEW a \in Nat, NEW b \in Nat
  PROVE  Min({a, b, 2}) \in Nat /\ Min({a, b, 2}) <= a
<1>1. \E x \in {a, b, 2} : \A y \in {a, b, 2} : x =< y
  <2>1. CASE a <= b /\ a <= 2
    BY <2>1
  <2>2. CASE b <= a /\ b <= 2
    BY <2>2
  <2>3. CASE 2 <= a /\ 2 <= b
    BY <2>3
  <2> QED
    BY <2>1, <2>2, <2>3
<1>2. Min({a, b, 2}) \in {a, b, 2} /\ \A y \in {a, b, 2} : Min({a, b, 2}) =< y
  BY <1>1 DEF Min
<1> QED
  BY <1>2

LEMMA ChoiceFacts ==
  ASSUME NEW p95 \in 1 .. Second, NEW c, IsSetup(c)
  PROVE  Covers(Choose(p95, c), c, p95)
<1> DEFINE full == FramesContaining(p95 \div 2)
           available == full - (IF c.requested = Automatic THEN 1 ELSE 0)
           prediction == IF c.mode = "Hybrid" THEN Min({available, c.reserve, 2})
                                              ELSE 0
           delay == IF c.requested = Automatic THEN full - prediction
                                               ELSE c.requested
<1>1. p95 \div 2 \in Nat
  BY SecondFacts
<1>2. /\ full \in Nat /\ full >= 1 /\ full * Second >= (p95 \div 2) * 60
      /\ full > 1 => (full - 1) * Second < (p95 \div 2) * 60
  BY <1>1, WholeFrames
<1> HIDE DEF full
<1>3. available \in Nat /\ c.reserve \in Nat
      /\ (c.requested = Automatic => available = full - 1)
  BY <1>2 DEF IsSetup
<1> HIDE DEF available
<1>4. prediction \in Nat /\ prediction <= available
  BY <1>3, LeastOfThree
<1> HIDE DEF prediction
<1>5. /\ delay \in Int /\ delay >= 0
      /\ c.requested = Automatic => delay + prediction = full /\ delay >= 1
  BY <1>2, <1>3, <1>4 DEF IsSetup, Automatic
<1> HIDE DEF delay
<1>6. Choose(p95, c) = [full |-> full, prediction |-> prediction, delay |-> delay]
  BY DEF Choose, full, available, prediction, delay
<1>7. Choose(p95, c) \in Choice
  BY <1>2, <1>4, <1>5, <1>6 DEF Choice
<1>8. /\ Choose(p95, c).full = full /\ Choose(p95, c).prediction = prediction
      /\ Choose(p95, c).delay = delay
  BY <1>6
<1> QED
  BY <1>2, <1>5, <1>7, <1>8 DEF Covers

LEMMA SetupFacts ==
  ASSUME NEW cf \in Configs, NEW p \in Player
  PROVE  IsSetup(cf[p]) /\ cf[p] \in Setups
BY ConnectionAssumption DEF Setups

LEMMA ChooseAllFacts ==
  ASSUME NEW c, IsSetup(c), NEW s \in Startups, AllSummaries(s)
  PROVE  /\ Covers(ChooseAll(s, c), c, WorstReport(s))
         /\ ChooseAll(s, c) \in Choice
BY WorstFacts, ChoiceFacts DEF ChooseAll, Covers

(* Players with the same reports choose the same. *)
LEMMA SameReportsSameChoice ==
  ASSUME NEW c, NEW s, NEW t, s.reports = t.reports
  PROVE  /\ ChooseAll(s, c) = ChooseAll(t, c)
         /\ AllSummaries(s) <=> AllSummaries(t)
BY DEF ChooseAll, WorstReport, AllSummaries

---------------------------------------------------------------------------
(* The state of one player changes. *)

(* Within an attempt what is accepted or committed by the host stays so,   *)
(* and what was published.                                                 *)
Advances(p, s, t) ==
  /\ t \in Startups /\ t.attempt = s.attempt
  /\ s.accepted => t.accepted
  /\ p = Host /\ s.stage = "Committed" => t.stage = "Committed"

Extends(p, log, new) ==
  /\ new \in Logs
  /\ \A q \in Player, a \in 0 .. MaxRetries :
       log[q][a] # None => new[q][a] = log[q][a]
  /\ \A q \in Others(p) : new[q] = log[q]

LEMMA SameLog ==
  ASSUME NEW log \in Logs, NEW p
  PROVE  Extends(p, log, log)
BY DEF Extends

LEMMA AgreedLonger ==
  ASSUME NEW log, NEW new, NEW p, Extends(p, log, new), NEW c,
         NEW a \in 0 .. MaxRetries, NEW choice, Agreed(log, c, a, choice)
  PROVE  Agreed(new, c, a, choice)
<1>1. \A q \in Player : log[q][a] # None /\ new[q][a] = log[q][a]
  BY DEF Extends, Agreed
<1>2. {new[q][a] : q \in Player} = {log[q][a] : q \in Player}
  BY <1>1
<1> QED
  BY <1>1, <1>2 DEF Agreed

(* What a player said stays true while it advances. *)
LEMMA TruthAdvances ==
  ASSUME NEW log, NEW new, NEW p, Extends(p, log, new),
         NEW c, NEW g, NEW h, NEW q \in Player, NEW s, NEW t, NEW x,
         Truthful(log, c, g, s, q, x),
         t.attempt = s.attempt, s.accepted => t.accepted,
         g.stage = "Committed" => h.stage = "Committed" /\ h.attempt = g.attempt
  PROVE  Truthful(new, c, h, t, q, x)
<1>1. x \in CalibrationPackets /\ x.attempt \in 0 .. MaxRetries
  BY DEF Truthful, CalibrationPackets
<1>2. x.kind = "Summary" => x.p95 = new[q][x.attempt] /\ x.p95 # None
  BY <1>1 DEF Truthful, Extends
<1>3. x.kind \in Bargains => Agreed(new, c, x.attempt, x.choice)
  BY <1>1, AgreedLonger DEF Truthful
<1> QED
  BY <1>2, <1>3 DEF Truthful

(* A player advances, and what it is then is right. *)
LEMMA AdvanceIsSound ==
  ASSUME NEW log, NEW cf, NEW st, NEW ctl, Sound(log, cf, st, ctl), NEW p \in Player,
         NEW t, Advances(p, st[p], t), OwnFacts(p, cf[p], t),
         NEW new, Extends(p, log, new), KeepsLog(new, p, t), Recorded(new, t),
         p = Host => \A q \in t.acceptedBy :
           q # Host /\ cf[q] = cf[Host] /\ HasAccepted(t, st[q]),
         p = Host /\ t.stage = "Committed" => AllAccepted(Host, t),
         p # Host => CommitIsHosts(st[Host], t)
  PROVE  Sound(new, cf, [st EXCEPT ![p] = t], ctl)
<1> DEFINE u == [st EXCEPT ![p] = t]
<1>1. st \in [Player -> Startups] /\ t \in Startups /\ t.attempt = st[p].attempt
  BY DEF Sound, Advances
<1>2. /\ u \in [Player -> Startups] /\ u[p] = t
      /\ \A q \in Player : q # p => u[q] = st[q]
  BY <1>1
<1> HIDE DEF u
<1>3. \A q \in Player : u[q].attempt = st[q].attempt /\ u[q].attempt \in Nat
  <2>1. \A q \in Player : u[q].attempt = st[q].attempt
    BY <1>1, <1>2
  <2> QED
    BY <1>2, <2>1, StartupAssumption DEF Startups
<1>4. /\ \A q \in Player : /\ OwnFacts(q, cf[q], st[q])
                            /\ KeepsLog(log, q, st[q]) /\ Recorded(log, st[q])
      /\ \A q \in Player : st[q].attempt <= st[Host].attempt
      /\ \A q \in st[Host].acceptedBy :
           q # Host /\ cf[q] = cf[Host] /\ HasAccepted(st[Host], st[q])
      /\ st[Host].stage = "Committed" => AllAccepted(Host, st[Host])
      /\ \A q \in Player : CommitIsHosts(st[Host], st[q])
  BY DEF Sound, PlayerFacts
<1>5. Host \in Player
  BY ReportFacts
<1>6. \A q \in Player : OwnFacts(q, cf[q], u[q])
  BY <1>2, <1>4
<1>7. ASSUME NEW q \in Player PROVE KeepsLog(new, q, u[q]) /\ Recorded(new, u[q])
  <2>1. CASE q = p
    BY <1>2, <2>1
  <2>2. CASE q # p
    <3>1. KeepsLog(new, q, st[q])
      BY <1>4, <2>2 DEF KeepsLog, Extends, Others
    <3>2. ASSUME NEW r \in Player, st[q].reports[r] # None
          PROVE  st[q].reports[r] = new[r][st[q].attempt]
      <4>1. st[q].attempt \in 0 .. MaxRetries
        BY <1>1 DEF Startups
      <4>2. st[q].reports[r] = log[r][st[q].attempt]
        BY <1>4, <3>2 DEF Recorded
      <4> QED
        BY <3>2, <4>1, <4>2 DEF Extends
    <3> QED
      BY <1>2, <2>2, <3>1, <3>2 DEF Recorded
  <2> QED
    BY <2>1, <2>2
<1>8. \A q \in Player : u[q].attempt <= u[Host].attempt
  BY <1>3, <1>4, <1>5
<1>9. \A q \in u[Host].acceptedBy :
        q # Host /\ cf[q] = cf[Host] /\ HasAccepted(u[Host], u[q])
  <2>1. u[Host].acceptedBy \subseteq Player
    BY <1>2, <1>5 DEF Startups
  <2>2. CASE p = Host
    BY <1>2, <2>1, <2>2
  <2>3. CASE p # Host
    <3>1. st[p].accepted => t.accepted
      BY DEF Advances
    <3> QED
      BY <1>1, <1>2, <1>4, <1>5, <2>1, <2>3, <3>1 DEF HasAccepted
  <2> QED
    BY <2>2, <2>3
<1>10. u[Host].stage = "Committed" => AllAccepted(Host, u[Host])
  BY <1>2, <1>4, <1>5
<1>11. st[Host].stage = "Committed" =>
         u[Host].stage = "Committed" /\ u[Host].attempt = st[Host].attempt
  BY <1>2, <1>3, <1>5 DEF Advances
<1>12. ASSUME NEW q \in Player PROVE CommitIsHosts(u[Host], u[q])
  <2>1. CASE q = p /\ p = Host
    BY <2>1 DEF CommitIsHosts
  <2>2. CASE q = p /\ p # Host
    BY <1>2, <1>5, <2>2
  <2>3. CASE q # p
    BY <1>2, <1>3, <1>4, <1>11, <2>3 DEF CommitIsHosts
  <2> QED
    BY <2>1, <2>2, <2>3
<1>13. PlayerFacts(new, cf, u)
  BY <1>6, <1>7, <1>8, <1>9, <1>10, <1>12 DEF PlayerFacts
<1>14. ASSUME NEW q \in Player, NEW x, Genuine(log, cf, st, q, x)
       PROVE  Genuine(new, cf, u, q, x)
  <2>1. st[q].accepted => u[q].accepted
    BY <1>2 DEF Advances
  <2>2. u[q].attempt = st[q].attempt
    BY <1>3
  <2>3. Truthful(log, cf[q], st[Host], st[q], q, x) =>
          Truthful(new, cf[q], u[Host], u[q], q, x)
    BY <1>11, <2>1, <2>2, TruthAdvances
  <2> QED
    BY <1>14, <2>3 DEF Genuine
<1>15. WireFacts(new, cf, u, ctl)
  BY <1>14 DEF Sound, WireFacts
<1> QED
  BY <1>2, <1>13, <1>15 DEF Sound, Extends, u

(* Most steps touch nothing that another player relies on. *)
Early == {"Idle", "WaitingPeer", "Measuring"}
Minor(p, s, t) ==
  /\ t \in Startups /\ t.attempt = s.attempt /\ t.reports = s.reports
  /\ t.haveLocal = s.haveLocal /\ t.accepted = s.accepted
  /\ t.acceptedBy = s.acceptedBy /\ t.choice = s.choice
  /\ t.stage = "Committed" => s.stage = "Committed"
  /\ t.stage \in Early => s.stage \in Early
  /\ p = Host /\ s.stage = "Committed" => t.stage = "Committed"

LEMMA MinorIsSound ==
  ASSUME NEW log, NEW cf, NEW st, NEW ctl, Sound(log, cf, st, ctl), NEW p \in Player, NEW t,
         Minor(p, st[p], t)
  PROVE  Sound(log, cf, [st EXCEPT ![p] = t], ctl)
<1>1. /\ t \in Startups /\ t.attempt = st[p].attempt
      /\ t.reports = st[p].reports /\ t.choice = st[p].choice
      /\ t.haveLocal = st[p].haveLocal /\ t.accepted = st[p].accepted
      /\ t.acceptedBy = st[p].acceptedBy
      /\ t.stage = "Committed" => st[p].stage = "Committed"
      /\ t.stage \in Early => st[p].stage \in Early
  BY DEF Minor
<1>2. Advances(p, st[p], t)
  BY DEF Minor, Advances
<1>3. /\ OwnFacts(p, cf[p], st[p]) /\ CommitIsHosts(st[Host], st[p])
      /\ KeepsLog(log, p, st[p]) /\ Recorded(log, st[p]) /\ log \in Logs
      /\ \A q \in st[Host].acceptedBy :
           q # Host /\ cf[q] = cf[Host] /\ HasAccepted(st[Host], st[q])
      /\ st[Host].stage = "Committed" => AllAccepted(Host, st[Host])
  BY DEF Sound, PlayerFacts
<1>4. OwnFacts(p, cf[p], t)
  <2>1. /\ ChooseAll(t, cf[p]) = ChooseAll(st[p], cf[p])
        /\ AllSummaries(t) <=> AllSummaries(st[p])
    BY <1>1, SameReportsSameChoice
  <2> QED
    BY <1>1, <1>3, <2>1 DEF OwnFacts, Early
<1>5. KeepsLog(log, p, t) /\ Recorded(log, t) /\ Extends(p, log, log)
  BY <1>1, <1>3, SameLog DEF KeepsLog, Recorded
<1>6. p = Host => \A q \in t.acceptedBy :
        q # Host /\ cf[q] = cf[Host] /\ HasAccepted(t, st[q])
  BY <1>1, <1>3 DEF HasAccepted
<1>7. p = Host /\ t.stage = "Committed" => AllAccepted(Host, t)
  BY <1>1, <1>3 DEF AllAccepted
<1>8. p # Host => CommitIsHosts(st[Host], t)
  BY <1>1, <1>3 DEF CommitIsHosts
<1> QED
  BY <1>2, <1>4, <1>5, <1>6, <1>7, <1>8, AdvanceIsSound

(* A later attempt begins: nothing that was known is used again. *)
LEMMA ResetIsSound ==
  ASSUME NEW log, NEW cf, NEW st, NEW ctl, Sound(log, cf, st, ctl), NEW p \in Player,
         NEW a \in 0 .. MaxRetries, st[p].attempt < a,
         st[p].stage # "Committed", p # Host => a <= st[Host].attempt
  PROVE  Sound(log, cf, [st EXCEPT ![p] = ResetAttempt(st[p], a)], ctl)
<1> DEFINE t == ResetAttempt(st[p], a)
           u == [st EXCEPT ![p] = t]
<1>1. st \in [Player -> Startups] /\ st[p] \in Startups
  BY DEF Sound
<1>2. /\ t \in Startups /\ t.attempt = a /\ t.stage = "WaitingPeer"
      /\ t.reports = [q \in Player |-> None] /\ t.acceptedBy = {}
      /\ t.haveLocal = FALSE
  BY <1>1 DEF ResetAttempt, Startups, Stages
<1> HIDE DEF t
<1>3. /\ u \in [Player -> Startups] /\ u[p] = t
      /\ \A q \in Player : q # p => u[q] = st[q]
  BY <1>1, <1>2
<1> HIDE DEF u
<1>4. /\ \A q \in Player : /\ OwnFacts(q, cf[q], st[q])
                            /\ KeepsLog(log, q, st[q]) /\ Recorded(log, st[q])
      /\ \A q \in Player : st[q].attempt <= st[Host].attempt
      /\ \A q \in st[Host].acceptedBy :
           q # Host /\ cf[q] = cf[Host] /\ HasAccepted(st[Host], st[q])
      /\ st[Host].stage = "Committed" => AllAccepted(Host, st[Host])
      /\ \A q \in Player : CommitIsHosts(st[Host], st[q])
  BY DEF Sound, PlayerFacts
<1>5. Host \in Player
  BY ReportFacts
<1>6. \A q \in Player : st[q].attempt \in Nat /\ u[q].attempt \in Nat
  BY <1>1, <1>3, StartupAssumption DEF Startups
<1>7. \A q \in Player : OwnFacts(q, cf[q], u[q])
  <2>1. OwnFacts(p, cf[p], t)
    BY <1>2 DEF OwnFacts
  <2> QED
    BY <1>3, <1>4, <2>1
<1>8. ASSUME NEW q \in Player PROVE KeepsLog(log, q, u[q]) /\ Recorded(log, u[q])
  <2>1. CASE q = p
    <3>1. KeepsLog(log, p, st[p]) /\ st[p].attempt \in Nat
      BY <1>4, <1>6
    <3>2. log[p][a] = None /\ \A b \in 0 .. MaxRetries : b > a => log[p][b] = None
      BY <3>1, StartupAssumption DEF KeepsLog
    <3>3. KeepsLog(log, p, t)
      BY <1>2, <3>2 DEF KeepsLog
    <3>4. Recorded(log, t)
      BY <1>2 DEF Recorded
    <3> QED
      BY <1>3, <2>1, <3>3, <3>4
  <2>2. CASE q # p
    BY <1>3, <1>4, <2>2
  <2> QED
    BY <2>1, <2>2
<1>9. ASSUME NEW q \in Player PROVE u[q].attempt <= u[Host].attempt
  <2>1. u[p].attempt = a
    BY <1>2, <1>3
  <2>2. CASE p = Host
    <3>1. st[q].attempt <= st[p].attempt
      BY <1>4, <2>2
    <3>2. q # p => u[q].attempt = st[q].attempt
      BY <1>3
    <3> QED
      BY <1>6, <2>1, <2>2, <3>1, <3>2
  <2>3. CASE p # Host
    <3>1. u[Host].attempt = st[Host].attempt
      BY <1>3, <1>5, <2>3
    <3>2. q # p => u[q].attempt = st[q].attempt
      BY <1>3
    <3> QED
      BY <1>4, <2>1, <2>3, <3>1, <3>2
  <2> QED
    BY <2>2, <2>3
<1>10. ASSUME NEW q \in u[Host].acceptedBy
       PROVE  q # Host /\ cf[q] = cf[Host] /\ HasAccepted(u[Host], u[q])
  <2>1. p # Host
    BY <1>2, <1>3, <1>10
  <2>2. u[Host] = st[Host]
    BY <1>3, <1>5, <2>1
  <2>3. q # Host /\ cf[q] = cf[Host] /\ HasAccepted(st[Host], st[q])
    BY <1>4, <1>10, <2>2
  <2>4. q \in Player
    BY <1>3, <1>5, <1>10 DEF Startups
  <2>5. q # p
    BY <1>6, <2>1, <2>3 DEF HasAccepted
  <2> QED
    BY <1>3, <2>2, <2>3, <2>4, <2>5
<1>11. u[Host].stage = "Committed" => p # Host /\ u[Host] = st[Host]
  BY <1>2, <1>3, <1>5
<1>12. u[Host].stage = "Committed" => AllAccepted(Host, u[Host])
  BY <1>4, <1>11
<1>13. st[Host].stage = "Committed" => p # Host /\ u[Host] = st[Host]
  BY <1>3, <1>5
<1>14. ASSUME NEW q \in Player PROVE CommitIsHosts(u[Host], u[q])
  <2>1. CASE q = p
    BY <1>2, <1>3, <2>1 DEF CommitIsHosts
  <2>2. CASE q # p
    <3>1. CommitIsHosts(st[Host], st[q]) /\ u[q] = st[q]
      BY <1>3, <1>4, <2>2
    <3> QED
      BY <1>13, <3>1 DEF CommitIsHosts
  <2> QED
    BY <2>1, <2>2
<1>15. PlayerFacts(log, cf, u)
  BY <1>7, <1>8, <1>9, <1>10, <1>12, <1>14 DEF PlayerFacts
<1>16. ASSUME NEW q \in Player, NEW x, Truthful(log, cf[q], st[Host], st[q], q, x)
       PROVE  Truthful(log, cf[q], u[Host], u[q], q, x)
  <2>1. x.attempt \in Nat
    BY <1>16, StartupAssumption DEF Truthful, CalibrationPackets
  <2>2. x.kind \in {"Commit", "CommitAck"} =>
          u[Host].stage = "Committed" /\ x.attempt = u[Host].attempt
    BY <1>13, <1>16 DEF Truthful
  <2>3. CASE q = p
    <3>1. u[q].attempt = a /\ st[q].attempt \in Nat /\ st[q].attempt < a
      BY <1>2, <1>3, <1>6, <2>3
    <3>2. x.attempt <= u[q].attempt /\ x.attempt # u[q].attempt
      BY <1>16, <2>1, <3>1 DEF Truthful
    <3> QED
      BY <1>16, <2>2, <3>2 DEF Truthful
  <2>4. CASE q # p
    <3>1. u[q] = st[q]
      BY <1>3, <2>4
    <3> QED
      BY <1>16, <2>2, <3>1 DEF Truthful
  <2> QED
    BY <2>3, <2>4
<1>17. ASSUME NEW q \in Player, NEW x, Genuine(log, cf, st, q, x)
       PROVE  Genuine(log, cf, u, q, x)
  BY <1>16, <1>17 DEF Genuine
<1>18. WireFacts(log, cf, u, ctl)
  BY <1>17 DEF Sound, WireFacts
<1> QED
  BY <1>3, <1>15, <1>18 DEF Sound, u, t

---------------------------------------------------------------------------
(* The wire. *)

LEMMA ConcatSet ==
  ASSUME NEW S, NEW s \in Seq(S), NEW t \in Seq(S)
  PROVE  s \o t \in Seq(S) /\ ToSet(s \o t) \subseteq ToSet(s) \cup ToSet(t)
<1>1. /\ s \o t \in Seq(S) /\ Len(s \o t) = Len(s) + Len(t)
      /\ \A i \in 1 .. Len(s) + Len(t) :
           (s \o t)[i] = IF i <= Len(s) THEN s[i] ELSE t[i - Len(s)]
  BY ConcatProperties
<1>2. /\ DOMAIN s = 1 .. Len(s) /\ Len(s) \in Nat
      /\ DOMAIN t = 1 .. Len(t) /\ Len(t) \in Nat
      /\ DOMAIN (s \o t) = 1 .. Len(s \o t)
  BY <1>1, LenProperties
<1>3. ASSUME NEW x \in ToSet(s \o t) PROVE x \in ToSet(s) \cup ToSet(t)
  <2>1. PICK i \in 1 .. Len(s) + Len(t) : x = (s \o t)[i]
    BY <1>1, <1>2 DEF ToSet
  <2>2. CASE i <= Len(s)
    BY <1>1, <1>2, <2>1, <2>2 DEF ToSet
  <2>3. CASE ~(i <= Len(s))
    <3>1. x = t[i - Len(s)] /\ i - Len(s) \in DOMAIN t
      BY <1>1, <1>2, <2>1, <2>3
    <3> QED
      BY <3>1 DEF ToSet
  <2> QED
    BY <2>2, <2>3
<1> QED
  BY <1>1, <1>3

LEMMA FreshFacts ==
  ASSUME NEW S, NEW queue, NEW packets \in Seq(S), NEW i
  PROVE  Fresh(queue, packets, i) \in Seq(S)
         /\ ToSet(Fresh(queue, packets, i)) \subseteq ToSet(packets)
<1>1. ASSUME i \in DOMAIN packets
      PROVE  <<packets[i]>> \in Seq(S) /\ ToSet(<<packets[i]>>) \subseteq ToSet(packets)
  <2>1. packets[i] \in S
    BY <1>1, LenProperties, ElementOfSeq
  <2>2. packets[i] \in ToSet(packets)
    BY <1>1 DEF ToSet
  <2>3. ToSet(<<packets[i]>>) = {packets[i]}
    BY DEF ToSet
  <2> QED
    BY <2>1, <2>2, <2>3
<1>2. << >> \in Seq(S) /\ ToSet(<< >>) = {}
  BY EmptySeq DEF ToSet
<1> QED
  BY <1>1, <1>2 DEF Fresh

(* What a queue becomes when packets are posted to it. *)
Extended(queue, packets) ==
  queue \o Fresh(queue, packets, 1) \o Fresh(queue, packets, 2)
        \o Fresh(queue, packets, 3) \o Fresh(queue, packets, 4)

LEMMA ExtendedFacts ==
  ASSUME NEW S, NEW queue \in Seq(S), NEW packets \in Seq(S)
  PROVE  /\ Extended(queue, packets) \in Seq(S)
         /\ ToSet(Extended(queue, packets)) \subseteq ToSet(queue) \cup ToSet(packets)
<1> DEFINE F(i) == Fresh(queue, packets, i)
<1>1. \A i \in 1 .. 4 : F(i) \in Seq(S) /\ ToSet(F(i)) \subseteq ToSet(packets)
  BY FreshFacts
<1> HIDE DEF F
<1> DEFINE a == queue \o F(1)
           b == a \o F(2)
           c == b \o F(3)
           d == c \o F(4)
           all == ToSet(queue) \cup ToSet(packets)
<1>2. a \in Seq(S) /\ ToSet(a) \subseteq all
  BY <1>1, ConcatSet
<1> HIDE DEF a
<1>3. b \in Seq(S) /\ ToSet(b) \subseteq all
  <2>1. F(2) \in Seq(S) /\ ToSet(F(2)) \subseteq all
    BY <1>1
  <2>2. b \in Seq(S) /\ ToSet(b) \subseteq ToSet(a) \cup ToSet(F(2))
    BY <1>2, <2>1, ConcatSet
  <2> QED
    BY <1>2, <2>1, <2>2
<1> HIDE DEF b
<1>4. c \in Seq(S) /\ ToSet(c) \subseteq all
  <2>1. F(3) \in Seq(S) /\ ToSet(F(3)) \subseteq all
    BY <1>1
  <2>2. c \in Seq(S) /\ ToSet(c) \subseteq ToSet(b) \cup ToSet(F(3))
    BY <1>3, <2>1, ConcatSet
  <2> QED
    BY <1>3, <2>1, <2>2
<1> HIDE DEF c
<1>5. d \in Seq(S) /\ ToSet(d) \subseteq all
  <2>1. F(4) \in Seq(S) /\ ToSet(F(4)) \subseteq all
    BY <1>1
  <2>2. d \in Seq(S) /\ ToSet(d) \subseteq ToSet(c) \cup ToSet(F(4))
    BY <1>4, <2>1, ConcatSet
  <2> QED
    BY <1>4, <2>1, <2>2
<1>6. Extended(queue, packets) = d
  BY DEF Extended, F, a, b, c
<1> QED
  BY <1>5, <1>6

LEMMA PostedFacts ==
  ASSUME NEW ctl \in [Player -> [Player -> Seq(Packets)]], NEW p \in Player,
         NEW packets \in Seq(Packets)
  PROVE  /\ Posted(ctl, p, packets) \in [Player -> [Player -> Seq(Packets)]]
         /\ \A q, r \in Player : q # p => Posted(ctl, p, packets)[q][r] = ctl[q][r]
         /\ \A r \in Player : r # p =>
              Posted(ctl, p, packets)[p][r] = Extended(ctl[p][r], packets)
         /\ Posted(ctl, p, packets)[p][p] = << >>
<1> DEFINE row == [q \in Player |->
                     IF q = p THEN << >> ELSE Extended(ctl[p][q], packets)]
<1>1. Posted(ctl, p, packets) = [ctl EXCEPT ![p] = row]
  BY DEF Posted, Extended
<1>2. << >> \in Seq(Packets)
  BY EmptySeq
<1>3. row \in [Player -> Seq(Packets)]
  BY <1>2, ExtendedFacts
<1> HIDE DEF row
<1>4. /\ [ctl EXCEPT ![p] = row] \in [Player -> [Player -> Seq(Packets)]]
      /\ [ctl EXCEPT ![p] = row][p] = row
      /\ \A q \in Player : q # p => [ctl EXCEPT ![p] = row][q] = ctl[q]
  BY <1>3
<1> QED
  BY <1>1, <1>4 DEF row

LEMMA PostIsSound ==
  ASSUME NEW log, NEW cf, NEW st, NEW ctl, Sound(log, cf, st, ctl), NEW p \in Player,
         NEW packets \in Seq(Packets),
         \A x \in ToSet(packets) : Genuine(log, cf, st, p, x)
  PROVE  Sound(log, cf, st, Posted(ctl, p, packets))
<1> DEFINE wire == Posted(ctl, p, packets)
<1>1. ctl \in [Player -> [Player -> Seq(Packets)]]
  BY DEF Sound
<1>2. /\ wire \in [Player -> [Player -> Seq(Packets)]]
      /\ \A q, r \in Player : q # p => wire[q][r] = ctl[q][r]
      /\ \A r \in Player : r # p => wire[p][r] = Extended(ctl[p][r], packets)
      /\ wire[p][p] = << >>
  BY <1>1, PostedFacts
<1> HIDE DEF wire
<1>3. ASSUME NEW q \in Player, NEW r \in Player, NEW x \in ToSet(wire[q][r])
      PROVE  Stale(cf, x) \/ Genuine(log, cf, st, q, x)
  <2>1. CASE q # p
    BY <1>2, <1>3, <2>1 DEF Sound, WireFacts
  <2>2. CASE q = p /\ r = p
    BY <1>2, <1>3, <2>2 DEF ToSet
  <2>3. CASE q = p /\ r # p
    <3>1. ctl[p][r] \in Seq(Packets)
      BY <1>1
    <3>2. x \in ToSet(ctl[p][r]) \cup ToSet(packets)
      BY <1>2, <1>3, <2>3, <3>1, ExtendedFacts
    <3> QED
      BY <2>3, <3>2 DEF Sound, WireFacts
  <2> QED
    BY <2>1, <2>2, <2>3
<1>4. WireFacts(log, cf, st, wire)
  BY <1>3 DEF WireFacts
<1> QED
  BY <1>2, <1>4 DEF Sound, wire

(* The head of a link is taken off it. *)
LEMMA TakenFacts ==
  ASSUME NEW ctl \in [Player -> [Player -> Seq(Packets)]],
         NEW q \in Player, NEW r \in Player, ctl[q][r] # << >>
  PROVE  LET wire == [ctl EXCEPT ![q][r] = Tail(@)]
         IN  /\ wire \in [Player -> [Player -> Seq(Packets)]]
             /\ wire[q][r] = Tail(ctl[q][r])
             /\ \A a, b \in Player : <<a, b>> # <<q, r>> => wire[a][b] = ctl[a][b]
             /\ \A a, b \in Player : ToSet(wire[a][b]) \subseteq ToSet(ctl[a][b])
             /\ Head(ctl[q][r]) \in ToSet(ctl[q][r])
<1> DEFINE wire == [ctl EXCEPT ![q][r] = Tail(@)]
<1>1. ctl[q][r] \in Seq(Packets)
  OBVIOUS
<1>2. /\ Tail(ctl[q][r]) \in Seq(Packets)
      /\ Len(Tail(ctl[q][r])) = Len(ctl[q][r]) - 1
      /\ \A i \in 1 .. Len(Tail(ctl[q][r])) : Tail(ctl[q][r])[i] = ctl[q][r][i + 1]
  BY <1>1, HeadTailProperties
<1>3. /\ wire \in [Player -> [Player -> Seq(Packets)]]
      /\ wire[q][r] = Tail(ctl[q][r])
      /\ \A a, b \in Player : <<a, b>> # <<q, r>> => wire[a][b] = ctl[a][b]
  BY <1>2
<1> HIDE DEF wire
<1>4. /\ DOMAIN ctl[q][r] = 1 .. Len(ctl[q][r]) /\ Len(ctl[q][r]) \in Nat
      /\ DOMAIN Tail(ctl[q][r]) = 1 .. Len(Tail(ctl[q][r]))
  BY <1>1, <1>2, LenProperties
<1>5. ToSet(Tail(ctl[q][r])) \subseteq ToSet(ctl[q][r])
  <2>1. ASSUME NEW i \in 1 .. Len(Tail(ctl[q][r]))
        PROVE  Tail(ctl[q][r])[i] \in ToSet(ctl[q][r])
    <3>1. i + 1 \in DOMAIN ctl[q][r]
      BY <1>2, <1>4
    <3> QED
      BY <1>2, <3>1 DEF ToSet
  <2> QED
    BY <1>4, <2>1 DEF ToSet
<1>6. Head(ctl[q][r]) \in ToSet(ctl[q][r])
  <2>1. Len(ctl[q][r]) # 0
    BY <1>1, EmptySeq
  <2>2. 1 \in DOMAIN ctl[q][r] /\ Head(ctl[q][r]) = ctl[q][r][1]
    BY <1>1, <1>4, <2>1
  <2> QED
    BY <2>2 DEF ToSet
<1>7. ASSUME NEW a \in Player, NEW b \in Player
      PROVE  ToSet(wire[a][b]) \subseteq ToSet(ctl[a][b])
  <2>1. CASE <<a, b>> = <<q, r>>
    BY <1>3, <1>5, <2>1
  <2>2. CASE <<a, b>> # <<q, r>>
    BY <1>3, <2>2
  <2> QED
    BY <2>1, <2>2
<1> QED
  BY <1>3, <1>6, <1>7 DEF wire

LEMMA TakeIsSound ==
  ASSUME NEW log, NEW cf, NEW st, NEW ctl, Sound(log, cf, st, ctl),
         NEW q \in Player, NEW r \in Player, ctl[q][r] # << >>
  PROVE  /\ Sound(log, cf, st, [ctl EXCEPT ![q][r] = Tail(@)])
         /\ \/ Stale(cf, Head(ctl[q][r]))
            \/ Genuine(log, cf, st, q, Head(ctl[q][r]))
<1> DEFINE wire == [ctl EXCEPT ![q][r] = Tail(@)]
<1>1. ctl \in [Player -> [Player -> Seq(Packets)]]
  BY DEF Sound
<1>2. /\ wire \in [Player -> [Player -> Seq(Packets)]]
      /\ \A a, b \in Player : ToSet(wire[a][b]) \subseteq ToSet(ctl[a][b])
      /\ Head(ctl[q][r]) \in ToSet(ctl[q][r])
  BY <1>1, TakenFacts
<1> HIDE DEF wire
<1>3. WireFacts(log, cf, st, wire)
  BY <1>2 DEF Sound, WireFacts
<1>4. Sound(log, cf, st, wire)
  BY <1>2, <1>3 DEF Sound
<1>5. Stale(cf, Head(ctl[q][r])) \/ Genuine(log, cf, st, q, Head(ctl[q][r]))
  BY <1>2 DEF Sound, WireFacts
<1> QED
  BY <1>4, <1>5 DEF wire

---------------------------------------------------------------------------
(* The packets a handler makes. *)

LEMMA ShortSequences ==
  ASSUME NEW S, NEW x \in S, NEW y \in S
  PROVE  /\ << >> \in Seq(S) /\ ToSet(<< >>) = {}
         /\ <<x>> \in Seq(S) /\ ToSet(<<x>>) = {x}
         /\ <<x, y>> \in Seq(S) /\ ToSet(<<x, y>>) = {x, y}
<1>1. << >> \in Seq(S) /\ <<x>> \in Seq(S) /\ <<x, y>> \in Seq(S)
  OBVIOUS
<1>2. ToSet(<< >>) = {} /\ ToSet(<<x>>) = {x}
  BY DEF ToSet
<1>3. ToSet(<<x, y>>) = {x, y}
  <2>1. DOMAIN <<x, y>> = {1, 2} /\ <<x, y>>[1] = x /\ <<x, y>>[2] = y
    OBVIOUS
  <2> QED
    BY <2>1 DEF ToSet
<1> QED
  BY <1>1, <1>2, <1>3

LEMMA PacketPair ==
  ASSUME NEW x \in Packets, NEW y \in Packets
  PROVE  <<x, y>> \in Seq(Packets) /\ ToSet(<<x, y>>) = {x, y}
BY ShortSequences, ZenonT(30)

Plain == {"Hello"} \cup Retries

LEMMA ControlFacts ==
  ASSUME NEW cf \in Configs, NEW p \in Player, NEW s \in Startups, NEW kind \in Kinds
  PROVE  LET x == Control(p, cf[p], s, kind)
         IN  /\ x \in CalibrationPackets /\ x \in Packets
             /\ x.kind = kind /\ x.config = cf[p] /\ x.attempt = s.attempt
             /\ kind = "Summary" => x.p95 = s.reports[p]
             /\ kind \in Bargains => x.choice = s.choice
<1> DEFINE x == Control(p, cf[p], s, kind)
           p95 == IF kind = "Summary" THEN s.reports[p] ELSE None
           choice == IF kind \in Bargains THEN s.choice ELSE None
<1>1. /\ s.attempt \in 0 .. MaxRetries /\ s.choice \in Choice \cup {None}
      /\ s.reports \in [Player -> Report \cup {None}]
  BY DEF Startups
<1>2. cf[p] \in Setups
  BY SetupFacts
<1>3. p95 \in Report \cup {None} /\ choice \in Choice \cup {None}
  BY <1>1
<1>4. x = [kind |-> kind, config |-> cf[p], attempt |-> s.attempt, slot |-> 0,
           p95 |-> p95, choice |-> choice]
  BY DEF Control
<1> HIDE DEF x
<1>5. /\ x.kind = kind /\ x.config = cf[p] /\ x.attempt = s.attempt
      /\ x.p95 = p95 /\ x.choice = choice
  BY <1>4
<1>6. x \in CalibrationPackets
  <2> HIDE DEF p95, choice
  <2> QED
    BY <1>1, <1>2, <1>3, <1>4 DEF CalibrationPackets
<1> QED
  BY <1>5, <1>6 DEF x, Packets

LEMMA PlainIsGenuine ==
  ASSUME NEW log, NEW cf \in Configs, NEW st, NEW p \in Player, NEW s \in Startups,
         st[p].attempt = s.attempt, NEW kind \in Plain
  PROVE  Control(p, cf[p], s, kind) \in Packets
         /\ Told(log, cf, st, p, Control(p, cf[p], s, kind))
<1> DEFINE x == Control(p, cf[p], s, kind)
<1>1. kind \in Kinds /\ kind \notin Bargains \cup {"Summary"}
  BY DEF Plain, Kinds, Retries, Bargains
<1>2. /\ x \in CalibrationPackets /\ x \in Packets
      /\ x.kind = kind /\ x.config = cf[p] /\ x.attempt = s.attempt
  BY <1>1, ControlFacts
<1> HIDE DEF x
<1>3. kind \notin {"Proposal", "Accept", "Commit", "CommitAck", "Summary"}
  BY <1>1 DEF Bargains
<1>4. s.attempt \in Nat
  BY StartupAssumption DEF Startups
<1>5. Truthful(log, cf[p], st[Host], st[p], p, x)
  BY <1>1, <1>2, <1>3, <1>4 DEF Truthful
<1> QED
  BY <1>1, <1>2, <1>5 DEF Told, Genuine, x

LEMMA SummaryIsGenuine ==
  ASSUME NEW log, NEW cf \in Configs, NEW st, NEW p \in Player, NEW s \in Startups,
         st[p].attempt = s.attempt, Recorded(log, s), s.reports[p] # None
  PROVE  Control(p, cf[p], s, "Summary") \in Packets
         /\ Told(log, cf, st, p, Control(p, cf[p], s, "Summary"))
<1> DEFINE x == Control(p, cf[p], s, "Summary")
<1>1. "Summary" \in Kinds /\ "Summary" \notin Bargains
  BY DEF Kinds, Bargains
<1>2. /\ x \in CalibrationPackets /\ x \in Packets
      /\ x.kind = "Summary" /\ x.config = cf[p] /\ x.attempt = s.attempt
      /\ x.p95 = s.reports[p]
  BY <1>1, ControlFacts
<1> HIDE DEF x
<1>3. s.attempt \in Nat
  BY StartupAssumption DEF Startups
<1>4. x.p95 = log[p][x.attempt] /\ x.p95 # None
  BY <1>2 DEF Recorded
<1>5. "Summary" \notin {"Proposal", "Commit", "Accept", "CommitAck"}
  OBVIOUS
<1>6. Truthful(log, cf[p], st[Host], st[p], p, x)
  BY <1>1, <1>2, <1>3, <1>4, <1>5 DEF Truthful
<1> QED
  BY <1>1, <1>2, <1>6 DEF Told, Genuine, x

(* Who has all reports chooses what the log says. *)
LEMMA RecordedChoice ==
  ASSUME NEW log, NEW s, Recorded(log, s), AllSummaries(s), NEW c,
         ChooseAll(s, c).delay <= MaxDelay
  PROVE  Agreed(log, c, s.attempt, ChooseAll(s, c))
<1>1. \A q \in Player : s.reports[q] # None /\ log[q][s.attempt] = s.reports[q]
  BY DEF Recorded, AllSummaries
<1>2. {log[q][s.attempt] : q \in Player} = {s.reports[q] : q \in Player}
  BY <1>1
<1> QED
  BY <1>1, <1>2 DEF Agreed, ChooseAll, WorstReport

(* A bargain of a player that has all reports and chose by them. *)
LEMMA BargainIsGenuine ==
  ASSUME NEW log, NEW cf \in Configs, NEW st, NEW p \in Player, NEW s \in Startups,
         st[p].attempt = s.attempt, Recorded(log, s), AllSummaries(s),
         s.choice = ChooseAll(s, cf[p]), s.choice.delay <= MaxDelay,
         NEW kind \in Bargains,
         kind \in {"Proposal", "Commit"} => p = Host,
         kind \in {"Accept", "CommitAck"} => p # Host,
         kind = "Accept" => st[p].accepted,
         kind \in {"Commit", "CommitAck"} =>
           st[Host].stage = "Committed" /\ s.attempt = st[Host].attempt
  PROVE  Control(p, cf[p], s, kind) \in Packets
         /\ Told(log, cf, st, p, Control(p, cf[p], s, kind))
<1> DEFINE x == Control(p, cf[p], s, kind)
<1>1. kind \in Kinds /\ kind # "Summary"
  BY DEF Kinds, Bargains
<1>2. /\ x \in CalibrationPackets /\ x \in Packets
      /\ x.kind = kind /\ x.config = cf[p] /\ x.attempt = s.attempt
      /\ x.choice = s.choice
  BY <1>1, ControlFacts
<1> HIDE DEF x
<1>3. s.attempt \in Nat
  BY StartupAssumption DEF Startups
<1>4. Agreed(log, cf[p], s.attempt, s.choice)
  BY RecordedChoice
<1>5. Truthful(log, cf[p], st[Host], st[p], p, x)
  BY <1>1, <1>2, <1>3, <1>4 DEF Truthful
<1> QED
  BY <1>1, <1>2, <1>5 DEF Told, Genuine, x

---------------------------------------------------------------------------
(* What a handler leaves. *)

AllAlike(cf) == \A p, q \in Player : cf[p] = cf[q]

Probings(cf, p) ==
  {x \in CalibrationPackets : x.config = cf[p] /\ x.kind \in {"Probe", "Echo"}}

(* sends: the transport takes what is sent.                                *)
Handled(log, cf, st, ctl, p, sends, result) ==
  /\ Sound(log, cf, [st EXCEPT ![p] = result.state], ctl)
  /\ sends => /\ result.controls \in Seq(Packets)
              /\ \A x \in ToSet(result.controls) :
                   Told(log, cf, [st EXCEPT ![p] = result.state], p, x)
  /\ result.inputs \in [Player -> SUBSET Probings(cf, p)]
  /\ AllAlike(cf) /\ st[p].stage # "Failed" => result.state.stage # "Failed"

LEMMA SendsFacts ==
  ASSUME NEW s, NEW controls, NEW inputs
  PROVE  /\ Sends(s, controls, inputs).state = s
         /\ Sends(s, controls, inputs).controls = controls
         /\ Sends(s, controls, inputs).inputs = inputs
         /\ Quiet(s).state = s /\ Quiet(s).controls = << >>
         /\ Quiet(s).inputs = NoInputs
BY DEF Sends, Quiet

LEMMA NoInputsFacts ==
  ASSUME NEW cf, NEW p
  PROVE  NoInputs \in [Player -> SUBSET Probings(cf, p)]
BY DEF NoInputs

(* A minor step, and what is sent with it. *)
LEMMA MinorIsHandled ==
  ASSUME NEW log, NEW cf, NEW st, NEW ctl, Sound(log, cf, st, ctl), NEW p \in Player, NEW t,
         NEW sends,
         Minor(p, st[p], t),
         AllAlike(cf) /\ st[p].stage # "Failed" => t.stage # "Failed",
         NEW controls \in Seq(Packets), NEW inputs \in [Player -> SUBSET Probings(cf, p)],
         \A x \in ToSet(controls) : Told(log, cf, [st EXCEPT ![p] = t], p, x)
  PROVE  Handled(log, cf, st, ctl, p, sends, Sends(t, controls, inputs))
<1> DEFINE result == Sends(t, controls, inputs)
<1>1. result.state = t /\ result.controls = controls /\ result.inputs = inputs
  BY SendsFacts
<1>2. Sound(log, cf, [st EXCEPT ![p] = t], ctl)
  BY MinorIsSound
<1> HIDE DEF result
<1>3. Handled(log, cf, st, ctl, p, sends, result)
  BY <1>1, <1>2 DEF Handled
<1> QED
  BY <1>3 DEF result

LEMMA QuietIsHandled ==
  ASSUME NEW log, NEW cf, NEW st, NEW ctl, Sound(log, cf, st, ctl), NEW p \in Player, NEW t,
         NEW sends,
         Minor(p, st[p], t),
         AllAlike(cf) /\ st[p].stage # "Failed" => t.stage # "Failed"
  PROVE  Handled(log, cf, st, ctl, p, sends, Quiet(t))
<1>1. << >> \in Seq(Packets) /\ ToSet(<< >>) = {}
  BY EmptySeq DEF ToSet
<1> QED
  BY <1>1, MinorIsHandled, NoInputsFacts DEF Quiet

LEMMA SameIsMinor ==
  ASSUME NEW p, NEW s \in Startups
  PROVE  Minor(p, s, s)
BY DEF Minor

(* The stage alone changes. *)
LEMMA StageIsMinor ==
  ASSUME NEW p, NEW s \in Startups, NEW stage \in Stages \ {"Committed"},
         stage \in Early => s.stage \in Early,
         p = Host => s.stage # "Committed"
  PROVE  Minor(p, s, [s EXCEPT !.stage = stage])
<1> DEFINE t == [s EXCEPT !.stage = stage]
<1>1. /\ t \in Startups /\ t.attempt = s.attempt /\ t.reports = s.reports
      /\ t.haveLocal = s.haveLocal /\ t.accepted = s.accepted
      /\ t.acceptedBy = s.acceptedBy /\ t.choice = s.choice /\ t.stage = stage
  BY DEF Startups
<1> HIDE DEF t
<1> QED
  BY <1>1 DEF Minor, t

LEMMA SetTwice ==
  ASSUME NEW S, NEW st \in [Player -> S], NEW p \in Player, NEW t, NEW u
  PROVE  /\ [[st EXCEPT ![p] = t] EXCEPT ![p] = u] = [st EXCEPT ![p] = u]
         /\ [st EXCEPT ![p] = t][p] = t
         /\ \A q \in Player : q # p => [st EXCEPT ![p] = t][q] = st[q]
         /\ [st EXCEPT ![p] = st[p]] = st
OBVIOUS

(* A handler that goes on from an intermediate state. *)
LEMMA HandledFurther ==
  ASSUME NEW log, NEW cf, NEW st \in [Player -> Startups], NEW ctl, NEW p \in Player, NEW t,
         NEW sends, NEW result, Handled(log, cf, [st EXCEPT ![p] = t], ctl, p, sends, result),
         st[p].stage # "Failed" => t.stage # "Failed"
  PROVE  Handled(log, cf, st, ctl, p, sends, result)
<1>2. /\ [[st EXCEPT ![p] = t] EXCEPT ![p] = result.state]
           = [st EXCEPT ![p] = result.state]
      /\ [st EXCEPT ![p] = t][p] = t
  BY SetTwice, ZenonT(30)
<1> QED
  BY <1>2 DEF Handled

---------------------------------------------------------------------------
(* The clock and the deadlines. *)

LEMMA RetryIsMinor ==
  ASSUME NEW p, NEW s \in Startups
  PROVE  Minor(p, s, Retry(s)) /\ (Retry(s).stage = "Failed" => s.stage = "Failed")
<1>1. "Retrying" \in Stages \ {"Committed"} /\ "Retrying" \notin Early
  BY DEF Stages, Early
<1>2. [s EXCEPT !.stage = "Retrying"].stage = "Retrying"
  BY DEF Startups
<1>3. CASE s.stage \in {"Committed", "Unavailable", "Retrying"}
  BY <1>3, SameIsMinor DEF Retry
<1>4. CASE s.stage \notin {"Committed", "Unavailable", "Retrying"}
  BY <1>1, <1>2, <1>4, StageIsMinor DEF Retry
<1> QED
  BY <1>3, <1>4

LEMMA GiveUpIsMinor ==
  ASSUME NEW p, NEW s \in Startups, s.stage # "Committed"
  PROVE  Minor(p, s, GiveUp(s)) /\ GiveUp(s).stage = "Unavailable"
<1>1. "Unavailable" \in Stages \ {"Committed"} /\ "Unavailable" \notin Early
  BY DEF Stages, Early
<1>2. [s EXCEPT !.stage = "Unavailable"].stage = "Unavailable"
  BY DEF Startups
<1> QED
  BY <1>1, <1>2, StageIsMinor DEF GiveUp

LEMMA ClockIsMinor ==
  ASSUME NEW p, NEW s \in Startups, NEW late
  PROVE  /\ Minor(p, s, ObserveClock(s, late))
         /\ ObserveClock(s, late).stage = "Failed" => s.stage = "Failed"
BY RetryIsMinor, SameIsMinor DEF ObserveClock

LEMMA DeadlinesAreMinor ==
  ASSUME NEW p, NEW s \in Startups, NEW state, NEW late
  PROVE  /\ Minor(p, s, Deadlines(s, state, late))
         /\ Deadlines(s, state, late).stage = "Failed" => s.stage = "Failed"
<1> DEFINE d == Deadlines(s, state, late)
           over == ConnectionLost(s, state) \/ StartupIsOver(s, late) \/ PeerIsMissing(s, late)
<1>1. over => s.stage # "Committed"
  BY DEF ConnectionLost, StartupIsOver, PeerIsMissing
<1>2. Minor(p, s, [s EXCEPT !.resends = FALSE])
      /\ [s EXCEPT !.resends = FALSE].stage = s.stage
  <2> DEFINE t == [s EXCEPT !.resends = FALSE]
  <2>1. /\ t \in Startups /\ t.attempt = s.attempt /\ t.reports = s.reports
        /\ t.haveLocal = s.haveLocal /\ t.accepted = s.accepted
        /\ t.acceptedBy = s.acceptedBy /\ t.choice = s.choice /\ t.stage = s.stage
    BY DEF Startups
  <2> HIDE DEF t
  <2>2. Minor(p, s, t)
    BY <2>1 DEF Minor
  <2> QED
    BY <2>1, <2>2 DEF t
<1>3. d \in {GiveUp(s), Retry(s), [s EXCEPT !.resends = FALSE], s}
      /\ (d = GiveUp(s) \/ ~over)
  BY DEF Deadlines
<1>4. CASE over
  <2>1. d = GiveUp(s)
    BY <1>3, <1>4
  <2> QED
    BY <1>1, <1>4, <2>1, GiveUpIsMinor
<1>5. CASE ~over
  <2>1. d \in {Retry(s), [s EXCEPT !.resends = FALSE], s}
    BY <1>5 DEF Deadlines
  <2> QED
    BY <1>2, <2>1, RetryIsMinor, SameIsMinor
<1> QED
  BY <1>4, <1>5

LEMMA AfterRetryIsSound ==
  ASSUME NEW log, NEW cf, NEW st, NEW ctl, Sound(log, cf, st, ctl), NEW p \in Player
  PROVE  /\ Sound(log, cf, [st EXCEPT ![p] = AfterRetry(p, st[p])], ctl)
         /\ AfterRetry(p, st[p]).stage = "Failed" => st[p].stage = "Failed"
<1>1. st \in [Player -> Startups] /\ st[p] \in Startups
  BY DEF Sound
<1>2. CASE st[p].stage # "Retrying" \/ p # Host
  BY <1>1, <1>2, SetTwice DEF AfterRetry
<1>3. CASE st[p].stage = "Retrying" /\ p = Host /\ st[p].attempt >= MaxRetries
  <2>1. AfterRetry(p, st[p]) = GiveUp(st[p])
    BY <1>3 DEF AfterRetry
  <2>2. Minor(p, st[p], GiveUp(st[p])) /\ GiveUp(st[p]).stage = "Unavailable"
    BY <1>1, <1>3, GiveUpIsMinor
  <2> QED
    BY <2>1, <2>2, MinorIsSound
<1>4. CASE st[p].stage = "Retrying" /\ p = Host /\ ~(st[p].attempt >= MaxRetries)
  <2>1. AfterRetry(p, st[p]) = ResetAttempt(st[p], st[p].attempt + 1)
    BY <1>4 DEF AfterRetry
  <2>2. st[p].attempt \in 0 .. MaxRetries /\ MaxRetries \in Nat
    BY <1>1, StartupAssumption DEF Startups
  <2>3. st[p].attempt + 1 \in 0 .. MaxRetries /\ st[p].attempt < st[p].attempt + 1
    BY <1>4, <2>2
  <2>4. Sound(log, cf, [st EXCEPT ![p] = ResetAttempt(st[p], st[p].attempt + 1)], ctl)
    BY <1>4, <2>3, ResetIsSound
  <2>5. ResetAttempt(st[p], st[p].attempt + 1).stage = "WaitingPeer"
    BY <1>1 DEF ResetAttempt, Startups
  <2> QED
    BY <2>1, <2>4, <2>5
<1> QED
  BY <1>2, <1>3, <1>4

---------------------------------------------------------------------------
(* Tick. *)

(* Measurements end: the player has its own report. *)
LEMMA PublishIsSound ==
  ASSUME NEW log, NEW cf, NEW st, NEW ctl, Sound(log, cf, st, ctl), NEW p \in Player,
         st[p].stage = "Measuring", NEW p95 \in Rtts[p]
  PROVE  LET t == Publish(p, st[p], p95)
         IN  /\ \E new : Sound(new, cf, [st EXCEPT ![p] = t], ctl)
             /\ t.haveLocal /\ t.stage = "Negotiating"
<1> DEFINE s == st[p]
           t == Publish(p, s, p95)
<1>1. s \in Startups /\ s.stage = "Measuring"
  BY DEF Sound
<1>2. /\ OwnFacts(p, cf[p], s) /\ CommitIsHosts(st[Host], s)
      /\ KeepsLog(log, p, s) /\ Recorded(log, s) /\ log \in Logs
      /\ p = Host => \A q \in s.acceptedBy :
           q # Host /\ cf[q] = cf[Host] /\ HasAccepted(s, st[q])
  BY DEF Sound, PlayerFacts
<1> HIDE DEF s
<1>3. s.reports[p] = None
  BY <1>1, <1>2 DEF OwnFacts
<1>4. p95 \in Report /\ p95 # None
  BY ReportFacts
<1>5. /\ t \in Startups /\ t.attempt = s.attempt /\ t.stage = "Negotiating"
      /\ t.haveLocal = TRUE /\ t.accepted = s.accepted
      /\ t.acceptedBy = s.acceptedBy
      /\ t.reports[p] = p95 /\ \A q \in Player : q # p => t.reports[q] = s.reports[q]
  BY <1>1, <1>4 DEF Publish, Startups, Stages
<1> HIDE DEF t
<1>6. Advances(p, s, t)
  BY <1>1, <1>3, <1>5 DEF Advances
<1>7. OwnFacts(p, cf[p], t)
  BY <1>4, <1>5 DEF OwnFacts
<1> DEFINE new == [log EXCEPT ![p][s.attempt] = p95]
<1>8. Extends(p, log, new) /\ KeepsLog(new, p, t) /\ Recorded(new, t)
  <2>1. s.attempt \in 0 .. MaxRetries /\ log[p] \in [0 .. MaxRetries -> Report \cup {None}]
    BY <1>1, <1>2 DEF Startups, Logs
  <2>2. /\ new \in Logs /\ new[p][s.attempt] = p95
        /\ \A a \in 0 .. MaxRetries : a # s.attempt => new[p][a] = log[p][a]
        /\ \A q \in Player : q # p => new[q] = log[q]
    BY <1>2, <1>4, <2>1 DEF Logs
  <2> HIDE DEF new
  <2>3. log[p][s.attempt] = None
    BY <1>2, <1>3 DEF KeepsLog
  <2>4. Extends(p, log, new)
    BY <2>2, <2>3 DEF Extends, Others
  <2>5. KeepsLog(new, p, t)
    BY <1>2, <1>5, <2>1, <2>2, StartupAssumption DEF KeepsLog
  <2>6. Recorded(new, t)
    BY <1>2, <1>5, <2>2 DEF Recorded
  <2> QED
    BY <2>4, <2>5, <2>6
<1> HIDE DEF new
<1>9. p = Host => \A q \in t.acceptedBy :
        q # Host /\ cf[q] = cf[Host] /\ HasAccepted(t, st[q])
  BY <1>2, <1>5 DEF HasAccepted
<1>10. p # Host => CommitIsHosts(st[Host], t)
  BY <1>5 DEF CommitIsHosts
<1>11. Sound(new, cf, [st EXCEPT ![p] = t], ctl)
  BY <1>5, <1>6, <1>7, <1>8, <1>9, <1>10, AdvanceIsSound DEF s
<1> QED
  BY <1>5, <1>11 DEF s, t

(* All reports are there: the player chooses, and the host may commit.     *)
MayChoose(p, c, s, stage) ==
  /\ AllSummaries(s) /\ s.stage # "Committed" /\ s.haveLocal
  /\ stage \in {s.stage, "Unavailable", "Committed"}
  /\ stage = "Committed" => /\ p = Host /\ AllAccepted(p, s)
                            /\ ChooseAll(s, c).delay <= MaxDelay
Chosen(c, s, stage) == [s EXCEPT !.choice = ChooseAll(s, c), !.stage = stage]

LEMMA ChosenIsSound ==
  ASSUME NEW log, NEW cf, NEW st, NEW ctl, Sound(log, cf, st, ctl), NEW p \in Player,
         NEW stage, MayChoose(p, cf[p], st[p], stage),
         NEW t, t = Chosen(cf[p], st[p], stage)
  PROVE  /\ Sound(log, cf, [st EXCEPT ![p] = t], ctl) /\ t \in Startups
         /\ t.attempt = st[p].attempt /\ t.reports = st[p].reports
         /\ t.accepted = st[p].accepted /\ t.stage = stage
         /\ t.choice = ChooseAll(st[p], cf[p])
<1> DEFINE s == st[p]
<1>1. s \in Startups /\ cf \in Configs
  BY DEF Sound
<1>2. /\ OwnFacts(p, cf[p], s) /\ log \in Logs
      /\ KeepsLog(log, p, s) /\ Recorded(log, s)
      /\ p = Host => \A q \in s.acceptedBy :
           q # Host /\ cf[q] = cf[Host] /\ HasAccepted(s, st[q])
  BY DEF Sound, PlayerFacts
<1>0. /\ AllSummaries(s) /\ s.stage # "Committed" /\ s.haveLocal
      /\ stage \in {s.stage, "Unavailable", "Committed"}
      /\ stage = "Committed" => /\ p = Host /\ AllAccepted(p, s)
                                /\ ChooseAll(s, cf[p]).delay <= MaxDelay
  BY DEF MayChoose
<1> HIDE DEF s
<1>3. IsSetup(cf[p])
  BY <1>1, SetupFacts
<1>4. ChooseAll(s, cf[p]) \in Choice
  BY <1>0, <1>1, <1>3, ChooseAllFacts
<1>5. stage \in Stages
  BY <1>0, <1>1 DEF Startups, Stages
<1>6. t = [s EXCEPT !.choice = ChooseAll(s, cf[p]), !.stage = stage]
  BY DEF s, Chosen
<1>7. /\ t \in Startups /\ t.attempt = s.attempt /\ t.stage = stage
      /\ t.reports = s.reports /\ t.haveLocal = s.haveLocal
      /\ t.accepted = s.accepted /\ t.acceptedBy = s.acceptedBy
      /\ t.choice = ChooseAll(s, cf[p])
  BY <1>1, <1>4, <1>5, <1>6 DEF Startups
<1>8. Advances(p, s, t)
  BY <1>0, <1>7 DEF Advances
<1>9. OwnFacts(p, cf[p], t)
  <2>1. AllSummaries(t) /\ ChooseAll(t, cf[p]) = ChooseAll(s, cf[p])
    BY <1>0, <1>7, SameReportsSameChoice
  <2>2. s.haveLocal /\ (stage \in {"Idle", "WaitingPeer", "Measuring"} => FALSE)
    BY <1>0, <1>2 DEF OwnFacts
  <2> QED
    BY <1>0, <1>2, <1>7, <2>1, <2>2 DEF OwnFacts
<1>10. KeepsLog(log, p, t) /\ Recorded(log, t) /\ Extends(p, log, log)
  BY <1>2, <1>7, SameLog DEF KeepsLog, Recorded
<1>11. p = Host => \A q \in t.acceptedBy :
         q # Host /\ cf[q] = cf[Host] /\ HasAccepted(t, st[q])
  BY <1>2, <1>7 DEF HasAccepted
<1>12. p = Host /\ t.stage = "Committed" => AllAccepted(Host, t)
  BY <1>0, <1>7 DEF AllAccepted
<1>13. p # Host => CommitIsHosts(st[Host], t)
  BY <1>0, <1>7 DEF CommitIsHosts
<1>14. Sound(log, cf, [st EXCEPT ![p] = t], ctl)
  BY <1>8, <1>9, <1>10, <1>11, <1>12, <1>13, AdvanceIsSound DEF s
<1> QED
  BY <1>7, <1>14 DEF s

LEMMA NegotiateIsHandled ==
  ASSUME NEW log, NEW cf, NEW st, NEW ctl, Sound(log, cf, st, ctl), NEW p \in Player,
         st[p].stage # "Committed", st[p].haveLocal, NEW sends \in BOOLEAN
  PROVE  Handled(log, cf, st, ctl, p, sends, Negotiate(p, cf[p], st[p], sends))
<1> DEFINE s == st[p]
           c == cf[p]
           choice == ChooseAll(s, c)
           chosen == [s EXCEPT !.choice = choice]
           summary == Control(p, c, s, "Summary")
           result == Negotiate(p, c, s, sends)
<1>1. s \in Startups /\ cf \in Configs /\ st \in [Player -> Startups]
  BY DEF Sound
<1>2. /\ s.reports[p] # None /\ s.haveLocal /\ s.stage # "Committed"
      /\ Recorded(log, s)
  BY DEF Sound, PlayerFacts, OwnFacts
<1>3. NoInputs \in [Player -> SUBSET Probings(cf, p)]
  BY NoInputsFacts
<1>4. CASE ~AllSummaries(s)
  <2>1. result = Sends(s, <<summary>>, NoInputs)
    BY <1>4 DEF Negotiate
  <2>2. summary \in Packets /\ Told(log, cf, st, p, summary)
    BY <1>1, <1>2, SummaryIsGenuine
  <2>3. <<summary>> \in Seq(Packets) /\ ToSet(<<summary>>) = {summary}
    BY <2>2, ShortSequences
  <2>4. [st EXCEPT ![p] = s] = st
    BY <1>1, SetTwice
  <2>5. Minor(p, st[p], s)
    BY <1>1, SameIsMinor
  <2> HIDE DEF summary, result
  <2>6. \A x \in ToSet(<<summary>>) : Told(log, cf, [st EXCEPT ![p] = s], p, x)
    BY <2>2, <2>3, <2>4
  <2>7. Handled(log, cf, st, ctl, p, sends, Sends(s, <<summary>>, NoInputs))
    BY <1>3, <2>3, <2>5, <2>6, MinorIsHandled
  <2> QED
    BY <2>1, <2>7 DEF result
<1>5. CASE AllSummaries(s)
  <2>0. chosen = [s EXCEPT !.choice = choice, !.stage = s.stage]
    BY <1>1 DEF Startups
  <2>1. chosen.choice = choice /\ chosen.stage = s.stage
    BY <1>1 DEF Startups
  (* What is sent by a player that has chosen and goes to a stage. *)
  <2>2. ASSUME NEW stage \in {s.stage, "Unavailable", "Committed"},
               stage = "Committed" => /\ p = Host /\ AllAccepted(p, s)
                                      /\ choice.delay <= MaxDelay,
               NEW t, t = [chosen EXCEPT !.stage = stage]
        PROVE  /\ Sound(log, cf, [st EXCEPT ![p] = t], ctl) /\ t \in Startups
               /\ t.attempt = s.attempt /\ t.reports = s.reports
               /\ t.accepted = s.accepted /\ t.stage = stage /\ t.choice = choice
               /\ summary \in Packets
               /\ Told(log, cf, [st EXCEPT ![p] = t], p, summary)
    <3>1. t = [s EXCEPT !.choice = choice, !.stage = stage]
      BY <1>1, <2>2 DEF Startups
    <3> HIDE DEF chosen
    <3>2. /\ Sound(log, cf, [st EXCEPT ![p] = t], ctl) /\ t \in Startups
          /\ t.attempt = s.attempt /\ t.reports = s.reports
          /\ t.accepted = s.accepted /\ t.stage = stage /\ t.choice = choice
      <4>1. MayChoose(p, cf[p], st[p], stage)
        BY <1>2, <1>5, <2>2 DEF MayChoose
      <4>2. t = Chosen(cf[p], st[p], stage)
        BY <3>1 DEF Chosen
      <4> QED
        BY <4>1, <4>2, ChosenIsSound, SMTT(30)
    <3>3. [st EXCEPT ![p] = t][p] = t
      BY <1>1, <3>2, SetTwice
    <3>4. summary \in Packets /\ Told(log, cf, [st EXCEPT ![p] = t], p, summary)
      BY <1>1, <1>2, <3>2, <3>3, SummaryIsGenuine
    <3> QED
      BY <3>2, <3>4
  <2>3. CASE choice.delay > MaxDelay
    <3> DEFINE t == GiveUp(chosen)
    <3>1. result = Sends(t, <<summary>>, NoInputs)
      BY <1>5, <2>1, <2>3 DEF Negotiate
    <3>2. /\ Sound(log, cf, [st EXCEPT ![p] = t], ctl) /\ t.stage = "Unavailable"
          /\ summary \in Packets /\ Told(log, cf, [st EXCEPT ![p] = t], p, summary)
      BY <2>2 DEF GiveUp
    <3> HIDE DEF t, summary, result
    <3>3. <<summary>> \in Seq(Packets) /\ ToSet(<<summary>>) = {summary}
      BY <3>2, ShortSequences
    <3>4. result.state = t /\ result.controls = <<summary>> /\ result.inputs = NoInputs
      BY <3>1, SendsFacts
    <3>5. Handled(log, cf, st, ctl, p, sends, result)
      BY <1>3, <3>2, <3>3, <3>4 DEF Handled
    <3> QED
      BY <3>5 DEF result
  <2>4. CASE ~(choice.delay > MaxDelay)
    <3>0. choice.delay <= MaxDelay
      <4>1. choice \in Choice
        BY <1>1, <1>5, SetupFacts, ChooseAllFacts
      <4> QED
        BY <2>4, <4>1 DEF Choice, MaxDelay
    (* The rest of the cases send one bargain more. *)
    <3>1. ASSUME NEW stage \in {s.stage, "Committed"},
                 stage = "Committed" => p = Host /\ AllAccepted(p, s),
                 NEW t, t = [chosen EXCEPT !.stage = stage],
                 NEW kind \in {"Proposal", "Accept", "Commit"},
                 kind \in {"Proposal", "Commit"} => p = Host,
                 kind = "Accept" => p # Host /\ s.accepted,
                 kind = "Commit" /\ sends => stage = "Committed",
                 result = Sends(t, <<summary, Control(p, c, chosen, kind)>>, NoInputs)
          PROVE  Handled(log, cf, st, ctl, p, sends, result)
      <4> DEFINE b == Control(p, c, chosen, kind)
      <4>1. /\ Sound(log, cf, [st EXCEPT ![p] = t], ctl) /\ t \in Startups
            /\ t.attempt = s.attempt /\ t.reports = s.reports
            /\ t.accepted = s.accepted /\ t.stage = stage /\ t.choice = choice
            /\ summary \in Packets
            /\ Told(log, cf, [st EXCEPT ![p] = t], p, summary)
        BY <2>2, <3>0, <3>1
      <4>2. /\ chosen \in Startups /\ chosen.attempt = s.attempt
            /\ chosen.reports = s.reports /\ chosen.choice = choice
        <5>1. choice \in Choice
          BY <1>1, <1>5, SetupFacts, ChooseAllFacts
        <5> HIDE DEF choice, s
        <5> QED
          BY <1>1, <5>1 DEF Startups
      <4>3. /\ [st EXCEPT ![p] = t][p] = t
            /\ p = Host => [st EXCEPT ![p] = t][Host] = t
        BY <1>1, <4>1, SetTwice
      <4>4. AllSummaries(chosen) /\ ChooseAll(chosen, c) = choice /\ Recorded(log, chosen)
        BY <1>2, <1>5, <4>2, SameReportsSameChoice, ZenonT(30) DEF Recorded
      <4>5. kind \in Bargains
        BY DEF Bargains
      <4> HIDE DEF s, chosen, choice, summary, c, result
      <4>6. sends => b \in Packets /\ Told(log, cf, [st EXCEPT ![p] = t], p, b)
        <5>1. kind # "CommitAck"
          OBVIOUS
        <5> QED
          BY <1>1, <3>0, <3>1, <4>1, <4>2, <4>3, <4>4, <4>5, <5>1,
             BargainIsGenuine, ZenonT(30) DEF c
      <4> HIDE DEF b
      <4>7. ASSUME sends
            PROVE  <<summary, b>> \in Seq(Packets)
                   /\ ToSet(<<summary, b>>) = {summary, b}
        <5>1. summary \in Packets /\ b \in Packets
          BY <4>1, <4>6, <4>7
        <5> QED
          BY <5>1, PacketPair
      <4>8. result.state = t /\ result.controls = <<summary, b>>
            /\ result.inputs = NoInputs
        BY <3>1, SendsFacts DEF b
      <4>9. s.stage # "Failed" => t.stage # "Failed"
        BY <4>1
      <4> QED
        BY <1>3, <4>1, <4>6, <4>7, <4>8, <4>9 DEF Handled, s
    <3>2. chosen = [chosen EXCEPT !.stage = s.stage]
      BY <1>1 DEF Startups
    <3>3. CASE p = Host /\ ~AllAccepted(p, s)
      <4>1. result = Sends(chosen, <<summary, Control(p, c, chosen, "Proposal")>>, NoInputs)
        BY <1>5, <2>1, <2>4, <3>3 DEF Negotiate
      <4> HIDE DEF result, s, chosen
      <4> QED
        BY <1>2, <3>1, <3>2, <3>3, <4>1 DEF result, s
    <3>4. CASE p = Host /\ AllAccepted(p, s)
      <4> DEFINE stage == IF sends THEN "Committed" ELSE s.stage
                 t == [chosen EXCEPT !.stage = stage]
      <4>1. [chosen EXCEPT !.stage = IF sends THEN "Committed" ELSE @] = t
        BY <2>1
      <4>2. result = Sends(t, <<summary, Control(p, c, chosen, "Commit")>>, NoInputs)
        BY <1>5, <2>1, <2>4, <3>4, <4>1 DEF Negotiate
      <4> HIDE DEF result, s, chosen
      <4> QED
        BY <1>2, <3>1, <3>4, <4>2 DEF result, s
    <3>5. CASE p # Host /\ s.accepted
      <4>1. result = Sends(chosen, <<summary, Control(p, c, chosen, "Accept")>>, NoInputs)
        BY <1>5, <2>1, <2>4, <3>5 DEF Negotiate
      <4> HIDE DEF result, s, chosen
      <4> QED
        BY <1>2, <3>1, <3>2, <3>5, <4>1 DEF result, s
    <3>6. CASE p # Host /\ ~s.accepted
      <4>1. result = Sends(chosen, <<summary>>, NoInputs)
        BY <1>5, <2>1, <2>4, <3>6 DEF Negotiate
      <4>2. /\ Sound(log, cf, [st EXCEPT ![p] = chosen], ctl) /\ chosen.stage = s.stage
            /\ summary \in Packets /\ Told(log, cf, [st EXCEPT ![p] = chosen], p, summary)
        BY <1>2, <2>2, <3>2
      <4> HIDE DEF chosen, summary, result
      <4>3. <<summary>> \in Seq(Packets) /\ ToSet(<<summary>>) = {summary}
        BY <4>2, ShortSequences
      <4>4. result.state = chosen /\ result.controls = <<summary>>
            /\ result.inputs = NoInputs
        BY <4>1, SendsFacts
      <4>5. Handled(log, cf, st, ctl, p, sends, result)
        BY <1>3, <4>2, <4>3, <4>4 DEF Handled
      <4> QED
        BY <4>5 DEF result
    <3> QED
      BY <3>3, <3>4, <3>5, <3>6
  <2> QED
    BY <2>3, <2>4
<1> QED
  BY <1>4, <1>5

LEMMA GreetingsAreGenuine ==
  ASSUME NEW log, NEW cf \in Configs, NEW st, NEW p \in Player, NEW s \in Startups,
         st[p].attempt = s.attempt, NEW state, NEW due
  PROVE  /\ Greetings(p, cf[p], s, state, due) \in Seq(Packets)
         /\ \A x \in ToSet(Greetings(p, cf[p], s, state, due)) :
              x \in Packets /\ Told(log, cf, st, p, x)
<1> DEFINE restart == Control(p, cf[p], s, "Restart")
           hello == Control(p, cf[p], s, "Hello")
           a == IF p = Host /\ s.attempt > 0 /\ s.stage = "WaitingPeer"
                THEN <<restart>> ELSE << >>
           b == IF state = "suspended" THEN << >> ELSE <<hello>>
           Ours(x) == x \in Packets /\ Told(log, cf, st, p, x)
<1>1. Ours(restart) /\ Ours(hello)
  BY PlainIsGenuine DEF Plain, Retries
<1>2. Greetings(p, cf[p], s, state, due) = IF "hello" \notin due THEN << >> ELSE a \o b
  BY DEF Greetings
<1> HIDE DEF restart, hello
<1>3. /\ << >> \in Seq(Packets) /\ ToSet(<< >>) = {}
      /\ <<restart>> \in Seq(Packets) /\ ToSet(<<restart>>) = {restart}
      /\ <<hello>> \in Seq(Packets) /\ ToSet(<<hello>>) = {hello}
  BY <1>1, ShortSequences
<1>4. /\ a \in Seq(Packets) /\ \A x \in ToSet(a) : Ours(x)
      /\ b \in Seq(Packets) /\ \A x \in ToSet(b) : Ours(x)
  <2> HIDE DEF Ours
  <2> QED
    BY <1>1, <1>3
<1> HIDE DEF a, b, Ours
<1>5. a \o b \in Seq(Packets) /\ \A x \in ToSet(a \o b) : Ours(x)
  <2>1. a \o b \in Seq(Packets) /\ ToSet(a \o b) \subseteq ToSet(a) \cup ToSet(b)
    BY <1>4, ConcatSet
  <2> QED
    BY <1>4, <2>1
<1>6. Greetings(p, cf[p], s, state, due) \in {<< >>, a \o b}
  BY <1>2
<1>7. /\ Greetings(p, cf[p], s, state, due) \in Seq(Packets)
      /\ \A x \in ToSet(Greetings(p, cf[p], s, state, due)) : Ours(x)
  BY <1>3, <1>5, <1>6
<1> QED
  BY <1>7 DEF Ours

(* Whatever comes of the negotiation, it is of this attempt. *)
LEMMA NegotiateSends ==
  ASSUME NEW p, NEW c, NEW s \in Startups, NEW sends
  PROVE  \E t, controls : /\ Negotiate(p, c, s, sends) = Sends(t, controls, NoInputs)
                          /\ t.attempt = s.attempt
<1> DEFINE choice == ChooseAll(s, c)
           chosen == [s EXCEPT !.choice = choice]
           summary == Control(p, c, s, "Summary")
           result == Negotiate(p, c, s, sends)
           Like(t) == t.attempt = s.attempt
           With(kind) == <<summary, Control(p, c, chosen, kind)>>
           committed == [chosen EXCEPT !.stage = IF sends THEN "Committed" ELSE @]
<1>1. Like(s) /\ Like(chosen) /\ Like(GiveUp(chosen)) /\ Like(committed)
  BY DEF Startups, GiveUp
<1>2. \/ result = Sends(s, <<summary>>, NoInputs)
      \/ result = Sends(GiveUp(chosen), <<summary>>, NoInputs)
      \/ result = Sends(chosen, <<summary>>, NoInputs)
      \/ result = Sends(chosen, With("Proposal"), NoInputs)
      \/ result = Sends(chosen, With("Accept"), NoInputs)
      \/ result = Sends(committed, With("Commit"), NoInputs)
  <2>1. CASE ~AllSummaries(s) \/ chosen.choice.delay > MaxDelay
    BY <2>1 DEF Negotiate
  <2>2. CASE AllSummaries(s) /\ ~(chosen.choice.delay > MaxDelay)
    <3>1. CASE p = Host /\ ~AllAccepted(p, s)
      BY <2>2, <3>1 DEF Negotiate
    <3>2. CASE p = Host /\ AllAccepted(p, s)
      BY <2>2, <3>2 DEF Negotiate
    <3>3. CASE p # Host /\ s.accepted
      BY <2>2, <3>3 DEF Negotiate
    <3>4. CASE p # Host /\ ~s.accepted
      BY <2>2, <3>4 DEF Negotiate
    <3> QED
      BY <3>1, <3>2, <3>3, <3>4
  <2> QED
    BY <2>1, <2>2
<1> HIDE DEF chosen, choice, summary, committed, With, result
<1>3. \E t, controls : result = Sends(t, controls, NoInputs) /\ Like(t)
  BY <1>1, <1>2
<1> QED
  BY <1>3 DEF result

(* The greetings go before what the handler sends. *)
LEMMA GreetedIsHandled ==
  ASSUME NEW log, NEW cf \in Configs, NEW st \in [Player -> Startups], NEW ctl, NEW p \in Player,
         NEW sends, NEW t, NEW controls, NEW inputs,
         Handled(log, cf, st, ctl, p, sends, Sends(t, controls, inputs)),
         t.attempt = st[p].attempt, NEW state, NEW due
  PROVE  Handled(log, cf, st, ctl, p, sends,
           [Sends(t, controls, inputs) EXCEPT
              !.controls = Greetings(p, cf[p], st[p], state, due) \o @])
<1> DEFINE g == Greetings(p, cf[p], st[p], state, due)
           result == Sends(t, controls, inputs)
           greeted == [result EXCEPT !.controls = g \o @]
           u == [st EXCEPT ![p] = t]
<1>1. result.state = t /\ result.controls = controls /\ result.inputs = inputs
  BY SendsFacts
<1>2. greeted = Sends(t, g \o controls, inputs)
  <2> DEFINE all == g \o result.controls
  <2>1. all = g \o controls
    BY <1>1
  <2>2. greeted = [result EXCEPT !.controls = all]
    OBVIOUS
  <2> HIDE DEF all, g
  <2>3. [result EXCEPT !.controls = all] = Sends(t, all, inputs)
    BY DEF Sends
  <2> HIDE DEF greeted
  <2> QED
    BY <2>1, <2>2, <2>3
<1>3. /\ greeted.state = t /\ greeted.controls = g \o controls
      /\ greeted.inputs = inputs
  <2> DEFINE all == g \o controls
  <2>1. greeted = Sends(t, all, inputs)
    BY <1>2
  <2> HIDE DEF greeted, all
  <2>2. greeted.state = t /\ greeted.controls = all /\ greeted.inputs = inputs
    BY <2>1, SendsFacts
  <2> QED
    BY <2>2 DEF all
<1>4. u[p] = t
  BY SetTwice
<1>5. g \in Seq(Packets) /\ \A x \in ToSet(g) : x \in Packets /\ Told(log, cf, u, p, x)
  BY <1>4, GreetingsAreGenuine
<1> HIDE DEF g, result, greeted, u
<1>6. Handled(log, cf, st, ctl, p, sends, result)
  BY DEF result
<1>7. /\ Sound(log, cf, u, ctl)
      /\ sends => /\ controls \in Seq(Packets)
                  /\ \A x \in ToSet(controls) : Told(log, cf, u, p, x)
      /\ inputs \in [Player -> SUBSET Probings(cf, p)]
      /\ AllAlike(cf) /\ st[p].stage # "Failed" => t.stage # "Failed"
  BY <1>1, <1>6 DEF Handled, u
<1>8. ASSUME sends
      PROVE  /\ g \o controls \in Seq(Packets)
             /\ \A x \in ToSet(g \o controls) : Told(log, cf, u, p, x)
  <2>1. /\ g \o controls \in Seq(Packets)
        /\ ToSet(g \o controls) \subseteq ToSet(g) \cup ToSet(controls)
    BY <1>5, <1>7, <1>8, ConcatSet
  <2> QED
    BY <1>5, <1>7, <1>8, <2>1
<1>9. Handled(log, cf, st, ctl, p, sends, greeted)
  BY <1>3, <1>7, <1>8 DEF Handled, u
<1> QED
  BY <1>9 DEF greeted, result, g

LEMMA NumberedFacts ==
  ASSUME NEW cf \in Configs, NEW p \in Player, NEW s \in Startups,
         NEW kind \in {"Probe", "Echo"}, NEW slot \in Nat
  PROVE  Numbered(cf[p], s, kind, slot) \in Probings(cf, p)
<1> DEFINE x == Numbered(cf[p], s, kind, slot)
<1>1. s.attempt \in 0 .. MaxRetries /\ cf[p] \in Setups /\ kind \in Kinds
  BY SetupFacts DEF Startups, Kinds
<1>2. x = [kind |-> kind, config |-> cf[p], attempt |-> s.attempt, slot |-> slot,
           p95 |-> None, choice |-> None]
  BY DEF Numbered
<1>3. x \in CalibrationPackets
  BY <1>1, <1>2 DEF CalibrationPackets
<1>4. x.config = cf[p] /\ x.kind = kind
  BY <1>2
<1> HIDE DEF x
<1>5. x \in Probings(cf, p)
  BY <1>3, <1>4 DEF Probings
<1> QED
  BY <1>5 DEF x

LEMMA ProbeFacts ==
  ASSUME NEW cf \in Configs, NEW p \in Player, NEW s \in Startups
  PROVE  /\ Minor(p, s, AfterProbe(p, s))
         /\ AfterProbe(p, s).stage = s.stage
         /\ Minor(p, s, [s EXCEPT !.probes = @ + 1])
         /\ [s EXCEPT !.probes = @ + 1].stage = s.stage
         /\ Probes(p, cf[p], s) \in [Player -> SUBSET Probings(cf, p)]
<1> DEFINE t == AfterProbe(p, s)
           u == [s EXCEPT !.probes = @ + 1]
<1>1. s.probes + 1 \in Nat /\ s.sent \in [Player -> SUBSET Nat]
  BY DEF Startups
<1>2. [q \in Player |-> IF q = p THEN {} ELSE s.sent[q] \cup {s.probes + 1}]
        \in [Player -> SUBSET Nat]
  BY <1>1
<1>3. /\ t \in Startups /\ t.attempt = s.attempt /\ t.reports = s.reports
      /\ t.haveLocal = s.haveLocal /\ t.accepted = s.accepted
      /\ t.acceptedBy = s.acceptedBy /\ t.choice = s.choice /\ t.stage = s.stage
  BY <1>1, <1>2 DEF AfterProbe, Startups
<1>4. /\ u \in Startups /\ u.attempt = s.attempt /\ u.reports = s.reports
      /\ u.haveLocal = s.haveLocal /\ u.accepted = s.accepted
      /\ u.acceptedBy = s.acceptedBy /\ u.choice = s.choice /\ u.stage = s.stage
  BY <1>1 DEF Startups
<1>5. Numbered(cf[p], s, "Probe", s.probes + 1) \in Probings(cf, p)
  BY <1>1, NumberedFacts
<1>6. Probes(p, cf[p], s) \in [Player -> SUBSET Probings(cf, p)]
  BY <1>5 DEF Probes
<1> HIDE DEF t, u
<1>7. Minor(p, s, t) /\ Minor(p, s, u)
  BY <1>3, <1>4 DEF Minor
<1> QED
  BY <1>3, <1>4, <1>6, <1>7 DEF t, u

LEMMA CalibrateIsHandled ==
  ASSUME NEW log, NEW cf, NEW st, NEW ctl, Sound(log, cf, st, ctl), NEW p \in Player,
         st[p].stage # "Committed", NEW state, NEW env, env.p95 \in Rtts[p]
  PROVE  \E new : Handled(new, cf, st, ctl, p, env.late # "unsent",
                         Calibrate(p, cf[p], st[p], state, env))
<1> DEFINE s == st[p]
           c == cf[p]
           sends == env.late # "unsent"
           greetings == Greetings(p, c, s, state, env.due)
           After(r) == [r EXCEPT !.controls = greetings \o @]
           result == Calibrate(p, c, s, state, env)
           Done == \E new : Handled(new, cf, st, ctl, p, sends, result)
           waited == IF s.stage = "WaitingPeer" /\ AllHello(p, s)
                     THEN [s EXCEPT !.stage = "Measuring"] ELSE s
           probed == IF sends THEN AfterProbe(p, s) ELSE [s EXCEPT !.probes = @ + 1]
           measured == Publish(p, s, env.p95)
<1>1. s \in Startups /\ cf \in Configs /\ st \in [Player -> Startups] /\ sends \in BOOLEAN
  BY DEF Sound
<1>2. s.stage # "Committed"
  OBVIOUS
<1>3. NoInputs \in [Player -> SUBSET Probings(cf, p)]
  BY NoInputsFacts
(* A minor step that sends the greetings only. *)
<1>4. ASSUME NEW t, Minor(p, s, t), t.stage = "Failed" => s.stage = "Failed",
             NEW inputs \in [Player -> SUBSET Probings(cf, p)]
      PROVE  Handled(log, cf, st, ctl, p, sends, Sends(t, greetings, inputs))
  <2>1. t.attempt = s.attempt /\ t \in Startups
    BY <1>4 DEF Minor
  <2>2. [st EXCEPT ![p] = t][p] = t
    BY <1>1, SetTwice
  <2>3. /\ greetings \in Seq(Packets)
        /\ \A x \in ToSet(greetings) : Told(log, cf, [st EXCEPT ![p] = t], p, x)
    BY <1>1, <2>1, <2>2, GreetingsAreGenuine
  <2> HIDE DEF greetings, sends
  <2> QED
    BY <1>4, <2>3, MinorIsHandled
(* A negotiation, from the state that is there or the one just measured.   *)
<1>5. ASSUME NEW t, t.attempt = s.attempt, t.stage # "Committed", t.haveLocal,
             NEW new, Sound(new, cf, [st EXCEPT ![p] = t], ctl),
             s.stage # "Failed" => t.stage # "Failed"
      PROVE  Handled(new, cf, st, ctl, p, sends, After(Negotiate(p, c, t, sends)))
  <2> DEFINE u == [st EXCEPT ![p] = t]
  <2>1. u[p] = t
    BY <1>1, SetTwice
  <2>2. t \in Startups
    BY <1>5, <2>1 DEF Sound
  <2>3. PICK v, controls : /\ Negotiate(p, c, t, sends) = Sends(v, controls, NoInputs)
                           /\ v.attempt = t.attempt
    BY <2>2, NegotiateSends
  <2>9. /\ Sound(new, cf, u, ctl) /\ u[p].stage # "Committed" /\ u[p].haveLocal
        /\ sends \in BOOLEAN
    BY <1>1, <1>5, <2>1
  <2> HIDE DEF u, sends
  <2>4. Handled(new, cf, u, ctl, p, sends, Negotiate(p, cf[p], u[p], sends))
    BY <2>9, NegotiateIsHandled
  <2>5. Handled(new, cf, u, ctl, p, sends, Sends(v, controls, NoInputs))
    BY <2>1, <2>3, <2>4
  <2>6. Handled(new, cf, st, ctl, p, sends, Sends(v, controls, NoInputs))
    BY <1>1, <1>5, <2>5, HandledFurther DEF u
  <2>7. v.attempt = st[p].attempt
    BY <1>5, <2>3
  <2>8. Handled(new, cf, st, ctl, p, sends,
          [Sends(v, controls, NoInputs) EXCEPT
             !.controls = Greetings(p, cf[p], st[p], state, env.due) \o @])
    BY <1>1, <2>6, <2>7, GreetedIsHandled
  <2> QED
    BY <2>3, <2>8
<1> SUFFICES Done
  OBVIOUS
<1>6. CASE state # "open"
  <2>1. result = Sends(s, greetings, NoInputs)
    BY <1>6 DEF Calibrate
  <2> HIDE DEF result, greetings, sends, s
  <2> QED
    BY <1>1, <1>3, <1>4, <2>1, SameIsMinor
<1>7. CASE state = "open" /\ Probing(s, env.due)
  <2>1. result = Sends(probed, greetings, Probes(p, c, s))
    BY <1>7 DEF Calibrate
  <2>2. /\ Minor(p, s, probed) /\ probed.stage = s.stage
        /\ Probes(p, c, s) \in [Player -> SUBSET Probings(cf, p)]
    <3> HIDE DEF sends, s
    <3> QED
      BY <1>1, ProbeFacts
  <2> HIDE DEF result, greetings, sends, s, probed
  <2> QED
    BY <1>4, <2>1, <2>2
<1>8. CASE state = "open" /\ ~Probing(s, env.due) /\ Measured(s, env.due)
  <2>1. CASE LinksUsable(p, s)
    <3>1. result = After(Negotiate(p, c, measured, sends))
      BY <1>8, <2>1 DEF Calibrate
    <3>2. s.stage = "Measuring"
      BY <1>8 DEF Measured
    <3>3. PICK new : Sound(new, cf, [st EXCEPT ![p] = measured], ctl)
      BY <3>2, PublishIsSound
    <3>5. /\ measured.haveLocal /\ measured.stage = "Negotiating"
      BY <3>2, PublishIsSound
    <3>4. measured.attempt = s.attempt
      BY <1>1 DEF Publish, Startups
    <3> HIDE DEF result, measured, sends, s, After
    <3> QED
      BY <1>5, <3>1, <3>3, <3>4, <3>5
  <2>2. CASE ~LinksUsable(p, s)
    <3>1. result = Sends(Retry(s), greetings, NoInputs)
      BY <1>8, <2>2 DEF Calibrate
    <3>2. Minor(p, s, Retry(s)) /\ (Retry(s).stage = "Failed" => s.stage = "Failed")
      BY <1>1, RetryIsMinor
    <3> HIDE DEF result, greetings, sends, s
    <3> QED
      BY <1>3, <1>4, <3>1, <3>2
  <2> QED
    BY <2>1, <2>2
<1>9. CASE /\ state = "open" /\ ~Probing(s, env.due) /\ ~Measured(s, env.due)
           /\ s.haveLocal /\ "control" \in env.due
  <2>1. result = After(Negotiate(p, c, s, sends))
    BY <1>9 DEF Calibrate
  <2>2. Sound(log, cf, [st EXCEPT ![p] = s], ctl)
    BY <1>1, SetTwice
  <2> HIDE DEF result, sends, s, After
  <2> QED
    BY <1>2, <1>5, <1>9, <2>1, <2>2
<1>10. CASE /\ state = "open" /\ ~Probing(s, env.due) /\ ~Measured(s, env.due)
            /\ ~(s.haveLocal /\ "control" \in env.due)
  <2>1. result = Sends(waited, greetings, NoInputs)
    BY <1>10 DEF Calibrate
  <2>2. Minor(p, s, waited) /\ (waited.stage = "Failed" => s.stage = "Failed")
    <3>1. CASE s.stage = "WaitingPeer" /\ AllHello(p, s)
      <4>1. "Measuring" \in Stages \ {"Committed"} /\ s.stage \in Early
        BY <3>1 DEF Stages, Early
      <4>2. [s EXCEPT !.stage = "Measuring"].stage = "Measuring"
        BY <1>1 DEF Startups
      <4> HIDE DEF s
      <4> QED
        BY <1>1, <1>2, <3>1, <4>1, <4>2, StageIsMinor
    <3>2. CASE ~(s.stage = "WaitingPeer" /\ AllHello(p, s))
      BY <1>1, <3>2, SameIsMinor
    <3> QED
      BY <3>1, <3>2
  <2> HIDE DEF result, greetings, sends, s, waited
  <2> QED
    BY <1>3, <1>4, <2>1, <2>2
<1> QED
  BY <1>6, <1>7, <1>8, <1>9, <1>10

LEMMA RepeatIsHandled ==
  ASSUME NEW log, NEW cf, NEW st, NEW ctl, Sound(log, cf, st, ctl), NEW p \in Player,
         NEW sends, NEW kind, NEW due,
         /\ Control(p, cf[p], st[p], kind) \in Packets
         /\ Told(log, cf, st, p, Control(p, cf[p], st[p], kind))
  PROVE  /\ Handled(log, cf, st, ctl, p, sends, Repeat(p, cf[p], st[p], kind, due))
         /\ Handled(log, cf, st, ctl, p, sends,
                    Sends(st[p], <<Control(p, cf[p], st[p], kind)>>, NoInputs))
<1> DEFINE x == Control(p, cf[p], st[p], kind)
           s == st[p]
<1>1. s \in Startups /\ st \in [Player -> Startups]
  BY DEF Sound
<1>2. [st EXCEPT ![p] = s] = st /\ Minor(p, st[p], s)
  BY <1>1, SetTwice, SameIsMinor
<1> HIDE DEF x, s
<1>3. <<x>> \in Seq(Packets) /\ ToSet(<<x>>) = {x}
  BY ShortSequences DEF x
<1>4. \A y \in ToSet(<<x>>) : Told(log, cf, [st EXCEPT ![p] = s], p, y)
  BY <1>2, <1>3 DEF x
<1>5. s.stage = "Failed" => st[p].stage = "Failed"
  BY DEF s
<1>6. NoInputs \in [Player -> SUBSET Probings(cf, p)]
  BY NoInputsFacts
<1>7. Handled(log, cf, st, ctl, p, sends, Sends(s, <<x>>, NoInputs))
  BY <1>2, <1>3, <1>4, <1>5, <1>6, MinorIsHandled
<1>8. Handled(log, cf, st, ctl, p, sends, Quiet(s))
  BY <1>2, <1>5, QuietIsHandled
<1>9. Repeat(p, cf[p], s, kind, due) = IF "control" \in due THEN Sends(s, <<x>>, NoInputs)
                                                          ELSE Quiet(s)
  BY DEF Repeat, x, s
<1> QED
  BY <1>7, <1>8, <1>9 DEF x, s

LEMMA TickIsHandled ==
  ASSUME NEW log, NEW cf, NEW st, NEW ctl, Sound(log, cf, st, ctl), NEW p \in Player,
         NEW state, NEW env, env.p95 \in Rtts[p]
  PROVE  \E new : Handled(new, cf, st, ctl, p, env.late # "unsent",
                         Tick(p, cf[p], st[p], state, env))
<1> DEFINE s == st[p]
           sends == env.late # "unsent"
           result == Tick(p, cf[p], s, state, env)
<1>1. s \in Startups /\ cf \in Configs /\ st \in [Player -> Startups]
  BY DEF Sound
<1>2. Handled(log, cf, st, ctl, p, sends, Quiet(s))
  <2>1. Minor(p, st[p], s)
    BY <1>1, SameIsMinor
  <2> HIDE DEF sends
  <2> QED
    BY <2>1, QuietIsHandled
<1> SUFFICES \E new : Handled(new, cf, st, ctl, p, sends, result)
  OBVIOUS
<1>3. CASE state \in {"closed", "failed"}
  <2>1. result = Quiet(s)
    BY <1>3 DEF Tick
  <2> HIDE DEF result, s, sends
  <2> QED
    BY <1>2, <2>1
<1>4. CASE state \notin {"closed", "failed"} /\ s.stage \in {"Unavailable", "Retrying"}
  <2> DEFINE kind == IF s.stage = "Unavailable" THEN "Stop" ELSE "RetryRequest"
  <2>1. result = Repeat(p, cf[p], s, kind, env.due)
    BY <1>4 DEF Tick
  <2>2. kind \in Plain
    BY DEF Plain, Retries
  <2>3. /\ Control(p, cf[p], s, kind) \in Packets
        /\ Told(log, cf, st, p, Control(p, cf[p], s, kind))
    BY <1>1, <2>2, PlainIsGenuine
  <2> HIDE DEF result, sends, kind
  <2> QED
    BY <2>1, <2>3, RepeatIsHandled
<1>5. CASE state \notin {"closed", "failed"} /\ s.stage = "Committed"
  <2>1. CASE RepeatsCommit(p, s, env.due)
    <3>1. result = Sends(s, <<Control(p, cf[p], s, "Commit")>>, NoInputs)
      BY <1>5, <2>1 DEF Tick
    <3>2. p = Host
      BY <2>1 DEF RepeatsCommit
    <3>3. OwnFacts(p, cf[p], s) /\ Recorded(log, s)
      BY DEF Sound, PlayerFacts
    <3>4. /\ AllSummaries(s) /\ s.choice = ChooseAll(s, cf[p])
          /\ s.choice.delay <= MaxDelay /\ "Commit" \in Bargains
      BY <1>5, <3>3 DEF OwnFacts, Bargains
    <3>5. /\ Control(p, cf[p], s, "Commit") \in Packets
          /\ Told(log, cf, st, p, Control(p, cf[p], s, "Commit"))
      BY <1>1, <1>5, <3>2, <3>3, <3>4, BargainIsGenuine
    <3> HIDE DEF result, sends
    <3> QED
      BY <3>1, <3>5, RepeatIsHandled
  <2>2. CASE ~RepeatsCommit(p, s, env.due)
    <3>1. result = Quiet(s)
      BY <1>5, <2>2 DEF Tick
    <3> HIDE DEF result, s, sends
    <3> QED
      BY <1>2, <3>1
  <2> QED
    BY <2>1, <2>2
<1>6. CASE /\ state \notin {"closed", "failed"}
           /\ s.stage \notin {"Unavailable", "Retrying", "Committed"}
  <2>1. result = Calibrate(p, cf[p], s, state, env)
    BY <1>6 DEF Tick
  <2>2. \E new : Handled(new, cf, st, ctl, p, env.late # "unsent",
                        Calibrate(p, cf[p], st[p], state, env))
    BY <1>6, CalibrateIsHandled
  <2> HIDE DEF result
  <2> QED
    BY <2>1, <2>2
<1> QED
  BY <1>3, <1>4, <1>5, <1>6

(* What is sent goes on the wire. *)
LEMMA HandledPosts ==
  ASSUME NEW log, NEW cf, NEW st, NEW ctl, NEW p \in Player, NEW result,
         Handled(log, cf, st, ctl, p, TRUE, result)
  PROVE  Sound(log, cf, [st EXCEPT ![p] = result.state], Posted(ctl, p, result.controls))
BY PostIsSound DEF Handled, Told

(* A whole Tick: the deadlines, the retry of the host, and the rest.       *)
LEMMA PumpIsHandled ==
  ASSUME NEW log, NEW cf, NEW st, NEW ctl, Sound(log, cf, st, ctl), NEW p \in Player,
         NEW state, NEW env, env.p95 \in Rtts[p]
  PROVE  \E new : Handled(new, cf, st, ctl, p, env.late # "unsent",
           Tick(p, cf[p], AfterRetry(p, Deadlines(st[p], state, env.late)), state, env))
<1> DEFINE kept == Deadlines(st[p], state, env.late)
           s == AfterRetry(p, kept)
           u == [st EXCEPT ![p] = kept]
           v == [u EXCEPT ![p] = s]
           result == Tick(p, cf[p], s, state, env)
           sends == env.late # "unsent"
<1>1. st \in [Player -> Startups] /\ st[p] \in Startups
  BY DEF Sound
<1>2. Minor(p, st[p], kept) /\ (kept.stage = "Failed" => st[p].stage = "Failed")
  BY <1>1, DeadlinesAreMinor
<1> HIDE DEF kept
<1>3. Sound(log, cf, u, ctl)
  BY <1>2, MinorIsSound
<1>4. u[p] = kept /\ u \in [Player -> Startups]
  BY <1>1, <1>3, SetTwice DEF Sound
<1> HIDE DEF u
<1>5. Sound(log, cf, v, ctl) /\ (s.stage = "Failed" => kept.stage = "Failed")
  BY <1>3, <1>4, AfterRetryIsSound
<1> HIDE DEF s
<1>6. v[p] = s
  BY <1>4, SetTwice
<1> HIDE DEF v
<1>7. PICK new : Handled(new, cf, v, ctl, p, sends, result)
  BY <1>5, <1>6, TickIsHandled
<1> HIDE DEF result, sends
<1>8. Handled(new, cf, u, ctl, p, sends, result)
  BY <1>3, <1>4, <1>5, <1>7, HandledFurther DEF v
<1>9. Handled(new, cf, st, ctl, p, sends, result)
  BY <1>1, <1>2, <1>8, HandledFurther DEF u
<1> QED
  BY <1>9 DEF result, sends, s, kept

---------------------------------------------------------------------------
(* Receive. *)

LEMMA SoundIsHandled ==
  ASSUME NEW log, NEW cf, NEW st, NEW ctl, NEW p \in Player, NEW t, NEW sends,
         Sound(log, cf, [st EXCEPT ![p] = t], ctl),
         AllAlike(cf) /\ st[p].stage # "Failed" => t.stage # "Failed"
  PROVE  /\ Handled(log, cf, st, ctl, p, sends, Quiet(t))
         /\ \A x \in Packets : Told(log, cf, [st EXCEPT ![p] = t], p, x) =>
              Handled(log, cf, st, ctl, p, sends, Sends(t, <<x>>, NoInputs))
         /\ \A inputs \in [Player -> SUBSET Probings(cf, p)] :
              Handled(log, cf, st, ctl, p, sends, Sends(t, << >>, inputs))
<1>1. /\ << >> \in Seq(Packets) /\ ToSet(<< >>) = {}
      /\ \A x \in Packets : <<x>> \in Seq(Packets) /\ ToSet(<<x>>) = {x}
  <2>1. << >> \in Seq(Packets) /\ ToSet(<< >>) = {}
    BY EmptySeq DEF ToSet
  <2>2. \A x \in Packets : <<x>> \in Seq(Packets) /\ ToSet(<<x>>) = {x}
    BY ShortSequences
  <2> QED
    BY <2>1, <2>2
<1>2. NoInputs \in [Player -> SUBSET Probings(cf, p)]
  BY NoInputsFacts
<1>3. ASSUME NEW inputs \in [Player -> SUBSET Probings(cf, p)], NEW controls \in Seq(Packets),
             \A x \in ToSet(controls) : Told(log, cf, [st EXCEPT ![p] = t], p, x)
      PROVE  Handled(log, cf, st, ctl, p, sends, Sends(t, controls, inputs))
  <2> DEFINE result == Sends(t, controls, inputs)
  <2>1. result.state = t /\ result.controls = controls /\ result.inputs = inputs
    BY SendsFacts
  <2> HIDE DEF result
  <2>2. Handled(log, cf, st, ctl, p, sends, result)
    BY <1>3, <2>1 DEF Handled
  <2> QED
    BY <2>2 DEF result
<1>4. Handled(log, cf, st, ctl, p, sends, Sends(t, << >>, NoInputs))
  BY <1>1, <1>2, <1>3
<1>5. ASSUME NEW x \in Packets, Told(log, cf, [st EXCEPT ![p] = t], p, x)
      PROVE  Handled(log, cf, st, ctl, p, sends, Sends(t, <<x>>, NoInputs))
  <2> DEFINE controls == <<x>>
  <2>1. controls \in Seq(Packets) /\ ToSet(controls) = {x}
    BY <1>1
  <2> HIDE DEF controls
  <2>2. Handled(log, cf, st, ctl, p, sends, Sends(t, controls, NoInputs))
    BY <1>2, <1>3, <1>5, <2>1
  <2> QED
    BY <2>2 DEF controls
<1>6. ASSUME NEW inputs \in [Player -> SUBSET Probings(cf, p)]
      PROVE  Handled(log, cf, st, ctl, p, sends, Sends(t, << >>, inputs))
  BY <1>1, <1>3
<1> QED
  BY <1>4, <1>5, <1>6 DEF Quiet

(* Another configuration of this session: the sender is not configured     *)
(* like p, and had p committed as the host, it would be.                   *)
LEMMA FailIsHandled ==
  ASSUME NEW log, NEW cf, NEW st, NEW ctl, Sound(log, cf, st, ctl),
         NEW p \in Player, NEW q \in Others(p), cf[q] # cf[p]
  PROVE  Handled(log, cf, st, ctl, p, TRUE, Quiet(Fail(st[p])))
<1>1. st[p] \in Startups /\ "Failed" \in Stages \ {"Committed"} /\ "Failed" \notin Early
  BY DEF Sound, Stages, Early
<1>2. p = Host => st[p].stage # "Committed"
  <2>1. ASSUME p = Host, st[Host].stage = "Committed" PROVE FALSE
    <3>1. q \in st[Host].acceptedBy
      BY <2>1 DEF Sound, PlayerFacts, AllAccepted, Others
    <3>2. cf[q] = cf[Host]
      BY <3>1 DEF Sound, PlayerFacts
    <3> QED
      BY <2>1, <3>2
  <2> QED
    BY <2>1
<1>3. Minor(p, st[p], Fail(st[p]))
  BY <1>1, <1>2, StageIsMinor DEF Fail
<1>4. ~AllAlike(cf)
  BY DEF AllAlike, Others
<1> QED
  BY <1>3, <1>4, QuietIsHandled

LEMMA RetryReceived ==
  ASSUME NEW log, NEW cf, NEW st, NEW ctl, Sound(log, cf, st, ctl),
         NEW p \in Player, NEW q \in Others(p), NEW x,
         Genuine(log, cf, st, q, x), x.kind \in Retries
  PROVE  Handled(log, cf, st, ctl, p, TRUE, Quiet(ReceiveRetry(p, st[p], x)))
<1> DEFINE s == st[p]
           t == ReceiveRetry(p, s, x)
<1>1. s \in Startups /\ st \in [Player -> Startups]
  BY DEF Sound
<1>2. /\ x \in CalibrationPackets /\ x.attempt <= st[q].attempt
      /\ st[q].attempt <= st[Host].attempt /\ q \in Player
  BY DEF Genuine, Truthful, Kinds, Others, Sound, PlayerFacts
<1> SUFFICES /\ Sound(log, cf, [st EXCEPT ![p] = t], ctl)
             /\ s.stage # "Failed" => t.stage # "Failed"
  BY SoundIsHandled
<1>3. ASSUME Minor(p, s, t), t.stage = "Failed" => s.stage = "Failed"
      PROVE  /\ Sound(log, cf, [st EXCEPT ![p] = t], ctl)
             /\ s.stage # "Failed" => t.stage # "Failed"
  <2> HIDE DEF t
  <2> QED
    BY <1>3, MinorIsSound
<1>4. Minor(p, s, s)
  BY <1>1, SameIsMinor
<1>5. CASE x.kind = "Stop"
  <2>1. t = IF x.attempt < s.attempt \/ s.stage = "Committed" THEN s ELSE GiveUp(s)
    BY <1>5 DEF ReceiveRetry
  <2>2. s.stage # "Committed" => Minor(p, s, GiveUp(s)) /\ GiveUp(s).stage = "Unavailable"
    BY <1>1, GiveUpIsMinor
  <2> HIDE DEF t, s
  <2> QED
    BY <1>3, <1>4, <2>1, <2>2
<1>6. CASE x.kind = "RetryRequest"
  <2>1. t = IF p = Host /\ x.attempt = s.attempt THEN Retry(s) ELSE s
    BY <1>6 DEF ReceiveRetry
  <2>2. Minor(p, s, Retry(s)) /\ (Retry(s).stage = "Failed" => s.stage = "Failed")
    BY <1>1, RetryIsMinor
  <2> HIDE DEF t, s
  <2> QED
    BY <1>3, <1>4, <2>1, <2>2
<1>7. CASE x.kind = "Restart"
  <2> DEFINE later == x.attempt > s.attempt /\ s.stage \notin {"Committed", "Unavailable"}
  <2>1. t = IF later THEN ResetAttempt(s, x.attempt) ELSE s
    BY <1>7 DEF ReceiveRetry
  <2>2. CASE later
    <3>1. /\ x.attempt \in 0 .. MaxRetries /\ s.attempt \in Nat
          /\ st[q].attempt \in Nat /\ st[Host].attempt \in Nat
      BY <1>1, <1>2, ReportFacts, StartupAssumption DEF CalibrationPackets, Startups
    <3>2. /\ st[p].attempt < x.attempt /\ x.attempt <= st[Host].attempt
          /\ st[p].stage # "Committed"
      BY <1>2, <2>2, <3>1, StartupAssumption
    <3>3. Sound(log, cf, [st EXCEPT ![p] = ResetAttempt(st[p], x.attempt)], ctl)
      BY <3>1, <3>2, ResetIsSound
    <3>4. ResetAttempt(s, x.attempt).stage = "WaitingPeer"
      BY <1>1 DEF ResetAttempt, Startups
    <3> HIDE DEF t
    <3> QED
      BY <2>1, <2>2, <3>3, <3>4
  <2>3. CASE ~later
    <3> HIDE DEF t, s, later
    <3> QED
      BY <1>3, <1>4, <2>1, <2>3
  <2> QED
    BY <2>2, <2>3
<1> QED
  BY <1>5, <1>6, <1>7 DEF Retries

(* A greeting or an echo is counted. *)
LEMMA CountedIsMinor ==
  ASSUME NEW p, NEW s \in Startups, NEW q \in Player, NEW x \in CalibrationPackets
  PROVE  /\ Minor(p, s, [s EXCEPT !.hello = @ \cup {q}])
         /\ [s EXCEPT !.hello = @ \cup {q}].stage = s.stage
         /\ Minor(p, s, ReceiveEcho(s, q, x))
         /\ ReceiveEcho(s, q, x).stage = s.stage
<1> DEFINE t == [s EXCEPT !.hello = @ \cup {q}]
           row == [s.rtt EXCEPT ![q] = @ \cup {x.slot}]
           u == [s EXCEPT !.rtt = row]
<1>1. s.hello \subseteq Player /\ s.rtt \in [Player -> SUBSET Nat] /\ x.slot \in Nat
  BY DEF Startups, CalibrationPackets
<1>2. row \in [Player -> SUBSET Nat]
  BY <1>1
<1> HIDE DEF row
<1>3. /\ t \in Startups /\ t.attempt = s.attempt /\ t.reports = s.reports
      /\ t.haveLocal = s.haveLocal /\ t.accepted = s.accepted
      /\ t.acceptedBy = s.acceptedBy /\ t.choice = s.choice /\ t.stage = s.stage
  BY <1>1 DEF Startups
<1>4. /\ u \in Startups /\ u.attempt = s.attempt /\ u.reports = s.reports
      /\ u.haveLocal = s.haveLocal /\ u.accepted = s.accepted
      /\ u.acceptedBy = s.acceptedBy /\ u.choice = s.choice /\ u.stage = s.stage
  BY <1>2 DEF Startups
<1>5. ReceiveEcho(s, q, x) \in {u, s}
  BY DEF ReceiveEcho, row
<1> HIDE DEF t, u
<1>6. Minor(p, s, t) /\ Minor(p, s, u) /\ Minor(p, s, s)
  BY <1>3, <1>4, SameIsMinor DEF Minor
<1>7. /\ Minor(p, s, ReceiveEcho(s, q, x))
      /\ ReceiveEcho(s, q, x).stage = s.stage
  BY <1>4, <1>5, <1>6
<1> QED
  BY <1>3, <1>6, <1>7 DEF t

(* A report of this attempt: it is the one in the log. *)
LEMMA SummaryIsSound ==
  ASSUME NEW log, NEW cf, NEW st, NEW ctl, Sound(log, cf, st, ctl),
         NEW p \in Player, NEW q \in Others(p), NEW x,
         Genuine(log, cf, st, q, x), x.kind = "Summary", x.attempt = st[p].attempt
  PROVE  LET t == ReceiveSummary(st[p], q, x)
         IN  Sound(log, cf, [st EXCEPT ![p] = t], ctl) /\ t.stage = st[p].stage
<1> DEFINE s == st[p]
           t == [s EXCEPT !.reports[q] = x.p95]
<1>1. s \in Startups /\ log \in Logs /\ q \in Player /\ q # p
  BY DEF Sound, Others
<1>2. /\ OwnFacts(p, cf[p], s) /\ CommitIsHosts(st[Host], s)
      /\ KeepsLog(log, p, s) /\ Recorded(log, s)
      /\ p = Host => \A r \in s.acceptedBy :
           r # Host /\ cf[r] = cf[Host] /\ HasAccepted(s, st[r])
      /\ p = Host /\ s.stage = "Committed" => AllAccepted(Host, s)
  BY DEF Sound, PlayerFacts
<1>3. /\ x \in CalibrationPackets /\ x.p95 # None /\ x.attempt = s.attempt
      /\ x.p95 = log[q][s.attempt]
  BY DEF Genuine, Truthful, Kinds
<1>4. s.reports[q] \in {None, x.p95}
  BY <1>1, <1>2, <1>3 DEF Recorded
<1>5. ReceiveSummary(s, q, x) = t
  BY <1>4 DEF ReceiveSummary
<1> HIDE DEF s
<1>6. x.p95 \in Report \cup {None}
  BY <1>3 DEF CalibrationPackets
<1>7. /\ t \in Startups /\ t.attempt = s.attempt /\ t.stage = s.stage
      /\ t.haveLocal = s.haveLocal /\ t.accepted = s.accepted
      /\ t.acceptedBy = s.acceptedBy /\ t.choice = s.choice
      /\ t.reports[q] = x.p95 /\ \A r \in Player : r # q => t.reports[r] = s.reports[r]
      /\ t.reports \in [Player -> Report \cup {None}]
      /\ s.reports \in [Player -> Report \cup {None}]
  BY <1>1, <1>6 DEF Startups
<1> HIDE DEF t
<1>8. KeepsLog(log, p, t) /\ Extends(p, log, log)
  BY <1>1, <1>2, <1>7, SameLog DEF KeepsLog
<1>9. Recorded(log, t)
  BY <1>2, <1>3, <1>7 DEF Recorded
<1>10. OwnFacts(p, cf[p], t)
  <2>1. t.haveLocal <=> t.reports[p] # None
    BY <1>1, <1>2, <1>7 DEF OwnFacts
  <2>2. t.stage \in {"Idle", "WaitingPeer", "Measuring"} => ~t.haveLocal
    BY <1>2, <1>7 DEF OwnFacts
  <2>3. ASSUME t.stage = "Committed"
        PROVE  AllSummaries(t) /\ t.choice = ChooseAll(t, cf[p]) /\ t.choice.delay <= MaxDelay
    <3>1. AllSummaries(s) /\ s.choice = ChooseAll(s, cf[p]) /\ s.choice.delay <= MaxDelay
      BY <1>2, <1>7, <2>3 DEF OwnFacts
    <3>2. \A r \in Player : t.reports[r] = s.reports[r]
      BY <1>1, <1>4, <1>7, <3>1 DEF AllSummaries
    <3>3. t.reports = s.reports
      BY <1>7, <3>2
    <3>4. ChooseAll(t, cf[p]) = ChooseAll(s, cf[p]) /\ AllSummaries(t)
      BY <3>1, <3>3, SameReportsSameChoice
    <3> QED
      BY <1>7, <3>1, <3>4
  <2> QED
    BY <2>1, <2>2, <2>3 DEF OwnFacts
<1>11. Advances(p, s, t)
  BY <1>7 DEF Advances
<1>12. p = Host => \A r \in t.acceptedBy :
         r # Host /\ cf[r] = cf[Host] /\ HasAccepted(t, st[r])
  BY <1>2, <1>7 DEF HasAccepted
<1>13. p = Host /\ t.stage = "Committed" => AllAccepted(Host, t)
  BY <1>2, <1>7 DEF AllAccepted
<1>14. p # Host => CommitIsHosts(st[Host], t)
  BY <1>2, <1>7 DEF CommitIsHosts
<1>15. Sound(log, cf, [st EXCEPT ![p] = t], ctl)
  BY <1>8, <1>9, <1>10, <1>11, <1>12, <1>13, <1>14, AdvanceIsSound DEF s
<1> QED
  BY <1>5, <1>7, <1>15 DEF s, t

(* A bargain goes on: the player has all reports and chose by them.        *)
Settles(p, c, s, t) ==
  /\ t \in Startups /\ t.attempt = s.attempt /\ t.reports = s.reports
  /\ t.haveLocal = s.haveLocal /\ s.haveLocal /\ AllSummaries(s)
  /\ t.choice = ChooseAll(s, c) /\ t.choice.delay <= MaxDelay
  /\ s.accepted => t.accepted
  /\ t.stage # s.stage => p # Host /\ t.stage = "Committed"
  /\ p = Host => s.acceptedBy \subseteq t.acceptedBy

LEMMA SettledIsSound ==
  ASSUME NEW log, NEW cf, NEW st, NEW ctl, Sound(log, cf, st, ctl),
         NEW p \in Player, NEW t, Settles(p, cf[p], st[p], t),
         p # Host => CommitIsHosts(st[Host], t),
         p = Host => \A q \in t.acceptedBy :
           q # Host /\ cf[q] = cf[Host] /\ HasAccepted(st[Host], st[q])
  PROVE  Sound(log, cf, [st EXCEPT ![p] = t], ctl)
<1> DEFINE s == st[p]
<1>1. s \in Startups /\ log \in Logs
  BY DEF Sound
<1>2. /\ OwnFacts(p, cf[p], s) /\ KeepsLog(log, p, s) /\ Recorded(log, s)
      /\ p = Host /\ s.stage = "Committed" => AllAccepted(Host, s)
  BY DEF Sound, PlayerFacts
<1>3. Settles(p, cf[p], s, t) /\ (p = Host => s = st[Host])
  OBVIOUS
<1> HIDE DEF s
<1>4. AllSummaries(t) /\ ChooseAll(t, cf[p]) = ChooseAll(s, cf[p])
  BY <1>3, SameReportsSameChoice DEF Settles
<1>5. OwnFacts(p, cf[p], t)
  <2>1. t.haveLocal <=> t.reports[p] # None
    BY <1>2, <1>3 DEF OwnFacts, Settles
  <2>2. t.stage \in {"Idle", "WaitingPeer", "Measuring"} => ~t.haveLocal
    BY <1>2, <1>3 DEF OwnFacts, Settles
  <2>3. AllSummaries(t) /\ t.choice = ChooseAll(t, cf[p]) /\ t.choice.delay <= MaxDelay
    BY <1>3, <1>4 DEF Settles
  <2> QED
    BY <2>1, <2>2, <2>3 DEF OwnFacts
<1>6. KeepsLog(log, p, t) /\ Recorded(log, t) /\ Extends(p, log, log)
  BY <1>1, <1>2, <1>3, SameLog DEF KeepsLog, Recorded, Settles
<1>7. Advances(p, s, t)
  BY <1>3 DEF Advances, Settles
<1>8. p = Host => \A q \in t.acceptedBy :
        q # Host /\ cf[q] = cf[Host] /\ HasAccepted(t, st[q])
  BY <1>3 DEF HasAccepted, Settles
<1>9. p = Host /\ t.stage = "Committed" => AllAccepted(Host, t)
  BY <1>2, <1>3 DEF AllAccepted, Settles
<1> QED
  BY <1>5, <1>6, <1>7, <1>8, <1>9, AdvanceIsSound DEF s

LEMMA BargainReceived ==
  ASSUME NEW log, NEW cf, NEW st, NEW ctl, Sound(log, cf, st, ctl),
         NEW p \in Player, NEW q \in Others(p), NEW x,
         Genuine(log, cf, st, q, x), x.kind \in Bargains,
         x.attempt = st[p].attempt, cf[q] = cf[p],
         st[p].haveLocal, AllSummaries(st[p])
  PROVE  /\ x.choice = ChooseAll(st[p], cf[p])
         /\ ~(ChooseAll(st[p], cf[p]).delay > MaxDelay)
         /\ Handled(log, cf, st, ctl, p, TRUE,
              Bargain(p, cf[p], [st[p] EXCEPT !.choice = x.choice], q, x.kind))
<1> DEFINE s == st[p]
           c == cf[p]
           h == st[Host]
           b == [s EXCEPT !.choice = x.choice]
           result == Bargain(p, c, b, q, x.kind)
<1>1. /\ s \in Startups /\ cf \in Configs /\ q \in Player /\ q # p
      /\ Host \in Player /\ st \in [Player -> Startups]
  BY ReportFacts DEF Sound, Others
<1>2. /\ Recorded(log, s) /\ s.attempt = x.attempt /\ s.haveLocal /\ AllSummaries(s)
      /\ CommitIsHosts(h, s)
  BY DEF Sound, PlayerFacts
<1>3. /\ x \in CalibrationPackets /\ Agreed(log, c, s.attempt, x.choice)
      /\ x.kind \in {"Proposal", "Commit"} => q = Host
      /\ x.kind \in {"Accept", "CommitAck"} => q # Host
      /\ x.kind = "Accept" /\ x.attempt = st[q].attempt => st[q].accepted
      /\ x.kind \in {"Commit", "CommitAck"} => h.stage = "Committed" /\ x.attempt = h.attempt
      /\ x.attempt <= st[q].attempt
  BY DEF Genuine, Truthful, Kinds
<1>4. x.choice = ChooseAll(s, c) /\ x.choice.delay <= MaxDelay
  <2>1. {log[r][s.attempt] : r \in Player} = {s.reports[r] : r \in Player}
    <3>1. \A r \in Player : log[r][s.attempt] = s.reports[r]
      BY <1>2 DEF Recorded, AllSummaries
    <3> QED
      BY <3>1
  <2> QED
    BY <1>3, <2>1 DEF Agreed, ChooseAll, WorstReport
<1>5. ChooseAll(s, c) \in Choice
  BY <1>1, <1>2, SetupFacts, ChooseAllFacts
<1>6. ~(ChooseAll(s, c).delay > MaxDelay)
  BY <1>4, <1>5 DEF Choice, MaxDelay
<1>7. /\ b \in Startups /\ b.attempt = s.attempt /\ b.reports = s.reports
      /\ b.haveLocal = s.haveLocal /\ b.accepted = s.accepted
      /\ b.acceptedBy = s.acceptedBy /\ b.stage = s.stage /\ b.choice = x.choice
  BY <1>1, <1>4, <1>5 DEF Startups
<1>8. p = Host => \A r \in s.acceptedBy :
        r # Host /\ cf[r] = cf[Host] /\ HasAccepted(h, st[r])
  BY DEF Sound, PlayerFacts
<1>9. h.stage = "Committed" => AllAccepted(Host, h)
  BY DEF Sound, PlayerFacts
<1>10. \A r \in h.acceptedBy : HasAccepted(h, st[r])
  BY DEF Sound, PlayerFacts
<1>11. p = Host => s = h
  OBVIOUS
<1> HIDE DEF s, b, h, result
(* What is left in a state that settles the bargain, and what is sent.     *)
<1>12. ASSUME NEW t, Settles(p, cf[p], s, t), p # Host => CommitIsHosts(h, t),
              p = Host => \A r \in t.acceptedBy :
                r # Host /\ cf[r] = cf[Host] /\ HasAccepted(h, st[r])
       PROVE  /\ Sound(log, cf, [st EXCEPT ![p] = t], ctl)
              /\ s.stage # "Failed" => t.stage # "Failed"
  <2>1. Sound(log, cf, [st EXCEPT ![p] = t], ctl)
    BY <1>12, SettledIsSound DEF s, h
  <2> QED
    BY <1>12, <2>1 DEF Settles
<1>13. Settles(p, cf[p], s, b)
  BY <1>2, <1>4, <1>7 DEF Settles
<1>14. Handled(log, cf, st, ctl, p, TRUE, Quiet(b))
  <2>1. p # Host => CommitIsHosts(h, b)
    BY <1>2, <1>7 DEF CommitIsHosts
  <2>2. p = Host => \A r \in b.acceptedBy :
          r # Host /\ cf[r] = cf[Host] /\ HasAccepted(h, st[r])
    BY <1>7, <1>8
  <2>3. /\ Sound(log, cf, [st EXCEPT ![p] = b], ctl)
        /\ s.stage # "Failed" => b.stage # "Failed"
    BY <1>12, <1>13, <2>1, <2>2
  <2> QED
    BY <2>3, SoundIsHandled DEF s
<1>15. AllSummaries(b) /\ b.choice = ChooseAll(b, c) /\ Recorded(log, b)
  BY <1>2, <1>4, <1>7, SameReportsSameChoice DEF Recorded
<1> SUFFICES Handled(log, cf, st, ctl, p, TRUE, result)
  BY <1>4, <1>6 DEF result, b, s
<1>16. CASE x.kind = "Proposal"
  <2> DEFINE t == [b EXCEPT !.accepted = TRUE]
             y == Control(p, c, b, "Accept")
  <2>1. q = Host /\ p # Host
    BY <1>1, <1>3, <1>16
  <2>2. result = Sends(t, <<y>>, NoInputs)
    BY <1>16, <2>1 DEF Bargain, result
  <2>3. /\ t \in Startups /\ t.attempt = b.attempt /\ t.reports = b.reports
        /\ t.haveLocal = b.haveLocal /\ t.accepted = TRUE
        /\ t.acceptedBy = b.acceptedBy /\ t.stage = b.stage /\ t.choice = b.choice
    BY <1>7 DEF Startups
  <2> HIDE DEF t
  <2>4. Settles(p, cf[p], s, t)
    BY <1>2, <1>4, <1>7, <2>1, <2>3 DEF Settles
  <2>5. CommitIsHosts(h, t)
    BY <1>2, <1>7, <2>3 DEF CommitIsHosts
  <2>6. /\ Sound(log, cf, [st EXCEPT ![p] = t], ctl)
        /\ s.stage # "Failed" => t.stage # "Failed"
    BY <1>12, <2>1, <2>4, <2>5
  <2>7. [st EXCEPT ![p] = t][p] = t
    BY <1>1, SetTwice
  <2>8. y \in Packets /\ Told(log, cf, [st EXCEPT ![p] = t], p, y)
    <3>1. "Accept" \in Bargains /\ "Accept" \notin {"Proposal", "Commit", "CommitAck"}
      BY DEF Bargains
    <3> QED
      BY <1>1, <1>4, <1>7, <1>15, <2>1, <2>3, <2>7, <3>1, BargainIsGenuine
  <2> HIDE DEF y
  <2> QED
    BY <2>2, <2>6, <2>8, SoundIsHandled DEF s
<1>17. CASE x.kind = "Accept"
  <2> DEFINE t == [b EXCEPT !.acceptedBy = @ \cup {q}]
  <2>1. CASE p # Host
    <3>1. result = Quiet(b)
      BY <1>3, <1>17, <2>1 DEF Bargain, result
    <3> QED
      BY <1>14, <3>1
  <2>2. CASE p = Host
    <3>1. result = Quiet(t)
      BY <1>17, <2>2 DEF Bargain, result
    <3>2. /\ t \in Startups /\ t.attempt = b.attempt /\ t.reports = b.reports
          /\ t.haveLocal = b.haveLocal /\ t.accepted = b.accepted
          /\ t.acceptedBy = b.acceptedBy \cup {q} /\ t.stage = b.stage
          /\ t.choice = b.choice
      BY <1>1, <1>7 DEF Startups
    <3> HIDE DEF t
    <3>3. Settles(p, cf[p], s, t)
      BY <1>2, <1>4, <1>7, <3>2 DEF Settles
    <3>4. HasAccepted(h, st[q])
      <4>1. st[q].attempt <= h.attempt /\ h.attempt = x.attempt
        BY <1>1, <1>2, <1>11, <2>2 DEF Sound, PlayerFacts, h
      <4>2. st[q].attempt \in Nat /\ x.attempt \in Nat
        BY <1>1, <1>3, StartupAssumption DEF Startups, CalibrationPackets
      <4>3. st[q].attempt = x.attempt
        BY <1>3, <4>1, <4>2
      <4> QED
        BY <1>3, <1>17, <4>1, <4>3 DEF HasAccepted
    <3>5. \A r \in t.acceptedBy : r # Host /\ cf[r] = cf[Host] /\ HasAccepted(h, st[r])
      BY <1>1, <1>7, <1>8, <2>2, <3>2, <3>4
    <3>6. /\ Sound(log, cf, [st EXCEPT ![p] = t], ctl)
          /\ s.stage # "Failed" => t.stage # "Failed"
      BY <1>12, <2>2, <3>3, <3>5
    <3> QED
      BY <3>1, <3>6, SoundIsHandled DEF s
  <2> QED
    BY <2>1, <2>2
<1>18. CASE x.kind = "Commit"
  <2> DEFINE t == [b EXCEPT !.stage = "Committed"]
             y == Control(p, c, b, "CommitAck")
  <2>1. q = Host /\ p # Host /\ h.stage = "Committed" /\ s.attempt = h.attempt
    BY <1>1, <1>2, <1>3, <1>18
  <2>2. s.accepted
    <3>1. p \in h.acceptedBy
      BY <1>9, <2>1 DEF AllAccepted, Others
    <3> QED
      BY <1>10, <3>1 DEF HasAccepted, s
  <2>3. result = Sends(t, <<y>>, NoInputs)
    BY <1>7, <1>18, <2>1, <2>2 DEF Bargain, result
  <2>4. /\ t \in Startups /\ t.attempt = b.attempt /\ t.reports = b.reports
        /\ t.haveLocal = b.haveLocal /\ t.accepted = b.accepted
        /\ t.acceptedBy = b.acceptedBy /\ t.stage = "Committed"
        /\ t.choice = b.choice
    BY <1>7 DEF Startups, Stages
  <2> HIDE DEF t
  <2>5. Settles(p, cf[p], s, t)
    BY <1>2, <1>4, <1>7, <2>1, <2>4 DEF Settles
  <2>6. CommitIsHosts(h, t)
    BY <1>7, <2>1, <2>4 DEF CommitIsHosts
  <2>7. Sound(log, cf, [st EXCEPT ![p] = t], ctl)
    BY <1>12, <2>1, <2>5, <2>6
  <2>8. [st EXCEPT ![p] = t][p] = t /\ [st EXCEPT ![p] = t][Host] = h
    BY <1>1, <2>1, SetTwice DEF h
  <2>9. y \in Packets /\ Told(log, cf, [st EXCEPT ![p] = t], p, y)
    <3>1. "CommitAck" \in Bargains /\ "CommitAck" \notin {"Proposal", "Commit", "Accept"}
      BY DEF Bargains
    <3> QED
      BY <1>1, <1>4, <1>7, <1>15, <2>1, <2>4, <2>8, <3>1, BargainIsGenuine
  <2> HIDE DEF y
  <2> QED
    BY <2>3, <2>4, <2>7, <2>9, SoundIsHandled DEF s
<1>19. CASE x.kind = "CommitAck"
  <2> DEFINE t == [b EXCEPT !.ackedBy = @ \cup {q}]
  <2>1. CASE p # Host
    <3>1. result = Quiet(b)
      BY <1>3, <1>19, <2>1 DEF Bargain, result
    <3> QED
      BY <1>14, <3>1
  <2>2. CASE p = Host
    <3>1. b.stage = "Committed"
      BY <1>3, <1>7, <1>11, <1>19, <2>2
    <3>2. result = Quiet(t)
      BY <1>19, <2>2, <3>1 DEF Bargain, result
    <3>3. /\ t \in Startups /\ t.attempt = b.attempt /\ t.reports = b.reports
          /\ t.haveLocal = b.haveLocal /\ t.accepted = b.accepted
          /\ t.acceptedBy = b.acceptedBy /\ t.stage = b.stage
          /\ t.choice = b.choice
      BY <1>1, <1>7 DEF Startups
    <3> HIDE DEF t
    <3>4. Settles(p, cf[p], s, t)
      BY <1>2, <1>4, <1>7, <3>3 DEF Settles
    <3>5. \A r \in t.acceptedBy : r # Host /\ cf[r] = cf[Host] /\ HasAccepted(h, st[r])
      BY <1>7, <1>8, <2>2, <3>3
    <3>6. /\ Sound(log, cf, [st EXCEPT ![p] = t], ctl)
          /\ s.stage # "Failed" => t.stage # "Failed"
      BY <1>12, <2>2, <3>4, <3>5
    <3> QED
      BY <3>2, <3>6, SoundIsHandled DEF s
  <2> QED
    BY <2>1, <2>2
<1> QED
  BY <1>16, <1>17, <1>18, <1>19 DEF Bargains

LEMMA ReceiveIsHandled ==
  ASSUME NEW log, NEW cf, NEW st, NEW ctl, Sound(log, cf, st, ctl),
         NEW p \in Player, NEW q \in Others(p), NEW x, x.kind \in Kinds,
         Stale(cf, x) \/ Genuine(log, cf, st, q, x) \/ x \in Probings(cf, q),
         NEW state
  PROVE  Handled(log, cf, st, ctl, p, TRUE, Receive(p, cf[p], st[p], state, q, x))
<1> DEFINE s == st[p]
           c == cf[p]
           result == Receive(p, c, s, state, q, x)
           Done == Handled(log, cf, st, ctl, p, TRUE, result)
           Ours == x.config.session = c.session /\ x.config = c
           Current == x.kind \notin Retries /\ OfThisAttempt(s, x)
           Plays(kinds) == Ours /\ Current /\ x.kind \in kinds
<1>1. s \in Startups /\ st \in [Player -> Startups] /\ q \in Player /\ cf \in Configs
  BY DEF Sound, Others
<1>2. ASSUME NEW t, Minor(p, s, t), t.stage = "Failed" => s.stage = "Failed"
      PROVE  /\ Handled(log, cf, st, ctl, p, TRUE, Quiet(t))
             /\ \A inputs \in [Player -> SUBSET Probings(cf, p)] :
                  Handled(log, cf, st, ctl, p, TRUE, Sends(t, << >>, inputs))
  <2>1. Sound(log, cf, [st EXCEPT ![p] = t], ctl)
    BY <1>2, MinorIsSound
  <2> QED
    BY <1>2, <2>1, SoundIsHandled
<1>3. Minor(p, s, s)
  BY <1>1, SameIsMinor
<1>4. x.config.session = c.session => Genuine(log, cf, st, q, x) \/ x \in Probings(cf, q)
  BY DEF Stale
<1>5. Genuine(log, cf, st, q, x) \/ x \in Probings(cf, q) =>
        x.config = cf[q] /\ x \in CalibrationPackets
  BY DEF Genuine, Probings, Truthful
<1>6. x \in Probings(cf, q) => x.kind \in {"Probe", "Echo"}
  BY DEF Probings
<1> SUFFICES Done
  OBVIOUS
<1>7. CASE x.config.session # c.session
  <2>1. result = Quiet(s)
    BY <1>7 DEF Receive
  <2> HIDE DEF result, s
  <2> QED
    BY <1>2, <1>3, <2>1
<1>8. CASE x.config.session = c.session /\ x.config # c
  <2>1. result = Quiet(Fail(s))
    BY <1>8 DEF Receive
  <2>2. cf[q] # cf[p]
    BY <1>4, <1>5, <1>8
  <2> HIDE DEF result
  <2> QED
    BY <2>1, <2>2, FailIsHandled
<1>9. CASE Ours /\ x.kind \in Retries
  <2>1. result = Quiet(ReceiveRetry(p, s, x))
    BY <1>9 DEF Receive
  <2>2. Genuine(log, cf, st, q, x)
    BY <1>4, <1>6, <1>9 DEF Retries
  <2> HIDE DEF result
  <2> QED
    BY <1>9, <2>1, <2>2, RetryReceived
<1>10. CASE Ours /\ x.kind \notin Retries /\ ~OfThisAttempt(s, x)
  <2>1. result = Quiet(s)
    BY <1>10 DEF Receive
  <2> HIDE DEF result, s
  <2> QED
    BY <1>2, <1>3, <2>1
<1>11. CASE Plays({"Hello"})
  <2> DEFINE t == [s EXCEPT !.hello = @ \cup {q}]
  <2>1. result = Quiet(t)
    BY <1>11 DEF Receive
  <2>2. Minor(p, s, t) /\ t.stage = s.stage
    BY <1>1, <1>4, <1>5, <1>11, CountedIsMinor
  <2> HIDE DEF result, s, t
  <2> QED
    BY <1>2, <2>1, <2>2
<1>12. CASE Plays({"Probe", "Echo"}) /\ state = "suspended"
  <2>1. result = Quiet(Retry(s))
    BY <1>12 DEF Receive
  <2>2. Minor(p, s, Retry(s)) /\ (Retry(s).stage = "Failed" => s.stage = "Failed")
    BY <1>1, RetryIsMinor
  <2> HIDE DEF result, s
  <2> QED
    BY <1>2, <2>1, <2>2
<1>13. CASE Plays({"Probe"}) /\ state # "suspended"
  <2> DEFINE answer == Numbered(c, s, "Echo", x.slot)
             inputs == [NoInputs EXCEPT ![q] = {answer}]
  <2>1. result = Sends(s, << >>, inputs)
    BY <1>13 DEF Receive
  <2>2. answer \in Probings(cf, p)
    <3>1. x.slot \in Nat
      BY <1>4, <1>5, <1>13 DEF CalibrationPackets
    <3> QED
      BY <1>1, <3>1, NumberedFacts
  <2> HIDE DEF answer
  <2>3. inputs \in [Player -> SUBSET Probings(cf, p)]
    BY <2>2 DEF NoInputs
  <2> HIDE DEF result, s, inputs
  <2> QED
    BY <1>2, <1>3, <2>1, <2>3
<1>14. CASE Plays({"Echo"}) /\ state # "suspended"
  <2> DEFINE t == ReceiveEcho(s, q, x)
  <2>1. result = Quiet(t)
    BY <1>14 DEF Receive
  <2>2. Minor(p, s, t) /\ t.stage = s.stage
    BY <1>1, <1>4, <1>5, <1>14, CountedIsMinor
  <2> HIDE DEF result, s, t
  <2> QED
    BY <1>2, <2>1, <2>2
<1>15. CASE Plays({"Summary"})
  <2> DEFINE t == ReceiveSummary(s, q, x)
  <2>1. result = Quiet(t)
    BY <1>15 DEF Receive
  <2>2. Genuine(log, cf, st, q, x) /\ x.kind = "Summary" /\ x.attempt = st[p].attempt
    BY <1>4, <1>6, <1>15 DEF OfThisAttempt
  <2>3. Sound(log, cf, [st EXCEPT ![p] = t], ctl) /\ t.stage = st[p].stage
    BY <2>2, SummaryIsSound
  <2> HIDE DEF result, s, t
  <2> QED
    BY <2>1, <2>3, SoundIsHandled
<1>16. CASE Plays(Bargains) /\ (~s.haveLocal \/ ~AllSummaries(s))
  <2>1. result = Quiet(s)
    BY <1>16 DEF Receive, Bargains
  <2> HIDE DEF result, s
  <2> QED
    BY <1>2, <1>3, <2>1
<1>17. CASE Plays(Bargains) /\ s.haveLocal /\ AllSummaries(s)
  <2>1. /\ Genuine(log, cf, st, q, x) /\ x.kind \in Bargains
        /\ x.attempt = st[p].attempt /\ cf[q] = cf[p]
    BY <1>4, <1>5, <1>6, <1>17 DEF OfThisAttempt, Bargains
  <2> DEFINE bargain == Bargain(p, c, [s EXCEPT !.choice = x.choice], q, x.kind)
  <2>2. /\ x.choice = ChooseAll(st[p], cf[p])
        /\ ~(ChooseAll(st[p], cf[p]).delay > MaxDelay)
        /\ Handled(log, cf, st, ctl, p, TRUE, bargain)
    BY <1>17, <2>1, BargainReceived
  <2>3. result = bargain
    BY <1>17, <2>2 DEF Receive, Bargains
  <2> HIDE DEF result, bargain
  <2> QED
    BY <2>2, <2>3
<1>18. x.kind \in Retries \cup {"Hello", "Probe", "Echo", "Summary"} \cup Bargains
  BY DEF Kinds
<1> QED
  <2>1. CASE ~Ours
    BY <1>7, <1>8, <2>1
  <2>2. CASE Ours /\ ~Current
    BY <1>9, <1>10, <2>2
  <2>3. CASE Ours /\ Current
    <3> HIDE DEF Done, Ours, s
    <3> QED
      BY <1>11, <1>12, <1>13, <1>14, <1>15, <1>16, <1>17, <1>18, <2>3
  <2> QED
    BY <2>1, <2>2, <2>3

(* A packet off a link, after a look at the clock. *)
LEMMA ControlIsHandled ==
  ASSUME NEW log, NEW cf, NEW st, NEW ctl, Sound(log, cf, st, ctl),
         NEW p \in Player, NEW q \in Others(p), ctl[q][p] # << >>,
         Head(ctl[q][p]).kind \in Kinds, NEW state, NEW late
  PROVE  Handled(log, cf, st, [ctl EXCEPT ![q][p] = Tail(@)], p, TRUE,
           Receive(p, cf[p], ObserveClock(st[p], late), state, q, Head(ctl[q][p])))
<1> DEFINE now == ObserveClock(st[p], late)
           u == [st EXCEPT ![p] = now]
           wire == [ctl EXCEPT ![q][p] = Tail(@)]
           x == Head(ctl[q][p])
           result == Receive(p, cf[p], now, state, q, x)
<1>1. st \in [Player -> Startups] /\ q \in Player
  BY DEF Sound, Others
<1>2. Minor(p, st[p], now) /\ (now.stage = "Failed" => st[p].stage = "Failed")
  BY <1>1, ClockIsMinor
<1> HIDE DEF now
<1>3. Sound(log, cf, u, ctl)
  BY <1>2, MinorIsSound
<1>4. u[p] = now
  BY <1>1, SetTwice
<1> HIDE DEF u
<1>5. Sound(log, cf, u, wire) /\ (Stale(cf, x) \/ Genuine(log, cf, u, q, x))
  BY <1>1, <1>3, TakeIsSound
<1>6. x.kind \in Kinds
  OBVIOUS
<1> HIDE DEF wire, x
<1>7. Handled(log, cf, u, wire, p, TRUE, result)
  BY <1>4, <1>5, <1>6, ReceiveIsHandled
<1> HIDE DEF result
<1>8. Handled(log, cf, st, wire, p, TRUE, result)
  BY <1>1, <1>2, <1>7, HandledFurther DEF u
<1> QED
  BY <1>8 DEF result, wire, x, now

LEMMA InputIsHandled ==
  ASSUME NEW log, NEW cf, NEW st, NEW ctl, Sound(log, cf, st, ctl),
         NEW p \in Player, NEW q \in Others(p), NEW x \in Probings(cf, q),
         NEW state, NEW late
  PROVE  Handled(log, cf, st, ctl, p, TRUE,
           Receive(p, cf[p], ObserveClock(st[p], late), state, q, x))
<1> DEFINE now == ObserveClock(st[p], late)
           u == [st EXCEPT ![p] = now]
           result == Receive(p, cf[p], now, state, q, x)
<1>1. st \in [Player -> Startups] /\ x.kind \in Kinds
  BY DEF Sound, Probings, Kinds
<1>2. Minor(p, st[p], now) /\ (now.stage = "Failed" => st[p].stage = "Failed")
  BY <1>1, ClockIsMinor
<1> HIDE DEF now
<1>3. Sound(log, cf, u, ctl)
  BY <1>2, MinorIsSound
<1>4. u[p] = now
  BY <1>1, SetTwice
<1> HIDE DEF u
<1>5. Handled(log, cf, u, ctl, p, TRUE, result)
  BY <1>1, <1>3, <1>4, ReceiveIsHandled
<1> HIDE DEF result
<1>6. Handled(log, cf, st, ctl, p, TRUE, result)
  BY <1>1, <1>2, <1>5, HandledFurther DEF u
<1> QED
  BY <1>6 DEF result, now

---------------------------------------------------------------------------
(* The invariant. *)

Waits == Seq([from : Player, pkt : Packets])
Conns == [begun : BOOLEAN, applied : BOOLEAN, failed : BOOLEAN,
          pending : Seq([from : Player, pkt : Packets])]
Games == [hello : SUBSET Player, ready : SUBSET Player, failed : BOOLEAN]

Carried(cf, q) == Probings(cf, q) \cup {[kind |-> "input", config |-> cf[q]]}
InputFacts(cf, inp) ==
  /\ inp \in [Player -> [Player -> SUBSET Packets]]
  /\ \A q, r \in Player : inp[q][r] \subseteq Carried(cf, q)

NotBegun(st, cn) == \A p \in Player : ~cn[p].begun => st[p] = Idle

CInv ==
  /\ \E log : Sound(log, config, startup, control)
  /\ InputFacts(config, input)
  /\ conn \in [Player -> Conns] /\ game \in [Player -> Games]
  /\ NotBegun(startup, conn)

LEMMA CarriedFacts ==
  ASSUME NEW cf \in Configs, NEW q \in Player
  PROVE  /\ Carried(cf, q) \subseteq Packets
         /\ \A x \in Carried(cf, q) : x.kind \in Kinds => x \in Probings(cf, q)
         /\ \A x \in Carried(cf, q) : x.kind \notin Kinds => x.kind = "input"
         /\ \A x \in Carried(cf, q) : x.config = cf[q]
<1> DEFINE x == [kind |-> "input", config |-> cf[q]]
<1>1. x \in GamePackets /\ x.kind = "input" /\ x.config = cf[q]
  BY SetupFacts DEF GamePackets, GameKinds
<1>2. "input" \notin Kinds /\ "Probe" \in Kinds /\ "Echo" \in Kinds
  BY DEF Kinds, Bargains, Retries
<1>3. Probings(cf, q) \subseteq CalibrationPackets
  BY DEF Probings
<1>4. \A y \in Probings(cf, q) : y.kind \in Kinds /\ y.config = cf[q]
  BY <1>2 DEF Probings
<1>5. Carried(cf, q) = Probings(cf, q) \cup {x}
  BY DEF Carried
<1> HIDE DEF x
<1> QED
  BY <1>1, <1>2, <1>3, <1>4, <1>5 DEF Packets

LEMMA PutFacts ==
  ASSUME NEW cf \in Configs, NEW inp, InputFacts(cf, inp), NEW p \in Player,
         NEW packets \in [Player -> SUBSET Carried(cf, p)]
  PROVE  InputFacts(cf, Put(inp, p, packets))
<1> DEFINE row == [q \in Player |-> inp[p][q] \cup packets[q]]
<1>1. inp \in [Player -> [Player -> SUBSET Packets]]
      /\ \A q, r \in Player : inp[q][r] \subseteq Carried(cf, q)
  BY DEF InputFacts
<1>2. Put(inp, p, packets) = [inp EXCEPT ![p] = row]
  BY DEF Put
<1>3. Carried(cf, p) \subseteq Packets
  BY CarriedFacts
<1>4. row \in [Player -> SUBSET Packets] /\ \A q \in Player : row[q] \subseteq Carried(cf, p)
  BY <1>1, <1>3
<1> HIDE DEF row
<1>5. /\ [inp EXCEPT ![p] = row] \in [Player -> [Player -> SUBSET Packets]]
      /\ [inp EXCEPT ![p] = row][p] = row
      /\ \A q \in Player : q # p => [inp EXCEPT ![p] = row][q] = inp[q]
  BY <1>1, <1>4
<1> QED
  BY <1>1, <1>2, <1>4, <1>5 DEF InputFacts

LEMMA GoneFacts ==
  ASSUME NEW cf, NEW inp, InputFacts(cf, inp), NEW q \in Player, NEW p \in Player, NEW x
  PROVE  InputFacts(cf, [inp EXCEPT ![q][p] = @ \ {x}])
<1> DEFINE wire == [inp EXCEPT ![q][p] = @ \ {x}]
<1>1. inp \in [Player -> [Player -> SUBSET Packets]]
      /\ \A a, b \in Player : inp[a][b] \subseteq Carried(cf, a)
  BY DEF InputFacts
<1>2. /\ wire \in [Player -> [Player -> SUBSET Packets]]
      /\ \A a, b \in Player : wire[a][b] \subseteq inp[a][b]
  BY <1>1
<1> HIDE DEF wire
<1>3. InputFacts(cf, wire)
  BY <1>1, <1>2 DEF InputFacts
<1> QED
  BY <1>3 DEF wire

LEMMA PostsFacts ==
  ASSUME NEW log, NEW p \in Player, NEW result, NEW controls, NEW inputs, NEW late,
         Handled(log, config, startup, controls, p, late # "unsent", result),
         InputFacts(config, inputs), Posts(p, result, controls, inputs, late)
  PROVE  /\ Sound(log, config, startup', control') /\ InputFacts(config, input')
         /\ AllAlike(config) /\ startup[p].stage # "Failed" => result.state.stage # "Failed"
<1> DEFINE u == [startup EXCEPT ![p] = result.state]
<1>1. /\ Sound(log, config, u, controls)
      /\ result.inputs \in [Player -> SUBSET Probings(config, p)]
      /\ AllAlike(config) /\ startup[p].stage # "Failed" => result.state.stage # "Failed"
  BY DEF Handled
<1>2. config \in Configs
  BY <1>1 DEF Sound
<1>3. startup' = u
  BY DEF Posts
<1>4. CASE late = "unsent"
  <2>1. control' = controls /\ input' = inputs
    BY <1>4 DEF Posts
  <2> QED
    BY <1>1, <1>3, <2>1
<1>5. CASE late # "unsent"
  <2>1. /\ control' = Posted(controls, p, result.controls)
        /\ input' = Put(inputs, p, result.inputs)
    BY <1>5 DEF Posts
  <2>2. Handled(log, config, startup, controls, p, TRUE, result)
    BY <1>5
  <2>3. Sound(log, config, u, Posted(controls, p, result.controls))
    BY <2>2, HandledPosts
  <2>4. result.inputs \in [Player -> SUBSET Carried(config, p)]
    BY <1>1 DEF Carried
  <2>5. InputFacts(config, Put(inputs, p, result.inputs))
    BY <1>2, <2>4, PutFacts
  <2> HIDE DEF u
  <2> QED
    BY <1>1, <1>3, <2>1, <2>3, <2>5
<1> QED
  BY <1>4, <1>5

LEMMA InitIsSound == Init => CInv
<1> SUFFICES ASSUME Init PROVE CInv
  OBVIOUS
<1> DEFINE log == [p \in Player |-> [a \in 0 .. MaxRetries |-> None]]
<1>1. config \in Configs /\ startup = [p \in Player |-> Idle] /\ Host \in Player
  BY ReportFacts DEF Init
<1>2. Idle \in Startups
  BY StartupAssumption DEF Idle, Startups, Stages
<1>3. /\ Idle.reports = [q \in Player |-> None] /\ Idle.attempt = 0
      /\ Idle.haveLocal = FALSE /\ Idle.stage = "Idle" /\ Idle.acceptedBy = {}
  BY DEF Idle
<1>4. startup \in [Player -> Startups] /\ \A p \in Player : startup[p] = Idle
  BY <1>1, <1>2
<1>5. log \in Logs
  BY DEF Logs
<1>6. \A p \in Player : KeepsLog(log, p, Idle)
  BY <1>3, StartupAssumption DEF KeepsLog
<1>7. Recorded(log, Idle) /\ \A p \in Player : OwnFacts(p, config[p], Idle)
  BY <1>3 DEF Recorded, OwnFacts
<1> HIDE DEF log
<1>8. PlayerFacts(log, config, startup)
  <2>1. \A p \in Player : CommitIsHosts(startup[Host], startup[p])
    BY <1>3, <1>4 DEF CommitIsHosts
  <2>2. \A p \in Player : startup[p].attempt <= startup[Host].attempt
    BY <1>1, <1>3, <1>4
  <2> QED
    BY <1>1, <1>3, <1>4, <1>6, <1>7, <2>1, <2>2 DEF PlayerFacts
<1>9. PICK tail \in Tails :
        control = [p \in Player |-> [q \in Player |->
                     IF p = Host /\ q # Host THEN tail ELSE << >>]]
  BY DEF Init
<1>10. ToSet(tail) \subseteq Packets /\ tail \in Seq(Packets) /\ << >> \in Seq(Packets)
  <2>1. tail \in Seq(ToSet(tail)) /\ ToSet(tail) \subseteq Packets
    BY ConnectionAssumption DEF Packets, Leftovers
  <2> QED
    BY <2>1
<1>11. control \in [Player -> [Player -> Seq(Packets)]]
  BY <1>9, <1>10
<1>12. \A x \in ToSet(tail) : Stale(config, x)
  <2>1. ASSUME NEW x \in ToSet(tail) PROVE Stale(config, x)
    <3>1. tail # << >>
      BY <2>1 DEF ToSet
    <3> QED
      BY <1>1, <2>1, <3>1, ConnectionAssumption DEF Stale
  <2> QED
    BY <2>1
<1>13. WireFacts(log, config, startup, control)
  <2>1. ASSUME NEW q \in Player, NEW r \in Player
        PROVE  \A x \in ToSet(control[q][r]) : Stale(config, x)
    <3>1. control[q][r] = tail \/ control[q][r] = << >>
      BY <1>9
    <3>2. ToSet(<< >>) = {}
      BY DEF ToSet
    <3> QED
      BY <1>12, <3>1, <3>2
  <2> QED
    BY <2>1 DEF WireFacts
<1>14. Sound(log, config, startup, control)
  BY <1>1, <1>4, <1>5, <1>8, <1>11, <1>13 DEF Sound
<1>15. InputFacts(config, input)
  <2>1. input = [p \in Player |-> NoInputs]
    BY DEF Init
  <2> QED
    BY <2>1 DEF NoInputs, InputFacts
<1>16. conn \in [Player -> Conns] /\ game \in [Player -> Games]
  <2>1. << >> \in Seq([from : Player, pkt : Packets])
    BY EmptySeq
  <2> QED
    BY <2>1 DEF Init, Conns, Games
<1>17. NotBegun(startup, conn)
  BY <1>4 DEF NotBegun
<1> QED
  BY <1>14, <1>15, <1>16, <1>17 DEF CInv

---------------------------------------------------------------------------
(* The steps. *)

LEMMA SetConn ==
  ASSUME NEW cn \in [Player -> Conns], NEW p \in Player, NEW c \in Conns
  PROVE  /\ [cn EXCEPT ![p] = c] \in [Player -> Conns]
         /\ [cn EXCEPT ![p] = c][p] = c
         /\ \A q \in Player : q # p => [cn EXCEPT ![p] = c][q] = cn[q]
OBVIOUS

LEMMA FailedConn ==
  ASSUME NEW cn \in [Player -> Conns], NEW p \in Player, NEW f \in BOOLEAN
  PROVE  LET new == [cn EXCEPT ![p].failed = f]
         IN  /\ new \in [Player -> Conns] /\ new[p].failed = f
             /\ \A q \in Player : /\ new[q].begun = cn[q].begun
                                   /\ new[q].applied = cn[q].applied
                                   /\ new[q].pending = cn[q].pending
                                   /\ q # p => new[q] = cn[q]
<1> DEFINE c == [cn[p] EXCEPT !.failed = f]
<1>1. /\ c \in Conns /\ c.begun = cn[p].begun /\ c.applied = cn[p].applied
      /\ c.failed = f /\ c.pending = cn[p].pending
  BY DEF Conns
<1>2. [cn EXCEPT ![p].failed = f] = [cn EXCEPT ![p] = c]
  OBVIOUS
<1> HIDE DEF c
<1> QED
  BY <1>1, <1>2, SetConn

LEMMA QueuedConn ==
  ASSUME NEW cn \in [Player -> Conns], NEW p \in Player,
         NEW queue \in Waits
  PROVE  LET new == [cn EXCEPT ![p].pending = queue]
         IN  /\ new \in [Player -> Conns] /\ new[p].pending = queue
             /\ \A q \in Player : /\ new[q].begun = cn[q].begun
                                   /\ new[q].applied = cn[q].applied
                                   /\ new[q].failed = cn[q].failed
                                   /\ q # p => new[q] = cn[q]
<1> DEFINE c == [cn[p] EXCEPT !.pending = queue]
<1>1. /\ c \in Conns /\ c.begun = cn[p].begun /\ c.applied = cn[p].applied
      /\ c.failed = cn[p].failed /\ c.pending = queue
  BY DEF Conns, Waits
<1>2. [cn EXCEPT ![p].pending = queue] = [cn EXCEPT ![p] = c]
  OBVIOUS
<1> HIDE DEF c
<1> QED
  BY <1>1, <1>2, SetConn

(* A step of p that leaves the connection of p begun. *)
LEMMA StillBegun ==
  ASSUME NEW st \in [Player -> Startups], NEW cn \in [Player -> Conns],
         NotBegun(st, cn), NEW p \in Player, NEW s, NEW new,
         \A q \in Player : new[q].begun = cn[q].begun,
         cn[p].begun
  PROVE  NotBegun([st EXCEPT ![p] = s], new)
<1>1. \A q \in Player : q # p => [st EXCEPT ![p] = s][q] = st[q]
  OBVIOUS
<1> QED
  BY <1>1 DEF NotBegun

LEMMA BeginPumpStep ==
  ASSUME CInv, NEW p \in Player, BeginPump(p)
  PROVE  CInv'
<1> DEFINE t == Begin(startup[p])
<1>1. PICK log : Sound(log, config, startup, control)
  BY DEF CInv
<1>2. startup \in [Player -> Startups] /\ startup[p] \in Startups
  BY <1>1 DEF Sound
<1>3. startup[p] = Idle /\ ~conn[p].begun
  BY DEF BeginPump, CInv, NotBegun
<1>4. t = [startup[p] EXCEPT !.stage = "WaitingPeer"] /\ startup[p].stage = "Idle"
  BY <1>3 DEF Begin, Idle
<1>5. "WaitingPeer" \in Stages \ {"Committed"} /\ startup[p].stage \in Early
  BY <1>4 DEF Stages, Early
<1>6. Minor(p, startup[p], t)
  BY <1>2, <1>4, <1>5, StageIsMinor
<1> HIDE DEF t
<1>7. Sound(log, config, [startup EXCEPT ![p] = t], control)
  BY <1>1, <1>6, MinorIsSound
<1>8. /\ startup' = [startup EXCEPT ![p] = t]
      /\ config' = config /\ control' = control /\ input' = input /\ game' = game
      /\ conn' = [conn EXCEPT ![p].begun = TRUE]
  BY DEF BeginPump, t
<1>9. conn' \in [Player -> Conns] /\ conn'[p].begun
  BY <1>8 DEF CInv, Conns
<1>10. NotBegun(startup', conn')
  <2>1. \A q \in Player : q # p => conn'[q] = conn[q] /\ startup'[q] = startup[q]
    BY <1>2, <1>8
  <2> QED
    BY <1>9, <2>1 DEF NotBegun, CInv
<1>11. \E l : Sound(l, config', startup', control')
  BY <1>7, <1>8
<1> QED
  BY <1>8, <1>9, <1>10, <1>11 DEF CInv

LEMMA PumpTickStep ==
  ASSUME CInv, NEW p \in Player, NEW env \in Environments(p), PumpTick(p, env)
  PROVE  CInv' /\ (AllAlike(config) => startup'[p].stage # "Failed")
<1> DEFINE kept == Deadlines(startup[p], link[p], env.late)
           result == Tick(p, config[p], AfterRetry(p, kept), link[p], env)
<1>1. PICK log : Sound(log, config, startup, control)
  BY DEF CInv
<1>2. startup \in [Player -> Startups]
  BY <1>1 DEF Sound
<1>3. env.p95 \in Rtts[p]
  <2>1. AnyRtt(p) \in Rtts[p]
    BY StartupAssumption DEF AnyRtt
  <2> QED
    BY <2>1 DEF Environments
<1>4. PICK new : Handled(new, config, startup, control, p, env.late # "unsent", result)
  BY <1>1, <1>3, PumpIsHandled
<1>5. /\ config' = config /\ conn' = conn /\ game' = game
      /\ conn[p].begun /\ startup[p].stage # "Failed"
      /\ Posts(p, result, control, input, env.late)
  BY DEF PumpTick, Pumps
<1> HIDE DEF result
<1>6. InputFacts(config, input) /\ conn \in [Player -> Conns] /\ NotBegun(startup, conn)
  BY DEF CInv
<1>7. /\ Sound(new, config, startup', control') /\ InputFacts(config, input')
      /\ AllAlike(config) => result.state.stage # "Failed"
  BY <1>4, <1>5, <1>6, PostsFacts
<1>8. startup' = [startup EXCEPT ![p] = result.state]
  BY <1>5 DEF Posts
<1>9. NotBegun(startup', conn')
  BY <1>2, <1>5, <1>6, <1>8, StillBegun
<1>10. startup'[p] = result.state
  BY <1>2, <1>8
<1> QED
  BY <1>5, <1>7, <1>9, <1>10 DEF CInv

(* What is left when p has handled a packet of the calibration.            *)
LEMMA AnsweredStep ==
  ASSUME CInv, NEW p \in Player, NEW log, NEW result, NEW controls, NEW inputs,
         Handled(log, config, startup, controls, p, TRUE, result),
         InputFacts(config, inputs), Posts(p, result, controls, inputs, "none"),
         Pumps(p), config' = config, game' = game,
         \/ conn' = conn
         \/ conn' = [conn EXCEPT ![p].failed = result.state.stage = "Failed"]
  PROVE  /\ CInv'
         /\ startup'[p] = result.state
         /\ AllAlike(config) => result.state.stage # "Failed"
<1>1. Handled(log, config, startup, controls, p, "none" # "unsent", result)
  OBVIOUS
<1>2. startup[p].stage # "Failed" /\ conn[p].begun
  BY DEF Pumps
<1>3. /\ Sound(log, config, startup', control') /\ InputFacts(config, input')
      /\ AllAlike(config) => result.state.stage # "Failed"
  BY <1>1, <1>2, PostsFacts
<1>4. startup \in [Player -> Startups]
  BY DEF CInv, Sound
<1>5. conn \in [Player -> Conns] /\ NotBegun(startup, conn) /\ game \in [Player -> Games]
  BY DEF CInv
<1>6. startup' = [startup EXCEPT ![p] = result.state]
  BY DEF Posts
<1>7. conn' \in [Player -> Conns] /\ \A q \in Player : conn'[q].begun = conn[q].begun
  <2> DEFINE f == result.state.stage = "Failed"
  <2>1. f \in BOOLEAN
    OBVIOUS
  <2>2. conn' = conn \/ conn' = [conn EXCEPT ![p].failed = f]
    OBVIOUS
  <2> HIDE DEF f
  <2>3. CASE conn' = conn
    BY <1>5, <2>3
  <2>4. CASE conn' = [conn EXCEPT ![p].failed = f]
    <3>1. /\ [conn EXCEPT ![p].failed = f] \in [Player -> Conns]
          /\ \A q \in Player : [conn EXCEPT ![p].failed = f][q].begun = conn[q].begun
      BY <1>5, <2>1, FailedConn
    <3> QED
      BY <2>4, <3>1
  <2> QED
    BY <2>2, <2>3, <2>4
<1>8. NotBegun(startup', conn')
  <2>1. \A q \in Player : q # p => startup'[q] = startup[q]
    BY <1>4, <1>6
  <2> QED
    BY <1>2, <1>5, <1>7, <2>1 DEF NotBegun
<1>9. startup'[p] = result.state
  BY <1>4, <1>6
<1> QED
  BY <1>3, <1>5, <1>7, <1>8, <1>9 DEF CInv

(* A gameplay packet waits, is dropped, or fails the connection.           *)
LEMMA BeforeAppliedFacts ==
  ASSUME NEW p \in Player, NEW c \in Conns, NEW q \in Player, NEW x \in Packets
  PROVE  LET new == BeforeApplied(p, c, q, x)
             waits == OfThisSession(p, x) /\ x.kind \in {"hello", "ready"}
         IN  /\ new \in Conns /\ new.begun = c.begun /\ new.applied = c.applied
             /\ waits /\ Len(c.pending) >= DeferLimit =>
                  new.failed /\ new.pending = c.pending
             /\ waits /\ ~(Len(c.pending) >= DeferLimit) =>
                  /\ new.failed = c.failed
                  /\ new.pending = Append(c.pending, [from |-> q, pkt |-> x])
             /\ ~waits => /\ new.pending = c.pending
                          /\ new.failed <=> c.failed \/ ~HasRetired \/ OfThisSession(p, x)
<1> DEFINE new == BeforeApplied(p, c, q, x)
           waits == OfThisSession(p, x) /\ x.kind \in {"hello", "ready"}
           full == Len(c.pending) >= DeferLimit
           bad == c.failed \/ ~HasRetired \/ OfThisSession(p, x)
           queue == Append(c.pending, [from |-> q, pkt |-> x])
<1>1. c.pending \in Seq([from : Player, pkt : Packets])
      /\ [from |-> q, pkt |-> x] \in [from : Player, pkt : Packets]
  BY DEF Conns
<1>2. queue \in Seq([from : Player, pkt : Packets])
  BY <1>1
<1>3. new = IF waits THEN (IF full THEN [c EXCEPT !.failed = TRUE]
                                   ELSE [c EXCEPT !.pending = queue])
                     ELSE [c EXCEPT !.failed = bad]
  BY DEF BeforeApplied, Deferred
<1>4. bad \in BOOLEAN
  OBVIOUS
<1> HIDE DEF queue, new, waits, full, bad
<1>5. CASE waits /\ full
  <2>1. new = [c EXCEPT !.failed = TRUE]
    BY <1>3, <1>5
  <2> QED
    BY <1>5, <2>1 DEF Conns, waits, full, new
<1>6. CASE waits /\ ~full
  <2>1. new = [c EXCEPT !.pending = queue]
    BY <1>3, <1>6
  <2>2. /\ new \in Conns /\ new.begun = c.begun /\ new.applied = c.applied
        /\ new.failed = c.failed /\ new.pending = queue
    BY <1>2, <2>1 DEF Conns
  <2> QED
    BY <1>6, <2>2 DEF waits, full, new, queue
<1>7. CASE ~waits
  <2>1. new = [c EXCEPT !.failed = bad]
    BY <1>3, <1>7
  <2>2. /\ new \in Conns /\ new.begun = c.begun /\ new.applied = c.applied
        /\ new.failed = bad /\ new.pending = c.pending
    BY <1>4, <2>1 DEF Conns
  <2>3. new.failed <=> c.failed \/ ~HasRetired \/ OfThisSession(p, x)
    BY <2>2 DEF bad
  <2> QED
    BY <1>7, <2>2, <2>3 DEF waits, new
<1> QED
  BY <1>5, <1>6, <1>7

LEMMA GameReceiveFacts ==
  ASSUME game \in [Player -> Games], NEW p \in Player, NEW q \in Player, NEW x
  PROVE  LET new == GameReceive(p, q, x)
         IN  /\ new \in [Player -> Games]
             /\ \A r \in Player : r # p => new[r] = game[r]
             /\ game[p].hello \subseteq new[p].hello
             /\ OfThisSession(p, x) /\ x.kind = "hello" => q \in new[p].hello
             /\ \A r \in new[p].ready :
                  r \in game[p].ready \/ (r = q /\ OfThisSession(p, x) /\ x.kind = "ready")
             /\ new[p].failed =>
                  \/ game[p].failed
                  \/ OfThisSession(p, x) /\ x.kind = "ready" /\ q \notin game[p].hello
<1> DEFINE g == game[p]
           a == [g EXCEPT !.hello = @ \cup {q}]
           b == [g EXCEPT !.ready = @ \cup {q}]
           c == [g EXCEPT !.failed = TRUE]
           Set(h) == [game EXCEPT ![p] = h]
           new == GameReceive(p, q, x)
<1>1. g \in Games
  OBVIOUS
<1>2. /\ a \in Games /\ a.hello = g.hello \cup {q} /\ a.ready = g.ready /\ a.failed = g.failed
      /\ b \in Games /\ b.hello = g.hello /\ b.ready = g.ready \cup {q} /\ b.failed = g.failed
      /\ c \in Games /\ c.hello = g.hello /\ c.ready = g.ready /\ c.failed = TRUE
  <2> HIDE DEF g
  <2> QED
    BY <1>1 DEF Games
<1>3. /\ [game EXCEPT ![p].hello = @ \cup {q}] = Set(a)
      /\ [game EXCEPT ![p].ready = @ \cup {q}] = Set(b)
      /\ [game EXCEPT ![p].failed = TRUE] = Set(c) /\ game = Set(g)
  OBVIOUS
<1>4. CASE OfThisSession(p, x) /\ x.kind = "hello"
  <2>1. new = Set(a)
    BY <1>3, <1>4 DEF GameReceive
  <2> HIDE DEF a, b, c, new
  <2>2. new \in [Player -> Games] /\ new[p] = a /\ \A r \in Player : r # p => new[r] = game[r]
    BY <1>2, <2>1
  <2> QED
    BY <1>2, <1>4, <2>2 DEF new
<1>5. CASE OfThisSession(p, x) /\ x.kind = "ready" /\ q \in game[p].hello
  <2>1. new = Set(b)
    BY <1>3, <1>5 DEF GameReceive
  <2> HIDE DEF a, b, c, new
  <2>2. new \in [Player -> Games] /\ new[p] = b /\ \A r \in Player : r # p => new[r] = game[r]
    BY <1>2, <2>1
  <2> QED
    BY <1>2, <1>5, <2>2 DEF new
<1>6. CASE OfThisSession(p, x) /\ x.kind = "ready" /\ q \notin game[p].hello
  <2>1. new = Set(c)
    BY <1>3, <1>6 DEF GameReceive
  <2> HIDE DEF a, b, c, new
  <2>2. new \in [Player -> Games] /\ new[p] = c /\ \A r \in Player : r # p => new[r] = game[r]
    BY <1>2, <2>1
  <2> QED
    BY <1>2, <1>6, <2>2 DEF new
<1>7. CASE ~OfThisSession(p, x) \/ x.kind \notin {"hello", "ready"}
  <2>1. new = game
    BY <1>7 DEF GameReceive
  <2> HIDE DEF new
  <2> QED
    BY <1>7, <2>1 DEF new
<1> QED
  BY <1>4, <1>5, <1>6, <1>7

(* Only conn of p and the game change, and the links as they were left. *)
LEMMA GameStep ==
  ASSUME CInv, config' = config, startup' = startup,
         NEW log, Sound(log, config, startup, control'), InputFacts(config, input'),
         conn' \in [Player -> Conns], game' \in [Player -> Games],
         \A q \in Player : conn'[q].begun = conn[q].begun
  PROVE  CInv'
<1>1. NotBegun(startup, conn')
  BY DEF CInv, NotBegun
<1> QED
  BY <1>1 DEF CInv

(* A packet is taken off a link to p. *)
LEMMA ControlArrives ==
  ASSUME NEW log, Sound(log, config, startup, control),
         NEW p \in Player, NEW q \in Others(p), control[q][p] # << >>
  PROVE  LET x == Head(control[q][p])
             controls == [control EXCEPT ![q][p] = Tail(@)]
         IN  /\ Sound(log, config, startup, controls) /\ x \in Packets
             /\ Stale(config, x) \/ Genuine(log, config, startup, q, x)
             /\ x.kind \in Kinds => \A late :
                  Handled(log, config, startup, controls, p, TRUE,
                    Receive(p, config[p], ObserveClock(startup[p], late), link[p], q, x))
<1> DEFINE x == Head(control[q][p])
           controls == [control EXCEPT ![q][p] = Tail(@)]
<1>1. control \in [Player -> [Player -> Seq(Packets)]] /\ q \in Player
  BY DEF Sound, Others
<1>2. Sound(log, config, startup, controls)
      /\ (Stale(config, x) \/ Genuine(log, config, startup, q, x))
  BY <1>1, TakeIsSound
<1>3. x \in Packets
  <2>1. control[q][p] \in Seq(Packets)
    BY <1>1
  <2> QED
    BY <2>1, HeadTailProperties
<1>4. ASSUME x.kind \in Kinds, NEW late
      PROVE  Handled(log, config, startup, controls, p, TRUE,
               Receive(p, config[p], ObserveClock(startup[p], late), link[p], q, x))
  BY <1>4, ControlIsHandled
<1> QED
  BY <1>2, <1>3, <1>4

LEMMA InputArrives ==
  ASSUME NEW log, Sound(log, config, startup, control), InputFacts(config, input),
         NEW p \in Player, NEW q \in Others(p), NEW x \in input[q][p]
  PROVE  /\ InputFacts(config, [input EXCEPT ![q][p] = @ \ {x}]) /\ x \in Packets
         /\ x.config = config[q]
         /\ x.kind \notin Kinds => x.kind = "input"
         /\ x.kind \in Kinds => \A late :
              Handled(log, config, startup, control, p, TRUE,
                Receive(p, config[p], ObserveClock(startup[p], late), link[p], q, x))
<1>1. q \in Player /\ config \in Configs
  BY DEF Sound, Others
<1>2. input[q][p] \subseteq Carried(config, q)
  BY <1>1 DEF InputFacts
<1>3. /\ x \in Packets /\ x.config = config[q]
      /\ x.kind \notin Kinds => x.kind = "input"
      /\ x.kind \in Kinds => x \in Probings(config, q)
  BY <1>1, <1>2, CarriedFacts
<1>4. ASSUME x.kind \in Kinds, NEW late
      PROVE  Handled(log, config, startup, control, p, TRUE,
               Receive(p, config[p], ObserveClock(startup[p], late), link[p], q, x))
  BY <1>3, <1>4, InputIsHandled
<1>5. InputFacts(config, [input EXCEPT ![q][p] = @ \ {x}])
  BY <1>1, GoneFacts
<1> QED
  BY <1>3, <1>4, <1>5

(* What was taken off a link to p can be handled. *)
Taken(log, p, q, x, controls, inputs) ==
  /\ x \in Packets /\ Sound(log, config, startup, controls)
  /\ InputFacts(config, inputs)
  /\ x.kind \in Kinds => \A late :
       Handled(log, config, startup, controls, p, TRUE,
         Receive(p, config[p], ObserveClock(startup[p], late), link[p], q, x))

LEMMA BeforeAppliedIsState ==
  ASSUME NEW p \in Player, NEW c \in Conns, NEW q \in Player, NEW x \in Packets
  PROVE  BeforeApplied(p, c, q, x) \in Conns /\ BeforeApplied(p, c, q, x).begun = c.begun
<1> DEFINE new == BeforeApplied(p, c, q, x)
<1>1. new \in Conns /\ new.begun = c.begun
  BY BeforeAppliedFacts
<1> QED
  BY <1>1

LEMMA PumpReceiveStep ==
  ASSUME CInv, NEW p \in Player, NEW q \in Others(p), NEW x, NEW controls, NEW inputs,
         NEW late, NEW log, Taken(log, p, q, x, controls, inputs),
         PumpReceive(p, q, x, controls, inputs, late)
  PROVE  /\ CInv'
         /\ AllAlike(config) /\ x.kind \in Kinds => startup'[p].stage # "Failed"
<1>1. config' = config /\ game' = game /\ Pumps(p) /\ q \in Player
  BY DEF PumpReceive, Others
<1>2. /\ x \in Packets /\ Sound(log, config, startup, controls)
      /\ InputFacts(config, inputs)
  BY DEF Taken
<1>3. CASE x.kind \in Kinds
  <2> DEFINE result == Receive(p, config[p], ObserveClock(startup[p], late), link[p], q, x)
  <2>1. Posts(p, result, controls, inputs, "none") /\ conn' = conn
    BY <1>3 DEF PumpReceive, IsStartup
  <2>2. Handled(log, config, startup, controls, p, TRUE, result)
    BY <1>3 DEF Taken
  <2> HIDE DEF result
  <2> QED
    BY <1>1, <1>2, <2>1, <2>2, AnsweredStep
<1>4. CASE x.kind \notin Kinds
  <2> DEFINE c == BeforeApplied(p, conn[p], q, x)
  <2>1. /\ conn' = [conn EXCEPT ![p] = c] /\ control' = controls /\ input' = inputs
        /\ startup' = startup
    BY <1>4 DEF PumpReceive, IsStartup
  <2>2. conn \in [Player -> Conns] /\ game \in [Player -> Games] /\ conn[p] \in Conns
    BY DEF CInv
  <2>3. c \in Conns /\ c.begun = conn[p].begun
    BY <1>1, <1>2, <2>2, BeforeAppliedIsState
  <2> HIDE DEF c
  <2>4. conn' \in [Player -> Conns] /\ \A r \in Player : conn'[r].begun = conn[r].begun
    BY <2>1, <2>2, <2>3, SetConn
  <2>5. Sound(log, config, startup, control') /\ InputFacts(config, input')
    BY <1>2, <2>1
  <2> QED
    BY <1>1, <1>4, <2>1, <2>2, <2>4, <2>5, GameStep
<1> QED
  BY <1>3, <1>4

LEMMA PollWireStep ==
  ASSUME CInv, NEW p \in Player, NEW q \in Others(p), NEW x, NEW controls, NEW inputs,
         NEW log, Taken(log, p, q, x, controls, inputs),
         PollWire(p, q, x, controls, inputs)
  PROVE  /\ CInv'
         /\ AllAlike(config) /\ x.kind \in Kinds =>
              startup'[p].stage # "Failed" /\ conn' = [conn EXCEPT ![p].failed = FALSE]
<1>1. config' = config /\ Pumps(p) /\ q \in Player
  BY DEF PollWire, GameRuns, Others
<1>2. /\ x \in Packets /\ Sound(log, config, startup, controls)
      /\ InputFacts(config, inputs)
  BY DEF Taken
<1>3. CASE x.kind \in Kinds
  <2> DEFINE result == Receive(p, config[p], startup[p], link[p], q, x)
  <2>1. /\ Posts(p, result, controls, inputs, "none") /\ game' = game
        /\ conn' = [conn EXCEPT ![p].failed = result.state.stage = "Failed"]
    BY <1>3 DEF PollWire, IsStartup
  <2>2. ObserveClock(startup[p], "none") = startup[p]
    BY DEF ObserveClock
  <2>3. Handled(log, config, startup, controls, p, TRUE,
          Receive(p, config[p], ObserveClock(startup[p], "none"), link[p], q, x))
    BY <1>3 DEF Taken
  <2>4. Handled(log, config, startup, controls, p, TRUE, result)
    BY <2>2, <2>3
  <2> HIDE DEF result
  <2>5. /\ CInv' /\ startup'[p] = result.state
        /\ AllAlike(config) => result.state.stage # "Failed"
    BY <1>1, <1>2, <2>1, <2>4, AnsweredStep
  <2> DEFINE f == result.state.stage = "Failed"
  <2>6. AllAlike(config) => f = FALSE
    BY <2>5
  <2>7. conn' = [conn EXCEPT ![p].failed = f]
    BY <2>1
  <2>8. startup'[p].stage = result.state.stage
    BY <2>5
  <2> HIDE DEF f
  <2> QED
    BY <2>5, <2>6, <2>7, <2>8
<1>4. CASE x.kind \notin Kinds
  <2>1. /\ game' = GameReceive(p, q, x) /\ control' = controls /\ input' = inputs
        /\ startup' = startup /\ conn' = conn
    BY <1>4 DEF PollWire, IsStartup
  <2>2. conn \in [Player -> Conns] /\ game \in [Player -> Games]
    BY DEF CInv
  <2>3. game' \in [Player -> Games]
    BY <1>1, <2>1, <2>2, GameReceiveFacts
  <2>4. Sound(log, config, startup, control') /\ InputFacts(config, input')
    BY <1>2, <2>1
  <2> QED
    BY <1>1, <1>4, <2>1, <2>2, <2>3, <2>4, GameStep
<1> QED
  BY <1>3, <1>4

LEMMA ControlTaken ==
  ASSUME CInv, NEW p \in Player, NEW q \in Others(p), control[q][p] # << >>
  PROVE  /\ \E log : Taken(log, p, q, Head(control[q][p]),
                           [control EXCEPT ![q][p] = Tail(@)], input)
         /\ \/ Stale(config, Head(control[q][p]))
            \/ /\ Head(control[q][p]).config = config[q]
               /\ Head(control[q][p]).kind \in Kinds \cup {"hello", "ready"}
<1>1. PICK log : Sound(log, config, startup, control)
  BY DEF CInv
<1>2. InputFacts(config, input)
  BY DEF CInv
<1> DEFINE x == Head(control[q][p])
           controls == [control EXCEPT ![q][p] = Tail(@)]
<1>3. /\ Sound(log, config, startup, controls) /\ x \in Packets
      /\ Stale(config, x) \/ Genuine(log, config, startup, q, x)
      /\ x.kind \in Kinds => \A late :
           Handled(log, config, startup, controls, p, TRUE,
             Receive(p, config[p], ObserveClock(startup[p], late), link[p], q, x))
  BY <1>1, ControlArrives
<1> HIDE DEF x, controls
<1>4. Taken(log, p, q, x, controls, input)
  BY <1>2, <1>3 DEF Taken
<1>5. Genuine(log, config, startup, q, x) =>
        x.config = config[q] /\ x.kind \in Kinds \cup {"hello", "ready"}
  BY DEF Genuine
<1> QED
  BY <1>3, <1>4, <1>5 DEF x, controls

LEMMA InputTaken ==
  ASSUME CInv, NEW p \in Player, NEW q \in Others(p), NEW x \in input[q][p]
  PROVE  /\ \E log : Taken(log, p, q, x, control, [input EXCEPT ![q][p] = @ \ {x}])
         /\ x.config = config[q]
         /\ x.kind \notin Kinds => x.kind = "input"
<1>1. PICK log : Sound(log, config, startup, control)
  BY DEF CInv
<1>2. InputFacts(config, input)
  BY DEF CInv
<1> DEFINE inputs == [input EXCEPT ![q][p] = @ \ {x}]
<1>3. /\ InputFacts(config, inputs) /\ x \in Packets
      /\ x.config = config[q] /\ (x.kind \notin Kinds => x.kind = "input")
      /\ x.kind \in Kinds => \A late :
           Handled(log, config, startup, control, p, TRUE,
             Receive(p, config[p], ObserveClock(startup[p], late), link[p], q, x))
  BY <1>1, <1>2, InputArrives
<1> HIDE DEF inputs
<1>4. Taken(log, p, q, x, control, inputs)
  BY <1>1, <1>3 DEF Taken
<1> QED
  BY <1>3, <1>4 DEF inputs

(* The steps that p takes alone. *)
LEMMA SameStep ==
  ASSUME CInv, UNCHANGED <<config, startup, conn, game, control, input>>
  PROVE  CInv'
BY DEF CInv

LEMMA LoseControlStep ==
  ASSUME CInv, NEW q \in Player, NEW p \in Player, LoseControl(q, p)
  PROVE  CInv'
<1>1. PICK log : Sound(log, config, startup, control)
  BY DEF CInv
<1>2. /\ control[q][p] # << >> /\ control' = [control EXCEPT ![q][p] = Tail(@)]
      /\ UNCHANGED <<config, link, startup, conn, game, input>>
  BY DEF LoseControl
<1>3. Sound(log, config, startup, control')
  BY <1>1, <1>2, TakeIsSound
<1> QED
  BY <1>2, <1>3 DEF CInv

LEMMA LoseInputStep ==
  ASSUME CInv, NEW q \in Player, NEW p \in Player, NEW x, LoseInput(q, p, x)
  PROVE  CInv'
<1>1. /\ input' = [input EXCEPT ![q][p] = @ \ {x}]
      /\ UNCHANGED <<config, link, startup, conn, game, control>>
  BY DEF LoseInput
<1>2. InputFacts(config, input)
  BY DEF CInv
<1>3. InputFacts(config, input')
  BY <1>1, <1>2, GoneFacts
<1> QED
  BY <1>1, <1>3 DEF CInv

LEMMA AppliedConn ==
  ASSUME NEW cn \in [Player -> Conns], NEW p \in Player
  PROVE  LET new == [cn EXCEPT ![p].applied = TRUE]
         IN  /\ new \in [Player -> Conns] /\ new[p].applied
             /\ \A q \in Player : /\ new[q].begun = cn[q].begun
                                   /\ new[q].failed = cn[q].failed
                                   /\ new[q].pending = cn[q].pending
                                   /\ q # p => new[q] = cn[q]
<1> DEFINE c == [cn[p] EXCEPT !.applied = TRUE]
<1>1. /\ c \in Conns /\ c.begun = cn[p].begun /\ c.applied
      /\ c.failed = cn[p].failed /\ c.pending = cn[p].pending
  BY DEF Conns
<1>2. [cn EXCEPT ![p].applied = TRUE] = [cn EXCEPT ![p] = c]
  OBVIOUS
<1> HIDE DEF c
<1> QED
  BY <1>1, <1>2, SetConn

LEMMA ApplyStep ==
  ASSUME CInv, NEW p \in Player, Apply(p)
  PROVE  CInv'
<1>1. PICK log : Sound(log, config, startup, control)
  BY DEF CInv
<1>2. /\ conn' = [conn EXCEPT ![p].applied = TRUE]
      /\ UNCHANGED <<config, link, startup, game, control, input>>
  BY DEF Apply
<1>3. conn \in [Player -> Conns] /\ InputFacts(config, input) /\ game \in [Player -> Games]
  BY DEF CInv
<1>4. conn' \in [Player -> Conns] /\ \A q \in Player : conn'[q].begun = conn[q].begun
  BY <1>2, <1>3, AppliedConn
<1>5. Sound(log, config, startup, control') /\ InputFacts(config, input')
  BY <1>1, <1>2, <1>3
<1> QED
  BY <1>2, <1>3, <1>4, <1>5, GameStep

LEMMA PendingFacts ==
  ASSUME NEW c \in Conns, c.pending # << >>
  PROVE  /\ Head(c.pending).from \in Player /\ Head(c.pending).pkt \in Packets
         /\ Tail(c.pending) \in Seq([from : Player, pkt : Packets])
<1>1. c.pending \in Seq([from : Player, pkt : Packets])
  BY DEF Conns
<1>2. /\ Head(c.pending) \in [from : Player, pkt : Packets]
      /\ Tail(c.pending) \in Seq([from : Player, pkt : Packets])
  BY <1>1, HeadTailProperties
<1> QED
  BY <1>2

LEMMA PollPendingStep ==
  ASSUME CInv, NEW p \in Player, PollPending(p)
  PROVE  CInv'
<1>1. PICK log : Sound(log, config, startup, control)
  BY DEF CInv
<1> DEFINE first == Head(conn[p].pending)
           rest == Tail(conn[p].pending)
<1>2. /\ conn[p].pending # << >>
      /\ game' = GameReceive(p, first.from, first.pkt)
      /\ conn' = [conn EXCEPT ![p].pending = rest]
      /\ UNCHANGED <<config, link, startup, control, input>>
  BY DEF PollPending
<1>3. conn \in [Player -> Conns] /\ InputFacts(config, input) /\ game \in [Player -> Games]
  BY DEF CInv
<1>4. first.from \in Player /\ rest \in Seq([from : Player, pkt : Packets])
  BY <1>2, <1>3, PendingFacts
<1> HIDE DEF first, rest
<1>5. conn' \in [Player -> Conns] /\ \A q \in Player : conn'[q].begun = conn[q].begun
  <2>1. /\ [conn EXCEPT ![p].pending = rest] \in [Player -> Conns]
        /\ \A q \in Player : [conn EXCEPT ![p].pending = rest][q].begun = conn[q].begun
    <3>1. conn \in [Player -> Conns] /\ rest \in Waits
      BY <1>3, <1>4 DEF Waits
    <3> QED
      BY <3>1, QueuedConn
  <2> QED
    BY <1>2, <2>1
<1>6. game' \in [Player -> Games]
  BY <1>2, <1>3, <1>4, GameReceiveFacts
<1>7. Sound(log, config, startup, control') /\ InputFacts(config, input')
  BY <1>1, <1>2, <1>3
<1> QED
  BY <1>2, <1>5, <1>6, <1>7, GameStep

(* What SendSession posts. *)
LEMMA SessionPackets ==
  ASSUME NEW x, NEW y, NEW both \in BOOLEAN
  PROVE  (<<x>> \o IF both THEN <<y>> ELSE << >>) = IF both THEN <<x, y>> ELSE <<x>>
<1>1. <<x>> \in Seq({x, y}) /\ <<y>> \in Seq({x, y}) /\ <<x, y>> \in Seq({x, y})
  OBVIOUS
<1>2. <<x>> \o <<y>> = <<x, y>>
  <2> DEFINE s == <<x>> \o <<y>>
  <2>1. /\ s \in Seq({x, y}) /\ Len(s) = Len(<<x>>) + Len(<<y>>)
        /\ \A i \in 1 .. Len(<<x>>) + Len(<<y>>) :
             s[i] = IF i <= Len(<<x>>) THEN <<x>>[i] ELSE <<y>>[i - Len(<<x>>)]
    BY <1>1, ConcatProperties
  <2> HIDE DEF s
  <2>2. Len(s) = 2 /\ s[1] = x /\ s[2] = y
    BY <2>1
  <2>3. \A i \in 1 .. Len(s) : s[i] = <<x, y>>[i]
    BY <2>2
  <2>4. Len(<<x, y>>) = 2
    OBVIOUS
  <2>5. s = <<x, y>>
    BY <1>1, <2>1, <2>2, <2>3, <2>4, SeqEqual
  <2> QED
    BY <2>5 DEF s
<1>3. <<x>> \o << >> = <<x>>
  BY <1>1, ConcatEmptySeq
<1> QED
  BY <1>2, <1>3

LEMMA GameplayFacts ==
  ASSUME config \in Configs, NEW p \in Player, NEW kind \in GameKinds
  PROVE  /\ Gameplay(p, kind) \in Packets /\ Gameplay(p, kind).kind = kind
         /\ Gameplay(p, kind).config = config[p] /\ kind \notin Kinds
<1>1. config[p] \in Setups
  BY SetupFacts
<1>2. kind \notin Kinds
  BY DEF Kinds, Bargains, Retries, GameKinds
<1> QED
  BY <1>1, <1>2 DEF Gameplay, Packets, GamePackets

LEMMA SendSessionStep ==
  ASSUME CInv, NEW p \in Player, SendSession(p)
  PROVE  CInv'
<1>1. PICK log : Sound(log, config, startup, control)
  BY DEF CInv
<1> DEFINE x == Gameplay(p, "hello")
           y == Gameplay(p, "ready")
           both == LocalReady(p)
           packets == <<x>> \o IF both THEN <<y>> ELSE << >>
           g == [game[p] EXCEPT !.ready = @ \cup {p}]
<1>2. /\ control' = Posted(control, p, packets)
      /\ game' = IF both THEN [game EXCEPT ![p] = g] ELSE game
      /\ UNCHANGED <<config, link, startup, conn, input>>
  BY DEF SendSession
<1>3. both \in BOOLEAN
  BY DEF LocalReady
<1>4. "hello" \in GameKinds /\ "ready" \in GameKinds /\ config \in Configs
  BY <1>1 DEF GameKinds, Sound
<1>5. /\ x \in Packets /\ y \in Packets
      /\ Genuine(log, config, startup, p, x) /\ Genuine(log, config, startup, p, y)
  BY <1>4, GameplayFacts DEF Genuine
<1>6. game \in [Player -> Games] /\ InputFacts(config, input) /\ conn \in [Player -> Conns]
  BY DEF CInv
<1>7. game' \in [Player -> Games]
  <2>1. g \in Games
    BY <1>6 DEF Games
  <2> HIDE DEF g
  <2> QED
    BY <1>2, <1>6, <2>1
<1> HIDE DEF x, y, both, g
<1>8. packets = IF both THEN <<x, y>> ELSE <<x>>
  BY <1>3, SessionPackets
<1> HIDE DEF packets
<1>9. /\ <<x, y>> \in Seq(Packets) /\ ToSet(<<x, y>>) = {x, y}
      /\ <<x>> \in Seq(Packets) /\ ToSet(<<x>>) = {x}
  BY <1>5, ShortSequences
<1>10. packets \in Seq(Packets)
       /\ \A z \in ToSet(packets) : Genuine(log, config, startup, p, z)
  BY <1>5, <1>8, <1>9
<1>11. Sound(log, config, startup, control')
  BY <1>1, <1>2, <1>10, PostIsSound
<1>12. conn' = conn /\ config' = config /\ startup' = startup /\ input' = input
  BY <1>2
<1> QED
  BY <1>6, <1>7, <1>11, <1>12, GameStep

LEMMA SendInputStep ==
  ASSUME CInv, NEW p \in Player, SendInput(p)
  PROVE  CInv'
<1>1. PICK log : Sound(log, config, startup, control)
  BY DEF CInv
<1> DEFINE packets == [q \in Player |-> IF q = p THEN {} ELSE {Gameplay(p, "input")}]
<1>2. /\ input' = Put(input, p, packets)
      /\ UNCHANGED <<config, link, startup, conn, game, control>>
  BY DEF SendInput
<1>3. Gameplay(p, "input") \in Carried(config, p)
  BY DEF Gameplay, Carried
<1>4. packets \in [Player -> SUBSET Carried(config, p)]
  BY <1>3
<1> HIDE DEF packets
<1>5. config \in Configs /\ InputFacts(config, input)
  BY <1>1 DEF CInv, Sound
<1>6. InputFacts(config, input')
  BY <1>2, <1>4, <1>5, PutFacts
<1> QED
  BY <1>2, <1>6 DEF CInv

(* The steps that take a packet off a link. *)
LEMMA ReceiveControlStep ==
  ASSUME CInv, NEW p \in Player, NEW q \in Others(p), NEW late, ReceiveControl(p, q, late)
  PROVE  CInv'
<1> DEFINE x == Head(control[q][p])
           controls == [control EXCEPT ![q][p] = Tail(@)]
<1>1. control[q][p] # << >> /\ PumpReceive(p, q, x, controls, input, late)
  BY DEF ReceiveControl
<1>2. PICK log : Taken(log, p, q, x, controls, input)
  BY <1>1, ControlTaken
<1> HIDE DEF x, controls
<1> QED
  BY <1>1, <1>2, PumpReceiveStep

LEMMA ReceiveInputStep ==
  ASSUME CInv, NEW p \in Player, NEW q \in Others(p), NEW late, ReceiveInput(p, q, late)
  PROVE  CInv'
<1>1. PICK x \in input[q][p] :
        PumpReceive(p, q, x, control, [input EXCEPT ![q][p] = @ \ {x}], late)
  BY DEF ReceiveInput
<1> DEFINE inputs == [input EXCEPT ![q][p] = @ \ {x}]
<1>2. PICK log : Taken(log, p, q, x, control, inputs)
  BY InputTaken
<1>3. PumpReceive(p, q, x, control, inputs, late)
  BY <1>1
<1> HIDE DEF inputs
<1> QED
  BY <1>2, <1>3, PumpReceiveStep

LEMMA PollControlStep ==
  ASSUME CInv, NEW p \in Player, NEW q \in Others(p), PollControl(p, q)
  PROVE  CInv'
<1> DEFINE x == Head(control[q][p])
           controls == [control EXCEPT ![q][p] = Tail(@)]
<1>1. control[q][p] # << >> /\ PollWire(p, q, x, controls, input)
  BY DEF PollControl
<1>2. PICK log : Taken(log, p, q, x, controls, input)
  BY <1>1, ControlTaken
<1> HIDE DEF x, controls
<1> QED
  BY <1>1, <1>2, PollWireStep

LEMMA PollInputStep ==
  ASSUME CInv, NEW p \in Player, NEW q \in Others(p), PollInput(p, q)
  PROVE  CInv'
<1>1. PICK x \in input[q][p] :
        PollWire(p, q, x, control, [input EXCEPT ![q][p] = @ \ {x}])
  BY DEF PollInput
<1> DEFINE inputs == [input EXCEPT ![q][p] = @ \ {x}]
<1>2. PICK log : Taken(log, p, q, x, control, inputs)
  BY InputTaken
<1>3. PollWire(p, q, x, control, inputs)
  BY <1>1
<1> HIDE DEF inputs
<1> QED
  BY <1>2, <1>3, PollWireStep

(* The steps of Next, one by one. *)
LEMMA NextSteps ==
  ASSUME Next
  PROVE  \E p \in Player :
           \/ BeginPump(p) \/ Apply(p) \/ PollPending(p) \/ SendSession(p) \/ SendInput(p)
           \/ Restore(p)
           \/ \E state \in LinkStates : Disturb(p, state)
           \/ \E env \in Environments(p) : PumpTick(p, env)
           \/ \E q \in Others(p) :
                \/ \E late \in {"none", "gap"} : ReceiveControl(p, q, late)
                \/ \E late \in {"none", "gap"} : ReceiveInput(p, q, late)
                \/ PollControl(p, q)
                \/ PollInput(p, q)
                \/ LoseControl(q, p)
                \/ \E x \in input[q][p] : LoseInput(q, p, x)
BY DEF Next

LEMMA CInvIsInductive ==
  ASSUME CInv, [Next]_vars
  PROVE  CInv'
<1>1. CASE UNCHANGED vars
  BY <1>1, SameStep DEF vars
<1>2. ASSUME NEW p \in Player, BeginPump(p)
      PROVE  CInv'
  BY <1>2, BeginPumpStep
<1>3. ASSUME NEW p \in Player, Apply(p)
      PROVE  CInv'
  BY <1>3, ApplyStep
<1>4. ASSUME NEW p \in Player, PollPending(p)
      PROVE  CInv'
  BY <1>4, PollPendingStep
<1>5. ASSUME NEW p \in Player, SendSession(p)
      PROVE  CInv'
  BY <1>5, SendSessionStep
<1>6. ASSUME NEW p \in Player, SendInput(p)
      PROVE  CInv'
  BY <1>6, SendInputStep
<1>7. ASSUME NEW p \in Player, Restore(p)
      PROVE  CInv'
  BY <1>7, SameStep DEF Restore
<1>8. ASSUME NEW p \in Player, NEW state, Disturb(p, state)
      PROVE  CInv'
  BY <1>8, SameStep DEF Disturb
<1>9. ASSUME NEW p \in Player, NEW env \in Environments(p), PumpTick(p, env)
      PROVE  CInv'
  BY <1>9, PumpTickStep
<1>10. ASSUME NEW p \in Player, NEW q \in Others(p), NEW late,
              ReceiveControl(p, q, late) \/ ReceiveInput(p, q, late)
       PROVE  CInv'
  BY <1>10, ReceiveControlStep, ReceiveInputStep
<1>11. ASSUME NEW p \in Player, NEW q \in Others(p), PollControl(p, q) \/ PollInput(p, q)
       PROVE  CInv'
  BY <1>11, PollControlStep, PollInputStep
<1>12. ASSUME NEW p \in Player, NEW q \in Others(p), LoseControl(q, p)
       PROVE  CInv'
  <2>1. q \in Player
    BY DEF Others
  <2> QED
    BY <1>12, <2>1, LoseControlStep
<1>13. ASSUME NEW p \in Player, NEW q \in Others(p), NEW x, LoseInput(q, p, x)
       PROVE  CInv'
  <2>1. q \in Player
    BY DEF Others
  <2> QED
    BY <1>13, <2>1, LoseInputStep
<1>14. CASE Next
  BY <1>14, NextSteps, <1>2, <1>3, <1>4, <1>5, <1>6, <1>7, <1>8, <1>9, <1>10, <1>11,
     <1>12, <1>13
<1> QED
  BY <1>1, <1>14

(* What the players know of each other, what the packets under way say of  *)
(* their senders, and the types of the state, in every reachable state of  *)
(* the calibrations (AdonisStartup.hpp, AdonisConnection.hpp).             *)
THEOREM CalibrationIsSound == Spec => []CInv
<1>1. CInv /\ [Next]_vars => CInv'
  BY CInvIsInductive
<1> QED
  BY <1>1, InitIsSound, PTL DEF Spec

LEMMA CInvGivesUnanimity == CInv => CommitIsUnanimous
<1> SUFFICES ASSUME CInv, NEW p \in Clients
             PROVE  /\ Committed(Host) => /\ startup[p].attempt = startup[Host].attempt
                                          /\ startup[p].accepted
                    /\ Committed(p) => /\ Committed(Host)
                                       /\ config[p] = config[Host]
                                       /\ startup[p].reports = startup[Host].reports
                                       /\ startup[p].choice = startup[Host].choice
  BY DEF CommitIsUnanimous
<1> DEFINE s == startup[p]
           h == startup[Host]
<1>1. PICK log : Sound(log, config, startup, control)
  BY DEF CInv
<1>2. p \in Player /\ p # Host /\ Host \in Player
  BY ReportFacts DEF Clients
<1>3. PlayerFacts(log, config, startup) /\ s \in Startups /\ h \in Startups
  BY <1>1, <1>2 DEF Sound
<1>4. /\ OwnFacts(p, config[p], s) /\ OwnFacts(Host, config[Host], h)
      /\ Recorded(log, s) /\ Recorded(log, h)
      /\ h.stage = "Committed" => AllAccepted(Host, h)
      /\ p \in h.acceptedBy => config[p] = config[Host] /\ HasAccepted(h, s)
      /\ s.stage = "Committed" => h.stage = "Committed" /\ s.attempt = h.attempt
  BY <1>2, <1>3 DEF PlayerFacts, CommitIsHosts
<1> HIDE DEF s, h
<1>5. ASSUME h.stage = "Committed"
      PROVE  config[p] = config[Host] /\ HasAccepted(h, s)
  <2>1. p \in h.acceptedBy
    BY <1>2, <1>4, <1>5 DEF AllAccepted, Others
  <2> QED
    BY <1>4, <2>1
<1>6. ASSUME s.stage = "Committed"
      PROVE  s.reports = h.reports /\ s.choice = h.choice
  <2>1. h.stage = "Committed" /\ s.attempt = h.attempt /\ config[p] = config[Host]
    BY <1>4, <1>5, <1>6
  <2>2. /\ AllSummaries(s) /\ s.choice = ChooseAll(s, config[p])
        /\ AllSummaries(h) /\ h.choice = ChooseAll(h, config[Host])
    BY <1>4, <1>6, <2>1 DEF OwnFacts
  <2>3. \A q \in Player : s.reports[q] = h.reports[q]
    BY <1>4, <2>1, <2>2 DEF Recorded, AllSummaries
  <2>4. s.reports = h.reports
    <3>1. /\ s.reports \in [Player -> Report \cup {None}]
          /\ h.reports \in [Player -> Report \cup {None}]
      BY <1>3 DEF Startups
    <3> QED
      BY <2>3, <3>1
  <2>5. ChooseAll(s, config[p]) = ChooseAll(h, config[p])
    BY <2>4, SameReportsSameChoice
  <2> QED
    BY <2>1, <2>2, <2>4, <2>5
<1> QED
  BY <1>4, <1>5, <1>6 DEF Committed, HasAccepted, s, h

LEMMA CInvGivesCoverage == CInv => ChoiceCoversThePath
<1> SUFFICES ASSUME CInv, NEW p \in Player, Committed(p)
             PROVE  LET c == startup[p].choice
                        half == Max({startup[p].reports[q] : q \in Player}) \div 2
                    IN  /\ c.full * Second >= half * 60
                        /\ c.full > 1 => (c.full - 1) * Second < half * 60
                        /\ c.delay \in 0 .. MaxDelay
                        /\ config[p].requested = Automatic =>
                             c.delay + c.prediction = c.full /\ c.delay >= 1
  BY DEF ChoiceCoversThePath
<1> DEFINE s == startup[p]
<1>1. PICK log : Sound(log, config, startup, control)
  BY DEF CInv
<1>2. s \in Startups /\ config \in Configs /\ OwnFacts(p, config[p], s)
  BY <1>1 DEF Sound, PlayerFacts
<1>3. /\ AllSummaries(s) /\ s.choice = ChooseAll(s, config[p])
      /\ s.choice.delay <= MaxDelay
  BY <1>2 DEF OwnFacts, Committed
<1> HIDE DEF s
<1>4. Covers(s.choice, config[p], WorstReport(s))
  BY <1>2, <1>3, SetupFacts, ChooseAllFacts
<1>5. WorstReport(s) = Max({s.reports[q] : q \in Player})
  BY <1>2, <1>3, WorstFacts
<1> DEFINE worst == Max({s.reports[q] : q \in Player})
<1>6. Covers(s.choice, config[p], worst)
  BY <1>4, <1>5
<1>7. s.choice.delay \in 0 .. MaxDelay
  <2>1. s.choice.delay \in Int /\ s.choice.delay >= 0
    BY <1>6 DEF Covers, Choice
  <2>2. MaxDelay \in Int
    BY DEF MaxDelay
  <2> QED
    BY <1>3, <2>1, <2>2
<1> HIDE DEF worst
<1>8. /\ s.choice.full * Second >= (worst \div 2) * 60
      /\ s.choice.full > 1 => (s.choice.full - 1) * Second < (worst \div 2) * 60
      /\ config[p].requested = Automatic =>
           s.choice.delay + s.choice.prediction = s.choice.full /\ s.choice.delay >= 1
  BY <1>6 DEF Covers
<1> QED
  BY <1>7, <1>8 DEF s, worst

(* Nobody commits alone: the host only when every client has accepted in   *)
(* this attempt, a client only when the host has, with the same            *)
(* configuration, reports and delay, whatever packets of earlier attempts  *)
(* or of a retired session are still under way (AdonisStartup.hpp:14-15).  *)
THEOREM CommitsAreUnanimous == Spec => []CommitIsUnanimous
BY CalibrationIsSound, CInvGivesUnanimity, PTL

(* A committed delay and its prediction are the least whole frames that    *)
(* contain half of the worst round trip that was reported, and within the  *)
(* range of a delay (AdonisStartup.hpp, ChooseDelay).                      *)
THEOREM ChoicesCoverThePath == Spec => []ChoiceCoversThePath
BY CalibrationIsSound, CInvGivesCoverage, PTL

---------------------------------------------------------------------------
(* The order in which the game behind the calibration is greeted. *)

(* No ready before a hello, unless that is known.                          *)
InOrder(queue, hellos, readies, known) ==
  \A i \in DOMAIN queue :
    queue[i] \in readies => known \/ \E j \in 1 .. i - 1 : queue[j] \in hellos

LEMMA InOrderTail ==
  ASSUME NEW S, NEW queue \in Seq(S), queue # << >>, NEW hellos, NEW readies,
         NEW known \in BOOLEAN, InOrder(queue, hellos, readies, known)
  PROVE  /\ Head(queue) \in readies => known
         /\ \A new \in BOOLEAN : (known \/ Head(queue) \in hellos => new) =>
              InOrder(Tail(queue), hellos, readies, new)
<1>1. /\ Tail(queue) \in Seq(S) /\ Len(Tail(queue)) = Len(queue) - 1
      /\ \A i \in 1 .. Len(Tail(queue)) : Tail(queue)[i] = queue[i + 1]
  BY HeadTailProperties
<1>2. /\ DOMAIN queue = 1 .. Len(queue) /\ Len(queue) \in Nat
      /\ DOMAIN Tail(queue) = 1 .. Len(Tail(queue))
  BY <1>1, LenProperties
<1>3. Len(queue) # 0 /\ Head(queue) = queue[1]
  BY EmptySeq
<1>4. Head(queue) \in readies => known
  <2>1. 1 \in DOMAIN queue /\ ~ \E j \in 1 .. 1 - 1 : queue[j] \in hellos
    BY <1>2, <1>3
  <2> QED
    BY <1>3, <2>1 DEF InOrder
<1>5. ASSUME NEW new \in BOOLEAN, known \/ Head(queue) \in hellos => new,
             NEW i \in DOMAIN Tail(queue), Tail(queue)[i] \in readies, ~new
      PROVE  \E j \in 1 .. i - 1 : Tail(queue)[j] \in hellos
  <2>1. i + 1 \in DOMAIN queue /\ queue[i + 1] \in readies /\ i \in Nat
    BY <1>1, <1>2, <1>5
  <2>2. PICK j \in 1 .. (i + 1) - 1 : queue[j] \in hellos
    BY <1>5, <2>1 DEF InOrder
  <2>3. j # 1
    BY <1>3, <1>5, <2>2
  <2>4. j - 1 \in 1 .. i - 1 /\ j - 1 \in 1 .. Len(Tail(queue)) /\ j = (j - 1) + 1
    BY <1>1, <1>2, <2>1, <2>2, <2>3
  <2>5. Tail(queue)[j - 1] = queue[j]
    BY <1>1, <2>4
  <2> QED
    BY <2>2, <2>4, <2>5
<1> QED
  BY <1>4, <1>5 DEF InOrder

LEMMA InOrderConcat ==
  ASSUME NEW S, NEW a \in Seq(S), NEW b \in Seq(S), NEW hellos, NEW readies,
         NEW known \in BOOLEAN, InOrder(a, hellos, readies, known),
         \/ known
         \/ \E x \in ToSet(a) : x \in hellos
         \/ \A x \in ToSet(b) : x \notin readies
  PROVE  InOrder(a \o b, hellos, readies, known)
<1>1. /\ a \o b \in Seq(S) /\ Len(a \o b) = Len(a) + Len(b)
      /\ \A i \in 1 .. Len(a) + Len(b) :
           (a \o b)[i] = IF i <= Len(a) THEN a[i] ELSE b[i - Len(a)]
  BY ConcatProperties
<1>2. /\ DOMAIN a = 1 .. Len(a) /\ Len(a) \in Nat
      /\ DOMAIN b = 1 .. Len(b) /\ Len(b) \in Nat
      /\ DOMAIN (a \o b) = 1 .. Len(a \o b)
  BY <1>1, LenProperties
<1> DEFINE c == a \o b
<1> HIDE DEF c
<1>3. /\ DOMAIN c = 1 .. Len(a) + Len(b)
      /\ \A i \in 1 .. Len(a) : c[i] = a[i]
      /\ \A i \in 1 .. Len(a) + Len(b) : ~(i <= Len(a)) =>
           c[i] = b[i - Len(a)] /\ i - Len(a) \in DOMAIN b
  BY <1>1, <1>2 DEF c
<1>4. ASSUME NEW i \in DOMAIN c, c[i] \in readies, ~known
      PROVE  \E j \in 1 .. i - 1 : c[j] \in hellos
  <2>1. CASE i <= Len(a)
    <3>1. i \in DOMAIN a /\ a[i] \in readies
      BY <1>2, <1>3, <1>4, <2>1
    <3>2. PICK j \in 1 .. i - 1 : a[j] \in hellos
      BY <1>4, <3>1 DEF InOrder
    <3>3. c[j] = a[j]
      BY <1>2, <1>3, <2>1
    <3> QED
      BY <3>2, <3>3
  <2>2. CASE ~(i <= Len(a))
    <3>1. b[i - Len(a)] \in readies /\ b[i - Len(a)] \in ToSet(b)
      BY <1>3, <1>4, <2>2 DEF ToSet
    <3>2. PICK x \in ToSet(a) : x \in hellos
      BY <1>4, <3>1
    <3>3. PICK j \in 1 .. Len(a) : x = a[j]
      BY <1>2, <3>2 DEF ToSet
    <3>4. c[j] \in hellos
      BY <1>3, <3>2, <3>3
    <3>5. j \in 1 .. i - 1
      BY <1>2, <1>3, <2>2, <3>3
    <3> QED
      BY <3>4, <3>5
  <2> QED
    BY <2>1, <2>2
<1>5. InOrder(c, hellos, readies, known)
  BY <1>4 DEF InOrder
<1> QED
  BY <1>5 DEF c

LEMMA ConcatAll ==
  ASSUME NEW S, NEW a \in Seq(S), NEW b \in Seq(S)
  PROVE  ToSet(a) \subseteq ToSet(a \o b) /\ ToSet(b) \subseteq ToSet(a \o b)
<1>1. /\ a \o b \in Seq(S) /\ Len(a \o b) = Len(a) + Len(b)
      /\ \A i \in 1 .. Len(a) + Len(b) :
           (a \o b)[i] = IF i <= Len(a) THEN a[i] ELSE b[i - Len(a)]
  BY ConcatProperties
<1>2. /\ DOMAIN a = 1 .. Len(a) /\ Len(a) \in Nat
      /\ DOMAIN b = 1 .. Len(b) /\ Len(b) \in Nat
      /\ DOMAIN (a \o b) = 1 .. Len(a \o b)
  BY <1>1, LenProperties
<1>3. ASSUME NEW x \in ToSet(a) PROVE x \in ToSet(a \o b)
  <2>1. PICK i \in 1 .. Len(a) : x = a[i]
    BY <1>2 DEF ToSet
  <2>2. i \in DOMAIN (a \o b) /\ (a \o b)[i] = x
    BY <1>1, <1>2, <2>1
  <2> QED
    BY <2>2 DEF ToSet
<1>4. ASSUME NEW x \in ToSet(b) PROVE x \in ToSet(a \o b)
  <2>1. PICK i \in 1 .. Len(b) : x = b[i]
    BY <1>2 DEF ToSet
  <2>2. /\ i + Len(a) \in DOMAIN (a \o b) /\ (i + Len(a)) - Len(a) = i
        /\ i + Len(a) \in 1 .. Len(a) + Len(b) /\ ~(i + Len(a) <= Len(a))
    BY <1>1, <1>2, <2>1
  <2>3. (a \o b)[i + Len(a)] = b[(i + Len(a)) - Len(a)]
    BY <1>1, <2>2
  <2> QED
    BY <2>1, <2>2, <2>3 DEF ToSet
<1> QED
  BY <1>3, <1>4

(* What is posted keeps the order, if it has no ready or begins with a     *)
(* hello.                                                                  *)
LEMMA ExtendedInOrder ==
  ASSUME NEW S, NEW queue \in Seq(S), NEW packets \in Seq(S), NEW hellos, NEW readies,
         NEW known \in BOOLEAN, InOrder(queue, hellos, readies, known),
         \/ \A x \in ToSet(packets) : x \notin readies
         \/ packets # << >> /\ packets[1] \in hellos /\ packets[1] \notin readies
  PROVE  InOrder(Extended(queue, packets), hellos, readies, known)
<1> DEFINE F(i) == Fresh(queue, packets, i)
           Calm(s) == \/ \A x \in ToSet(packets) : x \notin readies
                      \/ \E x \in ToSet(s) : x \in hellos
<1>1. \A i \in 1 .. 4 : F(i) \in Seq(S) /\ ToSet(F(i)) \subseteq ToSet(packets)
  BY FreshFacts
<1>2. \/ \A x \in ToSet(packets) : x \notin readies
      \/ /\ \E x \in ToSet(queue) \cup ToSet(F(1)) : x \in hellos
         /\ \A x \in ToSet(F(1)) : x \notin readies
  <2>1. ASSUME packets # << >>, packets[1] \in hellos, packets[1] \notin readies
        PROVE  /\ \E x \in ToSet(queue) \cup ToSet(F(1)) : x \in hellos
               /\ \A x \in ToSet(F(1)) : x \notin readies
    <3>1. 1 \in DOMAIN packets
      <4>1. Len(packets) # 0 /\ Len(packets) \in Nat /\ DOMAIN packets = 1 .. Len(packets)
        BY <2>1, EmptySeq, LenProperties
      <4> QED
        BY <4>1
    <3>2. /\ ToSet(<<packets[1]>>) = {packets[1]} /\ ToSet(<< >>) = {}
      BY DEF ToSet
    <3>3. \/ packets[1] \in ToSet(queue) /\ F(1) = << >>
          \/ F(1) = <<packets[1]>>
      BY <3>1 DEF Fresh
    <3> HIDE DEF F
    <3> QED
      BY <2>1, <3>2, <3>3
  <2> QED
    BY <2>1
<1> HIDE DEF F
<1> DEFINE a == queue \o F(1)
           b == a \o F(2)
           c == b \o F(3)
           d == c \o F(4)
<1>3. a \in Seq(S) /\ InOrder(a, hellos, readies, known) /\ Calm(a)
  <2>1. F(1) \in Seq(S) /\ ToSet(F(1)) \subseteq ToSet(packets)
    BY <1>1
  <2>2. \A x \in ToSet(F(1)) : x \notin readies
    BY <1>2, <2>1
  <2>3. a \in Seq(S) /\ ToSet(queue) \subseteq ToSet(a) /\ ToSet(F(1)) \subseteq ToSet(a)
    BY <2>1, ConcatSet, ConcatAll
  <2>4. InOrder(a, hellos, readies, known)
    BY <2>1, <2>2, InOrderConcat
  <2> HIDE DEF a
  <2> QED
    BY <1>2, <2>3, <2>4
<1> HIDE DEF a
<1>4. ASSUME NEW s \in Seq(S), NEW i \in 1 .. 4,
             InOrder(s, hellos, readies, known), Calm(s)
      PROVE  s \o F(i) \in Seq(S) /\ InOrder(s \o F(i), hellos, readies, known)
             /\ Calm(s \o F(i))
  <2>1. F(i) \in Seq(S) /\ ToSet(F(i)) \subseteq ToSet(packets)
    BY <1>1
  <2>2. (\E x \in ToSet(s) : x \in hellos) \/ (\A x \in ToSet(F(i)) : x \notin readies)
    BY <1>4, <2>1
  <2>3. s \o F(i) \in Seq(S) /\ ToSet(s) \subseteq ToSet(s \o F(i))
    BY <2>1, ConcatSet, ConcatAll
  <2>4. InOrder(s \o F(i), hellos, readies, known)
    BY <1>4, <2>1, <2>2, InOrderConcat
  <2> QED
    BY <1>4, <2>3, <2>4
<1> HIDE DEF Calm
<1>5. b \in Seq(S) /\ InOrder(b, hellos, readies, known) /\ Calm(b)
  BY <1>3, <1>4
<1> HIDE DEF b
<1>6. c \in Seq(S) /\ InOrder(c, hellos, readies, known) /\ Calm(c)
  BY <1>4, <1>5
<1> HIDE DEF c
<1>7. InOrder(d, hellos, readies, known)
  BY <1>4, <1>6
<1>8. Extended(queue, packets) = d
  BY DEF Extended, F, a, b, c
<1> QED
  BY <1>7, <1>8

Hails(cf, kind) ==
  {x \in Packets : x.kind = kind /\ x.config.session = cf[Host].session}
Hellos(cf) == Hails(cf, "hello")
Readies(cf) == Hails(cf, "ready")

(* What waits for the commit: a packet and whom it is from.                *)
Entries == [from : Player, pkt : Packets]
From(q, packets) == {y \in Entries : y.from = q /\ y.pkt \in packets}

Heard(cf, q, pending, hello) ==
  q \in hello \/ \E y \in ToSet(pending) : y \in From(q, Hellos(cf))

(* What a player has of q: what waits, and what is on the link.            *)
HeardInOrder(cf, q, pending, hello, queue) ==
  /\ InOrder(pending, From(q, Hellos(cf)), From(q, Readies(cf)), q \in hello)
  /\ InOrder(queue, Hellos(cf), Readies(cf), Heard(cf, q, pending, hello))

(* A player that is ready, or that sends input, has applied the delay.     *)
FromApplied(cf, cn, gm, ctl, inp, p) ==
  /\ \A q \in gm[p].ready : cn[q].applied
  /\ \A q \in Player :
       /\ \A y \in ToSet(cn[p].pending) : y \in From(q, Readies(cf)) => cn[q].applied
       /\ \A x \in ToSet(ctl[q][p]) : x \in Readies(cf) => cn[q].applied
       /\ \A x \in inp[q][p] : x.kind = "input" => \A r \in Player : cn[r].applied

Fine(cf, cn, gm, ctl, inp, p) ==
  /\ ~gm[p].failed
  /\ Len(cn[p].pending) <= DeferLimit
  /\ cn[p].failed => Len(cn[p].pending) = DeferLimit
  /\ FromApplied(cf, cn, gm, ctl, inp, p)
  /\ ~cn[p].failed => \A q \in Player :
       HeardInOrder(cf, q, cn[p].pending, gm[p].hello, ctl[q][p])

GInv ==
  AllAlike(config) =>
    \A p \in Player : /\ startup[p].stage # "Failed"
                      /\ Fine(config, conn, game, control, input, p)

LEMMA HailFacts ==
  ASSUME NEW cf
  PROVE  /\ \A x \in Hellos(cf) : x.kind = "hello" /\ x \notin Readies(cf)
         /\ \A x \in Readies(cf) : x.kind = "ready"
         /\ \A x \in Hellos(cf) \cup Readies(cf) : x.kind \notin Kinds
<1>1. "hello" \notin Kinds /\ "ready" \notin Kinds
  BY DEF Kinds, Bargains, Retries
<1> QED
  BY <1>1 DEF Hellos, Readies, Hails

LEMMA HailsOfGame ==
  ASSUME config \in Configs, AllAlike(config), NEW p \in Player, NEW x \in Packets
  PROVE  /\ x \in Hellos(config) <=> OfThisSession(p, x) /\ x.kind = "hello"
         /\ x \in Readies(config) <=> OfThisSession(p, x) /\ x.kind = "ready"
<1>1. config[p] = config[Host]
  BY ReportFacts DEF AllAlike
<1> QED
  BY <1>1 DEF Hellos, Readies, Hails, OfThisSession

LEMMA HeardIsBoolean ==
  ASSUME NEW cf, NEW q, NEW pending, NEW hello
  PROVE  Heard(cf, q, pending, hello) \in BOOLEAN /\ (q \in hello) \in BOOLEAN
BY DEF Heard

LEMMA InOrderWeaker ==
  ASSUME NEW queue, NEW hellos, NEW readies, NEW known, NEW new, known => new,
         InOrder(queue, hellos, readies, known)
  PROVE  InOrder(queue, hellos, readies, new)
BY DEF InOrder

LEMMA AppendFacts ==
  ASSUME NEW S, NEW s \in Seq(S), NEW y \in S
  PROVE  /\ Append(s, y) \in Seq(S) /\ Len(Append(s, y)) = Len(s) + 1
         /\ ToSet(Append(s, y)) = ToSet(s) \cup {y}
         /\ Append(s, y) = s \o <<y>> /\ <<y>> \in Seq(S) /\ ToSet(<<y>>) = {y}
<1>1. /\ Append(s, y) = s \o <<y>> /\ <<y>> \in Seq(S) /\ Append(s, y) \in Seq(S)
      /\ Len(Append(s, y)) = Len(s) + 1
  OBVIOUS
<1>2. ToSet(<<y>>) = {y}
  BY DEF ToSet
<1>3. ToSet(s \o <<y>>) = ToSet(s) \cup {y}
  BY <1>1, <1>2, ConcatSet, ConcatAll
<1> QED
  BY <1>1, <1>2, <1>3

LEMMA TailSet ==
  ASSUME NEW S, NEW s \in Seq(S), s # << >>
  PROVE  ToSet(s) = ToSet(Tail(s)) \cup {Head(s)}
<1>1. /\ Tail(s) \in Seq(S) /\ Len(Tail(s)) = Len(s) - 1 /\ Head(s) = s[1]
      /\ \A i \in 1 .. Len(Tail(s)) : Tail(s)[i] = s[i + 1]
  BY HeadTailProperties
<1>2. /\ DOMAIN s = 1 .. Len(s) /\ Len(s) \in Nat /\ Len(s) # 0
      /\ DOMAIN Tail(s) = 1 .. Len(Tail(s))
  BY <1>1, LenProperties, EmptySeq
<1>3. ASSUME NEW x \in ToSet(s) PROVE x \in ToSet(Tail(s)) \cup {Head(s)}
  <2>1. PICK i \in 1 .. Len(s) : x = s[i]
    BY <1>2 DEF ToSet
  <2>2. CASE i = 1
    BY <1>1, <2>1, <2>2
  <2>3. CASE i # 1
    <3>1. i - 1 \in DOMAIN Tail(s) /\ i = (i - 1) + 1
      BY <1>1, <1>2, <2>1, <2>3
    <3>2. Tail(s)[i - 1] = x
      BY <1>1, <1>2, <2>1, <3>1
    <3> QED
      BY <3>1, <3>2 DEF ToSet
  <2> QED
    BY <2>2, <2>3
<1>4. ASSUME NEW x \in ToSet(Tail(s)) PROVE x \in ToSet(s)
  <2>1. PICK i \in 1 .. Len(Tail(s)) : x = Tail(s)[i]
    BY <1>2 DEF ToSet
  <2>2. i + 1 \in DOMAIN s /\ s[i + 1] = x
    BY <1>1, <1>2, <2>1
  <2> QED
    BY <2>2 DEF ToSet
<1>5. Head(s) \in ToSet(s)
  <2>1. 1 \in DOMAIN s
    BY <1>2
  <2> QED
    BY <1>1, <2>1 DEF ToSet
<1> QED
  BY <1>3, <1>4, <1>5

(* A hello or a ready is taken off the link and waits. *)
LEMMA WaitsInOrder ==
  ASSUME NEW cf, NEW q \in Player, NEW pending \in Seq(Entries), NEW hello,
         NEW queue \in Seq(Packets), queue # << >>,
         HeardInOrder(cf, q, pending, hello, queue)
  PROVE  HeardInOrder(cf, q, Append(pending, [from |-> q, pkt |-> Head(queue)]), hello,
                      Tail(queue))
<1> DEFINE x == Head(queue)
           y == [from |-> q, pkt |-> x]
           longer == Append(pending, y)
           known == Heard(cf, q, pending, hello)
           new == Heard(cf, q, longer, hello)
           hellos == From(q, Hellos(cf))
           readies == From(q, Readies(cf))
<1>1. x \in Packets /\ y \in Entries /\ y.from = q /\ y.pkt = x
  BY HeadTailProperties DEF Entries
<1>2. /\ longer \in Seq(Entries) /\ ToSet(longer) = ToSet(pending) \cup {y}
      /\ longer = pending \o <<y>> /\ <<y>> \in Seq(Entries) /\ ToSet(<<y>>) = {y}
  BY <1>1, AppendFacts
<1>3. known \in BOOLEAN /\ new \in BOOLEAN /\ (q \in hello) \in BOOLEAN
  BY HeardIsBoolean
<1>4. /\ InOrder(pending, hellos, readies, q \in hello)
      /\ InOrder(queue, Hellos(cf), Readies(cf), known)
  BY DEF HeardInOrder
<1>5. /\ y \in hellos <=> x \in Hellos(cf)
      /\ y \in readies <=> x \in Readies(cf)
  BY <1>1 DEF From
<1>6. known <=> q \in hello \/ \E z \in ToSet(pending) : z \in hellos
  BY DEF Heard
<1>7. new <=> q \in hello \/ \E z \in ToSet(longer) : z \in hellos
  BY DEF Heard
<1> HIDE DEF x, y, known, new, hellos, readies
<1>8. x \in Readies(cf) => known
  BY <1>3, <1>4, InOrderTail DEF x
<1>9. known \/ x \in Hellos(cf) => new
  BY <1>2, <1>5, <1>6, <1>7
<1>10. InOrder(Tail(queue), Hellos(cf), Readies(cf), new)
  BY <1>3, <1>4, <1>9, InOrderTail DEF x
<1>11. InOrder(longer, hellos, readies, q \in hello)
  <2> DEFINE before == q \in hello
  <2>1. before \in BOOLEAN /\ InOrder(pending, hellos, readies, before)
    BY <1>3, <1>4
  <2>2. \/ before
        \/ \E z \in ToSet(pending) : z \in hellos
        \/ \A z \in ToSet(<<y>>) : z \notin readies
    BY <1>2, <1>5, <1>6, <1>8
  <2> HIDE DEF before, longer
  <2>3. InOrder(pending \o <<y>>, hellos, readies, before)
    BY <1>2, <2>1, <2>2, InOrderConcat, ZenonT(30)
  <2> QED
    BY <1>2, <2>3 DEF before
<1> QED
  BY <1>10, <1>11 DEF HeardInOrder, hellos, readies, new, x, y

(* What waits is of another player. *)
LEMMA OthersWait ==
  ASSUME NEW cf, NEW q \in Player, NEW pending \in Seq(Entries), NEW hello,
         NEW queue \in Seq(Packets), NEW y \in Entries, y.from # q,
         HeardInOrder(cf, q, pending, hello, queue)
  PROVE  HeardInOrder(cf, q, Append(pending, y), hello, queue)
<1> DEFINE longer == Append(pending, y)
           known == Heard(cf, q, pending, hello)
           new == Heard(cf, q, longer, hello)
           hellos == From(q, Hellos(cf))
           readies == From(q, Readies(cf))
           before == q \in hello
<1>1. /\ longer \in Seq(Entries) /\ ToSet(longer) = ToSet(pending) \cup {y}
      /\ longer = pending \o <<y>> /\ <<y>> \in Seq(Entries) /\ ToSet(<<y>>) = {y}
  BY AppendFacts
<1>2. before \in BOOLEAN
  OBVIOUS
<1>3. InOrder(pending, hellos, readies, before) /\ InOrder(queue, Hellos(cf), Readies(cf), known)
  BY DEF HeardInOrder
<1>4. y \notin hellos /\ y \notin readies
  BY DEF From
<1>5. known => new
  BY <1>1 DEF Heard
<1> HIDE DEF known, new, hellos, readies, before, longer
<1>6. InOrder(queue, Hellos(cf), Readies(cf), new)
  BY <1>3, <1>5, InOrderWeaker
<1>7. \A z \in ToSet(<<y>>) : z \notin readies
  BY <1>1, <1>4
<1>8. InOrder(pending \o <<y>>, hellos, readies, before)
  BY <1>1, <1>2, <1>3, <1>7, InOrderConcat, ZenonT(30)
<1> QED
  BY <1>1, <1>6, <1>8 DEF HeardInOrder, hellos, readies, new, before, longer

(* The game takes a packet off the link; nothing of q waits.               *)
LEMMA TakenInOrder ==
  ASSUME NEW cf, NEW q \in Player, NEW pending, NEW hello, NEW more,
         NEW queue \in Seq(Packets), queue # << >>, hello \subseteq more,
         Head(queue) \in Hellos(cf) => q \in more,
         HeardInOrder(cf, q, pending, hello, queue)
  PROVE  /\ HeardInOrder(cf, q, pending, more, Tail(queue))
         /\ Head(queue) \in Readies(cf) => Heard(cf, q, pending, hello)
<1> DEFINE known == Heard(cf, q, pending, hello)
           new == Heard(cf, q, pending, more)
           before == q \in hello
           after == q \in more
           hellos == From(q, Hellos(cf))
           readies == From(q, Readies(cf))
<1>1. known \in BOOLEAN /\ new \in BOOLEAN
  BY HeardIsBoolean
<1>2. InOrder(pending, hellos, readies, before) /\ InOrder(queue, Hellos(cf), Readies(cf), known)
  BY DEF HeardInOrder
<1>3. (known => new) /\ (Head(queue) \in Hellos(cf) => new) /\ (before => after)
  BY DEF Heard
<1> HIDE DEF known, new, hellos, readies, before, after
<1>4. InOrder(pending, hellos, readies, after)
  BY <1>2, <1>3, InOrderWeaker
<1>5. known \/ Head(queue) \in Hellos(cf) => new
  BY <1>3
<1>6. /\ InOrder(Tail(queue), Hellos(cf), Readies(cf), new)
      /\ Head(queue) \in Readies(cf) => known
  BY <1>1, <1>2, <1>5, InOrderTail
<1> QED
  BY <1>4, <1>6 DEF HeardInOrder, hellos, readies, known, new, after

(* The game takes what waited. *)
LEMMA PendingInOrder ==
  ASSUME NEW cf, NEW q \in Player, NEW pending \in Seq(Entries), pending # << >>,
         NEW hello, NEW more, NEW queue, hello \subseteq more,
         Head(pending) \in From(q, Hellos(cf)) => q \in more,
         HeardInOrder(cf, q, pending, hello, queue)
  PROVE  /\ HeardInOrder(cf, q, Tail(pending), more, queue)
         /\ Head(pending) \in From(q, Readies(cf)) => q \in hello
<1> DEFINE known == Heard(cf, q, pending, hello)
           new == Heard(cf, q, Tail(pending), more)
           before == q \in hello
           after == q \in more
           hellos == From(q, Hellos(cf))
           readies == From(q, Readies(cf))
<1>1. before \in BOOLEAN /\ after \in BOOLEAN
  OBVIOUS
<1>2. InOrder(pending, hellos, readies, before) /\ InOrder(queue, Hellos(cf), Readies(cf), known)
  BY DEF HeardInOrder
<1>3. ToSet(pending) = ToSet(Tail(pending)) \cup {Head(pending)}
  BY TailSet
<1>4. (known => new) /\ (before \/ Head(pending) \in hellos => after)
  BY <1>3 DEF Heard
<1> HIDE DEF known, new, hellos, readies, before, after
<1>5. InOrder(queue, Hellos(cf), Readies(cf), new)
  BY <1>2, <1>4, InOrderWeaker
<1>6. /\ InOrder(Tail(pending), hellos, readies, after)
      /\ Head(pending) \in readies => before
  BY <1>1, <1>2, <1>4, InOrderTail
<1> QED
  BY <1>5, <1>6 DEF HeardInOrder, hellos, readies, before, new, after

(* A link to p on which nothing but the calibration changes, or greetings  *)
(* of a player that has applied the delay.                                 *)
Keeps(cf, cn, ctl, new, p) ==
  \A q \in Player :
    /\ \A x \in ToSet(new[q][p]) :
         x \in Readies(cf) => x \in ToSet(ctl[q][p]) \/ cn[q].applied
    /\ \A known \in BOOLEAN :
         InOrder(ctl[q][p], Hellos(cf), Readies(cf), known) =>
           InOrder(new[q][p], Hellos(cf), Readies(cf), known)
KeepsInput(cn, inp, new, p) ==
  \A q \in Player : \A x \in new[q][p] :
    x.kind = "input" => x \in inp[q][p] \/ \A r \in Player : cn[r].applied

SamePlace(cn, new) ==
  \A q \in Player : /\ new[q].failed = cn[q].failed /\ new[q].pending = cn[q].pending
                    /\ cn[q].applied => new[q].applied

LEMMA FineStays ==
  ASSUME NEW cf, NEW cn, NEW gm, NEW ctl, NEW inp, NEW p \in Player,
         Fine(cf, cn, gm, ctl, inp, p),
         NEW conns, NEW games, NEW controls, NEW inputs,
         conns[p].failed = cn[p].failed, conns[p].pending = cn[p].pending,
         \A q \in Player : cn[q].applied => conns[q].applied,
         ~games[p].failed, games[p].hello = gm[p].hello,
         \A q \in games[p].ready : q \in gm[p].ready \/ conns[q].applied,
         games[p].ready \subseteq Player, gm[p].ready \subseteq Player,
         Keeps(cf, conns, ctl, controls, p), KeepsInput(conns, inp, inputs, p)
  PROVE  Fine(cf, conns, games, controls, inputs, p)
<1>1. FromApplied(cf, cn, gm, ctl, inp, p)
  BY DEF Fine
<1>2. \A q \in games[p].ready : conns[q].applied
  BY <1>1 DEF FromApplied
<1>3. ASSUME NEW q \in Player
      PROVE  /\ \A y \in ToSet(conns[p].pending) : y \in From(q, Readies(cf)) => conns[q].applied
             /\ \A x \in ToSet(controls[q][p]) : x \in Readies(cf) => conns[q].applied
             /\ \A x \in inputs[q][p] : x.kind = "input" => \A r \in Player : conns[r].applied
  <2>1. /\ \A y \in ToSet(cn[p].pending) : y \in From(q, Readies(cf)) => cn[q].applied
        /\ \A x \in ToSet(ctl[q][p]) : x \in Readies(cf) => cn[q].applied
        /\ \A x \in inp[q][p] : x.kind = "input" => \A r \in Player : cn[r].applied
    BY <1>1 DEF FromApplied
  <2>2. \A y \in ToSet(conns[p].pending) : y \in From(q, Readies(cf)) => conns[q].applied
    BY <2>1
  <2>3. \A x \in ToSet(controls[q][p]) : x \in Readies(cf) => conns[q].applied
    BY <2>1 DEF Keeps
  <2>4. \A x \in inputs[q][p] : x.kind = "input" => \A r \in Player : conns[r].applied
    BY <2>1 DEF KeepsInput
  <2> QED
    BY <2>2, <2>3, <2>4
<1>4. FromApplied(cf, conns, games, controls, inputs, p)
  BY <1>2, <1>3 DEF FromApplied
<1>5. ASSUME ~conns[p].failed, NEW q \in Player
      PROVE  HeardInOrder(cf, q, conns[p].pending, games[p].hello, controls[q][p])
  <2> DEFINE known == Heard(cf, q, cn[p].pending, gm[p].hello)
  <2>1. HeardInOrder(cf, q, cn[p].pending, gm[p].hello, ctl[q][p])
    BY <1>5 DEF Fine
  <2>2. known \in BOOLEAN
    BY HeardIsBoolean
  <2>3. InOrder(ctl[q][p], Hellos(cf), Readies(cf), known)
    BY <2>1 DEF HeardInOrder
  <2> HIDE DEF known
  <2>4. InOrder(controls[q][p], Hellos(cf), Readies(cf), known)
    BY <2>2, <2>3 DEF Keeps
  <2>5. HeardInOrder(cf, q, cn[p].pending, gm[p].hello, controls[q][p])
    BY <2>1, <2>4 DEF HeardInOrder, known
  <2> QED
    BY <2>5
<1> QED
  BY <1>4, <1>5 DEF Fine

LEMMA KeepsSame ==
  ASSUME NEW cf, NEW cn, NEW ctl, NEW inp, NEW p
  PROVE  Keeps(cf, cn, ctl, ctl, p) /\ KeepsInput(cn, inp, inp, p)
BY DEF Keeps, KeepsInput

LEMMA KeepsFurther ==
  ASSUME NEW cf, NEW cn, NEW a, NEW b, NEW c, NEW p,
         Keeps(cf, cn, a, b, p), Keeps(cf, cn, b, c, p)
  PROVE  Keeps(cf, cn, a, c, p)
BY DEF Keeps

LEMMA KeepsInputFurther ==
  ASSUME NEW cn, NEW a, NEW b, NEW c, NEW p,
         KeepsInput(cn, a, b, p), KeepsInput(cn, b, c, p)
  PROVE  KeepsInput(cn, a, c, p)
BY DEF KeepsInput

LEMMA KeepsTake ==
  ASSUME NEW cf, NEW cn, NEW ctl \in [Player -> [Player -> Seq(Packets)]],
         NEW q \in Player, NEW r \in Player, ctl[q][r] # << >>, NEW p \in Player,
         p # r \/ Head(ctl[q][r]) \notin Hellos(cf)
  PROVE  Keeps(cf, cn, ctl, [ctl EXCEPT ![q][r] = Tail(@)], p)
<1> DEFINE wire == [ctl EXCEPT ![q][r] = Tail(@)]
<1>1. /\ wire \in [Player -> [Player -> Seq(Packets)]]
      /\ wire[q][r] = Tail(ctl[q][r])
      /\ \A a, b \in Player : <<a, b>> # <<q, r>> => wire[a][b] = ctl[a][b]
      /\ \A a, b \in Player : ToSet(wire[a][b]) \subseteq ToSet(ctl[a][b])
      /\ Head(ctl[q][r]) \in ToSet(ctl[q][r])
  BY TakenFacts, ZenonT(30)
<1> HIDE DEF wire
<1>2. ASSUME NEW a \in Player, NEW known \in BOOLEAN,
             InOrder(ctl[a][p], Hellos(cf), Readies(cf), known)
      PROVE  InOrder(wire[a][p], Hellos(cf), Readies(cf), known)
  <2>1. CASE <<a, p>> # <<q, r>>
    BY <1>1, <1>2, <2>1
  <2>2. CASE <<a, p>> = <<q, r>>
    <3>1. a = q /\ p = r /\ Head(ctl[q][r]) \notin Hellos(cf)
      BY <2>2
    <3>2. ctl[q][r] \in Seq(Packets) /\ InOrder(ctl[q][r], Hellos(cf), Readies(cf), known)
      BY <1>2, <3>1
    <3>3. known \/ Head(ctl[q][r]) \in Hellos(cf) => known
      BY <3>1
    <3>4. InOrder(Tail(ctl[q][r]), Hellos(cf), Readies(cf), known)
      BY <3>2, <3>3, InOrderTail
    <3> QED
      BY <1>1, <3>1, <3>4
  <2> QED
    BY <2>1, <2>2
<1>3. Keeps(cf, cn, ctl, wire, p)
  BY <1>1, <1>2 DEF Keeps
<1> QED
  BY <1>3 DEF wire

LEMMA KeepsPost ==
  ASSUME NEW cf, NEW cn, NEW ctl \in [Player -> [Player -> Seq(Packets)]],
         NEW q \in Player, NEW packets \in Seq(Packets), NEW p \in Player,
         \/ \A x \in ToSet(packets) : x \notin Readies(cf)
         \/ /\ packets # << >> /\ packets[1] \in Hellos(cf) /\ packets[1] \notin Readies(cf)
            /\ cn[q].applied
  PROVE  Keeps(cf, cn, ctl, Posted(ctl, q, packets), p)
<1> DEFINE wire == Posted(ctl, q, packets)
<1>1. /\ wire \in [Player -> [Player -> Seq(Packets)]]
      /\ \A a, b \in Player : a # q => wire[a][b] = ctl[a][b]
      /\ \A b \in Player : b # q => wire[q][b] = Extended(ctl[q][b], packets)
      /\ wire[q][q] = << >>
  BY PostedFacts
<1> HIDE DEF wire
<1>2. ASSUME NEW a \in Player
      PROVE  /\ \A x \in ToSet(wire[a][p]) :
                  x \in Readies(cf) => x \in ToSet(ctl[a][p]) \/ cn[a].applied
             /\ \A known \in BOOLEAN :
                  InOrder(ctl[a][p], Hellos(cf), Readies(cf), known) =>
                    InOrder(wire[a][p], Hellos(cf), Readies(cf), known)
  <2>1. CASE a # q
    BY <1>1, <2>1
  <2>2. CASE a = q /\ p = q
    <3>1. wire[a][p] = << >> /\ ToSet(<< >>) = {} /\ DOMAIN << >> = {}
      BY <1>1, <2>2 DEF ToSet
    <3> QED
      BY <3>1 DEF InOrder
  <2>3. CASE a = q /\ p # q
    <3> DEFINE queue == ctl[q][p]
    <3>1. queue \in Seq(Packets) /\ wire[a][p] = Extended(queue, packets)
      BY <1>1, <2>3
    <3>2. ToSet(Extended(queue, packets)) \subseteq ToSet(queue) \cup ToSet(packets)
      BY <3>1, ExtendedFacts
    <3> HIDE DEF queue
    <3>3. \A x \in ToSet(wire[a][p]) : x \in Readies(cf) => x \in ToSet(queue) \/ cn[a].applied
      BY <2>3, <3>1, <3>2
    <3>4. ASSUME NEW known \in BOOLEAN, InOrder(queue, Hellos(cf), Readies(cf), known)
          PROVE  InOrder(Extended(queue, packets), Hellos(cf), Readies(cf), known)
      BY <3>1, <3>4, ExtendedInOrder
    <3> QED
      BY <2>3, <3>1, <3>3, <3>4 DEF queue
  <2> QED
    BY <2>1, <2>2, <2>3
<1>3. Keeps(cf, cn, ctl, wire, p)
  BY <1>2 DEF Keeps
<1> QED
  BY <1>3 DEF wire

(* What a handler of the calibration posts leaves the greetings alone.     *)
LEMMA PostsKeep ==
  ASSUME NEW log, NEW p \in Player, NEW result, NEW controls, NEW inputs, NEW late,
         Handled(log, config, startup, controls, p, late # "unsent", result),
         InputFacts(config, inputs), Posts(p, result, controls, inputs, late),
         NEW cn, NEW r \in Player
  PROVE  Keeps(config, cn, controls, control', r) /\ KeepsInput(cn, inputs, input', r)
<1>1. CASE late = "unsent"
  <2>1. control' = controls /\ input' = inputs
    BY <1>1 DEF Posts
  <2> QED
    BY <2>1, KeepsSame
<1>2. CASE late # "unsent"
  <2>1. /\ control' = Posted(controls, p, result.controls)
        /\ input' = Put(inputs, p, result.inputs)
    BY <1>2 DEF Posts
  <2>2. /\ result.controls \in Seq(Packets)
        /\ \A x \in ToSet(result.controls) : x.kind \in Kinds
        /\ result.inputs \in [Player -> SUBSET Probings(config, p)]
        /\ controls \in [Player -> [Player -> Seq(Packets)]]
    BY <1>2 DEF Handled, Told, Sound
  <2>3. \A x \in ToSet(result.controls) : x \notin Readies(config)
    BY <2>2, HailFacts
  <2>4. Keeps(config, cn, controls, Posted(controls, p, result.controls), r)
    BY <2>2, <2>3, KeepsPost
  <2>5. KeepsInput(cn, inputs, input', r)
    <3>1. inputs \in [Player -> [Player -> SUBSET Packets]]
      BY DEF InputFacts
    <3> DEFINE row == [q \in Player |-> inputs[p][q] \cup result.inputs[q]]
    <3>2. input' = [inputs EXCEPT ![p] = row]
      BY <2>1 DEF Put
    <3> HIDE DEF row
    <3>3. input'[p] = row /\ \A q \in Player : q # p => input'[q] = inputs[q]
      BY <3>1, <3>2
    <3>4. row[r] = inputs[p][r] \cup result.inputs[r]
      BY DEF row
    <3>5. \A x \in result.inputs[r] : x.kind # "input"
      <4>1. result.inputs[r] \subseteq Probings(config, p)
        BY <2>2
      <4> QED
        BY <4>1 DEF Probings
    <3> QED
      BY <3>3, <3>4, <3>5 DEF KeepsInput
  <2> QED
    BY <2>1, <2>4, <2>5
<1> QED
  BY <1>1, <1>2

LEMMA StateTypes ==
  ASSUME CInv
  PROVE  /\ config \in Configs /\ startup \in [Player -> Startups]
         /\ control \in [Player -> [Player -> Seq(Packets)]]
         /\ input \in [Player -> [Player -> SUBSET Packets]]
         /\ conn \in [Player -> Conns] /\ game \in [Player -> Games]
         /\ \A p \in Player : /\ conn[p].pending \in Seq(Entries)
                              /\ game[p].ready \subseteq Player
                              /\ game[p].hello \subseteq Player
<1>1. /\ config \in Configs /\ startup \in [Player -> Startups]
      /\ control \in [Player -> [Player -> Seq(Packets)]]
  BY DEF CInv, Sound
<1>2. input \in [Player -> [Player -> SUBSET Packets]]
  BY DEF CInv, InputFacts
<1>3. conn \in [Player -> Conns] /\ game \in [Player -> Games]
  BY DEF CInv
<1>4. ASSUME NEW p \in Player
      PROVE  conn[p].pending \in Seq(Entries)
             /\ game[p].ready \subseteq Player /\ game[p].hello \subseteq Player
  <2>1. conn[p] \in Conns /\ game[p] \in Games
    BY <1>3
  <2>2. conn[p].pending \in Seq(Entries)
    BY <2>1 DEF Conns, Entries
  <2>3. game[p].ready \subseteq Player /\ game[p].hello \subseteq Player
    BY <2>1 DEF Games
  <2> QED
    BY <2>2, <2>3
<1> QED
  BY <1>1, <1>2, <1>3, <1>4

(* A step that greets nobody and loses no greeting. *)
LEMMA QuietGame ==
  ASSUME CInv, GInv, AllAlike(config), config' = config, SamePlace(conn, conn'),
         \A r \in Player : startup'[r].stage # "Failed",
         \A r \in Player : /\ ~game'[r].failed /\ game'[r].hello = game[r].hello
                           /\ game'[r].ready \subseteq Player
                           /\ \A q \in game'[r].ready :
                                q \in game[r].ready \/ conn'[q].applied,
         \A r \in Player : Keeps(config, conn', control, control', r),
         \A r \in Player : KeepsInput(conn', input, input', r)
  PROVE  GInv'
<1>1. ASSUME NEW r \in Player
      PROVE  Fine(config, conn', game', control', input', r)
  <2>1. Fine(config, conn, game, control, input, r)
    BY DEF GInv
  <2>2. game[r].ready \subseteq Player
    BY StateTypes
  <2>3. /\ conn'[r].failed = conn[r].failed /\ conn'[r].pending = conn[r].pending
        /\ \A q \in Player : conn[q].applied => conn'[q].applied
    BY DEF SamePlace
  <2> QED
    BY <2>1, <2>2, <2>3, FineStays
<1> QED
  BY <1>1 DEF GInv

LEMMA SameGame ==
  ASSUME CInv, GInv, AllAlike(config)
  PROVE  /\ \A r \in Player : startup[r].stage # "Failed" /\ ~game[r].failed
         /\ \A r \in Player : game[r].ready \subseteq Player
         /\ \A r \in Player : Fine(config, conn, game, control, input, r)
BY StateTypes DEF GInv, Fine

LEMMA PostsGame ==
  ASSUME CInv, GInv, AllAlike(config), NEW log, NEW p \in Player, NEW result,
         NEW controls, NEW inputs, NEW late,
         Handled(log, config, startup, controls, p, late # "unsent", result),
         InputFacts(config, inputs), Posts(p, result, controls, inputs, late),
         config' = config, game' = game, SamePlace(conn, conn'),
         \A r \in Player : Keeps(config, conn', control, controls, r),
         \A r \in Player : KeepsInput(conn', input, inputs, r)
  PROVE  GInv'
<1>1. /\ \A r \in Player : startup[r].stage # "Failed" /\ ~game[r].failed
      /\ \A r \in Player : game[r].ready \subseteq Player
  BY SameGame
<1>2. startup \in [Player -> Startups]
  BY StateTypes
<1>3. startup' = [startup EXCEPT ![p] = result.state] /\ result.state.stage # "Failed"
  BY <1>1 DEF Posts, Handled
<1>4. \A r \in Player : startup'[r].stage # "Failed"
  BY <1>1, <1>2, <1>3
<1>5. ASSUME NEW r \in Player
      PROVE  Keeps(config, conn', control, control', r) /\ KeepsInput(conn', input, input', r)
  <2>1. Keeps(config, conn', controls, control', r) /\ KeepsInput(conn', inputs, input', r)
    BY PostsKeep
  <2> QED
    BY <2>1, KeepsFurther, KeepsInputFurther
<1>6. \A r \in Player : /\ ~game'[r].failed /\ game'[r].hello = game[r].hello
                        /\ game'[r].ready \subseteq Player
                        /\ \A q \in game'[r].ready :
                             q \in game[r].ready \/ conn'[q].applied
  BY <1>1
<1> QED
  BY <1>4, <1>5, <1>6, QuietGame

LEMMA CalmStep ==
  ASSUME CInv, GInv, AllAlike(config), config' = config, startup' = startup, game' = game,
         SamePlace(conn, conn'),
         \A r \in Player : Keeps(config, conn', control, control', r),
         \A r \in Player : KeepsInput(conn', input, input', r)
  PROVE  GInv'
<1>1. /\ \A r \in Player : startup[r].stage # "Failed" /\ ~game[r].failed
      /\ \A r \in Player : game[r].ready \subseteq Player
  BY SameGame
<1>2. /\ \A r \in Player : startup'[r].stage # "Failed"
      /\ \A r \in Player : /\ ~game'[r].failed /\ game'[r].hello = game[r].hello
                           /\ game'[r].ready \subseteq Player
                           /\ \A q \in game'[r].ready :
                                q \in game[r].ready \/ conn'[q].applied
  BY <1>1
<1> QED
  BY <1>2, QuietGame

LEMMA SameKept ==
  ASSUME control' = control, input' = input
  PROVE  /\ \A r \in Player : Keeps(config, conn', control, control', r)
         /\ \A r \in Player : KeepsInput(conn', input, input', r)
BY KeepsSame

LEMMA UnchangedGame ==
  ASSUME GInv, UNCHANGED <<config, startup, conn, game, control, input>>
  PROVE  GInv'
BY DEF GInv

LEMMA BeginPumpGame ==
  ASSUME CInv, GInv, AllAlike(config), NEW p \in Player, BeginPump(p)
  PROVE  GInv'
<1>1. /\ config' = config /\ control' = control /\ input' = input /\ game' = game
      /\ conn' = [conn EXCEPT ![p].begun = TRUE]
      /\ startup' = [startup EXCEPT ![p] = Begin(startup[p])]
  BY DEF BeginPump
<1>2. conn \in [Player -> Conns] /\ startup \in [Player -> Startups]
  BY StateTypes
<1>3. SamePlace(conn, conn')
  <2>1. \A q \in Player : /\ conn'[q].failed = conn[q].failed
                          /\ conn'[q].pending = conn[q].pending
                          /\ conn'[q].applied = conn[q].applied
    BY <1>1, <1>2 DEF Conns
  <2> QED
    BY <2>1 DEF SamePlace
<1>4. Begin(startup[p]).stage = "WaitingPeer"
  BY DEF Begin, Idle
<1>5. /\ \A r \in Player : startup[r].stage # "Failed" /\ ~game[r].failed
      /\ \A r \in Player : game[r].ready \subseteq Player
  BY SameGame
<1>6. \A r \in Player : startup'[r].stage # "Failed"
  BY <1>1, <1>2, <1>4, <1>5
<1>7. \A r \in Player : /\ ~game'[r].failed /\ game'[r].hello = game[r].hello
                        /\ game'[r].ready \subseteq Player
                        /\ \A q \in game'[r].ready :
                             q \in game[r].ready \/ conn'[q].applied
  BY <1>1, <1>5
<1>8. /\ \A r \in Player : Keeps(config, conn', control, control', r)
      /\ \A r \in Player : KeepsInput(conn', input, input', r)
  BY <1>1, SameKept
<1> QED
  BY <1>1, <1>3, <1>6, <1>7, <1>8, QuietGame

LEMMA ApplyGame ==
  ASSUME CInv, GInv, AllAlike(config), NEW p \in Player, Apply(p)
  PROVE  GInv'
<1>1. /\ conn' = [conn EXCEPT ![p].applied = TRUE]
      /\ config' = config /\ startup' = startup /\ game' = game
      /\ control' = control /\ input' = input
  BY DEF Apply
<1>2. conn \in [Player -> Conns]
  BY StateTypes
<1>3. SamePlace(conn, conn')
  <2>1. /\ conn'[p].applied
        /\ \A q \in Player : /\ conn'[q].failed = conn[q].failed
                             /\ conn'[q].pending = conn[q].pending
                             /\ q # p => conn'[q] = conn[q]
    BY <1>1, <1>2, AppliedConn
  <2> QED
    BY <2>1 DEF SamePlace
<1>4. /\ \A r \in Player : Keeps(config, conn', control, control', r)
      /\ \A r \in Player : KeepsInput(conn', input, input', r)
  BY <1>1, SameKept
<1> QED
  BY <1>1, <1>3, <1>4, CalmStep

LEMMA LoseControlGame ==
  ASSUME CInv, GInv, AllAlike(config), NEW q \in Player, NEW p \in Player, LoseControl(q, p)
  PROVE  GInv'
<1>1. /\ control[q][p] # << >> /\ control' = [control EXCEPT ![q][p] = Tail(@)]
      /\ Head(control[q][p]).kind \in Kinds
      /\ config' = config /\ startup' = startup /\ game' = game /\ conn' = conn
      /\ input' = input
  BY DEF LoseControl
<1>2. control \in [Player -> [Player -> Seq(Packets)]]
  BY StateTypes
<1>3. Head(control[q][p]) \notin Hellos(config)
  BY <1>1, HailFacts
<1>4. \A r \in Player : Keeps(config, conn, control, control', r)
  BY <1>1, <1>2, <1>3, KeepsTake
<1>5. \A r \in Player : KeepsInput(conn, input, input, r)
  BY KeepsSame
<1>6. SamePlace(conn, conn)
  BY DEF SamePlace
<1> QED
  BY <1>1, <1>4, <1>5, <1>6, CalmStep

(* A packet less in the input lane. *)
LEMMA KeepsGone ==
  ASSUME NEW cn, NEW inp \in [Player -> [Player -> SUBSET Packets]],
         NEW q \in Player, NEW p \in Player, NEW x, NEW r \in Player
  PROVE  KeepsInput(cn, inp, [inp EXCEPT ![q][p] = @ \ {x}], r)
<1> DEFINE new == [inp EXCEPT ![q][p] = @ \ {x}]
<1>1. \A a, b \in Player : new[a][b] \subseteq inp[a][b]
  OBVIOUS
<1> HIDE DEF new
<1>2. KeepsInput(cn, inp, new, r)
  BY <1>1 DEF KeepsInput
<1> QED
  BY <1>2 DEF new

LEMMA LoseInputGame ==
  ASSUME CInv, GInv, AllAlike(config), NEW q \in Player, NEW p \in Player, NEW x,
         LoseInput(q, p, x)
  PROVE  GInv'
<1>1. /\ input' = [input EXCEPT ![q][p] = @ \ {x}]
      /\ config' = config /\ startup' = startup /\ game' = game /\ conn' = conn
      /\ control' = control
  BY DEF LoseInput
<1>2. input \in [Player -> [Player -> SUBSET Packets]]
  BY StateTypes
<1>3. \A r \in Player : KeepsInput(conn, input, input', r)
  BY <1>1, <1>2, KeepsGone
<1>4. \A r \in Player : Keeps(config, conn, control, control, r)
  BY KeepsSame
<1>5. SamePlace(conn, conn)
  BY DEF SamePlace
<1> QED
  BY <1>1, <1>3, <1>4, <1>5, CalmStep

LEMMA SendInputGame ==
  ASSUME CInv, GInv, AllAlike(config), NEW p \in Player, SendInput(p)
  PROVE  GInv'
<1>1. /\ config' = config /\ startup' = startup /\ game' = game /\ conn' = conn
      /\ control' = control /\ CanStart(p)
  BY DEF SendInput
<1>2. \A r \in Player : conn[r].applied
  <2>1. FromApplied(config, conn, game, control, input, p)
    BY SameGame DEF Fine
  <2> QED
    BY <1>1, <2>1 DEF FromApplied, CanStart
<1>3. \A r \in Player : KeepsInput(conn, input, input', r)
  BY <1>2 DEF KeepsInput
<1>4. \A r \in Player : Keeps(config, conn, control, control, r)
  BY KeepsSame
<1>5. SamePlace(conn, conn)
  BY DEF SamePlace
<1> QED
  BY <1>1, <1>3, <1>4, <1>5, CalmStep

LEMMA SendSessionGame ==
  ASSUME CInv, GInv, AllAlike(config), NEW p \in Player, SendSession(p)
  PROVE  GInv'
<1> DEFINE x == Gameplay(p, "hello")
           y == Gameplay(p, "ready")
           both == LocalReady(p)
           packets == <<x>> \o IF both THEN <<y>> ELSE << >>
           g == [game[p] EXCEPT !.ready = @ \cup {p}]
<1>1. /\ control' = Posted(control, p, packets)
      /\ game' = IF both THEN [game EXCEPT ![p] = g] ELSE game
      /\ config' = config /\ startup' = startup /\ conn' = conn /\ input' = input
      /\ conn[p].applied
  BY DEF SendSession, GameRuns
<1>2. both \in BOOLEAN
  BY DEF LocalReady
<1>3. "hello" \in GameKinds /\ "ready" \in GameKinds /\ config \in Configs
      /\ game \in [Player -> Games] /\ control \in [Player -> [Player -> Seq(Packets)]]
  BY StateTypes DEF GameKinds
<1>4. /\ x \in Packets /\ x.kind = "hello" /\ x.config = config[p]
      /\ y \in Packets
  BY <1>3, GameplayFacts
<1>5. x \in Hellos(config) /\ x \notin Readies(config)
  <2>1. OfThisSession(p, x)
    BY <1>4 DEF OfThisSession
  <2>2. x \in Hellos(config)
    BY <1>3, <1>4, <2>1, HailsOfGame
  <2> QED
    BY <2>2, HailFacts
<1>6. /\ \A r \in Player : startup[r].stage # "Failed" /\ ~game[r].failed
      /\ \A r \in Player : game[r].ready \subseteq Player
  BY SameGame
<1>7. \A r \in Player : /\ ~game'[r].failed /\ game'[r].hello = game[r].hello
                        /\ game'[r].ready \subseteq Player
                        /\ \A q \in game'[r].ready :
                             q \in game[r].ready \/ conn'[q].applied
  <2>1. /\ g.failed = game[p].failed /\ g.hello = game[p].hello
        /\ g.ready = game[p].ready \cup {p}
    BY <1>3 DEF Games
  <2> HIDE DEF g, both
  <2>2. game' = game \/ game' = [game EXCEPT ![p] = g]
    BY <1>1
  <2>3. CASE game' = game
    BY <1>6, <2>3
  <2>4. CASE game' = [game EXCEPT ![p] = g]
    <3>1. game'[p] = g /\ \A r \in Player : r # p => game'[r] = game[r]
      BY <1>3, <2>4
    <3> QED
      BY <1>1, <1>6, <2>1, <3>1
  <2> QED
    BY <2>2, <2>3, <2>4
<1> HIDE DEF x, y, both, g
<1>8. packets = IF both THEN <<x, y>> ELSE <<x>>
  BY <1>2, SessionPackets
<1> HIDE DEF packets
<1>9. packets \in Seq(Packets) /\ packets # << >> /\ packets[1] = x
  <2>1. <<x, y>> \in Seq(Packets) /\ <<x>> \in Seq(Packets)
    BY <1>4, ShortSequences
  <2>2. <<x, y>> # << >> /\ <<x>> # << >> /\ <<x, y>>[1] = x /\ <<x>>[1] = x
    OBVIOUS
  <2> QED
    BY <1>8, <2>1, <2>2
<1>10. \A r \in Player : Keeps(config, conn, control, Posted(control, p, packets), r)
  BY <1>1, <1>3, <1>5, <1>9, KeepsPost
<1>11. \A r \in Player : KeepsInput(conn, input, input, r)
  BY KeepsSame
<1>12. SamePlace(conn, conn)
  BY DEF SamePlace
<1>13. \A r \in Player : startup'[r].stage # "Failed"
  BY <1>1, <1>6
<1> QED
  BY <1>1, <1>7, <1>10, <1>11, <1>12, <1>13, QuietGame

LEMMA PumpTickGame ==
  ASSUME CInv, GInv, AllAlike(config), NEW p \in Player, NEW env \in Environments(p),
         PumpTick(p, env)
  PROVE  GInv'
<1> DEFINE kept == Deadlines(startup[p], link[p], env.late)
           result == Tick(p, config[p], AfterRetry(p, kept), link[p], env)
<1>1. PICK log : Sound(log, config, startup, control)
  BY DEF CInv
<1>2. env.p95 \in Rtts[p]
  <2>1. AnyRtt(p) \in Rtts[p]
    BY StartupAssumption DEF AnyRtt
  <2> QED
    BY <2>1 DEF Environments
<1>3. PICK new : Handled(new, config, startup, control, p, env.late # "unsent", result)
  BY <1>1, <1>2, PumpIsHandled
<1>4. /\ config' = config /\ conn' = conn /\ game' = game
      /\ Posts(p, result, control, input, env.late)
  BY DEF PumpTick
<1> HIDE DEF result
<1>5. InputFacts(config, input)
  BY DEF CInv
<1>6. /\ SamePlace(conn, conn')
      /\ \A r \in Player : Keeps(config, conn', control, control, r)
      /\ \A r \in Player : KeepsInput(conn', input, input, r)
  <2>1. SamePlace(conn, conn)
    BY DEF SamePlace
  <2> QED
    BY <1>4, <2>1, KeepsSame
<1> QED
  BY <1>3, <1>4, <1>5, <1>6, PostsGame

(* A packet of the calibration is handled, wherever it was taken from.     *)
LEMMA AnsweredGame ==
  ASSUME CInv, GInv, AllAlike(config), NEW p \in Player, NEW q \in Others(p), NEW x,
         NEW controls, NEW inputs, NEW log, Taken(log, p, q, x, controls, inputs),
         x.kind \in Kinds,
         \A r \in Player : Keeps(config, conn', control, controls, r),
         \A r \in Player : KeepsInput(conn', input, inputs, r),
         \/ \E late : PumpReceive(p, q, x, controls, inputs, late)
         \/ PollWire(p, q, x, controls, inputs)
  PROVE  GInv'
<1>1. InputFacts(config, inputs) /\ conn \in [Player -> Conns]
  BY StateTypes DEF Taken
<1>2. SamePlace(conn, conn)
  BY DEF SamePlace
<1>3. CASE \E late : PumpReceive(p, q, x, controls, inputs, late)
  <2>1. PICK late : PumpReceive(p, q, x, controls, inputs, late)
    BY <1>3
  <2> DEFINE result == Receive(p, config[p], ObserveClock(startup[p], late), link[p], q, x)
  <2>2. /\ Posts(p, result, controls, inputs, "none") /\ conn' = conn
        /\ config' = config /\ game' = game
    BY <2>1 DEF PumpReceive, IsStartup
  <2>3. Handled(log, config, startup, controls, p, "none" # "unsent", result)
    BY DEF Taken
  <2> HIDE DEF result
  <2> QED
    BY <1>1, <1>2, <2>2, <2>3, PostsGame
<1>4. CASE PollWire(p, q, x, controls, inputs)
  <2> DEFINE result == Receive(p, config[p], startup[p], link[p], q, x)
             failed == result.state.stage = "Failed"
  <2>1. /\ Posts(p, result, controls, inputs, "none") /\ game' = game /\ config' = config
        /\ conn' = [conn EXCEPT ![p].failed = failed] /\ ~conn[p].failed
    BY <1>4 DEF PollWire, IsStartup, GameRuns, Pumps
  <2>2. ObserveClock(startup[p], "none") = startup[p]
    BY DEF ObserveClock
  <2>3. Handled(log, config, startup, controls, p, "none" # "unsent",
          Receive(p, config[p], ObserveClock(startup[p], "none"), link[p], q, x))
    BY DEF Taken
  <2>4. Handled(log, config, startup, controls, p, "none" # "unsent", result)
    BY <2>2, <2>3
  <2> HIDE DEF result
  <2>5. startup[p].stage # "Failed"
    BY SameGame
  <2>6. failed = FALSE
    BY <2>4, <2>5 DEF Handled
  <2> HIDE DEF failed
  <2>7. failed \in BOOLEAN /\ conn[p].failed = FALSE
    <3>1. conn[p] \in Conns
      BY <1>1
    <3>2. conn[p].failed \in BOOLEAN
      BY <3>1 DEF Conns
    <3> QED
      BY <2>1, <2>6, <3>2
  <2>8. /\ conn'[p].failed = failed
        /\ \A r \in Player : /\ conn'[r].applied = conn[r].applied
                             /\ conn'[r].pending = conn[r].pending
                             /\ r # p => conn'[r] = conn[r]
    BY <1>1, <2>1, <2>7, FailedConn
  <2>9. SamePlace(conn, conn')
    BY <2>6, <2>7, <2>8 DEF SamePlace
  <2> QED
    BY <1>1, <2>1, <2>4, <2>9, PostsGame
<1> QED
  BY <1>3, <1>4

LEMMA HelloGrows ==
  ASSUME NEW cf, NEW q, NEW pending, NEW hello, NEW more, NEW queue, hello \subseteq more,
         HeardInOrder(cf, q, pending, hello, queue)
  PROVE  HeardInOrder(cf, q, pending, more, queue)
<1> DEFINE known == Heard(cf, q, pending, hello)
           new == Heard(cf, q, pending, more)
           before == q \in hello
           after == q \in more
           hellos == From(q, Hellos(cf))
           readies == From(q, Readies(cf))
<1>1. InOrder(pending, hellos, readies, before) /\ InOrder(queue, Hellos(cf), Readies(cf), known)
  BY DEF HeardInOrder
<1>2. (known => new) /\ (before => after)
  BY DEF Heard
<1> HIDE DEF known, new, hellos, readies, before, after
<1>3. InOrder(pending, hellos, readies, after) /\ InOrder(queue, Hellos(cf), Readies(cf), new)
  BY <1>1, <1>2, InOrderWeaker
<1> QED
  BY <1>3 DEF HeardInOrder, hellos, readies, new, after

LEMMA FromAppliedStays ==
  ASSUME NEW cf, NEW cn, NEW gm, NEW ctl, NEW inp, NEW p \in Player,
         FromApplied(cf, cn, gm, ctl, inp, p),
         NEW conns, NEW games, NEW controls, NEW inputs,
         games[p].ready \subseteq Player,
         \A q \in Player : cn[q].applied => conns[q].applied,
         \A q \in games[p].ready : q \in gm[p].ready \/ conns[q].applied,
         \A q \in Player : \A y \in ToSet(conns[p].pending) :
           y \in From(q, Readies(cf)) => y \in ToSet(cn[p].pending) \/ conns[q].applied,
         \A q \in Player : ToSet(controls[q][p]) \subseteq ToSet(ctl[q][p]),
         \A q \in Player : inputs[q][p] \subseteq inp[q][p]
  PROVE  FromApplied(cf, conns, games, controls, inputs, p)
<1>1. \A q \in games[p].ready : conns[q].applied
  BY DEF FromApplied
<1>2. ASSUME NEW q \in Player
      PROVE  /\ \A y \in ToSet(conns[p].pending) : y \in From(q, Readies(cf)) => conns[q].applied
             /\ \A x \in ToSet(controls[q][p]) : x \in Readies(cf) => conns[q].applied
             /\ \A x \in inputs[q][p] : x.kind = "input" => \A r \in Player : conns[r].applied
  <2>1. /\ \A y \in ToSet(cn[p].pending) : y \in From(q, Readies(cf)) => cn[q].applied
        /\ \A x \in ToSet(ctl[q][p]) : x \in Readies(cf) => cn[q].applied
        /\ \A x \in inp[q][p] : x.kind = "input" => \A r \in Player : cn[r].applied
    BY DEF FromApplied
  <2>2. \A y \in ToSet(conns[p].pending) : y \in From(q, Readies(cf)) => conns[q].applied
    BY <2>1
  <2>3. \A x \in ToSet(controls[q][p]) : x \in Readies(cf) => conns[q].applied
    BY <2>1
  <2>4. \A x \in inputs[q][p] : x.kind = "input" => \A r \in Player : conns[r].applied
    BY <2>1
  <2> QED
    BY <2>2, <2>3, <2>4
<1> QED
  BY <1>1, <1>2 DEF FromApplied

(* The other players, when only p has received something. *)
LEMMA OthersAreFine ==
  ASSUME NEW cf, NEW cn, NEW gm, NEW ctl, NEW inp, NEW r \in Player,
         Fine(cf, cn, gm, ctl, inp, r), gm[r].ready \subseteq Player,
         NEW conns, NEW games, NEW controls, NEW inputs,
         conns[r] = cn[r], games[r] = gm[r],
         \A q \in Player : cn[q].applied => conns[q].applied,
         Keeps(cf, conns, ctl, controls, r), KeepsInput(conns, inp, inputs, r)
  PROVE  Fine(cf, conns, games, controls, inputs, r)
<1>1. ~games[r].failed
  BY DEF Fine
<1> QED
  BY <1>1, FineStays

LEMMA GameReceived ==
  ASSUME CInv, NEW p \in Player, NEW q \in Player, NEW x, game' = GameReceive(p, q, x)
  PROVE  /\ game' \in [Player -> Games]
         /\ \A r \in Player : r # p => game'[r] = game[r]
         /\ game[p].hello \subseteq game'[p].hello
         /\ OfThisSession(p, x) /\ x.kind = "hello" => q \in game'[p].hello
         /\ \A r \in game'[p].ready :
              r \in game[p].ready \/ (r = q /\ OfThisSession(p, x) /\ x.kind = "ready")
         /\ game'[p].failed =>
              \/ game[p].failed
              \/ OfThisSession(p, x) /\ x.kind = "ready" /\ q \notin game[p].hello
<1>1. game \in [Player -> Games]
  BY StateTypes
<1> DEFINE new == GameReceive(p, q, x)
<1>2. /\ new \in [Player -> Games]
      /\ \A r \in Player : r # p => new[r] = game[r]
      /\ game[p].hello \subseteq new[p].hello
      /\ OfThisSession(p, x) /\ x.kind = "hello" => q \in new[p].hello
      /\ \A r \in new[p].ready :
           r \in game[p].ready \/ (r = q /\ OfThisSession(p, x) /\ x.kind = "ready")
      /\ new[p].failed =>
           \/ game[p].failed
           \/ OfThisSession(p, x) /\ x.kind = "ready" /\ q \notin game[p].hello
  BY <1>1, GameReceiveFacts
<1>3. game' = new
  OBVIOUS
<1> HIDE DEF new
<1> QED
  BY <1>2, <1>3

LEMMA PollPendingGame ==
  ASSUME CInv, GInv, AllAlike(config), NEW p \in Player, PollPending(p)
  PROVE  GInv'
<1> DEFINE first == Head(conn[p].pending)
           rest == Tail(conn[p].pending)
<1>1. /\ conn[p].pending # << >> /\ ~conn[p].failed
      /\ game' = GameReceive(p, first.from, first.pkt)
      /\ conn' = [conn EXCEPT ![p].pending = rest]
      /\ config' = config /\ startup' = startup /\ control' = control /\ input' = input
  BY DEF PollPending, GameRuns, Pumps
<1>2. /\ conn \in [Player -> Conns] /\ conn[p].pending \in Seq(Entries)
      /\ config \in Configs
  BY StateTypes
<1>3. /\ first \in Entries /\ rest \in Seq(Entries) /\ Len(rest) = Len(conn[p].pending) - 1
      /\ Len(conn[p].pending) \in Nat
      /\ ToSet(conn[p].pending) = ToSet(rest) \cup {first}
  BY <1>1, <1>2, HeadTailProperties, TailSet, LenProperties
<1>4. first.from \in Player /\ first.pkt \in Packets
  BY <1>3 DEF Entries
<1>5. /\ \A r \in Player : startup[r].stage # "Failed" /\ ~game[r].failed
      /\ \A r \in Player : game[r].ready \subseteq Player
      /\ \A r \in Player : Fine(config, conn, game, control, input, r)
  BY SameGame
<1>6. /\ game' \in [Player -> Games]
      /\ \A r \in Player : r # p => game'[r] = game[r]
      /\ game[p].hello \subseteq game'[p].hello
      /\ OfThisSession(p, first.pkt) /\ first.pkt.kind = "hello" => first.from \in game'[p].hello
      /\ \A r \in game'[p].ready :
           r \in game[p].ready
             \/ (r = first.from /\ OfThisSession(p, first.pkt) /\ first.pkt.kind = "ready")
      /\ game'[p].failed =>
           \/ game[p].failed
           \/ /\ OfThisSession(p, first.pkt) /\ first.pkt.kind = "ready"
              /\ first.from \notin game[p].hello
  BY <1>1, <1>4, GameReceived
<1>7. /\ first.pkt \in Hellos(config) <=> OfThisSession(p, first.pkt) /\ first.pkt.kind = "hello"
      /\ first.pkt \in Readies(config) <=> OfThisSession(p, first.pkt) /\ first.pkt.kind = "ready"
  BY <1>2, <1>4, HailsOfGame
<1>8. \A q \in Player : /\ first \in From(q, Hellos(config)) => q \in game'[p].hello
                        /\ first \in From(q, Readies(config)) <=>
                             q = first.from /\ first.pkt \in Readies(config)
  BY <1>3, <1>6, <1>7 DEF From
<1>9. ASSUME NEW q \in Player
      PROVE  /\ HeardInOrder(config, q, rest, game'[p].hello, control[q][p])
             /\ first \in From(q, Readies(config)) => q \in game[p].hello
  <2>1. HeardInOrder(config, q, conn[p].pending, game[p].hello, control[q][p])
    BY <1>1, <1>5 DEF Fine
  <2>2. first \in From(q, Hellos(config)) => q \in game'[p].hello
    BY <1>8
  <2> QED
    BY <1>1, <1>2, <1>6, <2>1, <2>2, PendingInOrder
<1>10. ~game'[p].failed
  BY <1>4, <1>5, <1>6, <1>7, <1>8, <1>9
<1>11. /\ conn'[p].pending = rest
       /\ \A r \in Player : /\ conn'[r].applied = conn[r].applied
                            /\ conn'[r].failed = conn[r].failed
                            /\ r # p => conn'[r] = conn[r]
  <2>1. rest \in Waits
    BY <1>3 DEF Waits, Entries
  <2> HIDE DEF rest
  <2> DEFINE new == [conn EXCEPT ![p].pending = rest]
  <2>2. /\ new \in [Player -> Conns] /\ new[p].pending = rest
        /\ \A r \in Player : /\ new[r].begun = conn[r].begun
                             /\ new[r].applied = conn[r].applied
                             /\ new[r].failed = conn[r].failed
                             /\ r # p => new[r] = conn[r]
    BY <1>2, <2>1, QueuedConn
  <2> QED
    BY <1>1, <2>2
<1> HIDE DEF rest, first
<1>12. game'[p].ready \subseteq Player /\ \A q \in game'[p].ready : q \in Player
  BY <1>6 DEF Games
<1>13. FromApplied(config, conn, game, control, input, p)
  BY <1>5 DEF Fine
<1>14. \A q \in game'[p].ready : q \in game[p].ready \/ conn'[q].applied
  <2>1. \A q \in Player : first \in From(q, Readies(config)) => conn[q].applied
    BY <1>3, <1>13 DEF FromApplied
  <2> QED
    BY <1>6, <1>7, <1>8, <1>11, <1>12, <2>1
<1>15. FromApplied(config, conn', game', control', input', p)
  <2>1. \A q \in Player : conn[q].applied => conn'[q].applied
    BY <1>11
  <2>2. \A q \in Player : \A y \in ToSet(conn'[p].pending) :
          y \in From(q, Readies(config)) => y \in ToSet(conn[p].pending) \/ conn'[q].applied
    BY <1>3, <1>11
  <2>3. /\ \A q \in Player : ToSet(control'[q][p]) \subseteq ToSet(control[q][p])
        /\ \A q \in Player : input'[q][p] \subseteq input[q][p]
    BY <1>1
  <2> QED
    BY <1>12, <1>13, <1>14, <2>1, <2>2, <2>3, FromAppliedStays
<1>16. Fine(config, conn', game', control', input', p)
  <2>1. Len(rest) <= DeferLimit
    <3>1. Len(conn[p].pending) <= DeferLimit
      BY <1>5 DEF Fine
    <3> QED
      BY <1>3, <3>1, ConnectionAssumption
  <2>2. \A q \in Player : HeardInOrder(config, q, conn'[p].pending, game'[p].hello, control'[q][p])
    BY <1>1, <1>9, <1>11
  <2>3. ~conn'[p].failed
    BY <1>1, <1>11
  <2> QED
    BY <1>10, <1>11, <1>15, <2>1, <2>2, <2>3 DEF Fine
<1>17. ASSUME NEW r \in Player, r # p
       PROVE  Fine(config, conn', game', control', input', r)
  <2>1. Keeps(config, conn', control, control', r) /\ KeepsInput(conn', input, input', r)
    BY <1>1, KeepsSame
  <2>2. conn'[r] = conn[r] /\ game'[r] = game[r]
        /\ \A q \in Player : conn[q].applied => conn'[q].applied
    BY <1>6, <1>11, <1>17
  <2> QED
    BY <1>5, <2>1, <2>2, OthersAreFine
<1> QED
  BY <1>1, <1>5, <1>16, <1>17 DEF GInv

(* What is left on the links when p has taken the head of the one of q.    *)
LEMMA LinksTaken ==
  ASSUME CInv, NEW p \in Player, NEW q \in Others(p), control[q][p] # << >>
  PROVE  LET controls == [control EXCEPT ![q][p] = Tail(@)]
         IN  /\ controls[q][p] = Tail(control[q][p])
             /\ \A r \in Player : r # q => controls[r][p] = control[r][p]
             /\ \A r \in Player : ToSet(controls[r][p]) \subseteq ToSet(control[r][p])
             /\ Head(control[q][p]) \in ToSet(control[q][p])
             /\ Head(control[q][p]) \in Packets /\ control[q][p] \in Seq(Packets)
             /\ \A r \in Player : \A cn :
                  r # p \/ Head(control[q][p]) \notin Hellos(config) =>
                    Keeps(config, cn, control, controls, r)
<1> DEFINE controls == [control EXCEPT ![q][p] = Tail(@)]
<1>1. control \in [Player -> [Player -> Seq(Packets)]] /\ q \in Player
  BY StateTypes DEF Others
<1>2. /\ controls \in [Player -> [Player -> Seq(Packets)]]
      /\ controls[q][p] = Tail(control[q][p])
      /\ \A a, b \in Player : <<a, b>> # <<q, p>> => controls[a][b] = control[a][b]
      /\ \A a, b \in Player : ToSet(controls[a][b]) \subseteq ToSet(control[a][b])
      /\ Head(control[q][p]) \in ToSet(control[q][p])
  BY <1>1, TakenFacts, ZenonT(30)
<1>3. ASSUME NEW r \in Player, NEW cn, r # p \/ Head(control[q][p]) \notin Hellos(config)
      PROVE  Keeps(config, cn, control, controls, r)
  BY <1>1, <1>3, KeepsTake
<1>4. control[q][p] \in Seq(Packets)
  BY <1>1
<1>5. Head(control[q][p]) \in Packets
  BY <1>4, HeadTailProperties
<1> HIDE DEF controls
<1>6. \A r \in Player : r # q => controls[r][p] = control[r][p]
  BY <1>2
<1>7. /\ controls[q][p] = Tail(control[q][p])
      /\ \A r \in Player : ToSet(controls[r][p]) \subseteq ToSet(control[r][p])
  BY <1>1, <1>2
<1> QED
  BY <1>2, <1>3, <1>4, <1>5, <1>6, <1>7 DEF controls

LEMMA PollGreeting ==
  ASSUME CInv, GInv, AllAlike(config), NEW p \in Player, NEW q \in Others(p),
         control[q][p] # << >>, Head(control[q][p]).kind \notin Kinds,
         PollWire(p, q, Head(control[q][p]), [control EXCEPT ![q][p] = Tail(@)], input)
  PROVE  GInv'
<1> DEFINE x == Head(control[q][p])
           controls == [control EXCEPT ![q][p] = Tail(@)]
<1>1. /\ conn[p].pending = << >> /\ ~conn[p].failed
      /\ game' = GameReceive(p, q, x) /\ control' = controls
      /\ config' = config /\ startup' = startup /\ conn' = conn /\ input' = input
  BY DEF PollWire, GameRuns, Pumps, IsStartup
<1>2. config \in Configs /\ q \in Player
  BY StateTypes DEF Others
<1>3. /\ controls[q][p] = Tail(control[q][p])
      /\ \A r \in Player : r # q => controls[r][p] = control[r][p]
      /\ \A r \in Player : ToSet(controls[r][p]) \subseteq ToSet(control[r][p])
      /\ x \in ToSet(control[q][p]) /\ x \in Packets /\ control[q][p] \in Seq(Packets)
      /\ \A r \in Player : \A cn :
           r # p \/ x \notin Hellos(config) => Keeps(config, cn, control, controls, r)
  BY LinksTaken
<1> HIDE DEF x, controls
<1>4. /\ \A r \in Player : startup[r].stage # "Failed" /\ ~game[r].failed
      /\ \A r \in Player : game[r].ready \subseteq Player
      /\ \A r \in Player : Fine(config, conn, game, control, input, r)
  BY SameGame
<1>5. /\ game' \in [Player -> Games]
      /\ \A r \in Player : r # p => game'[r] = game[r]
      /\ game[p].hello \subseteq game'[p].hello
      /\ OfThisSession(p, x) /\ x.kind = "hello" => q \in game'[p].hello
      /\ \A r \in game'[p].ready :
           r \in game[p].ready \/ (r = q /\ OfThisSession(p, x) /\ x.kind = "ready")
      /\ game'[p].failed =>
           \/ game[p].failed
           \/ OfThisSession(p, x) /\ x.kind = "ready" /\ q \notin game[p].hello
  BY <1>1, <1>2, GameReceived
<1>6. /\ x \in Hellos(config) <=> OfThisSession(p, x) /\ x.kind = "hello"
      /\ x \in Readies(config) <=> OfThisSession(p, x) /\ x.kind = "ready"
  BY <1>2, <1>3, HailsOfGame
<1>7. \A r \in Player :
        HeardInOrder(config, r, conn[p].pending, game[p].hello, control[r][p])
  BY <1>1, <1>4 DEF Fine
<1>8. /\ HeardInOrder(config, q, conn[p].pending, game'[p].hello, control'[q][p])
      /\ x \in Readies(config) => q \in game[p].hello
  <2> DEFINE queue == control[q][p]
             more == game'[p].hello
             hello == game[p].hello
             pending == conn[p].pending
  <2>1. /\ queue \in Seq(Packets) /\ queue # << >> /\ Head(queue) = x
        /\ control'[q][p] = Tail(queue)
    BY <1>1, <1>3 DEF x
  <2>2. HeardInOrder(config, q, pending, hello, queue) /\ hello \subseteq more
        /\ (x \in Hellos(config) => q \in more)
    BY <1>2, <1>5, <1>6, <1>7
  <2>3. pending = << >> /\ ToSet(pending) = {}
    BY <1>1 DEF ToSet
  <2> HIDE DEF queue, more, hello, pending
  <2>4. /\ HeardInOrder(config, q, pending, more, Tail(queue))
        /\ x \in Readies(config) => Heard(config, q, pending, hello)
    BY <1>2, <2>1, <2>2, TakenInOrder
  <2>5. x \in Readies(config) => q \in hello
    BY <2>3, <2>4 DEF Heard
  <2> QED
    BY <2>1, <2>4, <2>5 DEF more, hello, pending
<1>9. ASSUME NEW r \in Player
      PROVE  HeardInOrder(config, r, conn'[p].pending, game'[p].hello, control'[r][p])
  <2>1. CASE r = q
    BY <1>1, <1>8, <2>1
  <2>2. CASE r # q
    <3>1. control'[r][p] = control[r][p] /\ conn' = conn
      BY <1>1, <1>3, <2>2
    <3> QED
      BY <1>5, <1>7, <3>1, HelloGrows
  <2> QED
    BY <2>1, <2>2
<1>10. ~game'[p].failed
  BY <1>4, <1>5, <1>6, <1>8
<1>11. FromApplied(config, conn, game, control, input, p)
  BY <1>4 DEF Fine
<1>12. game'[p].ready \subseteq Player
  BY <1>5 DEF Games
<1>13. \A r \in game'[p].ready : r \in game[p].ready \/ conn'[r].applied
  <2>1. x \in Readies(config) => conn[q].applied
    BY <1>2, <1>3, <1>11 DEF FromApplied
  <2> QED
    BY <1>1, <1>5, <1>6, <2>1
<1>14. FromApplied(config, conn', game', control', input', p)
  <2>1. /\ \A r \in Player : conn[r].applied => conn'[r].applied
        /\ \A r \in Player : \A y \in ToSet(conn'[p].pending) :
             y \in From(r, Readies(config)) => y \in ToSet(conn[p].pending) \/ conn'[r].applied
        /\ \A r \in Player : input'[r][p] \subseteq input[r][p]
    BY <1>1
  <2>2. \A r \in Player : ToSet(control'[r][p]) \subseteq ToSet(control[r][p])
    BY <1>1, <1>3
  <2> QED
    BY <1>11, <1>12, <1>13, <2>1, <2>2, FromAppliedStays
<1>15. Fine(config, conn', game', control', input', p)
  <2>1. /\ Len(conn'[p].pending) <= DeferLimit
        /\ conn'[p].failed => Len(conn'[p].pending) = DeferLimit
    BY <1>1, <1>4 DEF Fine
  <2> QED
    BY <1>9, <1>10, <1>14, <2>1 DEF Fine
<1>16. ASSUME NEW r \in Player, r # p
       PROVE  Fine(config, conn', game', control', input', r)
  <2>1. Keeps(config, conn', control, control', r) /\ KeepsInput(conn', input, input', r)
    BY <1>1, <1>3, <1>16, KeepsSame
  <2>2. conn'[r] = conn[r] /\ game'[r] = game[r]
        /\ \A a \in Player : conn[a].applied => conn'[a].applied
    BY <1>1, <1>5, <1>16
  <2> QED
    BY <1>4, <2>1, <2>2, OthersAreFine
<1> QED
  BY <1>1, <1>4, <1>15, <1>16 DEF GInv

(* What waits for the commit fails the connection only when it is full.    *)
LEMMA BeforeAppliedAlike ==
  ASSUME CInv, AllAlike(config), NEW p \in Player, NEW q \in Others(p),
         control[q][p] # << >>, Head(control[q][p]).kind \notin Kinds, ~conn[p].failed
  PROVE  LET x == Head(control[q][p])
             c == conn[p]
             y == [from |-> q, pkt |-> x]
             new == BeforeApplied(p, c, q, x)
         IN  /\ new \in Conns /\ new.applied = c.applied
             /\ \/ x \notin Hellos(config) /\ ~new.failed /\ new.pending = c.pending
                \/ /\ new.failed /\ new.pending = c.pending
                   /\ Len(c.pending) >= DeferLimit
                \/ /\ ~new.failed /\ new.pending = Append(c.pending, y)
                   /\ ~(Len(c.pending) >= DeferLimit)
<1> DEFINE x == Head(control[q][p])
           c == conn[p]
           y == [from |-> q, pkt |-> x]
           new == BeforeApplied(p, c, q, x)
           waits == OfThisSession(p, x) /\ x.kind \in {"hello", "ready"}
<1>1. /\ config \in Configs /\ c \in Conns /\ q \in Player /\ x \in Packets
  BY StateTypes, LinksTaken DEF Others
<1>2. \/ Stale(config, x)
      \/ x.config = config[q] /\ x.kind \in Kinds \cup {"hello", "ready"}
  BY ControlTaken
<1>3. \/ HasRetired /\ ~OfThisSession(p, x)
      \/ waits
  <2>1. CASE Stale(config, x)
    BY <2>1 DEF Stale, OfThisSession
  <2>2. CASE x.config = config[q] /\ x.kind \in Kinds \cup {"hello", "ready"}
    <3>1. x.kind \in {"hello", "ready"}
      BY <2>2
    <3>2. OfThisSession(p, x)
      BY <1>1, <2>2 DEF OfThisSession, AllAlike
    <3> QED
      BY <3>1, <3>2
  <2> QED
    BY <1>2, <2>1, <2>2
<1>4. /\ new \in Conns /\ new.begun = c.begun /\ new.applied = c.applied
      /\ waits /\ Len(c.pending) >= DeferLimit => new.failed /\ new.pending = c.pending
      /\ waits /\ ~(Len(c.pending) >= DeferLimit) =>
           new.failed = c.failed /\ new.pending = Append(c.pending, y)
      /\ ~waits => /\ new.pending = c.pending
                   /\ new.failed <=> c.failed \/ ~HasRetired \/ OfThisSession(p, x)
  <2> HIDE DEF c, x
  <2> QED
    BY <1>1, BeforeAppliedFacts DEF waits, new, y
<1>5. x \in Hellos(config) => OfThisSession(p, x) /\ x.kind = "hello"
  BY <1>1, HailsOfGame
<1>6. ~c.failed
  OBVIOUS
<1> DEFINE full == Len(c.pending) >= DeferLimit
           ours == OfThisSession(p, x)
           longer == Append(c.pending, y)
<1>7. /\ waits => ours
      /\ x \in Hellos(config) => waits
      /\ ~(HasRetired /\ ~ours) => waits
  BY <1>3, <1>5
<1>8. /\ waits /\ full => new.failed /\ new.pending = c.pending
      /\ waits /\ ~full => new.failed = c.failed /\ new.pending = longer
      /\ ~waits => /\ new.pending = c.pending
                   /\ new.failed <=> c.failed \/ ~HasRetired \/ ours
  BY <1>4
<1> HIDE DEF new, waits, full, ours, longer, c, x
<1>9. \/ x \notin Hellos(config) /\ ~new.failed /\ new.pending = c.pending
      \/ new.failed /\ new.pending = c.pending /\ full
      \/ ~new.failed /\ new.pending = longer /\ ~full
  BY <1>6, <1>7, <1>8
<1>10. new \in Conns /\ new.applied = c.applied
  BY <1>4
<1> QED
  BY <1>9, <1>10 DEF new, full, longer, c, x

LEMMA WaitGreeting ==
  ASSUME CInv, GInv, AllAlike(config), NEW p \in Player, NEW q \in Others(p), NEW late,
         control[q][p] # << >>, Head(control[q][p]).kind \notin Kinds,
         PumpReceive(p, q, Head(control[q][p]), [control EXCEPT ![q][p] = Tail(@)], input,
                     late)
  PROVE  GInv'
<1> DEFINE x == Head(control[q][p])
           controls == [control EXCEPT ![q][p] = Tail(@)]
           y == [from |-> q, pkt |-> x]
           new == BeforeApplied(p, conn[p], q, x)
           pending == conn[p].pending
           longer == Append(pending, y)
<1>1. /\ ~conn[p].failed /\ conn' = [conn EXCEPT ![p] = new] /\ control' = controls
      /\ config' = config /\ startup' = startup /\ game' = game /\ input' = input
  BY DEF PumpReceive, Pumps, IsStartup
<1>2. /\ config \in Configs /\ q \in Player /\ conn \in [Player -> Conns]
      /\ pending \in Seq(Entries)
  BY StateTypes DEF Others
<1>3. /\ controls[q][p] = Tail(control[q][p])
      /\ \A r \in Player : r # q => controls[r][p] = control[r][p]
      /\ \A r \in Player : ToSet(controls[r][p]) \subseteq ToSet(control[r][p])
      /\ x \in ToSet(control[q][p]) /\ x \in Packets /\ control[q][p] \in Seq(Packets)
      /\ \A r \in Player : \A cn :
           r # p \/ x \notin Hellos(config) => Keeps(config, cn, control, controls, r)
  BY LinksTaken
<1>4. /\ new \in Conns /\ new.applied = conn[p].applied
      /\ \/ x \notin Hellos(config) /\ ~new.failed /\ new.pending = pending
         \/ new.failed /\ new.pending = pending /\ Len(pending) >= DeferLimit
         \/ ~new.failed /\ new.pending = longer /\ ~(Len(pending) >= DeferLimit)
  BY <1>1, BeforeAppliedAlike
<1> HIDE DEF x, controls, new
<1>5. /\ \A r \in Player : startup[r].stage # "Failed" /\ ~game[r].failed
      /\ \A r \in Player : game[r].ready \subseteq Player
      /\ \A r \in Player : Fine(config, conn, game, control, input, r)
  BY SameGame
<1>6. /\ conn'[p] = new /\ \A r \in Player : r # p => conn'[r] = conn[r]
  BY <1>1, <1>2
<1>7. \A r \in Player : conn'[r].applied = conn[r].applied
  BY <1>4, <1>6
<1>8. /\ y \in Entries /\ y.from = q /\ y.pkt = x
  BY <1>2, <1>3 DEF Entries
<1> HIDE DEF y, pending
<1>9. /\ longer \in Seq(Entries) /\ Len(longer) = Len(pending) + 1
      /\ ToSet(longer) = ToSet(pending) \cup {y} /\ Len(pending) \in Nat
  <2>1. pending \in Seq(Entries) /\ y \in Entries
    BY <1>2, <1>8
  <2>2. Len(pending) \in Nat
    BY <2>1, LenProperties
  <2>3. longer \in Seq(Entries) /\ Len(longer) = Len(pending) + 1
    BY <2>1
  <2>4. ToSet(longer) = ToSet(pending) \cup {y}
    <3>1. /\ Append(pending, y) \in Seq(Entries) /\ Len(Append(pending, y)) = Len(pending) + 1
          /\ ToSet(Append(pending, y)) = ToSet(pending) \cup {y}
          /\ Append(pending, y) = pending \o <<y>> /\ <<y>> \in Seq(Entries)
          /\ ToSet(<<y>>) = {y}
      BY ONLY <2>1, AppendFacts
    <3> QED
      BY <3>1
  <2> QED
    BY <2>2, <2>3, <2>4
<1>10. /\ ~game[p].failed /\ Len(pending) <= DeferLimit
       /\ FromApplied(config, conn, game, control, input, p)
       /\ \A r \in Player : HeardInOrder(config, r, pending, game[p].hello, control[r][p])
  BY <1>1, <1>5 DEF Fine, pending
<1> HIDE DEF longer
<1>11. \A r \in Player : \A z \in ToSet(conn'[p].pending) :
         z \in From(r, Readies(config)) => z \in ToSet(conn[p].pending) \/ conn'[r].applied
  <2>1. ASSUME NEW r \in Player, y \in From(r, Readies(config))
        PROVE  conn'[r].applied
    <3>1. r = q /\ x \in Readies(config)
      BY <1>8, <2>1 DEF From
    <3>2. conn[q].applied
      BY <1>2, <1>3, <1>10, <3>1 DEF FromApplied
    <3> QED
      BY <1>7, <3>1, <3>2
  <2>2. conn'[p].pending = pending \/ conn'[p].pending = longer
    BY <1>4, <1>6
  <2> QED
    BY <1>9, <2>1, <2>2 DEF pending
<1>12. FromApplied(config, conn', game', control', input', p)
  <2>1. /\ \A r \in Player : conn[r].applied => conn'[r].applied
        /\ \A r \in Player : input'[r][p] \subseteq input[r][p]
        /\ game'[p].ready \subseteq Player
        /\ \A r \in game'[p].ready : r \in game[p].ready \/ conn'[r].applied
    BY <1>1, <1>5, <1>7
  <2>2. \A r \in Player : ToSet(control'[r][p]) \subseteq ToSet(control[r][p])
    BY <1>1, <1>3
  <2> QED
    BY <1>10, <1>11, <2>1, <2>2, FromAppliedStays
<1>13. ASSUME x \notin Hellos(config), ~new.failed, new.pending = pending
      PROVE  Fine(config, conn', game', control', input', p)
  <2>1. \A r \in Player : HeardInOrder(config, r, pending, game[p].hello, control'[r][p])
    <3>1. ASSUME NEW r \in Player
          PROVE  HeardInOrder(config, r, pending, game[p].hello, control'[r][p])
      <4>1. CASE r = q
        <5> DEFINE queue == control[q][p]
                   hello == game[p].hello
        <5>1. /\ queue \in Seq(Packets) /\ queue # << >> /\ Head(queue) = x
              /\ control'[q][p] = Tail(queue) /\ hello \subseteq hello
          BY <1>1, <1>3 DEF x
        <5>2. HeardInOrder(config, q, pending, hello, queue)
          BY <1>2, <1>10
        <5> HIDE DEF queue, hello
        <5>3. Head(queue) \in Hellos(config) => q \in hello
          BY <1>13, <5>1
        <5>4. HeardInOrder(config, q, pending, hello, Tail(queue))
          BY <1>2, <5>1, <5>2, <5>3, TakenInOrder
        <5> QED
          BY <4>1, <5>1, <5>4 DEF hello
      <4>2. CASE r # q
        BY <1>1, <1>3, <1>10, <4>2
      <4> QED
        BY <4>1, <4>2
    <3> QED
      BY <3>1
  <2>2. conn'[p].pending = pending /\ ~conn'[p].failed /\ game' = game
    BY <1>1, <1>6, <1>13
  <2> QED
    BY <1>10, <1>12, <2>1, <2>2 DEF Fine
<1>14. ASSUME new.failed, new.pending = pending, Len(pending) >= DeferLimit
      PROVE  Fine(config, conn', game', control', input', p)
  <2>1. Len(pending) = DeferLimit
    BY <1>9, <1>10, <1>14, ConnectionAssumption
  <2>2. conn'[p].pending = pending /\ conn'[p].failed /\ game' = game
    BY <1>1, <1>6, <1>14
  <2> QED
    BY <1>10, <1>12, <2>1, <2>2 DEF Fine
<1>15. ASSUME ~new.failed, new.pending = longer, ~(Len(pending) >= DeferLimit)
      PROVE  Fine(config, conn', game', control', input', p)
  <2>1. Len(longer) <= DeferLimit
    BY <1>9, <1>15, ConnectionAssumption
  <2>2. conn'[p].pending = longer /\ ~conn'[p].failed /\ game' = game
    BY <1>1, <1>6, <1>15
  <2>3. ASSUME NEW r \in Player
        PROVE  HeardInOrder(config, r, longer, game[p].hello, control'[r][p])
    <3> DEFINE queue == control[r][p]
               hello == game[p].hello
    <3>1. /\ queue \in Seq(Packets)
          /\ HeardInOrder(config, r, pending, hello, queue)
      BY <1>10, StateTypes
    <3>2. CASE r = q
      <4>1. queue # << >> /\ Head(queue) = x /\ control'[r][p] = Tail(queue)
        BY <1>1, <1>3, <3>2 DEF x
      <4> HIDE DEF queue, hello
      <4>2. HeardInOrder(config, r, Append(pending, [from |-> r, pkt |-> Head(queue)]), hello,
                         Tail(queue))
        BY <1>2, <3>1, <4>1, WaitsInOrder
      <4> QED
        BY <3>2, <4>1, <4>2 DEF longer, y, hello
    <3>3. CASE r # q
      <4>1. control'[r][p] = queue /\ y.from # r
        BY <1>1, <1>3, <1>8, <3>3
      <4> HIDE DEF queue, hello
      <4>2. HeardInOrder(config, r, Append(pending, y), hello, queue)
        BY <1>2, <1>8, <3>1, <4>1, OthersWait
      <4> QED
        BY <4>1, <4>2 DEF longer, hello
    <3> QED
      BY <3>2, <3>3
  <2> QED
    BY <1>10, <1>12, <2>1, <2>2, <2>3 DEF Fine
<1>16. Fine(config, conn', game', control', input', p)
  BY <1>4, <1>13, <1>14, <1>15
<1>17. ASSUME NEW r \in Player, r # p
       PROVE  Fine(config, conn', game', control', input', r)
  <2>1. Keeps(config, conn', control, control', r) /\ KeepsInput(conn', input, input', r)
    BY <1>1, <1>3, <1>17, KeepsSame
  <2>2. conn'[r] = conn[r] /\ game'[r] = game[r]
        /\ \A a \in Player : conn[a].applied => conn'[a].applied
    BY <1>1, <1>6, <1>7, <1>17
  <2> QED
    BY <1>5, <2>1, <2>2, OthersAreFine
<1> QED
  BY <1>1, <1>5, <1>16, <1>17 DEF GInv

LEMMA ControlGame ==
  ASSUME CInv, GInv, AllAlike(config), NEW p \in Player, NEW q \in Others(p),
         \/ \E late : ReceiveControl(p, q, late)
         \/ PollControl(p, q)
  PROVE  GInv'
<1> DEFINE x == Head(control[q][p])
           controls == [control EXCEPT ![q][p] = Tail(@)]
<1>1. /\ control[q][p] # << >>
      /\ \/ \E late : PumpReceive(p, q, x, controls, input, late)
         \/ PollWire(p, q, x, controls, input)
  BY DEF ReceiveControl, PollControl
<1>2. CASE x.kind \in Kinds
  <2>1. PICK log : Taken(log, p, q, x, controls, input)
    BY <1>1, ControlTaken
  <2>2. x \notin Hellos(config)
    BY <1>2, HailFacts
  <2>3. \A r \in Player : Keeps(config, conn', control, controls, r)
    BY <1>1, <2>2, LinksTaken
  <2>4. \A r \in Player : KeepsInput(conn', input, input, r)
    BY KeepsSame
  <2> HIDE DEF x, controls
  <2> QED
    BY <1>1, <1>2, <2>1, <2>3, <2>4, AnsweredGame
<1>3. CASE x.kind \notin Kinds
  BY <1>1, <1>3, WaitGreeting, PollGreeting
<1> QED
  BY <1>2, <1>3

LEMMA InputGame ==
  ASSUME CInv, GInv, AllAlike(config), NEW p \in Player, NEW q \in Others(p),
         \/ \E late : ReceiveInput(p, q, late)
         \/ PollInput(p, q)
  PROVE  GInv'
<1>1. PICK x \in input[q][p] :
        \/ \E late : PumpReceive(p, q, x, control, [input EXCEPT ![q][p] = @ \ {x}], late)
        \/ PollWire(p, q, x, control, [input EXCEPT ![q][p] = @ \ {x}])
  BY DEF ReceiveInput, PollInput
<1> DEFINE inputs == [input EXCEPT ![q][p] = @ \ {x}]
<1>2. /\ \E log : Taken(log, p, q, x, control, inputs)
      /\ x.kind \notin Kinds => x.kind = "input"
  BY InputTaken
<1>3. /\ \A r \in Player : Keeps(config, conn', control, control, r)
      /\ \A r \in Player : KeepsInput(conn', input, inputs, r)
  <2>1. input \in [Player -> [Player -> SUBSET Packets]] /\ q \in Player
    BY StateTypes DEF Others
  <2> QED
    BY <2>1, KeepsSame, KeepsGone
<1>4. \/ \E late : PumpReceive(p, q, x, control, inputs, late)
      \/ PollWire(p, q, x, control, inputs)
  BY <1>1
<1> HIDE DEF inputs
<1>5. CASE x.kind \in Kinds
  <2>1. PICK log : Taken(log, p, q, x, control, inputs)
    BY <1>2
  <2> QED
    BY <1>3, <1>4, <1>5, <2>1, AnsweredGame
<1>6. CASE x.kind \notin Kinds
  <2>1. \A r \in Player : conn[r].applied
    <3>1. FromApplied(config, conn, game, control, input, p) /\ q \in Player
      BY SameGame DEF Fine, Others
    <3> QED
      BY <1>2, <1>6, <3>1 DEF FromApplied
  <2>2. PollWire(p, q, x, control, inputs)
    BY <1>4, <2>1 DEF PumpReceive
  <2>3. /\ game' = GameReceive(p, q, x) /\ control' = control /\ input' = inputs
        /\ startup' = startup /\ conn' = conn /\ config' = config
    BY <1>6, <2>2 DEF PollWire, IsStartup
  <2>4. GameReceive(p, q, x) = game
    BY <1>2, <1>6 DEF GameReceive
  <2>5. SamePlace(conn, conn')
    BY <2>3 DEF SamePlace
  <2> QED
    BY <1>3, <2>3, <2>4, <2>5, CalmStep
<1> QED
  BY <1>5, <1>6

LEMMA GInvIsInductive ==
  ASSUME CInv, GInv, [Next]_vars
  PROVE  GInv'
<1>1. config' = config
  <2>1. ASSUME NEW p \in Player, NEW q \in Player, LoseControl(q, p) \/ \E x : LoseInput(q, p, x)
        PROVE  config' = config
    BY <2>1 DEF LoseControl, LoseInput
  <2>2. ASSUME NEW p \in Player, NEW q,
               \/ \E late : ReceiveControl(p, q, late) \/ ReceiveInput(p, q, late)
               \/ PollControl(p, q) \/ PollInput(p, q)
        PROVE  config' = config
    BY <2>2 DEF ReceiveControl, ReceiveInput, PollControl, PollInput, PumpReceive, PollWire
  <2>3. ASSUME NEW p \in Player,
               \/ BeginPump(p) \/ Apply(p) \/ PollPending(p) \/ SendSession(p) \/ SendInput(p)
               \/ Restore(p) \/ (\E state : Disturb(p, state)) \/ (\E env : PumpTick(p, env))
        PROVE  config' = config
    BY <2>3 DEF BeginPump, Apply, PollPending, SendSession, SendInput, Restore, Disturb, PumpTick
  <2>4. CASE Next
    BY <2>4, NextSteps, <2>1, <2>2, <2>3 DEF Others
  <2> QED
    BY <2>4 DEF vars
<1>2. CASE ~AllAlike(config)
  BY <1>1, <1>2 DEF GInv
<1>3. CASE AllAlike(config)
  <2>1. CASE UNCHANGED vars
    BY <2>1, UnchangedGame DEF vars
  <2>2. ASSUME NEW p \in Player,
               BeginPump(p) \/ Apply(p) \/ PollPending(p) \/ SendSession(p) \/ SendInput(p)
        PROVE  GInv'
    BY <1>3, <2>2, BeginPumpGame, ApplyGame, PollPendingGame, SendSessionGame, SendInputGame
  <2>3. ASSUME NEW p \in Player, Restore(p) \/ \E state : Disturb(p, state)
        PROVE  GInv'
    BY <2>3, UnchangedGame DEF Restore, Disturb
  <2>4. ASSUME NEW p \in Player, NEW env \in Environments(p), PumpTick(p, env)
        PROVE  GInv'
    BY <1>3, <2>4, PumpTickGame
  <2>5. ASSUME NEW p \in Player, NEW q \in Others(p),
               \/ \E late : ReceiveControl(p, q, late)
               \/ PollControl(p, q)
        PROVE  GInv'
    BY <1>3, <2>5, ControlGame
  <2>6. ASSUME NEW p \in Player, NEW q \in Others(p),
               \/ \E late : ReceiveInput(p, q, late)
               \/ PollInput(p, q)
        PROVE  GInv'
    BY <1>3, <2>6, InputGame
  <2>7. ASSUME NEW p \in Player, NEW q \in Others(p), LoseControl(q, p)
        PROVE  GInv'
    <3>1. q \in Player
      BY DEF Others
    <3> QED
      BY <1>3, <2>7, <3>1, LoseControlGame
  <2>8. ASSUME NEW p \in Player, NEW q \in Others(p), NEW x, LoseInput(q, p, x)
        PROVE  GInv'
    <3>1. q \in Player
      BY DEF Others
    <3> QED
      BY <1>3, <2>8, <3>1, LoseInputGame
  <2>9. CASE Next
    BY <2>9, NextSteps, <2>2, <2>3, <2>4, <2>5, <2>6, <2>7, <2>8
  <2> QED
    BY <2>1, <2>9
<1> QED
  BY <1>2, <1>3

LEMMA InitIsFine == Init => GInv
<1> SUFFICES ASSUME Init, AllAlike(config), NEW p \in Player
             PROVE  startup[p].stage # "Failed"
                    /\ Fine(config, conn, game, control, input, p)
  BY DEF GInv
<1>1. CInv
  BY InitIsSound
<1>2. /\ startup[p] = Idle /\ game[p] = [hello |-> {}, ready |-> {}, failed |-> FALSE]
      /\ conn[p] = [begun |-> FALSE, applied |-> FALSE, failed |-> FALSE, pending |-> << >>]
      /\ \A q \in Player : input[q][p] = {}
  BY DEF Init, NoInputs
<1>3. startup[p].stage # "Failed"
  BY <1>2 DEF Idle
<1>4. /\ ~game[p].failed /\ game[p].ready = {} /\ ~conn[p].failed
      /\ conn[p].pending = << >> /\ Len(conn[p].pending) = 0
      /\ ToSet(conn[p].pending) = {} /\ DOMAIN conn[p].pending = {}
  BY <1>2 DEF ToSet
<1>5. ASSUME NEW q \in Player, NEW x \in ToSet(control[q][p])
      PROVE  x \notin Hellos(config) \cup Readies(config)
  <2>1. PICK tail \in Tails :
          control = [a \in Player |-> [b \in Player |->
                       IF a = Host /\ b # Host THEN tail ELSE << >>]]
    BY DEF Init
  <2>2. control[q][p] = tail \/ control[q][p] = << >>
    BY <2>1
  <2>3. x \in ToSet(tail)
    BY <1>5, <2>2 DEF ToSet
  <2>4. x.config.session # config[Host].session
    BY <2>3, ConnectionAssumption, ReportFacts DEF Init
  <2> QED
    BY <2>4 DEF Hellos, Readies, Hails
<1>6. FromApplied(config, conn, game, control, input, p)
  BY <1>2, <1>4, <1>5 DEF FromApplied
<1>7. ASSUME NEW q \in Player
      PROVE  HeardInOrder(config, q, conn[p].pending, game[p].hello, control[q][p])
  <2>1. \A i \in DOMAIN control[q][p] : control[q][p][i] \notin Readies(config)
    BY <1>5 DEF ToSet
  <2> QED
    BY <1>4, <2>1 DEF HeardInOrder, InOrder
<1> QED
  BY <1>3, <1>4, <1>6, <1>7, ConnectionAssumption DEF Fine

(* Players configured alike never fail each other's calibration, fail the  *)
(* connection only when more greetings wait than it can hold, and greet    *)
(* the game behind it in order, whatever is lost, late or left over        *)
(* (AdonisStartup::Receive, AdonisConnection::Pump and Poll).              *)
THEOREM NoFailureIsSpurious == Spec => []NoSpuriousFailure
<1>1. Init => CInv /\ GInv
  BY InitIsSound, InitIsFine
<1>2. CInv /\ GInv /\ [Next]_vars => (CInv /\ GInv)'
  BY CInvIsInductive, GInvIsInductive
<1>3. CInv /\ GInv => NoSpuriousFailure
  BY DEF GInv, AllAlike, Fine, NoSpuriousFailure
<1> QED
  BY <1>1, <1>2, <1>3, PTL DEF Spec
=============================================================================
