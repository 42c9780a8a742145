---------------------------- MODULE PeerRecovery ----------------------------
(***************************************************************************)
(* The handlers of the JavaScript half of BrowserPeerTransport             *)
(* (src/src/netplay/BrowserPeerTransport.cpp): its receive queue, its      *)
(* signaling, and the recovery of the connection to one peer.  Each maps   *)
(* the whole state of the transport to the state after the synchronous     *)
(* part of the handler; what waits for an await or a timer is in the state *)
(* as well, in the order in which it was started.                          *)
(*                                                                         *)
(* Clocks are left out: "quiet" says that nothing was received for three   *)
(* seconds, "heard" that something was since the last restart began.       *)
(* Timers of one delay expire in the order in which they were armed.       *)
(***************************************************************************)
EXTENDS Integers, SequencesExt

CONSTANTS
  None,
  MaxAttempts,  \* restarts without an answer
  MaxPackets,   \* packets of the receive queue
  MaxBytes,     \* bytes of the receive queue
  MaxSignals    \* signals kept while the signal socket is down

ASSUME RecoveryAssumption ==
  /\ MaxAttempts \in Nat /\ MaxSignals \in Nat
  /\ MaxPackets \in Nat /\ MaxBytes \in Nat

Sockets == {"none", "connecting", "open", "closing"}
PeerStates == {"new", "connected", "disconnected", "failed", "closed"}

NewTransport(offerer) ==
  [offerer |-> offerer,        \* localPlayer < peerId
   route |-> None, closed |-> FALSE, failed |-> FALSE, disconnected |-> FALSE,
   signal |-> "connecting", relay |-> "connecting",
   reconnect |-> FALSE,        \* signalReconnectTimer
   pendingSignals |-> << >>,
   peer |-> FALSE, control |-> "none", input |-> "none", rtcReadySent |-> FALSE,
   connection |-> "new", ice |-> "new",
   sent |-> FALSE,             \* input was sent, in a game that is on
   quiet |-> FALSE, heard |-> TRUE,
   recoveryPending |-> FALSE, restartInFlight |-> FALSE, restartAttempts |-> 0,
   timers |-> << >>,           \* recovery timers; "held": it is recoveryTimer
   snapshots |-> 0,            \* schedulePeerRecovery awaits its snapshot
   checks |-> << >>,           \* an expired timer awaits its snapshot
   offers |-> 0,               \* restartPeerIce awaits its offer
   watchdogs |-> 0,            \* watchdogs of restarts that were armed
   watched |-> FALSE,          \* the last of them is restartWatchdog
   received |-> << >>, receivedBytes |-> 0,
   pendingPackets |-> 0, pendingBytes |-> 0,
   conversions |-> << >>]      \* Blobs being converted

Ended(s) == s.closed \/ s.disconnected

(* Connected, by either of the two states a peer connection reports. *)
Reports(s, state) == s.connection = state \/ s.ice = state

---------------------------------------------------------------------------
(* Signaling. *)

(* openSignal. *)
OpenSignal(s) ==
  IF Ended(s) \/ s.route = "relay" \/ s.signal \in {"open", "connecting"} THEN s
  ELSE [s EXCEPT !.signal = "connecting"]

Keep(signals, signal) ==
  IF Len(signals) < MaxSignals THEN Append(signals, signal)
  ELSE Tail(Append(signals, signal))

(* sendSignal: a signal waits for a socket only while the route is RTC, and *)
(* the oldest one is dropped for it.                                        *)
SendSignal(s, signal) ==
  IF s.signal = "open" \/ s.route # "rtc" \/ s.closed THEN s
  ELSE OpenSignal([s EXCEPT !.pendingSignals = Keep(@, signal)])

(* scheduleSignalReconnect. *)
ScheduleReconnect(s) ==
  IF Ended(s) \/ s.route # "rtc" THEN s ELSE [s EXCEPT !.reconnect = TRUE]

---------------------------------------------------------------------------
(* How a recovery ends. *)

ClearsRecovery(s) ==
  [s EXCEPT !.timers = SelectSeq(@, LAMBDA t : ~t.held),
            !.watchdogs = IF s.watched THEN @ - 1 ELSE @,
            !.watched = FALSE, !.recoveryPending = FALSE]

(* Mutant: the watchdog is cleared and the restart is not. *)
ClearRecoveryKeepingRestart(s) == ClearsRecovery(s)

(* clearPeerRecovery: only the timers the peer still holds are cleared. *)
ClearRecovery(s) == [ClearsRecovery(s) EXCEPT !.restartInFlight = FALSE]

IsRecovering(s) ==
  /\ ~s.disconnected /\ s.peer
  /\ \/ s.recoveryPending \/ s.restartInFlight
     \/ \E i \in DOMAIN s.timers : s.timers[i].held

(* fail. *)
Fail(s, notify) ==
  IF Ended(s) \/ s.failed THEN s
  ELSE ClearRecovery([(IF notify THEN SendSignal(s, "peer-disconnected") ELSE s)
                      EXCEPT !.disconnected = TRUE])

(* close. *)
Close(s) ==
  [ClearRecovery(s) EXCEPT
     !.closed = TRUE, !.reconnect = FALSE, !.peer = FALSE,
     !.signal = "none", !.relay = "none", !.control = "none", !.input = "none",
     !.connection = "closed", !.ice = "closed",
     !.received = << >>, !.receivedBytes = 0,
     !.pendingPackets = 0, !.pendingBytes = 0]

(* setRoute, once.  The room has no spectators: nothing is left for the    *)
(* relay beside RTC.                                                       *)
SetRoute(s, mode) ==
  CASE s.closed \/ s.route # None -> s
    [] ~s.closed /\ s.route = None /\ mode = "rtc" ->
         [s EXCEPT !.route = mode, !.relay = "none"]
    [] ~s.closed /\ s.route = None /\ mode = "relay" ->
         [s EXCEPT !.route = mode, !.peer = FALSE, !.signal = "none",
                   !.control = "none", !.input = "none",
                   !.connection = "closed", !.ice = "closed"]

---------------------------------------------------------------------------
(* Recovery. *)

Unheld(timers) == [i \in DOMAIN timers |-> [timers[i] EXCEPT !.held = FALSE]]

(* Nothing was received for three seconds although input was sent, and the *)
(* game is on or the channels are backed up.                               *)
Stalled(s) == s.sent /\ s.quiet

(* Mutant: what ended the session is only looked for when it was closed. *)
MayRestartAfterFail(s) ==
  s.peer /\ ~s.closed /\ s.route = "rtc" /\ ~s.restartInFlight

MayRestart(s) == s.peer /\ ~Ended(s) /\ s.route = "rtc" /\ ~s.restartInFlight

(* Mutant: a restart that is asked of the other side is not counted. *)
BeginRestartUncounted(s) ==
  [s EXCEPT !.restartAttempts = IF s.offerer THEN @ + 1 ELSE @,
            !.restartInFlight = TRUE, !.heard = FALSE]

BeginRestart(s) ==
  [s EXCEPT !.restartAttempts = @ + 1,
            !.restartInFlight = TRUE, !.heard = FALSE]

(* restartPeerIce, up to its await. *)
RestartIce(s) ==
  CASE ~MayRestart(s) -> s
    [] MayRestart(s) /\ s.restartAttempts >= MaxAttempts -> Fail(s, TRUE)
    [] OTHER -> OpenSignal([BeginRestart(s) EXCEPT !.offers = @ + 1])

(* Mutant: no watchdog is armed for a request. *)
ArmWatchdogOfOfferer(s) ==
  IF s.offerer THEN [s EXCEPT !.watchdogs = @ + 1, !.watched = TRUE] ELSE s

ArmWatchdog(s) == [s EXCEPT !.watchdogs = @ + 1, !.watched = TRUE]

(* requestPeerIceRestart: the lower player restarts, the higher one asks   *)
(* for it.                                                                 *)
RequestRestart(s) ==
  CASE ~MayRestart(s) -> s
    [] MayRestart(s) /\ s.offerer -> RestartIce(s)
    [] MayRestart(s) /\ ~s.offerer /\ s.restartAttempts >= MaxAttempts ->
         Fail(s, TRUE)
    [] OTHER -> ArmWatchdog(SendSignal(BeginRestart(s), "ice-restart-request"))

ArmTimer(s, silent, stalled) ==
  [s EXCEPT !.timers = Append(Unheld(s.timers),
     [held |-> TRUE, silent |-> silent, stalled |-> stalled, since |-> FALSE])]

(* schedulePeerRecovery, up to its await. *)
ScheduleRecovery(s, immediate, silent) ==
  LET stalled == silent /\ Stalled(s)
      pending == [s EXCEPT !.recoveryPending = TRUE]
  IN  CASE \/ ~MayRestart(s) \/ \E i \in DOMAIN s.timers : s.timers[i].held
           \/ ~(Reports(s, "failed") \/ Reports(s, "disconnected") \/ stalled) -> s
        [] OTHER ->
             IF Reports(s, "failed") \/ immediate THEN RequestRestart(pending)
             ELSE IF silent THEN ArmTimer(pending, TRUE, stalled)
             ELSE [pending EXCEPT !.snapshots = @ + 1]

(* ... and after it: the route is checked again, the timer is not. *)
SnapshotTaken(s) ==
  LET resumed == [s EXCEPT !.snapshots = @ - 1]
  IN  IF s.closed \/ s.route # "rtc" \/ ~s.peer THEN resumed
      ELSE ArmTimer(resumed, FALSE, FALSE)

(* The end of a recovery timer: once more, or a restart. *)
DecideRestart(s, failed, progressed, silent) ==
  IF ~failed /\ progressed THEN ScheduleRecovery(s, FALSE, silent)
                           ELSE RequestRestart(s)

(* A recovery timer expires. *)
TimerExpires(s) ==
  LET t == Head(s.timers)
      expired == [s EXCEPT !.timers = Unheld(Tail(@))]
      failed == Reports(s, "failed")
  IN  CASE ~failed /\ ~Reports(s, "disconnected") /\ ~(t.stalled /\ Stalled(s)) ->
             ClearRecovery(expired)
        [] OTHER ->
             IF t.silent THEN DecideRestart(expired, failed, t.since, TRUE)
             ELSE [expired EXCEPT !.checks =
                     Append(@, [failed |-> failed, since |-> t.since])]

CheckTaken(s, progressed) ==
  DecideRestart([s EXCEPT !.checks = Tail(@)], Head(s.checks).failed,
                progressed, FALSE)

(* restartPeerIce after its await.  The watchdog is armed whatever has     *)
(* happened since.                                                         *)
OfferMade(s) ==
  ArmWatchdog(SendSignal([s EXCEPT !.offers = @ - 1], "signal"))

OfferFails(s) ==
  Fail([s EXCEPT !.offers = @ - 1, !.restartInFlight = FALSE], TRUE)

WatchdogIsContent(s) == s.offerer /\ Reports(s, "connected") /\ s.heard

(* The watchdog of a restart expires. *)
WatchdogExpires(s) ==
  LET expired == [s EXCEPT !.watchdogs = @ - 1, !.watched = FALSE,
                           !.restartInFlight = FALSE]
  IN  IF WatchdogIsContent(s) THEN expired
      ELSE ScheduleRecovery(expired, TRUE, TRUE)

(* handlePeerConnectionState. *)
ConnectionStateChanged(s) ==
  CASE ~s.peer \/ s.closed -> s
    [] s.peer /\ ~s.closed /\ Reports(s, "connected") ->
         IF s.restartInFlight /\ ~s.heard THEN s
         ELSE [ClearRecovery(s) EXCEPT
                 !.restartAttempts = 0,
                 !.pendingSignals = SelectSeq(@, LAMBDA m : m # "ice-restart-request")]
    [] s.peer /\ ~s.closed /\ ~Reports(s, "connected") ->
         IF s.route = None /\ Reports(s, "failed") THEN SendSignal(s, "rtc-failed")
         ELSE ScheduleRecovery(s, FALSE, FALSE)

---------------------------------------------------------------------------
(* The receive queue. *)

(* Mutant: packets that are still converted do not count. *)
IsFullOfQueued(s, size) ==
  Len(s.received) >= MaxPackets \/ size > MaxBytes - s.receivedBytes

IsFull(s, size) ==
  \/ Len(s.received) + s.pendingPackets >= MaxPackets
  \/ size > MaxBytes - s.receivedBytes - s.pendingBytes

Enqueue(s, size) ==
  IF Ended(s) \/ s.failed THEN s
  ELSE [s EXCEPT !.received = Append(@, size), !.receivedBytes = @ + size]

(* receiveBinary. *)
ReceiveBinary(s, size, blob) ==
  CASE Ended(s) \/ s.failed -> s
    [] ~(Ended(s) \/ s.failed) /\ IsFull(s, size) ->
         Close([s EXCEPT !.failed = TRUE])
    [] OTHER ->
         IF blob THEN [s EXCEPT !.pendingPackets = @ + 1, !.pendingBytes = @ + size,
                                !.conversions = Append(@, size)]
         ELSE Enqueue(s, size)

(* A conversion ends, with a packet or without; after close() it releases  *)
(* nothing.                                                                *)
ConversionEnds(s, i, fulfilled) ==
  LET size == s.conversions[i]
      done == [s EXCEPT !.conversions = RemoveAt(@, i)]
      released == [done EXCEPT !.pendingPackets = @ - 1, !.pendingBytes = @ - size]
  IN  CASE s.closed -> done
        [] ~s.closed /\ fulfilled -> Enqueue(released, size)
        [] ~s.closed /\ ~fulfilled -> released

EndsRecovery(s) ==
  \/ s.restartInFlight \/ s.recoveryPending
  \/ \E i \in DOMAIN s.timers : s.timers[i].held

(* onmessage of a data channel, up to receiveBinary. *)
Heard(s) ==
  LET heard == [s EXCEPT
        !.quiet = FALSE, !.heard = TRUE,
        !.timers = [i \in DOMAIN @ |-> [@[i] EXCEPT !.since = TRUE]],
        !.checks = [i \in DOMAIN @ |-> [@[i] EXCEPT !.since = TRUE]]]
  IN  IF EndsRecovery(s) THEN [ClearRecovery(heard) EXCEPT !.restartAttempts = 0]
                         ELSE heard
=============================================================================
