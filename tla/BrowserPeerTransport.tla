------------------------ MODULE BrowserPeerTransport ------------------------
(***************************************************************************)
(* One player's transport in a room of two: the choice of a route between  *)
(* WebRTC and the relay, the recovery of the RTC path, and the queue of    *)
(* received packets (src/src/netplay/BrowserPeerTransport.cpp).  Every     *)
(* callback of the browser is an action; the server, the network and the   *)
(* other player are whatever they may be within the bounds.                *)
(***************************************************************************)
EXTENDS PeerRecovery

CONSTANTS
  Sizes,      \* sizes of packets
  MaxFaults,  \* bound: sockets, channels, offers and paths that break
  MaxEvents,  \* bound: state changes and requests that come from outside
  MaxTasks    \* bound: timers and awaits of recovery at one time

ASSUME TransportAssumption ==
  Sizes \subseteq Nat \ {0} /\ MaxFaults \in Nat
    /\ MaxEvents \in Nat /\ MaxTasks \in Nat

VARIABLES
  state,   \* the transport
  path,    \* packets of the other player get through
  faults,  \* how much has broken
  events   \* what came from outside

vars == <<state, path, faults, events>>

(* What a step starts anew is bounded; a timer or an await that ends may   *)
(* start another in its place.                                             *)
Tasks(s) == Len(s.timers) + s.snapshots + Len(s.checks) + s.offers + s.watchdogs
Started(s) == Tasks(s) <= MaxTasks

Becomes(s) == state' = s /\ UNCHANGED <<path, faults, events>>
Fault(s) ==
  faults < MaxFaults /\ faults' = faults + 1 /\ state' = s
    /\ UNCHANGED <<path, events>>
Event(s) ==
  events < MaxEvents /\ events' = events + 1 /\ Started(s) /\ state' = s
    /\ UNCHANGED <<path, faults>>

---------------------------------------------------------------------------
(* The signal socket. *)

SignalOpens ==
  /\ state.signal = "connecting"
  /\ Becomes([state EXCEPT !.signal = "open", !.pendingSignals = << >>])

(* An error leaves the relay as the only route, when it is open already. *)
FallsBack(s) ==
  IF s.route = None /\ s.relay = "open" THEN SetRoute(s, "relay") ELSE s

SignalBreaks ==
  /\ state.signal \in {"connecting", "open"}
  /\ \/ Fault([state EXCEPT !.signal = "closing"])
     \/ Fault(FallsBack([state EXCEPT !.signal = "closing"]))

SignalCloses ==
  /\ state.signal = "closing"
  /\ \E s \in {[state EXCEPT !.signal = "none"]} :
       Becomes(IF s.route = "rtc" THEN ScheduleReconnect(s) ELSE FallsBack(s))

ReconnectTimer ==
  state.reconnect /\ Becomes(OpenSignal([state EXCEPT !.reconnect = FALSE]))

---------------------------------------------------------------------------
(* What the signal socket brings. *)

(* ensurePeer, when the server names the other player. *)
EnsurePeer ==
  /\ state.signal = "open" /\ ~state.peer /\ state.route = None
  /\ Becomes([state EXCEPT !.peer = TRUE])

(* The server releases RTC when all players are ready for it, and tells it *)
(* on both sockets.                                                        *)
RouteArrives ==
  /\ state.signal = "open" \/ state.relay = "open"
  /\ state.route = None
  /\ \/ state.rtcReadySent /\ Becomes(SetRoute(state, "rtc"))
     \/ Becomes(SetRoute(state, "relay"))

(* A description that cannot be applied; one that can changes the peer     *)
(* connection only.                                                        *)
SignalingFails ==
  /\ state.signal = "open" /\ state.peer /\ state.route = "rtc"
  /\ Fault(Fail(state, TRUE))

RestartRequestArrives ==
  /\ state.signal = "open" /\ state.offerer /\ state.route = "rtc"
  /\ Event(RestartIce(state))

PeerDisconnectedArrives ==
  /\ state.signal = "open" /\ state.route = "rtc"
  /\ Fault(Fail(state, FALSE))

---------------------------------------------------------------------------
(* The relay. *)

RelayOpens ==
  /\ state.relay = "connecting"
  /\ \E s \in {[state EXCEPT !.relay = "open"]} :
       Becomes(IF s.signal = "closing" THEN FallsBack(s) ELSE s)

RelayBreaks ==
  /\ state.relay \in {"connecting", "open"}
  /\ \E s \in {[state EXCEPT !.relay = "none"]} :
       Fault(IF s.route = "relay" THEN Fail(s, TRUE) ELSE s)

(* Packets that arrive before the route is known are kept. *)
RelayPacket ==
  /\ state.relay = "open" /\ state.route \in {None, "relay"}
  /\ \E size \in Sizes, blob \in BOOLEAN : Becomes(ReceiveBinary(state, size, blob))

---------------------------------------------------------------------------
(* The peer connection and its channels. *)

(* The connection is made: the handler finds nothing to recover.           *)
Connects ==
  /\ state.peer /\ state.connection = "new" /\ state.ice = "new"
  /\ Becomes(ConnectionStateChanged(
       [state EXCEPT !.connection = "connected", !.ice = "connected"]))

StateChanges ==
  /\ state.peer
  /\ \E now \in {"new", "connected", "disconnected", "failed"} :
       \/ /\ state.connection # now
          /\ Event(ConnectionStateChanged([state EXCEPT !.connection = now]))
       \/ /\ state.ice # now
          /\ Event(ConnectionStateChanged([state EXCEPT !.ice = now]))

(* maybeReportRtcReady. *)
ReportReady(s) ==
  IF s.control = "open" /\ s.input = "open" THEN [s EXCEPT !.rtcReadySent = TRUE]
                                            ELSE s

ChannelOpens ==
  /\ state.peer /\ Reports(state, "connected")
  /\ \/ /\ state.control = "none"
        /\ Becomes(ReportReady([state EXCEPT !.control = "open"]))
     \/ /\ state.input = "none"
        /\ Becomes(ReportReady([state EXCEPT !.input = "open"]))

(* A channel closes or fails: before the route is chosen the server is     *)
(* told, afterwards the session is over.                                   *)
ChannelLost(s) == IF s.route = "rtc" THEN Fail(s, TRUE) ELSE s

ChannelCloses ==
  \/ state.control = "open" /\ Fault(ChannelLost([state EXCEPT !.control = "closed"]))
  \/ state.input = "open" /\ Fault(ChannelLost([state EXCEPT !.input = "closed"]))

(* onmessage of a channel, whose packets are array buffers. *)
PacketArrives ==
  /\ path /\ (state.control = "open" \/ state.input = "open")
  /\ \E heard \in {Heard(state)}, size \in Sizes :
       Becomes(ReceiveBinary(heard, size, FALSE))

(* eagler_peer_send_to. *)
SendTo ==
  /\ state.route = "rtc" /\ ~state.failed /\ ~state.disconnected
  /\ state.input = "open" /\ ~state.sent
  /\ Becomes([state EXCEPT !.sent = TRUE])

(* Three seconds pass without a packet; it matters once input was sent.    *)
BecomesQuiet ==
  /\ state.peer /\ state.sent /\ ~state.quiet
  /\ Becomes([state EXCEPT !.quiet = TRUE])

---------------------------------------------------------------------------
(* Timers and awaits. *)

HealthTimer ==
  /\ state.route = "rtc" /\ ~state.closed
  /\ \E s \in {ScheduleRecovery(state, FALSE, TRUE)} : Started(s) /\ Becomes(s)

RecoveryTimer == state.timers # << >> /\ Becomes(TimerExpires(state))
Watchdog == state.watchdogs > 0 /\ Becomes(WatchdogExpires(state))

Snapshot == state.snapshots > 0 /\ Becomes(SnapshotTaken(state))

(* Only inbound traffic, or a confirmed frame that it brought, is progress. *)
Check ==
  /\ state.checks # << >>
  /\ \E progressed \in BOOLEAN :
       /\ progressed => path \/ Head(state.checks).since
       /\ Becomes(CheckTaken(state, progressed))

Offer ==
  /\ state.offers > 0
  /\ \/ ~state.closed /\ Becomes(OfferMade(state))
     \/ Fault(OfferFails(state))

Convert ==
  \E i \in DOMAIN state.conversions, fulfilled \in BOOLEAN :
    Becomes(ConversionEnds(state, i, fulfilled))

Resume == Snapshot \/ Check \/ Offer \/ Convert

---------------------------------------------------------------------------
(* The game, and the network. *)

(* eagler_peer_poll_copy. *)
Poll ==
  /\ state.received # << >>
  /\ Becomes([state EXCEPT !.received = Tail(@),
                           !.receivedBytes = @ - Head(state.received)])

(* eagler_peer_close. *)
CloseTransport == ~state.closed /\ Becomes(Close(state))

PathChanges ==
  /\ faults < MaxFaults /\ faults' = faults + 1
  /\ path' = ~path /\ UNCHANGED <<state, events>>

Init ==
  /\ \E offerer \in BOOLEAN : state = NewTransport(offerer)
  /\ path = TRUE /\ faults = 0 /\ events = 0

Next ==
  \/ SignalOpens \/ SignalBreaks \/ SignalCloses \/ ReconnectTimer
  \/ EnsurePeer \/ RouteArrives \/ SignalingFails \/ RestartRequestArrives
  \/ PeerDisconnectedArrives
  \/ RelayOpens \/ RelayBreaks \/ RelayPacket
  \/ Connects \/ StateChanges \/ ChannelOpens \/ ChannelCloses
  \/ PacketArrives \/ SendTo \/ BecomesQuiet
  \/ HealthTimer \/ RecoveryTimer \/ Watchdog \/ Resume
  \/ Poll \/ CloseTransport \/ PathChanges

(* Timers expire and awaits end; the game sends input; the other player's  *)
(* packets arrive while there is a path, and do not while there is none.   *)
Later == RecoveryTimer \/ Watchdog \/ Resume

Fairness ==
  /\ WF_vars(HealthTimer) /\ WF_vars(Later) /\ WF_vars(PacketArrives)
  /\ WF_vars(SendTo \/ (~path /\ BecomesQuiet))

Spec == Init /\ [][Next]_vars
FairSpec == Spec /\ Fairness
---------------------------------------------------------------------------
(* Properties. *)

Bytes(packets) ==
  LET sum[k \in 0 .. Len(packets)] ==
        IF k = 0 THEN 0 ELSE sum[k - 1] + packets[k]
  IN  sum[Len(packets)]

(* What is queued and what is still being converted stay within the limits *)
(* of the queue together, and the counters say what there is of both,      *)
(* through overflow and close() in the middle of a conversion.             *)
QueueIsCounted ==
  /\ Len(state.received) + state.pendingPackets <= MaxPackets
  /\ state.receivedBytes + state.pendingBytes <= MaxBytes
  /\ state.receivedBytes = Bytes(state.received)
  /\ state.pendingPackets = IF state.closed THEN 0 ELSE Len(state.conversions)
  /\ state.pendingBytes = IF state.closed THEN 0 ELSE Bytes(state.conversions)

(* Whatever was awaited when the session ended, and whatever timer was     *)
(* left, nothing of a recovery comes back.                                 *)
EndIsQuiet ==
  Ended(state) => ~state.restartInFlight /\ ~state.recoveryPending

(* A restart in flight always has a watchdog, or an offer that will arm    *)
(* one: no clearing of another timer leaves it waiting for ever.           *)
RestartIsWatched ==
  state.restartInFlight => state.offers > 0 \/ state.watchdogs > 0

(* Recovery does not go on for ever, although timers are lost and          *)
(* overwritten across awaits: what ends it may be a packet, the states ICE *)
(* reports, a restart that runs out, or the end of the session.            *)
RecoveryEnds ==
  (IsRecovering(state) /\ state.input = "open") ~> ~IsRecovering(state)

(* A restart in flight ends with a packet received since it began, with    *)
(* the session, when a watchdog runs out, or when a recovery timer of the  *)
(* time before it finds that ICE reports neither a failure nor a           *)
(* disconnection: ICE state alone clears it there, and nowhere else.       *)
RestartEndsForACause ==
  [][state.restartInFlight /\ ~state'.restartInFlight =>
       \/ state'.heard \/ Ended(state') \/ Watchdog
       \/ RecoveryTimer /\ ~Reports(state, "failed") /\ ~Reports(state, "disconnected")]_vars

(* When the path is gone for good, the player is told. *)
DeadPathIsReported ==
  <>[](~path /\ state.route = "rtc" /\ state.input = "open") => <>Ended(state)
=============================================================================
