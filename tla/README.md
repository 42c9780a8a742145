# A verification project for eagler-common

eagler-common is the shared library of several browser ports of arcade games:
a deterministic rollback netplay stack in C++ (two or three players over WebRTC
or a relay), the startup and spectator protocols around it, input replays, and a
set of browser helpers. This project models its core logic in TLA+, checks the
models with TLC on small instances, and proves the central theorems with TLAPS
for every instance.

All source paths below are relative to the directory that holds `src/`.

## 1. Inventory

| Component | State it keeps | Operations | Talks to |
|---|---|---|---|
| **RollbackCore** `src/src/netplay/NetplayCore.cpp` | per player a ring of 256 input slots and a confirmed frontier; a ring of 256 decisions; the frontier each peer acknowledged; last simulated frame; pending rollback | schedule local input, apply an input packet, confirm an equivalent input, prepare and mark a frame, rewind, read confirmed inputs, build a packet | called by the title and by SessionChannel |
| **SessionGate** `NetplaySession.cpp` | hello/ready flags per peer, local ready, transport availability | apply a session packet, mark ready, may start? | SessionChannel, title |
| **SessionChannel** `SessionChannel.cpp` | session, timers, sequence numbers, repair frontiers, deferred send, failure, the terminal ACKs of the previous generation | begin, pump (receive, resend, time out), local capture, retire | core, gate, transport |
| **Protocol codec** `NetplayProtocol.cpp` | none | encode/decode packets | channel |
| **RollbackJournal** `RollbackJournal.cpp`, pools in `PartitionedPoolJournal.hpp`, `SparsePoolCapture.hpp` | a ring of checkpoints: first-write copies of memory blocks, an AVL index, a deferred-copy window | begin/extend/end a checkpoint, touch, undo, discard | title memory |
| **Adonis startup** `AdonisStartup.hpp`, `AdonisConnection.hpp`, `AdonisTiming.hpp` | attempt, phase, clock samples, accept and commit acknowledgements | probe, choose an epoch, commit, retry | transport |
| **Spectator stages** `SpectatorStage*.hpp` | ring of confirmed records and checkpoints; history; playback state | record, publish, finish; accept; control, step, seek | core's confirmed inputs, transport |
| **Peer transports** `BrowserPeerTransport.cpp`, `WebSocketTransport.cpp` | connection, route, channels, recovery timers, receive queue | connect, recover, restart ICE, switch to relay, poll, send | browser callbacks |
| **Replays and input** `InputReplay.cpp`, `NetplayInput.cpp`, `DirectTouch*.hpp` | sample archive; none | append, inspect, encode; quantise; prove equivalence | title |
| **Pacing policies** `ConfirmedInputWatchdog.hpp`, `InputRepairBudget.hpp`, `SessionPacing.hpp`, ... | a few counters each | observe, decide | channel, title |
| **Practice, gestures, audio, text** `include/eagler/{thprac,input,audio,text,replay}` | UI and menu state | | title |
| **Browser helpers** `browser/*.mjs` | held keys and their owners; save mirror; playback clock | keyboard bridge, save sync, local replay | DOM |
| **Test kits and tools** `testkit/`, `tools/` | | replay comparison, presentation lab, impairment | |

The interactions that matter: the title's frame loop samples one local input per
frame, hands it to the core and notifies the channel; the channel moves input
packets between cores; a late packet may set the core's *rollback request*; the
title then restores a snapshot from the journal, tells the core which decisions
are void (`RewindSimulationTo`) and simulates the frames again. A replay or a
spectator host reads, behind all of that, the inputs `ConfirmedInputs` releases.

What is hard about it: packets are lost, copied, late and out of order;
predictions are made and undone while packets keep arriving; both rings wrap
around, so a stale frame and a live one compete for a slot; a session may end at
one peer while the other still waits for an acknowledgement.

### What makes each component correct

* RollbackCore: no misprediction survives; what was exported is what was pressed
  and stays so; the ring drops nothing that is still needed; a rollback asked for
  is possible; an honest packet never ends a session.
* A session as a whole: every peer plays every frame with the inputs everybody
  pressed (module `Lockstep`), and, under fairness, gets to play all of them.
* SessionGate/SessionChannel: nobody starts before everybody is ready and of one
  contract; a lost READY or final ACK does not strand a peer; a generation
  retires only when both directions are complete; packets of another generation
  do nothing.
* RollbackJournal: an undo restores memory to what it was when the checkpoint
  began, with skipped and deferred copies as without them.
* Adonis startup: nobody commits alone or to another delay; a discarded attempt
  can never open frame zero; the calibration ends.
* Spectator: a viewer sees prefixes of the published run, which is confirmed
  input, and in the end all of it; the stream is given up for a cause the title
  can name.
* Transport: a restart always has somebody to end it and nothing of a recovery
  survives the session; a dead path is reported; the receive queue keeps its
  limit across conversions and close.

## 2. Plan

| # | Modules | Status |
|---|---|---|
| 1 | `RollbackCore` (operators), `RollbackPeer` (one peer against any honest environment), `RollbackNet` (peers and a lossy network), `Lockstep` (abstract), `RollbackCoreProofs`, `RollbackPeerProofs`, `RollbackNetProofs` | done |
| 2 | `SessionChannel`: handshake, input deferral, retirement and the echo of terminal ACKs across generations, with `SessionChannelProofs` | done |
| 3 | `Snapshots` (abstract), `RollbackJournal`, `PartitionedPoolJournal`, `Journals` (both over one memory), `RollbackJournalProofs` | done |
| 4 | `AdonisStartup` (operators), `AdonisConnection`, with `AdonisConnectionProofs` | done |
| 5 | `SpectatorStagePublisher`, `SpectatorStream`, with `SpectatorRun` (abstract) and `SpectatorStreamProofs` | done |
| 6 | `PeerRecovery` (operators), `BrowserPeerTransport`, `BrowserPeerTransportProofs` | done |
| 7 | Replay archive, keyboard owners, pacing policies, save sync | later |

The order is by weight: first what decides whether two players see the same
game, then what starts and ends a session, then what an undo restores. Each of
the later modules gets one run, with the properties of section 1.

## 3. The modules

Every definition that stands for code keeps the name of the function it
translates where TLA+ allows; `PROJECT.json` maps each to its lines. Definitions
commented *Mutant* are plausible bugs; nothing in the specifications uses them.
Every property is paired with one that TLC refutes in its place.

### The rollback core

| Module | What it is |
|---|---|
| `RollbackCore` | `RollbackCore` of `NetplayCore.cpp`, as operators on one record |
| `RollbackPeer` | one core, its title's loop, and any honest environment |
| `RollbackNet` | several cores and a lossy network, with `SendInputs` and `Receive` |
| `Lockstep` | what a session promises, with no prediction, rollback or network |
| `MCRollbackPeer`, `MCRollbackNet` | small instances |
| `RollbackCoreProofs` | what the operators of the core do |
| `RollbackPeerProofs` | the theorems about mispredictions and exports, and about the windows: nothing that is still needed leaves a ring |
| `RollbackNetProofs` | the theorems about a session of peers, the refinement of `Lockstep`, and that each peer is a `RollbackPeer` |

A core is a record of the members of the class: `inputs[q]` is player q's ring
`inputs_`, a slot holds a frame and an input; `confirmed[q]` is the frontier
`confirmedThrough_`; `used` the ring `used_` of decisions (frame, inputs, predicted
mask); `peerAck` is `peerAckOfLocal_`; `last` is `lastSimulatedFrame_`; `rollback` is
`rollbackFrame_`. `INVALID_FRAME`
is `None`, -1. Slots are reused modulo `History`, which the code has as 256.
Guards (`CanSchedule`, `CanAdvance`, `CanRewind`, `CanExport`, `AcceptsPacket`)
are the early returns, the operators of the same call its assignments.
`ApplyInputPacket` is written as one update of the ring; `SamplesOneByOne` is the
loop of the code over its samples, and `BatchIsSampleLoop`, checked and proved,
says that they are the same.

The title is not in the repository. Its loop (capture, reconcile, prepare, mark)
is the one of `src/tests/session-channel-test.cpp`, with the liberties a title
has: it may capture ahead by `CaptureLead`, it has snapshots of the
`MaxRollback` frames up to the newest it ever simulated (`peak`), and it may
rewind to any of them. It reads confirmed inputs in order and keeps them in
`exported`. `stream` is what each player really captured; no code reads it.

`RollbackPeer` receives any window of what a player captured, with any earlier
acknowledgement, at any time and as often as it likes. That is the environment
of the proofs. `RollbackNet` makes the packets with the sender's own core and is
such an environment of each of its peers (`ImplementsRollbackPeer`). The constant
`Observer` is the peer this is said of: it occurs in no action, so what holds for
every value of it holds of every peer.
`ClearRollbackRequest` is declared and never called; it is not modelled.

### Sessions

`SessionChannel` models `NetplaySession.cpp` and `SessionChannel.cpp`: HELLO and
READY, the fast input lane and the reliable repair lane, the send a `Pump`
postpones to the next capture, `Retire`, the terminal ACKs it leaves behind, and
`BeginSession` of the next generation. One action is one call: `PumpMessage`
(one message is received, then the timers run), `PumpIdle`, `PumpRetirement`,
`Capture` with `LocalCaptured`, `Fence` (`FlushRetirementFence`), `Retire` and
`BeginSession`, and there are two faults: `GiveUp` (a timeout) and `Break` (the
reliable lane loses the newest messages under way). A peer is a record with the members of the class; the core in it is
reduced to its three frontiers, as numbers of frames. `RollbackNet` has the full
cores and no handshake: the two models meet at the input packet.

`SessionChannelProofs` holds its theorems. A timer is due or not whenever a peer runs, so no order of the code's intervals
(200 ms, 32 ms, 250 ms) is assumed. What the transport promises is external: the
reliable lane keeps its order and loses messages only when it breaks, the fast
lane does what it likes.

### Journals

| Module | What it is |
|---|---|
| `Snapshots` | what a journal promises: a checkpoint is a whole copy of the memory |
| `RollbackJournal` | the block journal of `RollbackJournal.cpp` |
| `PartitionedPoolJournal` | the pool journal of `PartitionedPoolJournal.hpp` |
| `Journals` | both over one memory, driven by the same calls |
| `MCJournals` | constants for TLC |
| `RollbackJournalProofs` | the two refinements and the agreement of the journals, proved |

`memory` is a function of cells. A checkpoint has its frames, its blocks
(intervals of cells), and `bytes`, the copy of each cell, `Unset` where none was
made yet. `Touch` has the four ways through the code as actions: a block already
there (`TouchAgain`); a new one, copied at once or, if it is large and a read-only
capture window is open, put off, with an arena that moves or not (`Touch`); one
that overlaps or does not fit, which fails the journal (`RejectTouch`); and a call
that only flushes (`TouchNothing`). `Flushed` is `FlushReadOnlyCapture`, in every
action whose code calls it. An undo takes the oldest copy of a cell and skips a
large block an older checkpoint covers (`Skipped`). The AVL index is the set of
blocks it finds; the arena is the function from covered cells to copies.
`Clear` and `Reset` are one action.

Two preconditions are the title's. It writes a cell only after it touched its
block in the open checkpoint, and not while a capture window is open: that is
the journal's contract. And it calls `AddFloatPairToSnapshots` only if the
checkpoint just before the corrected ones holds the pair too: the code corrects
the copies of later checkpoints, and an older checkpoint with no copy of its own
would restore the corrected value.

### Calibration

| Module | What it is |
|---|---|
| `AdonisStartup` | `AdonisStartup.hpp`: the handlers of one player |
| `AdonisConnection` | `AdonisConnection.hpp` on each side of a transport, up to the gate of the game |
| `AdonisConnectionProofs` | the theorems: nobody commits alone, the delay covers the path, no failure without a cause |
| `MCAdonisConnection` | small instances |

A handler maps the state of a player to its next state and what it sends
(`Sends`): the controls of the reliable lane, the probes and echoes of the input
lane. `Deadlines`, `AfterRetry` and `Tick` are the three parts of `Tick` in the
order of the code: the deadlines and the state of the transport, the host's new
attempt, and what is sent. `Receive` is `Receive`, from the packet's session and
contract down to who may say what. Slots of probes are numbers, `sent` and `rtt`
the slots that are not `Unsent`. A packet is a record with a field for what any
kind carries, zero or `None` where its kind has no use for it. `late` is the deadline that has passed when a player runs, `due` the timers
that are due, and a link is what the transport says of itself: open, closed,
recovering, suspended (the page is hidden) or failed.

`AdonisConnection` has `Pump` in two actions, a packet (`PumpReceive`) and the
`Tick` behind them (`PumpTick`), `Poll` in two (`PollPending`, `PollWire`), and
`Apply`. The channel it gives the transport to is reduced to its gate, HELLO, READY
and one input; `SessionChannel` has the rest. A player may begin, apply and start
long before or after the other.

### Spectators

| Module | What it is |
|---|---|
| `SpectatorRun` | what a stream promises: the run that is published is the confirmed one, it only grows, and a viewer sees prefixes of it |
| `SpectatorStagePublisher` | a title and `SpectatorStagePublisher.hpp` |
| `SpectatorStream` | the publisher, its log, and a viewer: `SpectatorStageHistory.hpp`, `SpectatorStagePlayback.hpp` and the guard of `SpectatorStageView.hpp` |
| `MCSpectatorStream` | small instances |
| `SpectatorStreamProofs` | the theorems about the stream, and the refinement of `SpectatorRun` |

The world of a title, and of a viewer, is the sequence of inputs it has consumed;
the initializer of a stage is the world at its start. So `world` tells what the
viewer sees and `Len(world)` at which frame it is, while `playback.position` is
what the page says. `Publish` is resumable where a send fails, so each send is an
action with the phase the code keeps (`PublishCheckpoint`, `PublishInput`,
`PublishNode`), and the title executes, rolls back and confirms between them. A
refusal of `Record`, `NeedsCheckpoint` or `Publish` makes the title retire the
stream, as the comments of the publisher ask. A title need not put the input into
its record; then `Publish` asks it (`AsksTitle`), and it may refuse whenever it is
asked, because what it reads from (its core's ring) may have moved on while sends
failed: `PublishFails` has the `InputUnavailable` of the code. That a title which
still has the input gives it is not assumed.

`Step` of the playback is `Restore`, then `Reach` or `PlayTick`, one tick each: a
budget of more ticks is more steps. The page pauses, plays, seeks and returns to
live at any time (`Control`).

### The transport

| Module | What it is |
|---|---|
| `PeerRecovery` | the handlers of `BrowserPeerTransport.cpp`, as operators on one record |
| `BrowserPeerTransport` | one player's transport; every callback of the browser an action |
| `BrowserPeerTransportProofs` | the invariant of recovery and of the queue, proved |
| `MCBrowserPeerTransport` | small instances |

The record has the members of the JavaScript object and of its one peer. What
JavaScript keeps outside of them is there too: the timers that were armed, of which the
peer holds at most one (`held`), the watchdogs, of which it may hold the last (`watched`), the awaits of a snapshot or an offer, and the
conversions of Blobs, each in the order of its start. `clearPeerRecovery` clears
the timers the peer holds; a timer that was overwritten fires all the same. Every
`await` ends an action and its continuation is another (`Snapshot`, `Check`,
`Offer`, `Convert`). The times of packets are reduced to `quiet` (none for three
seconds), `heard` (one since the restart) and `since` (one since the timer was
armed); a packet in the same millisecond as a restart counts as later.
`BecomesQuiet` may come at any time once input was sent. "The game is on" is taken
to hold from then on.

## 4. The runs

| Run | Instance | Distinct states | What it shows |
|---|---|---|---|
| `peer_wrap` | 2 players, rings of 6, 7 frames, window 1 | 389,500 | past the wrap-around of both rings, confirmed history has no hole, and an honest packet is refused only if its slot went to a newer frame |
| `peer_three` | 3 players, delay 1, capture lead 1, window 2, equivalent inputs | 396,892 | no misprediction survives, exports are final, each rollback asked for is possible; the batch is the loop |
| `net_session` | 2 peers, delay 1, 3 frames | 118,316 | no honest packet ends a session, no acknowledgement runs ahead, the session implements `Lockstep`, the observed peer is a `RollbackPeer` |
| `net_live` | 2 peers, no delay, 2 frames | 22,068 | every frame is confirmed and read, every input acknowledged |
| `session_safe` | 2 peers of one build or two, one fast link, 2 generations | 790,144 | mutual start, true frontiers, no early retirement, no failure without a cause |
| `session_live` | 2 peers, dead fast lanes, 2 generations | 68,528 | every session retires, every echo ends |
| `journals` | 3 cells, 2 checkpoints, 3 overlapping blocks; a pool of 2 parts | 227,880 | both journals restore what whole copies would, and the same pool |
| `adonis` | 2 players of one configuration or two, 2 attempts, 1 probe, 1 fault of 13 kinds | 199,066 | nobody commits alone or to another delay, nothing of a discarded attempt counts, no failure without a cause, the calibration ends |
| `spectator` | a ring of 2, 3 frames, stages and bosses, 1 viewer, 2 controls | 259,097 | a viewer accepts all of the stream and sees prefixes of it, the page shows the world of its position, all seeks arrive, all of the run is shown unless the stream is given up or paused, and it is given up only by a title that ran ahead by the ring or that is asked for an input it did not record |
| `transport` | 1 peer, 1 restart, a queue of 2, 1 fault, 2 outside events | 372,402 | the queue is counted, a restart is watched, the end is quiet, recovery does not go on for ever, a dead path is reported |
| `peer_late_copy` | 2 players, rings of 6, 8 frames | violation | finding 1 |
| `net_late_bootstrap` | 2 peers, startup frames replaced at any time | violation | finding 2 |

Deadlock is not checked in the runs of peers, sessions and networks: with every
frame played and every session retired the bounded system stops, as the program
does. The journals never stop and are checked.

### Bounds

* `History`. Every bound of the code on frames is relative to it, so a ring of 6
  shows the wrap-around a ring of 256 has. `peer_wrap` captures one frame more
  than the ring holds, so that frame 6 takes the slot of frame 0 while late
  packets still carry frame 0. A ring smaller than about
  `3 * MaxRollback + 2 * InputDelay + 2 + 2 * CaptureLead` lets a *recent*
  packet meet a taken slot: `RefusedOnlyIfEvicted` says precisely that this is
  the only reason for a refusal. The shipped values are far above it.
* `MaxFrame`. `peer_three` has 3 frames with a window of 2: a misprediction at
  each place of the window, corrected in either order, with a second rollback
  asked for before the first one is done.
* `Pressable`. One remote player chooses between two inputs; the local one
  presses the neutral one. A prediction is thus right or wrong in every
  combination; more values add no case, since the core only compares.
* `Capacity` bounds the packets in flight per link. With 1 a packet may be
  lost, repeated, and arrive long after newer acknowledgements; overtaking needs
  the arbitrary environment, which `RollbackPeer` has.
* `SessionChannel`: one frame per session (the terminal one, where all the
  hazards of retirement are), two generations, one fault, at most `Capacity`
  messages on a link, one fast packet on a link and no second copy of a reliable
  message under way. The timers of a peer expire together in both instances.
  Only `session_safe` lets `Pump` postpone a send (`Defers`): that a postponed
  acknowledgement goes out in the end is not checked.
* Journals: 3 cells and blocks of 1 and 2 cells make every overlap of two
  blocks; 2 checkpoints make the full ring and the skip across checkpoints.

* `adonis`: with one slot for probes and one counted echo, losing one probe or one
  echo makes a measurement unusable, and a second attempt must repair it. One fault
  cannot exhaust the retries: the branch that gives up for that reason is reached
  by no run, those for a missing peer, the budget, the deadline and the link are. One
  deferred HELLO fills the queue. Half of the round trips are just above one
  frame and above nine, the two boundaries of the choice. Timers are due
  together or one at a time.
* `spectator`: with a ring of 2 a title that is one frame ahead of the confirmed
  input and executes again from one frame before the wrong one meets overwritten
  records, and a run of 3 frames has up to 4 stages, each with a boss at its end. The buffer of 1
  frame tells the live edge from the received one; two uses of the page are a seek
  interrupted by another, or a pause and a seek while paused.
  All three causes of a stream that is given up occur with this ring: a frame executed at the
  distance of the ring, an overwritten record before the first unpublished frame, and an
  input that is asked for. So short a ring allows the first two often; that there is no
  other cause when the ring is longer than the window is what the theorem adds.
* `transport`: one restart without an answer where the code has two, so that the
  second request finds it exhausted. `MaxTasks` bounds the timers and awaits a
  callback may add, not what they start in their turn. Two events are two changes
  of the states a connection reports, or a change and a request of the other player. Packets of one
  or two bytes fill the queue by number and by size. Blobs arrive over the relay:
  the channels of RTC are set to array buffers.

### Fairness

`net_live`: the title's loop (`Capture`, `Simulate`, `Rewind`, `Export`) and the
resend timer run for ever, hence weak fairness of each; a packet that is
under way again and again is received once, because packets that the fast lane
loses are repeated on the reliable repair lane, hence strong fairness of
`Receive`. Losing and copying are never obliged.

`session_live`: every peer pumps for ever (weak fairness of `PumpIdle` with all
timers due), the title captures, retires and begins the next session when it can,
and the reliable lane delivers its oldest message (weak). The fast lane delivers
nothing. One strong assumption: a HELLO that keeps coming is received now and
then at a moment when the control timer is due. The code justifies it:
`nextControl_` is restarted only by what this peer sends itself, so it expires
however many HELLOs arrive. 

`adonis`: the pump of every player runs with all timers due and on time, the game
sends when it may, both lanes deliver what is not lost, a disturbed link comes
back, a title applies what is committed (all weak). Faults are never obliged and
are bounded, so `CalibrationEnds` says what happens after the last one. The last
alternative of it is the one way in which a player is told by its own deadline
only: see observation 1 in section 6.

`spectator`: the title executes and its core confirms, a failed send is repeated
until the stream is given up (which `RunIsShown` names as an alternative),
the relay delivers, the page steps (all weak).

`transport`: the health timer ticks, timers fire and awaits end (`Later`, which
is weak as a whole: what fires first is not assumed), the game sends input, packets
arrive while there is a path, and none for three seconds when there is none. No
fairness is asked of the sockets. `RecoveryEnds` and `DeadPathIsReported` speak of a
connection whose input channel is open, because a channel that closed has ended
the session already.

## 5. Proofs

### One peer (`RollbackCoreProofs`, `RollbackPeerProofs`)

Proved for every number of players, every set of inputs, every prediction
function, history size, window, delay and lead that `CoreAssumption` and
`PeerAssumption` allow: the bounds `Reset` checks, and
`MaxRollback + InputDelay + CaptureLead < History`.

* `Invariance`: `Spec => []IInv`
* `TypeCorrect`: `Spec => []TypeOK`
* `MispredictionsAreRequested`: `Spec => []ConfirmedFramesReconciled`
* `ExportsNeverChange`: `Spec => []ExportsAreFinal`

`ConfirmedFramesReconciled` is not inductive. A frame becomes confirmed when the
frontier passes it, and the frontier may pass samples that arrived earlier, out
of order. So `Reconciled` speaks of every sample *present* in a ring too. To
know that a sample that arrives now is the one the decision is compared with
later, the ring must hold what was pressed (`SamplesHonest`), and a decision
that was not a prediction must have used it (`DecisionsHonest`). To know that a
rewind forgets nothing, no decision is newer than the simulation (`Ordered`). A
local input is never predicted (`LocalNeverPredicted`), else a later capture
would have to ask for a rollback. `ExportsAreFinal` also needs that a pending
request is never before an exported frame (`RequestAfterExports`): a frame is
exported only if it is confirmed and reconciled, and later packets then find its
decision right.

`RollbackCoreProofs` has what the operators of the core do: types, what a store
keeps and drops in a ring, that the frontier stops at the first missing sample,
and that a request is the earliest contradiction. `RollbackPeerProofs` has one
lemma per action; the two that receive input share `ArrivalInvariant`.

### The windows of one peer (`RollbackPeerProofs`, second part)

Under the same assumptions:

* `WindowInvariance`: `Spec => [](IInv /\ WInv)`
* `NoConfirmedInputIsLost`: `Spec => []NoHoleInConfirmedHistory`
* `RollbackSucceeds`: `Spec => []RollbackIsPossible`
* `HonestRefusalIsEviction`: if `WideRing`, `Spec => []RefusedOnlyIfEvicted`
* `ShortSessionRefusesNothing`: if `WideRing` and `MaxFrame <= History`,
  `Spec => []NothingIsRefused`

`WInv` is about distances, where `IInv` is about values. A slot holds only frames
of its own residue, a slot under a frontier holds a frame at least as new as the
confirmed one, and above `peak - MaxRollback` exactly it (`RingsSound`); so a
confirmed frame is dropped only when the title has no snapshot of it any more.
That is kept because nobody captures further ahead than the ring is wide
(`CapturesBounded`), and because the title stops predicting `MaxRollback` frames
behind a frontier (`WithinSnapshots`). A pending request lies in that window
(`RequestInWindow`), and the decisions of the window are still in their ring
(`DecisionsKept`), so that `CanRewind` accepts it.

`WideRing` is `3 * MaxRollback + 2 * (InputDelay + CaptureLead) + 2 < History`.
With the shipped 256 slots it leaves room for a window of 80 frames. In a narrower ring a *new*
sample of a remote player that is ahead may meet a slot that is still occupied, which
is a refusal of another kind; the other theorems need no such ring. In a session
that is not longer than the ring no two frames share a slot, so nothing is ever
evicted and no honest packet is refused; in a longer one finding 1 remains.

### The loop over a packet (last parts of both modules)

* `BatchIsTheLoop`: `Spec => []BatchIsSampleLoop`

The model stores the samples of an accepted packet at once and advances the
frontier once; the code does both after each sample. `LoopStep` is one round of
the loop: it takes the core after some samples of the packet to the core after
one more. Three things could go wrong in between. A sample could take the slot
of an earlier one of its packet: packets are shorter than the ring. The
frontier could pass a frame that a later sample then drops: `Collides` refuses a
packet that would drop a frame the window needs, and the frontier is at most
`MaxRollback` behind the simulation (`WithinSnapshots`), so every frame after
it is in the window (`RunKept`). And the model could advance a frontier where
the code stores nothing: `FrontiersStop`, an invariant of its own, says that the
frame after a frontier is never present already. `SamplesOneByOne` is a recursive
function; that there is exactly one is shown by the cores after each number of
samples, which satisfy its equation, and by the least number at which another
function could differ (`LoopRuns`).

### A session of peers (`RollbackNetProofs`)

* `AcknowledgementsAreTrue`: `Spec => []AcksAreConfirmed`
* `SamplesTravelUnchanged`: if `BootstrapEarly`, `Spec => [](AckInv /\ NetInv)`
* `SessionImplementsLockstep`: if `BootstrapEarly`, `Spec => ImplementsLockstep`
* `EveryPeerIsARollbackPeer`: if `BootstrapEarly`, `Spec => ImplementsRollbackPeer`
* `EveryPeerReconciles`: if `BootstrapEarly`, always
  `ConfirmedFramesReconciled`, `ExportsAreFinal`, `RollbackIsPossible` and
  `NoHoleInConfirmedHistory` of the observed peer
* `EveryRefusalIsEviction`: if also `WideRing`, `Spec => []RefusedOnlyForEviction`
* `ShortSessionNeverFails`: if also `MaxFrame <= History`,
  `Spec => [](Observer \notin failed)`

For every number of players, and a wire that loses, repeats and reorders. `NetInv`
follows a sample from its capture over the wire into the rings of the others. The
refinement then needs one more fact: a startup frame that may still be replaced
was played by nobody (`AmendIsEarly`). A title that replaces one later breaks
`SamplesTravelUnchanged`: that is finding 2, and why these theorems assume
`BootstrapEarly`.

The last four compose the parts. `RollbackPeerProofs` speaks of one core in an
arbitrary honest environment; `NextObserved` shows, action by action, that the other
peers and the wire are one: their captures stay within `RemoteLead` of the
observed peer's, because they need its inputs to simulate (`OthersAhead`), and a packet under way is
a short window of what its sender captured (`PacketIsWindow`) that acknowledges a
captured frame (`AckIsOfACapture`). This needs `BoundsInv`: nobody simulates
further ahead of an input than `MaxRollback`. The theorems about one core are then
cited through the instance `Observed`, whose assumptions follow from `NetAssumption`
(`ObservedAssumption`). The lemmas `Same...` say that the operators of the core are the same in the
instances; the provers see copies. `WideRing` holds of the shipped 256 slots.

### Sessions (`SessionChannelProofs`)

For every set of players and links, every contract, every number of frames and
generations, and whatever the fast lanes lose, copy and reorder:

* `SessionInvariance`: `Spec => [](TypeOK /\ SessionInv)`
* `StartsAreMutual`: `Spec => []StartIsMutual`
* `FrontiersStayTrue`: `Spec => []FrontiersAreTrue`
* `HistoryOutlivesItsUse`: `Spec => []HistoryIsDroppedWhenDone`
* `HonestPeersDoNotFail`: `Spec => []NoSpuriousFailure`

`SessionInv` has a part for one peer (`Consistent`: a flag of the handshake is
never ahead of the one it needs, and a retired peer has everything), one for each
pair (`Related`), and one for each message on a link (`Truthful`). The heart of
`Related` is that a peer is at most one generation ahead of another, and ahead only
if it knows that the other has all its input, while the other knows nothing yet of
the new one. A message never speaks of a session its sender has not reached, claims
no more input than it captured, and acknowledges none its receiver has not
captured. A READY is preceded by its HELLO on the reliable lane (`HelloFirst`);
this is why a break may lose only the newest messages. `Released` says that
a peer which heard HELLO from all it still owed an acknowledgement has dropped the
previous history. From these, what a receiver calls `InvalidRetirement` or
`MalformedPacket` cannot be sent by an honest peer, and a `ContractMismatch` has its
cause. Each lemma about a call follows the record of one peer through the steps of that call
(`ArrivalKeeps`, `Receives`, `TailKeeps`), and what it leaves on the links at
its end (`PostKeeps`).

### The journal (`RollbackJournalProofs`)

Proved for every memory, every set of blocks, every limit, and with coalescing on
or off:

* `JournalTyped`: `Spec => []TypeOK` (the run checks the limit of the ring by the refinement)
* `JournalSavesInTime`: `Spec => []NothingIsPutOffForEver`
* `JournalImplementsSnapshots`: `Spec => ImplementsSnapshots`

The refinement maps checkpoint i to the memory it would restore: for each cell the
oldest copy of the checkpoints from i on, and the cell itself where there is none
(`Image`). The inductive invariant `JInv` says that a covered byte is unset only
in blocks put off in the newest checkpoint (`BytesOK`), that none of the bytes of
those blocks is set (`PutOffOK`, so that a flush copies exactly what is missing and overwrites no
older copy), that a window is open only in an open frame (`WindowOK`), and that
checkpoints are in the order of their frames (`FramesOK`). Each action then
leaves every image as it is (`Touch`, a flush, the end of a frame), or makes the
step of `Snapshots`. The heart is `RestoredIsImage`: the copies an undo really
makes, newest checkpoint first and without the skipped blocks, leave the oldest
copy in every cell.

The same for the pool, for every number of slots, parts and checkpoints:

* `PoolJournalImplementsSnapshots`: `PoolSpec => PoolImplementsSnapshots`

Checkpoint i maps to what `PoolRestored(i)` would leave. `MovedImage` is used by
every action: if the checkpoints move down, save more (the values now in the pool), and only saved
parts are written, each image stays. After an undo the copies that
are forgotten are the values the pool holds, so older images stay too
(`PoolUndoStep`). The invariant `PoolInv` says that an open frame has a
checkpoint and that the frames of checkpoints are disjoint and increase, so that
an undo finds one checkpoint at most.

Of a title that drives both with the same frames, touches, writes and undos (`Journals`):

* `TheJournalsAgree`: `BothSpec => []JournalsAgree`

Neither journal's undo is compared with the other's: one copies newest first and
skips what older blocks cover, the other copies oldest first. `BothInv` joins `JInv` and
`PoolInv` and says that both have the same checkpoints in the sense of the two refinements
(`SameCopies`: the same frames, and the pool's image is the first cells of the
memory's). Each call makes the same step of `Snapshots` in both, or none; the one
checkpoint whose frames hold the target of an undo has the same place in both.
`SharedAssumption` says that the pool fits the memory and that the rings and
frames are the same.

### The calibration (`AdonisConnectionProofs`)

For every number of players, every number of probes, counted echoes and retries,
every mix of configurations, and whatever is lost, late, closed or left over:

* `CalibrationIsSound`: `Spec => []CInv`
* `CommitsAreUnanimous`: `Spec => []CommitIsUnanimous`
* `ChoicesCoverThePath`: `Spec => []ChoiceCoversThePath`
* `NoFailureIsSpurious`: `Spec => []NoSpuriousFailure`

The assumptions are the ranges `Begin` checks (`IsSetup`), that a round trip is at most a
second, and that what is left over comes from a session with another number
(`StartupAssumption`, `ConnectionAssumption`).

Two players commit to the same delay because each computed it from the same
reports. No variable says so: a report is overwritten when an attempt is discarded,
while packets of that attempt are still under way. So `CInv` speaks of a *log*,
`log[p][a]`, the report that p published in its attempt a, and asks only that there is
one that fits: what a player holds now, of itself and of others, agrees with it
(`KeepsLog`, `Recorded`), a summary under way carries its entry, and a bargain under
way the choice that follows from the entries of its attempt (`Agreed`). The log only grows:
a report is published once in an attempt, and an attempt never comes back. Every
handler keeps the log or adds one entry (`Handled`).

The rest of `CInv` is who knows what. No attempt is ahead of the host's, an accept the
host has counted still stands (`HasAccepted`), because a client that takes it back
can do so only in an attempt after the host's, and there is none; a client
is committed only if the host is, in that attempt (`CommitIsHosts`). A packet
under way is stale, of a retired session, or says only what its sender did
(`Truthful`). With that, `Committed` at two players gives the same attempt, the same
entries of the log and the same delay. `ChoicesCoverThePath` is then arithmetic on
`Choose`.

`GInv` is for players configured alike, and about the game behind the calibration. Its
heart is `HeardInOrder`: no READY of a player is taken before its HELLO, neither
among the greetings that wait (`pending`) nor on the link, and a player that
is ready, or sends input, has applied the delay, so everybody has committed
(`FromApplied`). A greeting that finds the queue full fails the connection; that is the
one way for the order to be lost, and the one failure the property allows.

The facts are stated of explicit states (`Sound`, `Fine`), because a handler of the
code does one thing after another: a deadline, the restart, what is sent. The lemmas
follow it step by step (`HandledFurther`), and the lemmas about the links say once what
sending, taking and losing leave (`Posted` puts at most four packets on a link).

### The spectator stream (`SpectatorStreamProofs`)

For every ring, window and replay depth, every way in which stages and bosses follow
from the inputs, every buffer and every length of history, and however many controls
are used. The one assumption besides the ranges is that `Nothing` is no world:

* `StreamInvariance`: `Spec => []StreamInv`
* `ViewerAcceptsTheStream`: `Spec => []HistoryAcceptsTheStream`
* `ShownWorldIsAtPosition`: `Spec => []WorldIsAtPosition`
* `PlaybackKeepsItsBuffer`: `Spec => []PlaybackStaysBuffered`
* `GivingUpHasACause`: `PublisherSpec => GivenUpForACause`, and
  `StreamGivenUpForACause` for `Spec`
* `StreamImplementsRun`: `Spec => ImplementsRun`

`StreamInv` has three parts, and each is the premise of the next. `PubInv`: what is
executed and not yet published is in the ring as the title would record it now
(`PendingOK`), a published frame that is still there is as it was confirmed (`PublishedOK`),
a frame whose publication has begun has not changed (`BegunOK`), and the record
before the first unpublished one is there or was overwritten by a newer one
(`PredecessorOK`), and none is further ahead than the ring is long (`WithinRing`).
From these, `NeedsCheckpoint` asks for an initializer
exactly where a stage begins (`NeedsWhereFresh`), `Publish` never finds a record or an initializer missing
and fails only where it asks the title for an input (`PublishFailsAsking`), and
`Record` and `NeedsCheckpoint` refuse only a title that ran ahead by the ring
(`RecordAccepted`, `MissingIsAhead`). `PubInv` needs nothing of the log or the viewer, so what
gives a stream up is proved of `PublisherSpec`, which `Spec` implements. `LogInv`: every packet tells the truth of
`TheRun`, follows the frame before it, and names the checkpoint that rules it
(`StreamOK`); the end of the log is where the publisher is (`TailOK`). So what comes
next is accepted by a history that read the log up to there (`DeliveredFacts`).
`ViewerInv`: the segments of a history are parts of the run without a gap between
them (`HistoryOK`), it agrees with the log (`ReadsLog`), and unless a
restore is due the world is that of the position, in the segment that was entered
last (`InPlace`). A tick therefore stays in that segment, or enters a later one at
its first frame (`PlayTickKeeps`): the failure the code has for anything else is
never reached.

The refinement reads the published run back from the log (`PublishedRun`); `Carries`
says that it is `TheRun`. A confirmed input is `Confirm`, a sent input `Extend`, a
restored checkpoint or a tick `Show`, and everything else stutters.

### Recovery (`BrowserPeerTransportProofs`)

Proved for every limit, and for every order of callbacks, timers and
continuations, without a bound on how many are under way:

* `RecoveryInvariant`: `Spec => []IInv`
* `TheEndIsQuiet`: `Spec => []EndIsQuiet`
* `RestartsAreWatched`: `Spec => []RestartIsWatched`
* `RestartsEndForACause`: `Spec => RestartEndsForACause`
* `TheQueueIsCounted`: `Spec => []QueueIsCounted`

`IInv` says of the state what every handler keeps (`Good`): the three properties,
that a held watchdog is among the armed ones, so that clearing it leaves a number, and
that only an overflow fails a transport and closes it with that
(`FailedIsClosed`): `fail` does nothing to a transport that has failed, and would
otherwise leave its recovery behind. The bytes of a queue are a recursive function
(`Bytes`): `SumsExist` and `BytesAre` show that its value is the last of the partial sums,
by the least index at which they could fail, and from that follow
what an enqueued, a polled and a converted packet change (`BytesOfMore`,
`BytesOfTail`, `BytesOfRest`). A converted packet fits the queue because it counted
while it was pending (`ConversionEndsIsGood`). Most handlers change members these facts do
not mention (`Unchanged`); the others have one lemma each, the halves on both
sides of an `await` separately. No fact about timers is needed: one that was
overwritten may fire at any time. `RestartsEndForACause` follows the same handlers: while a
restart is in flight no second one begins (`RestartsWait`), so a step leaves it (`Lasts`) or is one of
the four that end it. The bounds of the model are the
guards `Fault`, `Event` and `Started`, which the proof does not use.

### Only model-checked

* Liveness (`EveryFrameIsPlayed`, `EveryInputIsAcknowledged`,
  `EverySessionRetires`, `EchoEnds`, `CalibrationEnds`, `SeekArrives`,
  `RunIsShown`, `RecoveryEnds`, `DeadPathIsReported`): fairness and ENABLED are beyond the prover.
* `NoHonestFailure`, that *nobody* fails: `ShortSessionNeverFails` is this of the one
  peer `Observer` stands for, and a constant cannot be quantified inside a proof. The
  theorem for each peer in turn gives it, for sessions that are not longer than
  the ring.

## 6. Findings

1. **A late copy of a long confirmed sample may end the session**
   (`src/src/netplay/NetplayCore.cpp:507`, run `peer_late_copy`).
   `ApplyInputPacket` tells an expired sample by its distance from the last
   simulated frame. If the remote player is ahead, its frame
   f + `INPUT_HISTORY_SIZE` may own the slot of f while f is not expired; a copy
   of f then meets a newer occupant and the packet is refused, which
   `SessionChannel` turns into a failure. `src/README.md:153` and the comment at
   `NetplayCore.cpp:502` call such retransmissions benign. With 256 slots the
   copy must be about 256 frames late, and `RefusedOnlyIfEvicted` shows that
   there is no other refusal.
2. **A startup frame may be replaced after it was sent**
   (`src/src/netplay/NetplayCore.cpp:105`, run `net_late_bootstrap`).
   `SetLocalLeadInInput` refuses a replacement after a simulation or an
   acknowledgement, as `NetplayCore.hpp:80-81` says, but a packet with the
   neutral frame may already be under way: its receiver then sees two values for
   a confirmed frame and fails. The other runs let titles replace startup frames
   before they capture (`BootstrapEarly`), which is how the call is meant.

### Observations

No run checks these against a sentence of the repository; they were met while
modelling, and the models contain them.

1. **A client may wait for its own deadline** (`AdonisStartup.hpp:65` and `:178`).
   If a client's measurement deadline passes while the Commit is under way, it is
   `Retrying` and ignores the Commit; the committed host ignores its
   RetryRequest. The client stays so until the startup timeout of 90 seconds. That is
   the last alternative of `CalibrationEnds`.
2. `src/docs/ADONIS-STARTUP.md:59-61` says that the host needs every commit
   acknowledgement before it is committed; `AdonisStartup.hpp:134` commits it when
   the Commit is sent. The document also describes the earlier packet versions.
3. **The oldest frame of a full ring** (`SpectatorStagePublisher.hpp:83`). When the
   title has run ahead by the whole ring and rolls back to the first unpublished
   frame, the record of the frame before it is overwritten, and `NeedsCheckpoint` says
   `MissingPredecessor`, one frame earlier than `Record` would refuse.
   It is the second case of `RanAhead`.
4. **ICE alone may end a restart** (`src/src/netplay/BrowserPeerTransport.cpp:241`).
   The recovery timer clears the recovery, with a restart in
   flight and its watchdog, when neither state is disconnected or failed any more;
   it does not look at `restartInFlight`. A timer is armed when a restart begins, if
   the other player asks for one meanwhile, or is armed during a restart, since
   `schedulePeerRecovery` does not test `restartInFlight` again after its await
   (`:231`). So a restart may end of which nothing was received. The comment
   at `:301-302` says that ICE state alone cannot clear a recovery attempt, and
   `src/tests/browser-peer-recovery.test.mjs:94` says it of `handlePeerConnectionState`,
   of which it is true. `RestartEndsForACause` says both: a restart in flight
   ends with a packet, with the session, with a watchdog, or by that timer. It is
   proved (`RestartsEndForACause`); the timer takes three events from outside, one more than the
   run `transport` has, so no run reaches that case. `RecoveryEnds` says only that a
   recovery ends. A path that is dead is still reported, by the health timer
   (`DeadPathIsReported`).
5. Smaller ones in the transport: a signal socket lost before the relay opens leaves
   the route open to the server alone, because `onclose` has cleared what `:469` tests; a
   channel that closes after `rtc-ready` and before `route=rtc` is processed is not reported afterwards; a queued
   restart request survives a recovery by a packet and is sent on reconnection; a
   `peer-disconnected` that waits for the socket is lost if that reconnection fails.

## 7. Not modelled

Planned (see the table in section 2): replays, the sparse pool capture and snapshot
policy, keyboard ownership and the save mirror, and the numeric pacing policies.

Inside the modelled components:

* `SessionChannel`: a transport that is recovering or disconnected, backpressure,
  the phase samples of Adonis, the receive budget, and the limit of 32 redundant
  inputs, which `RollbackCore` has. The confirmed-input watchdog is `GiveUp`,
  which may come at any time.
* `RollbackCore`: configurations `Reset` refuses, and a title that proposes an
  equivalent sample for a frame it already confirmed
  (`SubmitEquivalentRemoteInput` takes the slot before it looks). No run sets
  `AllowPrediction` to FALSE. A packet is refused or committed as a whole, as by
  the two loops of `ApplyInputPacket`; that the first loop commits nothing is not
  checked.
* Adonis: bytes and the validity rules of packets, the statistics of a link beside
  its percentile, the status of the page, `AdonisTiming.hpp` (advice in microseconds).
* Spectators: the bytes of events, the report of `SpectatorStageView`, the limit on
  bytes of a history, `SpectatorStageScalars.hpp` and a record or event that cannot be encoded, a restore or a tick that fails
  (it ends the viewer).
* Transport: more than one peer, the spectator's own transport and what a host sends
  to spectators, backpressure of the repair lane, path statistics for display, a
  send that throws.
* Journals: the move of copies when an arena grows, bytes and alignment, the AVL tree as a tree, statistics.

Left out for good: the wire codec (bytes; the models exchange decoded packets and
keep its limits on counts), `WebSocketTransport` (flags around browser
callbacks), clock filters in microseconds, the practice tool's widgets, audio and
text (presentation), test kits and tools.

## 8. Running it

    tlc -workers 2 -config journals.cfg MCJournals
    tlapm RollbackPeerProofs.tla

The theorems are in the eight modules whose names end in `Proofs`.

Each entry of "runs" in `PROJECT.json` names a module and its configuration. The
longest runs take about three minutes on two cores.
