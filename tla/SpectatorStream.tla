--------------------------- MODULE SpectatorStream ---------------------------
(***************************************************************************)
(* The publisher and one viewer of its stream: what the viewer retains     *)
(* (SpectatorStageHistory.hpp), how it is played back                      *)
(* (SpectatorStagePlayback.hpp), and the controls the page offers          *)
(* (SpectatorStageView.hpp).                                               *)
(*                                                                         *)
(* The relay keeps the stream in order; it sends a viewer that joins what  *)
(* it retains from some checkpoint on, a Bootstrap, and then what follows. *)
(***************************************************************************)
EXTENDS SpectatorStagePublisher

CONSTANTS
  BufferFrames,  \* frames playback stays behind what was received
  MaxFrames,     \* inputs a history holds
  MaxControls    \* bound: uses of the page's controls

ASSUME StreamAssumption ==
  BufferFrames \in Nat /\ MaxFrames \in Nat /\ MaxControls \in Nat

VARIABLES
  viewer,    \* what the viewer has of the stream: the history
  playback,  \* and how it plays it
  world,     \* the inputs behind the native world it shows, or Nothing
  controls   \* how often the page was used

viewerVars == <<viewer, playback, world, controls>>
vars == <<pubVars, viewerVars>>

---------------------------------------------------------------------------
(* SpectatorStageHistory. *)

EmptyHistory ==
  [joined |-> 0,           \* where in the log the relay began, 0 before
   received |-> 0,         \* how far in the log it is
   segments |-> << >>, next |-> 0, serial |-> 0, frames |-> 0,
   ended |-> FALSE, refused |-> FALSE]

LastOf(h) == h.segments[Len(h.segments)]
Refuse(h) == [h EXCEPT !.refused = TRUE]

AcceptsEvent(h, e) ==
  IF h.segments = << >> THEN e.kind = "checkpoint"
  ELSE /\ ~h.ended /\ e.serial > h.serial /\ e.frame = h.next
       /\ e.kind # "checkpoint" => e.stage = LastOf(h).stage
       /\ e.kind = "checkpoint" => e.frame > LastOf(h).frame
       /\ e.kind = "node" => e.checkpoint = LastOf(h).serial

AcceptEvent(h, e) ==
  LET last == Len(h.segments)
      kept == [h EXCEPT !.serial = e.serial]
  IN  CASE ~AcceptsEvent(h, e) -> Refuse(h)
        [] AcceptsEvent(h, e) /\ e.kind = "checkpoint" ->
             [kept EXCEPT !.next = e.frame,
                          !.segments = Append(@,
                             [frame |-> e.frame, stage |-> e.stage,
                              serial |-> e.serial, state |-> e.state,
                              inputs |-> << >>, nodes |-> << >>])]
        [] AcceptsEvent(h, e) /\ e.kind = "node" ->
             [kept EXCEPT !.segments[last].nodes = Append(@, e.frame)]
        [] AcceptsEvent(h, e) /\ e.kind = "end" -> [kept EXCEPT !.ended = TRUE]

AcceptInput(h, packet) ==
  IF \/ h.segments = << >> \/ h.ended \/ packet.frame # h.next
     \/ h.frames >= MaxFrames
  THEN Refuse(h)
  ELSE [h EXCEPT !.segments[Len(h.segments)].inputs = Append(@, packet.input),
                 !.next = @ + 1, !.frames = @ + 1]

(* Mutant: the earliest segment that reaches a frame. *)
LocateEarliest(h, frame) ==
  LET reach == {i \in DOMAIN h.segments :
                  /\ frame >= h.segments[i].frame
                  /\ frame - h.segments[i].frame <= Len(h.segments[i].inputs)}
  IN  IF reach = {} THEN 0 ELSE Min(reach)

(* Locate: the latest segment that reaches a frame, 0 when there is none.  *)
Locate(h, frame) ==
  LET reach == {i \in DOMAIN h.segments :
                  /\ frame >= h.segments[i].frame
                  /\ frame - h.segments[i].frame <= Len(h.segments[i].inputs)}
  IN  IF reach = {} THEN 0 ELSE Max(reach)

---------------------------------------------------------------------------
(* SpectatorStagePlayback. *)

NewPlayback ==
  [bootstrapped |-> FALSE, initialized |-> FALSE, restore |-> FALSE,
   restored |-> 0,   \* the serial of the restored checkpoint, 0 when none
   position |-> 0, target |-> 0,
   paused |-> FALSE, seeking |-> FALSE, following |-> FALSE,
   liveRequested |-> FALSE, failed |-> FALSE]

(* Mutant: the buffer is kept although the stream has ended. *)
EdgeOfALiveStream(h) ==
  IF h.segments = << >> THEN 0
  ELSE h.next - Min2(BufferFrames, h.next - h.segments[1].frame)

Edge(h) ==
  CASE h.segments = << >> -> 0
    [] h.segments # << >> /\ h.ended -> h.next
    [] OTHER -> h.next - Min2(BufferFrames, h.next - h.segments[1].frame)

(* Mutant: going back in the segment that is restored restores nothing. *)
MustRestoreSerialOnly(s, segment, frame) ==
  s.restore \/ ~s.initialized \/ s.restored # segment.serial

MustRestore(s, segment, frame) ==
  \/ s.restore \/ ~s.initialized \/ frame < s.position
  \/ s.restored # segment.serial

(* Request: go to a frame, which stays the target whatever arrives. *)
Request(s, h, frame, live) ==
  [s EXCEPT !.restore = MustRestore(s, h.segments[Locate(h, frame)], frame),
            !.initialized = TRUE, !.target = frame, !.seeking = TRUE,
            !.liveRequested = live, !.following = FALSE, !.paused = FALSE]

Arrived(s) == [s EXCEPT !.seeking = FALSE, !.following = s.liveRequested]
PlaybackFails(s) == [s EXCEPT !.failed = TRUE]

---------------------------------------------------------------------------
(* The viewer's steps. *)

(* A viewer joins at a checkpoint the relay retains. *)
Join ==
  /\ viewer.joined = 0
  /\ \E i \in DOMAIN log :
       /\ log[i].kind = "checkpoint"
       /\ viewer' = [viewer EXCEPT !.joined = i, !.received = i - 1]
  /\ UNCHANGED <<pubVars, playback, world, controls>>

Deliver ==
  /\ viewer.joined # 0 /\ viewer.received < Len(log) /\ ~viewer.refused
  /\ \E e \in {log[viewer.received + 1]} :
       viewer' = [(IF e.kind = "input" THEN AcceptInput(viewer, e)
                                       ELSE AcceptEvent(viewer, e))
                  EXCEPT !.received = @ + 1]
  /\ UNCHANGED <<pubVars, playback, world, controls>>

(* Bootstrap: play from the last node of the last stage. *)
BootstrapTarget(h) ==
  IF LastOf(h).nodes = << >> THEN LastOf(h).frame ELSE Last(LastOf(h).nodes)

Bootstrap ==
  /\ viewer.segments # << >> /\ ~viewer.refused /\ ~playback.bootstrapped
  /\ playback' = Request([playback EXCEPT !.bootstrapped = TRUE], viewer,
                         BootstrapTarget(viewer), FALSE)
  /\ UNCHANGED <<pubVars, viewer, world, controls>>

(* The page: SpectatorStageView takes no control before the first world is *)
(* restored.                                                               *)
Usable ==
  /\ playback.bootstrapped /\ ~playback.failed /\ viewer.segments # << >>
  /\ playback.position >= viewer.segments[1].frame

Control ==
  /\ Usable /\ controls < MaxControls /\ controls' = controls + 1
  /\ \/ playback' = [playback EXCEPT !.paused = TRUE]
     \/ playback' = [playback EXCEPT !.paused = FALSE]
     \/ \E frame \in 0 .. Edge(viewer) :
          /\ Locate(viewer, frame) # 0
          /\ playback' = [Request(playback, viewer, frame, FALSE)
                          EXCEPT !.paused = playback.paused]
     \/ playback' = Request(playback, viewer, Edge(viewer), TRUE)
  /\ UNCHANGED <<pubVars, viewer, world>>

Steps ==
  playback.bootstrapped /\ ~playback.failed
    /\ (~playback.paused \/ playback.seeking)

(* Mutant: playback is taken to be at the frame that was asked for. *)
RestoredAtTarget(s, segment) ==
  [s EXCEPT !.restored = segment.serial, !.position = s.target, !.restore = FALSE]

RestoredAt(s, segment) ==
  [s EXCEPT !.restored = segment.serial, !.position = segment.frame,
            !.restore = FALSE]

(* Step, its first half: the checkpoint a request asked for. *)
Restore ==
  /\ Steps /\ playback.restore
  /\ \E segment \in {viewer.segments[Locate(viewer, playback.target)]} :
       /\ playback' = RestoredAt(playback, segment)
       /\ world' = segment.state
  /\ UNCHANGED <<pubVars, viewer, controls>>

Limit == IF playback.seeking THEN playback.target ELSE Edge(viewer)

(* The target is reached without a tick. *)
Reach ==
  /\ Steps /\ ~playback.restore
  /\ playback.position >= Limit /\ playback.seeking
  /\ playback' = Arrived(playback)
  /\ UNCHANGED <<pubVars, viewer, world, controls>>

(* Forward playback installs the checkpoint of a stage before its first    *)
(* input.                                                                  *)
EntersStage(segment) == playback.restored # segment.serial

(* Step, its second half: one tick.  More of them in one Step are more     *)
(* steps.                                                                  *)
PlayTick ==
  /\ Steps /\ ~playback.restore /\ playback.position < Limit
  /\ \E i \in {Locate(viewer, playback.position)} \ {0} :
       \E segment \in {viewer.segments[i]} :
         \E at \in {playback.position - segment.frame} :
           /\ at < Len(segment.inputs)
           /\ IF EntersStage(segment) /\ at # 0
              THEN /\ playback' = PlaybackFails(playback)
                   /\ UNCHANGED world
              ELSE /\ world' = Append(IF EntersStage(segment) THEN segment.state
                                                              ELSE world,
                                      segment.inputs[at + 1])
                   /\ \E s \in {[playback EXCEPT !.restored = segment.serial,
                                                 !.position = @ + 1]} :
                        playback' = IF s.seeking /\ s.position = s.target
                                    THEN Arrived(s) ELSE s
  /\ UNCHANGED <<pubVars, viewer, controls>>

Step == Restore \/ Reach \/ PlayTick

---------------------------------------------------------------------------
Init ==
  /\ InitPublisher
  /\ viewer = EmptyHistory /\ playback = NewPlayback
  /\ world = Nothing /\ controls = 0

ViewerNext == Join \/ Deliver \/ Bootstrap \/ Control \/ Step

Next ==
  \/ PublisherNext /\ UNCHANGED viewerVars
  \/ ViewerNext

(* A title goes on executing and the network confirming; sends are         *)
(* repeated until they succeed or the stream is given up, and the viewer's *)
(* page keeps running.                                                     *)
Fairness ==
  /\ WF_vars(TitleNext /\ UNCHANGED viewerVars)
  /\ WF_vars((Publish \/ Finish) /\ UNCHANGED viewerVars)
  /\ WF_vars(Join) /\ WF_vars(Deliver) /\ WF_vars(Bootstrap) /\ WF_vars(Step)

Spec == Init /\ [][Next]_vars
FairSpec == Spec /\ Fairness
---------------------------------------------------------------------------
(* Properties. *)

(* What the publisher sends in order, with repeats of failed sends, the    *)
(* history of a viewer accepts in that order: a boss node after its frame, *)
(* the checkpoint of the next stage after the node.                        *)
HistoryAcceptsTheStream ==
  viewer.refused => viewer.frames = MaxFrames

(* The native world of the viewer is always at the frame the page shows,   *)
(* and no control can bring playback to a frame it cannot build.           *)
WorldIsAtPosition ==
  /\ ~playback.failed
  /\ world # Nothing => Len(world) = playback.position

(* Playback stays behind the edge of what was received, except where a     *)
(* bookmark the viewer was sent to is beyond it.                           *)
PlaybackStaysBuffered ==
  /\ playback.position <= viewer.next
  /\ playback.following => playback.position <= Edge(viewer)

(* What is published is the confirmed run, whatever the title predicted,   *)
(* and is never amended; a viewer sees prefixes of it, whatever is rolled  *)
(* back meanwhile and wherever the page takes it.                          *)
InputsSent == {k \in DOMAIN log : log[k].kind = "input"}
SentAs(i) == {k \in InputsSent : Cardinality({j \in InputsSent : j <= k}) = i}
PublishedRun ==
  [i \in 1 .. Cardinality(InputsSent) |->
     log[CHOOSE k \in SentAs(i) : TRUE].input]
Run == INSTANCE SpectatorRun WITH run <- PublishedRun, shown <- world
ImplementsRun == Run!Spec

(* Every seek arrives, and so does a return to live. *)
SeekArrives == playback.seeking ~> ~playback.seeking

(* The whole run is published and, unless the viewer pauses it or the      *)
(* stream is given up, shown.                                              *)
RunIsShown ==
  <>[](\/ playback.paused \/ pub.retired \/ viewer.refused
       \/ pub.ended /\ playback.position = Len(confirmed))
=============================================================================
