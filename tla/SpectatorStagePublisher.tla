----------------------- MODULE SpectatorStagePublisher -----------------------
(***************************************************************************)
(* A title that predicts and rolls back, and the publisher of its          *)
(* confirmed run (src/include/eagler/netplay/SpectatorStagePublisher.hpp). *)
(*                                                                         *)
(* The world of the title is the sequence of inputs it has consumed: its   *)
(* stage and its boss registrations follow from them, and the initializer  *)
(* of a stage is the world itself.  A send that fails ends Publish, which  *)
(* goes on from there when it is called again, so that every send is a     *)
(* step of its own.                                                        *)
(***************************************************************************)
EXTENDS Integers, FiniteSets, SequencesExt

CONSTANTS
  Input,
  Stage(_),    \* the stage of the frame after a world
  Boss(_),     \* a boss was registered by the last tick of a world
  Capacity,    \* records of the ring
  Window,      \* frames a title may run ahead of the confirmed input
  Replay,      \* frames a rollback may go back behind the wrong one
  Nothing,     \* no initializer, no input of its own
  MaxFrame     \* bound: frames of the run

ASSUME PublisherAssumption ==
  /\ Capacity \in Nat \ {0} /\ Window \in Nat /\ Replay \in Nat
  /\ MaxFrame \in Nat
ASSUME NothingAssumption == Nothing \notin Seq(Input)

VARIABLES
  confirmed,  \* the inputs of the frames that are confirmed
  executed,   \* the world of the title
  pub,        \* the publisher
  log         \* what it has sent

titleVars == <<confirmed, executed>>
pubVars == <<confirmed, executed, pub, log>>

Min2(a, b) == IF a <= b THEN a ELSE b
Prefix(s, n) == SubSeq(s, 1, n)

---------------------------------------------------------------------------
(* The publisher. *)

INVALID_FRAME == -1

NewPublisher ==
  [records |-> [i \in 0 .. Capacity - 1 |->
                  [frame |-> INVALID_FRAME, stage |-> 0, initializer |-> Nothing,
                   input |-> Nothing, boss |-> FALSE]],
   next |-> 0, phase |-> 0, stage |-> 0, serial |-> 0, checkpoint |-> 0,
   ended |-> FALSE, retired |-> FALSE]

Slot(s, frame) == s.records[frame % Capacity]
Holds(s, frame) == Slot(s, frame).frame = frame

(* Whether the title must capture an initializer for a frame: by the       *)
(* record of the frame before, once all from next to there are known.      *)
NeedsCheckpoint(s, frame, stage) ==
  IF frame < s.next THEN "AlreadyPublished"
  ELSE IF frame - s.next >= Capacity THEN "MissingPredecessor"
  ELSE IF frame = 0 THEN "Required"
  ELSE IF \E f \in (s.next .. frame - 1) \cup {frame - 1} : ~Holds(s, f)
       THEN "MissingPredecessor"
  ELSE IF Slot(s, frame - 1).stage = stage THEN "NotRequired" ELSE "Required"

(* SameInputs: a record without inputs differs from none. *)
SameInputs(a, b) ==
  a.input = Nothing \/ b.input = Nothing \/ a.input = b.input

(* Mutant: a published frame that is executed again is refused. *)
AcceptsNothingPublished(s, r) == r.frame >= s.next /\ r.frame - s.next < Capacity

(* What Record accepts.  A published frame cannot be amended, nor one      *)
(* whose publication has begun.                                            *)
Accepts(s, r) ==
  CASE r.frame < s.next -> (Holds(s, r.frame) => SameInputs(Slot(s, r.frame), r))
    [] r.frame = s.next /\ s.phase # 0 ->
         /\ Holds(s, r.frame)
         /\ [Slot(s, r.frame) EXCEPT !.input = Nothing] = [r EXCEPT !.input = Nothing]
         /\ SameInputs(Slot(s, r.frame), r)
    [] OTHER -> r.frame - s.next < Capacity

Store(s, r) == [s EXCEPT !.records[r.frame % Capacity] = r]

(* Record; a refusal makes the title retire the stream. *)
Record(s, r) ==
  IF s.ended \/ ~Accepts(s, r) THEN [s EXCEPT !.retired = TRUE]
  ELSE IF r.frame < s.next \/ (r.frame = s.next /\ s.phase # 0) THEN s
  ELSE Store(s, r)

---------------------------------------------------------------------------
(* The title. *)

Wrong == {f \in 1 .. Min2(Len(confirmed), Len(executed)) :
            confirmed[f] # executed[f]}

(* The next frame is executed, with its confirmed input or a predicted     *)
(* one, and recorded; a title may leave the inputs to its core, which may  *)
(* no longer have them when they are published.                            *)
Execute(i, records) ==
  LET frame   == Len(executed)
      stage   == Stage(executed)
      need    == NeedsCheckpoint(pub, frame, stage)
      record  == [frame |-> frame, stage |-> stage,
                  initializer |-> IF need = "Required" THEN executed ELSE Nothing,
                  input |-> IF records THEN i ELSE Nothing,
                  boss |-> Boss(Append(executed, i))]
  IN  /\ Wrong = {} /\ frame < MaxFrame
      /\ frame < Len(confirmed) => i = confirmed[frame + 1]
      /\ frame - Len(confirmed) < Window
      /\ executed' = Append(executed, i)
      /\ pub' = IF need = "MissingPredecessor" THEN [pub EXCEPT !.retired = TRUE]
                                               ELSE Record(pub, record)
      /\ UNCHANGED <<confirmed, log>>

(* An input is confirmed, which may show that a prediction was wrong. *)
Confirm(i) ==
  /\ Len(confirmed) < MaxFrame
  /\ confirmed' = Append(confirmed, i)
  /\ UNCHANGED <<executed, pub, log>>

(* The title goes back to a checkpoint of its journal, which may be older  *)
(* than the first wrong frame, and executes again from there.              *)
Rollback ==
  /\ \E first \in Wrong, back \in 0 .. Replay :
       /\ \A f \in Wrong : first <= f
       /\ first - 1 - back >= 0
       /\ executed' = Prefix(executed, first - 1 - back)
  /\ UNCHANGED <<confirmed, pub, log>>

---------------------------------------------------------------------------
(* Publish, one send at a time. *)

(* Mutant: publication does not wait for the title to reconcile. *)
IsDueUnreconciled ==
  /\ ~pub.retired /\ ~pub.ended
  /\ pub.next < Min2(Len(confirmed), Len(executed))

(* Publication follows reconcile, up to what is confirmed and simulated. *)
IsDue ==
  /\ ~pub.retired /\ ~pub.ended /\ Wrong = {}
  /\ pub.next < Min2(Len(confirmed), Len(executed))

Current == Slot(pub, pub.next)
Event(kind, frame, stage) ==
  [kind |-> kind, frame |-> frame, stage |-> stage, serial |-> pub.serial + 1,
   checkpoint |-> 0, state |-> Nothing]

(* The input of the frame is not in its record: the title is asked for it. *)
AsksTitle == Holds(pub, pub.next) /\ pub.phase = 1 /\ Current.input = Nothing

(* MissingRecord, StageCheckpointMissing, and InputUnavailable, since the  *)
(* title may refuse whenever it is asked; it retires the stream.           *)
PublishFails ==
  /\ IsDue
  /\ \/ ~Holds(pub, pub.next)
     \/ /\ Holds(pub, pub.next) /\ pub.phase = 0
        /\ Current.initializer = Nothing
        /\ pub.checkpoint = 0 \/ Current.stage # pub.stage
     \/ AsksTitle
  /\ pub' = [pub EXCEPT !.retired = TRUE]
  /\ UNCHANGED <<titleVars, log>>

PublishCheckpoint ==
  /\ IsDue /\ Holds(pub, pub.next) /\ pub.phase = 0
  /\ Current.initializer # Nothing
  /\ log' = Append(log, [Event("checkpoint", pub.next, Current.stage)
                           EXCEPT !.state = Current.initializer])
  /\ pub' = [pub EXCEPT !.serial = @ + 1, !.checkpoint = pub.serial + 1,
                        !.stage = Current.stage, !.phase = 1]
  /\ UNCHANGED titleVars

(* A frame that needs no checkpoint; its input may yet fail to be sent. *)
PublishNoCheckpoint ==
  /\ IsDue /\ Holds(pub, pub.next) /\ pub.phase = 0
  /\ Current.initializer = Nothing
  /\ pub.checkpoint # 0 /\ Current.stage = pub.stage
  /\ pub' = [pub EXCEPT !.phase = 1]
  /\ UNCHANGED <<titleVars, log>>

(* The frame is complete when no boss is to be announced after it. *)
Complete(s) == [s EXCEPT !.next = @ + 1, !.phase = 0]

PublishInput ==
  /\ IsDue /\ Holds(pub, pub.next) /\ pub.phase = 1
  /\ log' = Append(log, [kind |-> "input", frame |-> pub.next,
                         input |-> IF AsksTitle THEN confirmed[pub.next + 1]
                                   ELSE Current.input])
  /\ pub' = IF Current.boss THEN [pub EXCEPT !.phase = 2] ELSE Complete(pub)
  /\ UNCHANGED titleVars

(* Mutant: the node names the frame whose tick registered the boss. *)
BossFrameOfTick == pub.next

BossFrame == pub.next + 1

PublishNode ==
  /\ IsDue /\ Holds(pub, pub.next) /\ pub.phase = 2
  /\ log' = Append(log, [Event("node", BossFrame, pub.stage)
                           EXCEPT !.checkpoint = pub.checkpoint])
  /\ pub' = [Complete(pub) EXCEPT !.serial = @ + 1]
  /\ UNCHANGED titleVars

(* Finish, when everything is published. *)
Finish ==
  /\ ~pub.retired /\ ~pub.ended /\ pub.checkpoint # 0 /\ pub.phase = 0
  /\ Wrong = {} /\ pub.next = Len(confirmed) /\ pub.next = Len(executed)
  /\ pub.next = MaxFrame
  /\ log' = Append(log, Event("end", pub.next, pub.stage))
  /\ pub' = [pub EXCEPT !.ended = TRUE, !.serial = @ + 1]
  /\ UNCHANGED titleVars

---------------------------------------------------------------------------
InitPublisher ==
  /\ confirmed = << >> /\ executed = << >>
  /\ pub = NewPublisher /\ log = << >>

Publish == \/ PublishFails \/ PublishCheckpoint \/ PublishNoCheckpoint
           \/ PublishInput \/ PublishNode

TitleNext ==
  \/ \E i \in Input : Confirm(i) \/ \E records \in BOOLEAN : Execute(i, records)
  \/ Rollback
PublisherNext == TitleNext \/ Publish \/ Finish

PublisherSpec == InitPublisher /\ [][PublisherNext]_pubVars
---------------------------------------------------------------------------
(* Properties. *)

(* The next frame to execute is ahead of what is published by the whole    *)
(* ring; or it is the first that is not published, and the record of the   *)
(* frame before was overwritten by the last one a ring has room for.       *)
RanAhead ==
  \/ Len(executed) - pub.next >= Capacity
  \/ /\ Len(executed) = pub.next /\ pub.next > 0
     /\ Slot(pub, pub.next - 1).frame = pub.next - 1 + Capacity

(* The stream is given up by a title that executes a frame only when it    *)
(* ran ahead by the ring, and by Publish only when it asks for an input    *)
(* the title did not record: rollbacks, repeated frames and sends that     *)
(* failed half-way through a frame lead to no other refusal of Record, no  *)
(* MissingRecord and no StageCheckpointMissing.  (Packets that cannot be   *)
(* encoded, which retire the stream too, are not modelled.)                *)
GivenUpForACause ==
  [][~pub.retired /\ pub'.retired =>
       IF executed' = executed THEN IsDue /\ AsksTitle ELSE RanAhead]_pubVars
=============================================================================
