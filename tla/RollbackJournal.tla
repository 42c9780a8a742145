--------------------------- MODULE RollbackJournal ---------------------------
(***************************************************************************)
(* The undo journal of the simulation's memory                             *)
(* (src/src/netplay/RollbackJournal.cpp).  A checkpoint keeps only the     *)
(* blocks that were touched since it began, each copied before its first   *)
(* write; inside a read-only capture window the copies of large blocks are *)
(* put off and made together.  An undo copies back the blocks of the       *)
(* checkpoint and of all newer ones, except those an older one covers.     *)
(*                                                                         *)
(* Memory is a row of cells and an address is the number of a cell.  The   *)
(* arena of a checkpoint is a function from the cells it saved; the AVL    *)
(* index is the set of blocks it finds.                                    *)
(***************************************************************************)
EXTENDS Integers, Sequences, FiniteSetsExt

CONSTANTS
  Cells,        \* how many cells the memory has
  Value,        \* what a cell may hold
  Unset,        \* what the arena holds before a put-off copy: anything
  Adjusted(_),  \* a float pair plus the given offset
  MaxRecords,   \* RollbackJournalConfig::maxFrames
  MaxBlocks,    \* maxBlocksPerFrame
  MaxBytes,     \* maxBytesPerFrame
  Coalesce,     \* coalesceRestore
  Bulk,         \* the size from which a copy is put off, or skipped: 1024
  Touchable,    \* bound: the blocks the title touches
  MaxFrame      \* bound: the frames that are simulated

ASSUME JournalAssumption ==
  /\ Cells \in Nat /\ MaxBlocks \in Nat /\ MaxBytes \in Nat
  /\ MaxRecords \in Nat \ {0} /\ Bulk \in Nat /\ MaxFrame \in Nat
  /\ Coalesce \in BOOLEAN
  /\ Unset \notin Value /\ \A v \in Value : Adjusted(v) \in Value

VARIABLES
  memory,     \* the bytes the title simulates in
  records,    \* the checkpoints in the ring, the oldest first
  frameOpen,  \* frameOpen_
  window,     \* the read-only capture: open, the first block that may be
              \* put off, how many are
  failed      \* failed_

journalVars == <<memory, records, frameOpen, window, failed>>

Cell == 1 .. Cells
Frame == 0 .. MaxFrame

Block == {b \in [at : Cell, size : Cell] : b.at + b.size <= Cells + 1}
ASSUME TouchableAssumption == Touchable \subseteq Block

Span(b) == b.at .. b.at + b.size - 1

Record == [start : Frame, end : Frame, blocks : Seq(Block),
           bytes : [Cell -> Value \cup {Unset}]]

Window == [open : BOOLEAN, first : Nat, pending : Nat]
ClosedWindow == [open |-> FALSE, first |-> 1, pending |-> 0]

BackRecord == records[Len(records)]

BlocksOf(record) == {record.blocks[n] : n \in DOMAIN record.blocks}
Covers(record, c) == \E b \in BlocksOf(record) : c \in Span(b)

Unused == [c \in Cell |-> Unset]

(* CopyBytes of some blocks from the memory to the arena. *)
Copied(bytes, blocks) ==
  [c \in Cell |-> IF \E b \in blocks : c \in Span(b) THEN memory[c]
                                                     ELSE bytes[c]]

---------------------------------------------------------------------------
(* BeginFrame, with its two ways to fail. *)

CanExtend(frame) == records # << >> /\ frame = BackRecord.end + 1
CanCheckpoint(frame) == records # << >> => frame > BackRecord.end

(* A full ring gives up its oldest checkpoint. *)
Room(ring) == IF Len(ring) = MaxRecords THEN Tail(ring) ELSE ring

BeginFrame(frame) ==
  /\ ~frameOpen /\ ~failed /\ CanCheckpoint(frame)
  /\ records' =
       Append(Room(records), [start |-> frame, end |-> frame,
                              blocks |-> << >>, bytes |-> Unused])
  /\ frameOpen' = TRUE
  /\ UNCHANGED <<memory, window, failed>>

ExtendFrame(frame) ==
  /\ ~frameOpen /\ ~failed /\ CanExtend(frame)
  /\ records' = [records EXCEPT ![Len(records)].end = frame]
  /\ frameOpen' = TRUE
  /\ UNCHANGED <<memory, window, failed>>

RejectFrame(frame, extend) ==
  /\ ~frameOpen /\ ~failed
  /\ ~(IF extend THEN CanExtend(frame) ELSE CanCheckpoint(frame))
  /\ failed' = TRUE
  /\ UNCHANGED <<memory, records, frameOpen, window>>

(* Mutant: a frame ends while copies are put off. *)
CanEndAnyTime == frameOpen /\ ~failed

CanEndFrame == frameOpen /\ ~failed /\ ~window.open

EndFrame ==
  /\ CanEndFrame
  /\ frameOpen' = FALSE
  /\ UNCHANGED <<memory, records, window, failed>>

---------------------------------------------------------------------------
(* The read-only capture window. *)

PutOff(record) ==
  {record.blocks[n] : n \in {m \in DOMAIN record.blocks :
     m >= window.first /\ record.blocks[m].size >= Bulk}}

(* FlushReadOnlyCapture: the arena and the window after it. *)
Flushed(record) ==
  IF window.pending = 0 THEN record
  ELSE [record EXCEPT !.bytes = Copied(@, PutOff(record))]

FlushedWindow ==
  IF window.pending = 0 THEN window
  ELSE [window EXCEPT !.first = Len(BackRecord.blocks) + 1, !.pending = 0]

Drain == records' = [records EXCEPT ![Len(records)] = Flushed(@)]

BeginReadOnlyCapture ==
  /\ frameOpen /\ ~failed /\ ~window.open
  /\ window' = [open |-> TRUE, first |-> Len(BackRecord.blocks) + 1, pending |-> 0]
  /\ UNCHANGED <<memory, records, frameOpen, failed>>

EndReadOnlyCapture ==
  /\ window.open
  /\ Drain
  /\ window' = ClosedWindow
  /\ UNCHANGED <<memory, frameOpen, failed>>

---------------------------------------------------------------------------
(* Touch.  A block that is saved already is left alone; one that overlaps  *)
(* another, or does not fit, fails the journal, after the blocks accepted  *)
(* before it are copied.                                                   *)

Overlaps(record, b) ==
  \E a \in BlocksOf(record) : a # b /\ Span(a) \cap Span(b) # {}

Bytes(record) == Cardinality(UNION {Span(b) : b \in BlocksOf(record)})

Fits(record, b) ==
  /\ Len(record.blocks) < MaxBlocks
  /\ Bytes(record) + b.size <= MaxBytes

Touch(b, grows) ==
  LET drained == IF grows THEN Flushed(BackRecord) ELSE BackRecord
      drainedWindow == IF grows THEN FlushedWindow ELSE window
      defer   == window.open /\ b.size >= Bulk
  IN  /\ frameOpen /\ ~failed /\ b \notin BlocksOf(BackRecord)
      /\ ~Overlaps(BackRecord, b) /\ Fits(BackRecord, b)
      /\ records' = [records EXCEPT ![Len(records)] =
                       [drained EXCEPT
                          !.blocks = Append(@, b),
                          !.bytes  = IF defer THEN @ ELSE Copied(@, {b})]]
      /\ window' = IF ~defer THEN drainedWindow
                   ELSE [drainedWindow EXCEPT
                           !.first = IF drainedWindow.pending = 0
                                     THEN Len(BackRecord.blocks) + 1 ELSE @,
                           !.pending = @ + 1]
      /\ UNCHANGED <<memory, frameOpen, failed>>

TouchAgain(b) ==
  /\ frameOpen /\ ~failed /\ b \in BlocksOf(BackRecord)
  /\ UNCHANGED journalVars

RejectTouch(b) ==
  /\ frameOpen /\ ~failed /\ b \notin BlocksOf(BackRecord)
  /\ Overlaps(BackRecord, b) \/ ~Fits(BackRecord, b)
  /\ failed' = TRUE
  /\ Drain /\ window' = FlushedWindow
  /\ UNCHANGED <<memory, frameOpen>>

(* A null address or no size, or a Touch after a failure. *)
TouchNothing ==
  /\ window.pending # 0
  /\ Drain /\ window' = FlushedWindow
  /\ UNCHANGED <<memory, frameOpen, failed>>

(* The title writes.  It touches first, and leaves the capture window. *)
Write(c, v) ==
  /\ frameOpen /\ ~failed /\ ~window.open /\ Covers(BackRecord, c)
  /\ memory' = [memory EXCEPT ![c] = v]
  /\ UNCHANGED <<records, frameOpen, window, failed>>

---------------------------------------------------------------------------
(* UndoTo.  The checkpoints from record i on are copied back, the newest   *)
(* first: of the copies of a cell the oldest one that is made stays.       *)

(* Mutant: a block that only begins in the other is taken for covered. *)
CoversStart(record, b) == \E a \in BlocksOf(record) : b.at \in Span(a)

CoversBlock(record, b) ==
  \E a \in BlocksOf(record) : b.at \in Span(a) /\ Span(b) \subseteq Span(a)

Skipped(i, j, b) ==
  /\ Coalesce /\ b.size >= Bulk
  /\ \E k \in i .. j - 1 : CoversBlock(records[k], b)

CopiedBack(i, c) ==
  {j \in i .. Len(records) :
     \E b \in BlocksOf(records[j]) : c \in Span(b) /\ ~Skipped(i, j, b)}

Restored(i) ==
  [c \in Cell |-> IF CopiedBack(i, c) = {} THEN memory[c]
                  ELSE records[Min(CopiedBack(i, c))].bytes[c]]

Contains(i, frame) == records[i].start <= frame /\ frame <= records[i].end

UndoTo(frame) ==
  /\ ~frameOpen /\ ~failed
  /\ \E i \in DOMAIN records :
       /\ Contains(i, frame)
       /\ memory' = Restored(i)
       /\ records' = SubSeq(records, 1, i - 1)
  /\ UNCHANGED <<frameOpen, window, failed>>

DiscardBefore(frame) ==
  /\ ~frameOpen
  /\ \E n \in DOMAIN records :
       /\ \A i \in 1 .. n : records[i].end < frame
       /\ n < Len(records) => records[n + 1].end >= frame
       /\ records' = SubSeq(records, n + 1, Len(records))
  /\ UNCHANGED <<memory, frameOpen, window, failed>>

(* AddFloatPairToSnapshots: a title that proved a late input harmless but  *)
(* for a carried remainder corrects it in the checkpoints after the        *)
(* input's.  It keeps the pair in the checkpoint that holds the input: one *)
(* without it would read the next one's, which is corrected.               *)
Corrects(after, through, i) == records[i].start \in after + 1 .. through

AddFloatPairToSnapshots(after, through, c) ==
  LET corrected == {i \in DOMAIN records : Corrects(after, through, i)}
  IN  /\ ~frameOpen /\ ~failed /\ corrected # {}
      /\ \A i \in corrected : Covers(records[i], c)
      /\ Min(corrected) > 1 => Covers(records[Min(corrected) - 1], c)
      /\ records' = [i \in DOMAIN records |->
                       IF i \in corrected
                       THEN [records[i] EXCEPT !.bytes[c] = Adjusted(@)]
                       ELSE records[i]]
      /\ UNCHANGED <<memory, frameOpen, window, failed>>

(* Clear and Reset. *)
Reset ==
  /\ records' = << >> /\ frameOpen' = FALSE /\ window' = ClosedWindow
  /\ failed' = FALSE
  /\ UNCHANGED memory

Init ==
  /\ memory \in [Cell -> Value] /\ records = << >> /\ frameOpen = FALSE
  /\ window = ClosedWindow /\ failed = FALSE

Next ==
  \/ \E frame \in Frame : \/ BeginFrame(frame) \/ ExtendFrame(frame)
                          \/ UndoTo(frame) \/ DiscardBefore(frame)
                          \/ \E extend \in BOOLEAN : RejectFrame(frame, extend)
  \/ EndFrame \/ BeginReadOnlyCapture \/ EndReadOnlyCapture \/ Reset
  \/ \E b \in Touchable : \/ RejectTouch(b) \/ TouchAgain(b)
                          \/ \E grows \in BOOLEAN : Touch(b, grows)
  \/ TouchNothing
  \/ \E after, through \in Frame, c \in Cell :
       AddFloatPairToSnapshots(after, through, c)
  \/ \E c \in Cell, v \in Value : Write(c, v)

Spec == Init /\ [][Next]_journalVars

---------------------------------------------------------------------------
(* Properties. *)

TypeOK ==
  /\ memory \in [Cell -> Value]
  /\ records \in Seq(Record) /\ Len(records) <= MaxRecords
  /\ frameOpen \in BOOLEAN /\ window \in Window /\ failed \in BOOLEAN

(* A checkpoint that is not being captured holds every byte it will be     *)
(* asked for, also when a later Touch failed or moved the arena: an undo   *)
(* never copies bytes that nobody wrote.                                   *)
NothingIsPutOffForEver ==
  \A i \in DOMAIN records : \A c \in Cell :
    Covers(records[i], c) /\ records[i].bytes[c] = Unset =>
      window.open /\ i = Len(records)

(* The memory when checkpoint i of rs began: the oldest copy of each cell, *)
(* and the cell itself if it was not touched since, or its copy is put off.*)
Savers(rs, i, c) == {j \in i .. Len(rs) : Covers(rs[j], c)}
Saved(record, mem, c) ==
  IF record.bytes[c] = Unset THEN mem[c] ELSE record.bytes[c]
Image(rs, mem, i) ==
  [c \in Cell |-> IF Savers(rs, i, c) = {} THEN mem[c]
                  ELSE Saved(rs[Min(Savers(rs, i, c))], mem, c)]
Checkpoints(rs, mem) ==
  [i \in DOMAIN rs |-> [start |-> rs[i].start, end |-> rs[i].end,
                        image |-> Image(rs, mem, i)]]

(* Incremental copies, put-off copies and skipped ones restore what whole  *)
(* copies of the memory would.                                             *)
Whole == INSTANCE Snapshots
           WITH MaxCheckpoints <- MaxRecords, open <- frameOpen,
                checkpoints <- Checkpoints(records, memory)
ImplementsSnapshots == Whole!SnapshotsSpec
===========================================================================
