----------------------- MODULE RollbackJournalProofs -----------------------
(***************************************************************************)
(* RollbackJournal and PartitionedPoolJournal implement Snapshots, for     *)
(* every memory, layout, limit and order of calls, and driven by the same  *)
(* calls they agree.                                                       *)
(***************************************************************************)
EXTENDS Journals, TLAPS, WellFoundedInduction, SequenceTheorems

---------------------------------------------------------------------------
(* The image of a checkpoint. *)

LEMMA LeastElement ==
  ASSUME NEW T, T \subseteq Nat, T # {}
  PROVE  \E x \in T : \A y \in T : x <= y
<1>1. PICK x \in T : \A y \in T : ~ (<<y, x>> \in OpToRel(<, Nat))
  BY WFMin, NatLessThanWellFounded
<1>2. ASSUME NEW y \in T PROVE x <= y
  <2>1. x \in Nat /\ y \in Nat
    OBVIOUS
  <2>2. ~ (y < x)
    BY <1>1, <2>1 DEF OpToRel
  <2> QED
    BY <2>1, <2>2
<1> QED
  BY <1>2

(* The oldest checkpoint from i on that saved a cell decides its image. *)
LEMMA ImageOfSaved ==
  ASSUME NEW rs, Len(rs) \in Nat, NEW mem, NEW i \in Nat, NEW c \in Cell,
         NEW j \in i .. Len(rs), Covers(rs[j], c),
         \A k \in i .. j - 1 : ~ Covers(rs[k], c)
  PROVE  Image(rs, mem, i)[c] = Saved(rs[j], mem, c)
<1> DEFINE S == Savers(rs, i, c)
<1>1. j \in S /\ S # {}
  BY DEF Savers
<1>2. \A k \in S : j <= k
  BY DEF Savers
<1>3. S \subseteq Int /\ j \in Int
  BY DEF Savers
<1>4. ASSUME NEW m \in S, \A k \in S : m <= k PROVE m = j
  BY <1>1, <1>2, <1>3, <1>4
<1>5. Min(S) = j
  <2> HIDE DEF S
  <2> QED
    BY <1>1, <1>2, <1>4 DEF Min
<1> QED
  BY <1>1, <1>5 DEF Image, S

LEMMA ImageOfUnsaved ==
  ASSUME NEW rs, NEW mem, NEW i \in Nat, NEW c \in Cell,
         \A k \in i .. Len(rs) : ~ Covers(rs[k], c)
  PROVE  Image(rs, mem, i)[c] = mem[c]
<1>1. Savers(rs, i, c) = {}
  BY DEF Savers
<1> QED
  BY <1>1 DEF Image

LEMMA SavedOrNot ==
  ASSUME NEW rs, Len(rs) \in Nat, NEW i \in Nat, NEW c
  PROVE  \/ \A k \in i .. Len(rs) : ~ Covers(rs[k], c)
         \/ \E j \in i .. Len(rs) :
              Covers(rs[j], c) /\ \A k \in i .. j - 1 : ~ Covers(rs[k], c)
<1> DEFINE S == Savers(rs, i, c)
<1>1. S \subseteq Nat
  BY DEF Savers
<1>2. CASE S = {}
  BY <1>2 DEF Savers
<1>3. CASE S # {}
  <2>1. PICK j \in S : \A k \in S : j <= k
    BY <1>1, <1>3, LeastElement
  <2>2. j \in i .. Len(rs) /\ Covers(rs[j], c)
    BY <2>1 DEF Savers
  <2>3. ASSUME NEW k \in i .. j - 1 PROVE ~ Covers(rs[k], c)
    <3>1. k \in i .. Len(rs) /\ ~ (j <= k)
      BY <2>2
    <3> QED
      BY <2>1, <3>1 DEF Savers
  <2> QED
    BY <2>2, <2>3
<1> QED
  BY <1>2, <1>3

(* The checkpoints of rs from i on and those of rt from i + d on save the  *)
(* same of cell c; what else rt has at its end saves nothing of it.        *)
SavesTheSame(rs, mem, i, rt, men, d, c) ==
  /\ Len(rs) \in Nat /\ Len(rt) \in Nat /\ i \in Nat /\ d \in Int
  /\ i + d \in Nat /\ i <= Len(rs) + 1 /\ Len(rs) + d <= Len(rt)
  /\ mem[c] = men[c]
  /\ \A j \in i .. Len(rs) :
       /\ Covers(rt[j + d], c) <=> Covers(rs[j], c)
       /\ Covers(rs[j], c) => Saved(rt[j + d], men, c) = Saved(rs[j], mem, c)
  /\ \A j \in Len(rs) + d + 1 .. Len(rt) : ~ Covers(rt[j], c)

LEMMA SameImage ==
  ASSUME NEW rs, NEW mem, NEW i, NEW rt, NEW men, NEW d, NEW c \in Cell,
         SavesTheSame(rs, mem, i, rt, men, d, c)
  PROVE  Image(rt, men, i + d)[c] = Image(rs, mem, i)[c]
<1> USE DEF SavesTheSame
<1>1. CASE \A k \in i .. Len(rs) : ~ Covers(rs[k], c)
  <2>1. ASSUME NEW k \in i + d .. Len(rt) PROVE ~ Covers(rt[k], c)
    <3>1. CASE k <= Len(rs) + d
      <4>1. k - d \in i .. Len(rs) /\ (k - d) + d = k
        BY <3>1
      <4> QED
        BY <1>1, <4>1
    <3>2. CASE ~ (k <= Len(rs) + d)
      BY <3>2
    <3> QED
      BY <3>1, <3>2
  <2> QED
    BY <1>1, <2>1, ImageOfUnsaved
<1>2. CASE \E j \in i .. Len(rs) :
             Covers(rs[j], c) /\ \A k \in i .. j - 1 : ~ Covers(rs[k], c)
  <2>1. PICK j \in i .. Len(rs) :
               Covers(rs[j], c) /\ \A k \in i .. j - 1 : ~ Covers(rs[k], c)
    BY <1>2
  <2>2. j + d \in i + d .. Len(rt) /\ Covers(rt[j + d], c)
    BY <2>1
  <2>3. ASSUME NEW k \in i + d .. (j + d) - 1 PROVE ~ Covers(rt[k], c)
    <3>1. k - d \in i .. j - 1 /\ k - d \in i .. Len(rs) /\ (k - d) + d = k
      BY <2>1
    <3> QED
      BY <2>1, <3>1
  <2>4. Image(rt, men, i + d)[c] = Saved(rt[j + d], men, c)
    BY <2>2, <2>3, ImageOfSaved
  <2>5. Image(rs, mem, i)[c] = Saved(rs[j], mem, c)
    <3>1. Len(rs) \in Nat /\ i \in Nat
      BY DEF SavesTheSame
    <3>2. Covers(rs[j], c)
      BY <2>1
    <3>3. \A k \in i .. j - 1 : ~ Covers(rs[k], c)
      BY <2>1
    <3> HIDE DEF SavesTheSame
    <3> QED
      BY ONLY <3>1, <3>2, <3>3, c \in Cell, j \in i .. Len(rs), ImageOfSaved
  <2> QED
    BY <2>1, <2>4, <2>5
<1>3. \/ \A k \in i .. Len(rs) : ~ Covers(rs[k], c)
      \/ \E j \in i .. Len(rs) :
           Covers(rs[j], c) /\ \A k \in i .. j - 1 : ~ Covers(rs[k], c)
  BY ONLY SavesTheSame(rs, mem, i, rt, men, d, c), SavedOrNot DEF SavesTheSame
<1> QED
  BY ONLY <1>1, <1>2, <1>3

LEMMA EqualImages ==
  ASSUME NEW rs, NEW mem, NEW i, NEW rt, NEW men, NEW k,
         \A c \in Cell : Image(rt, men, k)[c] = Image(rs, mem, i)[c]
  PROVE  Image(rt, men, k) = Image(rs, mem, i)
  BY DEF Image

(* Records that save the same make the same checkpoints. *)
SaveTheSame(rs, mem, rt, men) ==
  /\ Len(rs) \in Nat /\ DOMAIN rs = 1 .. Len(rs)
  /\ Len(rt) = Len(rs) /\ DOMAIN rt = DOMAIN rs
  /\ \A c \in Cell : men[c] = mem[c]
  /\ \A j \in DOMAIN rs :
       /\ rt[j].start = rs[j].start /\ rt[j].end = rs[j].end
       /\ \A c \in Cell :
            /\ Covers(rt[j], c) <=> Covers(rs[j], c)
            /\ Covers(rs[j], c) => Saved(rt[j], men, c) = Saved(rs[j], mem, c)

LEMMA SameCheckpoints ==
  ASSUME NEW rs, NEW mem, NEW rt, NEW men, SaveTheSame(rs, mem, rt, men)
  PROVE  Checkpoints(rt, men) = Checkpoints(rs, mem)
<1> USE DEF SaveTheSame
<1>1. ASSUME NEW i \in DOMAIN rs PROVE Image(rt, men, i) = Image(rs, mem, i)
  <2>0. PICK d \in Int : d = 0
    OBVIOUS
  <2>1. ASSUME NEW c \in Cell
        PROVE  Image(rt, men, i + d)[c] = Image(rs, mem, i)[c]
    <3>1. ASSUME NEW j \in i .. Len(rs)
          PROVE  /\ Covers(rt[j + d], c) <=> Covers(rs[j], c)
                 /\ Covers(rs[j], c) => Saved(rt[j + d], men, c) = Saved(rs[j], mem, c)
      <4>1. j \in DOMAIN rs /\ j + d = j
        BY <2>0
      <4> QED
        BY <4>1
    <3>2. SavesTheSame(rs, mem, i, rt, men, d, c)
      BY <2>0, <3>1 DEF SavesTheSame
    <3> QED
      BY <3>2, SameImage
  <2>2. i + d = i
    BY <2>0
  <2> QED
    BY <2>1, <2>2, EqualImages
<1> QED
  BY <1>1 DEF Checkpoints

---------------------------------------------------------------------------
(* The inductive invariant.  A covered byte is unset only if it belongs to *)
(* the put-off blocks of the newest checkpoint, and those are all unset:   *)
(* a flush copies exactly what is missing.                                 *)

PutOffCell(record, c) == \E b \in PutOff(record) : c \in Span(b)

WindowOK ==
  /\ frameOpen => records # << >>
  /\ window.open => frameOpen
  /\ ~ window.open => window = ClosedWindow
  /\ window.open => window.first <= Len(BackRecord.blocks) + 1

BytesOK ==
  \A i \in DOMAIN records, c \in Cell :
    /\ ~ Covers(records[i], c) => records[i].bytes[c] = Unset
    /\ Covers(records[i], c) /\ records[i].bytes[c] = Unset =>
         i = Len(records) /\ window.pending # 0 /\ PutOffCell(records[i], c)

PutOffOK ==
  window.pending # 0 => \A c \in Cell :
    PutOffCell(BackRecord, c) => BackRecord.bytes[c] = Unset

FramesOK ==
  /\ \A i \in DOMAIN records : records[i].start <= records[i].end
  /\ \A i, j \in DOMAIN records : i < j => records[i].start < records[j].start

JInv == TypeOK /\ WindowOK /\ BytesOK /\ PutOffOK /\ FramesOK

LEMMA RecordFacts ==
  ASSUME TypeOK
  PROVE  /\ Len(records) \in Nat /\ DOMAIN records = 1 .. Len(records)
         /\ \A i \in DOMAIN records :
              /\ records[i] \in Record
              /\ records[i].start \in Int /\ records[i].end \in Int
              /\ records[i].start \in Frame /\ records[i].end \in Frame
              /\ records[i].blocks \in Seq(Block)
              /\ records[i].bytes \in [Cell -> Value \cup {Unset}]
         /\ \A c \in Cell : memory[c] \in Value /\ memory[c] # Unset
         /\ window.open \in BOOLEAN /\ window.first \in Nat
         /\ window.pending \in Nat
         /\ records # << >> =>
              Len(records) \in DOMAIN records /\ BackRecord = records[Len(records)]
<1>1. MaxFrame \in Nat
  BY JournalAssumption
<1>2. Frame \subseteq Int
  BY <1>1 DEF Frame
<1>3. Len(records) \in Nat /\ DOMAIN records = 1 .. Len(records)
      /\ \A i \in DOMAIN records : records[i] \in Record
  BY DEF TypeOK
<1>4. \A i \in DOMAIN records :
        /\ records[i].start \in Frame /\ records[i].end \in Frame
        /\ records[i].blocks \in Seq(Block)
        /\ records[i].bytes \in [Cell -> Value \cup {Unset}]
  BY <1>3 DEF Record
<1>5. \A c \in Cell : memory[c] \in Value /\ memory[c] # Unset
  BY JournalAssumption DEF TypeOK
<1>6. window.open \in BOOLEAN /\ window.first \in Nat /\ window.pending \in Nat
  BY DEF TypeOK, Window
<1>7. records # << >> =>
        Len(records) \in DOMAIN records /\ BackRecord = records[Len(records)]
  <2>1. records # << >> => Len(records) # 0
    BY <1>3 DEF TypeOK
  <2> QED
    BY <1>3, <2>1 DEF BackRecord
<1> QED
  BY <1>2, <1>3, <1>4, <1>5, <1>6, <1>7

LEMMA InitInvariant == Init => JInv
<1> SUFFICES ASSUME Init PROVE JInv
  OBVIOUS
<1> USE DEF Init
<1>1. records = << >> /\ Len(records) = 0 /\ DOMAIN records = {}
  OBVIOUS
<1>2. TypeOK
  <2>1. records \in Seq(Record) /\ Len(records) <= MaxRecords
    BY <1>1, JournalAssumption
  <2>2. window \in Window
    BY DEF Window, ClosedWindow
  <2> QED
    BY <2>1, <2>2 DEF TypeOK
<1> QED
  BY <1>1, <1>2 DEF JInv, WindowOK, BytesOK, PutOffOK, FramesOK, ClosedWindow

---------------------------------------------------------------------------
(* The flush of put-off copies.  A record that is flushed saves the same,  *)
(* and has no byte that is unset.                                          *)

PutOffByBlock(first, blocks, c) ==
  \E m \in DOMAIN blocks : m >= first /\ blocks[m].size >= Bulk /\ c \in Span(blocks[m])

LEMMA PutOffCellMeans ==
  ASSUME NEW record, NEW c
  PROVE  PutOffCell(record, c) <=> PutOffByBlock(window.first, record.blocks, c)
  BY DEF PutOffCell, PutOff, PutOffByBlock

LEMMA CoversMeans ==
  ASSUME NEW record, NEW c
  PROVE  Covers(record, c) <=>
           \E m \in DOMAIN record.blocks : c \in Span(record.blocks[m])
  BY DEF Covers, BlocksOf

LEMMA PutOffIsCovered ==
  ASSUME NEW record, NEW c, PutOffCell(record, c)
  PROVE  Covers(record, c)
  BY PutOffCellMeans, CoversMeans DEF PutOffByBlock

SavesNoLess(record, back) ==
  /\ record \in Record /\ record.blocks = back.blocks
  /\ record.start = back.start /\ record.end = back.end
  /\ \A c \in Cell : Covers(record, c) <=> Covers(back, c)
  /\ \A c \in Cell : Saved(record, memory, c) = Saved(back, memory, c)
  /\ \A c \in Cell : ~ Covers(back, c) => record.bytes[c] = Unset

LEMMA FlushFacts ==
  ASSUME JInv, records # << >>
  PROVE  /\ SavesNoLess(Flushed(BackRecord), BackRecord)
         /\ \A c \in Cell :
              Covers(BackRecord, c) => Flushed(BackRecord).bytes[c] # Unset
<1> DEFINE L == Len(records)
           back == BackRecord
           f == Flushed(BackRecord)
<1>0. TypeOK /\ BytesOK /\ PutOffOK
  BY DEF JInv
<1>1. /\ L \in DOMAIN records /\ back = records[L] /\ back \in Record
      /\ back.bytes \in [Cell -> Value \cup {Unset}]
      /\ \A c \in Cell : memory[c] \in Value /\ memory[c] # Unset
  BY <1>0, RecordFacts
<1>2. \A c \in Cell :
        /\ ~ Covers(back, c) => back.bytes[c] = Unset
        /\ Covers(back, c) /\ back.bytes[c] = Unset =>
             window.pending # 0 /\ PutOffCell(back, c)
  BY <1>0, <1>1 DEF BytesOK
<1>3. CASE window.pending = 0
  <2>1. f = back
    BY <1>3 DEF Flushed
  <2>2. SavesNoLess(back, back)
    BY <1>1, <1>2 DEF SavesNoLess
  <2> QED
    BY <1>2, <1>3, <2>1, <2>2
<1>4. CASE window.pending # 0
  <2>1. f = [back EXCEPT !.bytes = Copied(back.bytes, PutOff(back))]
    BY <1>4 DEF Flushed
  <2>2. \A c \in Cell : Copied(back.bytes, PutOff(back))[c] =
                          IF PutOffCell(back, c) THEN memory[c] ELSE back.bytes[c]
    BY DEF Copied, PutOffCell
  <2>3. Copied(back.bytes, PutOff(back)) \in [Cell -> Value \cup {Unset}]
    BY <1>1 DEF Copied
  <2> HIDE DEF back, f
  <2>4. /\ f \in Record /\ f.blocks = back.blocks
        /\ f.start = back.start /\ f.end = back.end
        /\ f.bytes = Copied(back.bytes, PutOff(back))
    BY <1>1, <2>1, <2>3 DEF Record
  <2>5. \A c \in Cell : f.bytes[c] =
                          IF PutOffCell(back, c) THEN memory[c] ELSE back.bytes[c]
    BY <2>2, <2>4
  <2>6. \A c \in Cell : Covers(f, c) <=> Covers(back, c)
    BY <2>4 DEF Covers, BlocksOf
  <2>7. \A c \in Cell : PutOffCell(back, c) => back.bytes[c] = Unset
    BY <1>0, <1>4 DEF PutOffOK, back
  <2>8. \A c \in Cell : Saved(f, memory, c) = Saved(back, memory, c)
    BY <1>1, <2>5, <2>7 DEF Saved
  <2>9. \A c \in Cell : ~ Covers(back, c) => f.bytes[c] = Unset
    BY <1>2, <2>5, PutOffIsCovered
  <2>10. \A c \in Cell : Covers(back, c) => f.bytes[c] # Unset
    BY <1>1, <1>2, <2>5
  <2>11. SavesNoLess(f, back)
    BY <2>4, <2>6, <2>8, <2>9 DEF SavesNoLess
  <2> QED
    BY <2>10, <2>11 DEF f, back
<1> QED
  BY <1>3, <1>4

LEMMA ReplacedLast ==
  ASSUME TypeOK, records # << >>, NEW record \in Record,
         records' = [records EXCEPT ![Len(records)] = record]
  PROVE  /\ records' \in Seq(Record) /\ Len(records') = Len(records)
         /\ DOMAIN records' = DOMAIN records
         /\ Len(records) \in DOMAIN records /\ records'[Len(records)] = record
         /\ records' # << >>
         /\ \A i \in DOMAIN records : i # Len(records) => records'[i] = records[i]
<1>1. /\ records \in Seq(Record) /\ Len(records) \in DOMAIN records
      /\ DOMAIN records = 1 .. Len(records) /\ Len(records) \in Nat
  BY RecordFacts DEF TypeOK
<1> QED
  BY <1>1, ExceptSeq

(* With nothing put off the bytes of all checkpoints are there. *)
AllSaved(rs) ==
  \A i \in DOMAIN rs, c \in Cell : Covers(rs[i], c) <=> rs[i].bytes[c] # Unset

LEMMA WindowClosed ==
  ASSUME JInv, ~ window.open
  PROVE  window = ClosedWindow /\ window.pending = 0 /\ AllSaved(records)
  BY DEF JInv, WindowOK, BytesOK, AllSaved, ClosedWindow

LEMMA Draining ==
  ASSUME JInv, records # << >>, Drain, memory' = memory
  PROVE  /\ Checkpoints(records, memory)' = Checkpoints(records, memory)
         /\ records' \in Seq(Record) /\ Len(records') = Len(records)
         /\ records' # << >> /\ AllSaved(records') /\ FramesOK'
         /\ Len(BackRecord.blocks)' = Len(BackRecord.blocks)
<1> DEFINE L == Len(records)
           f == Flushed(BackRecord)
<1>0. TypeOK
  BY DEF JInv
<1>1. /\ SavesNoLess(f, BackRecord)
      /\ \A c \in Cell : Covers(BackRecord, c) => f.bytes[c] # Unset
  BY FlushFacts
<1>2. /\ L \in Nat /\ DOMAIN records = 1 .. L
      /\ L \in DOMAIN records /\ BackRecord = records[L]
      /\ \A i \in DOMAIN records : records[i].start \in Int /\ records[i].end \in Int
  BY <1>0, RecordFacts
<1>3. records' = [records EXCEPT ![L] = f]
  BY <1>2 DEF Drain, BackRecord
<1> HIDE DEF f
<1>4. /\ records' \in Seq(Record) /\ Len(records') = L
      /\ DOMAIN records' = DOMAIN records /\ records'[L] = f
      /\ records' # << >>
      /\ \A i \in DOMAIN records : i # L => records'[i] = records[i]
  BY <1>0, <1>1, <1>3, ReplacedLast DEF SavesNoLess
<1>5. \A i \in DOMAIN records :
        /\ records'[i].start = records[i].start /\ records'[i].end = records[i].end
        /\ \A c \in Cell :
             /\ Covers(records'[i], c) <=> Covers(records[i], c)
             /\ Saved(records'[i], memory, c) = Saved(records[i], memory, c)
  BY <1>1, <1>2, <1>4 DEF SavesNoLess
<1>6. Checkpoints(records', memory) = Checkpoints(records, memory)
  <2>1. SaveTheSame(records, memory, records', memory)
    BY <1>2, <1>4, <1>5 DEF SaveTheSame
  <2> QED
    BY <2>1, SameCheckpoints
<1>7. AllSaved(records')
  <2> SUFFICES ASSUME NEW i \in DOMAIN records, NEW c \in Cell
               PROVE  Covers(records'[i], c) <=> records'[i].bytes[c] # Unset
    BY <1>4 DEF AllSaved
  <2>1. CASE i = L
    BY <1>1, <1>4, <2>1 DEF SavesNoLess
  <2>2. CASE i # L
    BY <1>4, <2>2 DEF JInv, BytesOK
  <2> QED
    BY <2>1, <2>2
<1>8. FramesOK'
  <2>1. \A i, j \in DOMAIN records : i < j => records[i].start < records[j].start
    BY DEF JInv, FramesOK
  <2>2. \A i \in DOMAIN records : records[i].start <= records[i].end
    BY DEF JInv, FramesOK
  <2> QED
    BY <1>4, <1>5, <2>1, <2>2 DEF FramesOK
<1>9. Len(BackRecord.blocks)' = Len(BackRecord.blocks)
  BY <1>1, <1>4 DEF BackRecord, SavesNoLess
<1> QED
  BY <1>4, <1>6, <1>7, <1>8, <1>9

LEMMA InvariantWhenSaved ==
  ASSUME TypeOK', WindowOK', FramesOK', AllSaved(records'), window'.pending = 0
  PROVE  JInv'
  BY DEF JInv, BytesOK, PutOffOK, AllSaved

LEMMA PendingMeansOpen ==
  ASSUME JInv
  PROVE  /\ window.pending # 0 => window.open
         /\ window.open => frameOpen
         /\ frameOpen => records # << >>
  BY DEF JInv, WindowOK, ClosedWindow

(* Actions that only make put-off copies change no checkpoint. *)
LEMMA FlushingSteps ==
  ASSUME JInv, EndReadOnlyCapture \/ TouchNothing \/ \E b \in Touchable : RejectTouch(b)
  PROVE  /\ JInv' /\ memory' = memory /\ frameOpen' = frameOpen
         /\ Checkpoints(records, memory)' = Checkpoints(records, memory)
<1>1. /\ records # << >> /\ frameOpen /\ memory' = memory /\ frameOpen' = frameOpen
      /\ Drain /\ failed' \in BOOLEAN
  BY PendingMeansOpen DEF EndReadOnlyCapture, TouchNothing, RejectTouch, JInv, TypeOK
<1>2. /\ Checkpoints(records, memory)' = Checkpoints(records, memory)
      /\ records' \in Seq(Record) /\ Len(records') = Len(records)
      /\ records' # << >> /\ AllSaved(records') /\ FramesOK'
      /\ Len(BackRecord.blocks)' = Len(BackRecord.blocks)
  BY <1>1, Draining
<1>3. window' = FlushedWindow \/ window' = ClosedWindow
  BY DEF EndReadOnlyCapture, TouchNothing, RejectTouch
<1>4. BackRecord.blocks \in Seq(Block) /\ window \in Window
  BY <1>1, RecordFacts DEF JInv, TypeOK
<1>5. Len(BackRecord.blocks) \in Nat
  BY <1>4
<1>6. /\ window' \in Window /\ window'.pending = 0
      /\ ~ window'.open => window' = ClosedWindow
      /\ window'.open => window'.first <= Len(BackRecord.blocks) + 1
  <2>1. CASE window' = ClosedWindow
    BY <2>1 DEF ClosedWindow, Window
  <2>2. CASE window' = FlushedWindow /\ window.pending = 0
    BY <1>4, <2>2 DEF FlushedWindow, JInv, WindowOK, Window
  <2>3. CASE window' = FlushedWindow /\ window.pending # 0
    <3>1. window.open
      BY <2>3, PendingMeansOpen
    <3>2. window' = [window EXCEPT !.first = Len(BackRecord.blocks) + 1, !.pending = 0]
      BY <2>3 DEF FlushedWindow
    <3> QED
      <4> DEFINE n == Len(BackRecord.blocks)
      <4>1. n \in Nat /\ window' = [window EXCEPT !.first = n + 1, !.pending = 0]
        BY <1>5, <3>2
      <4> HIDE DEF n
      <4>2. /\ window.open \in BOOLEAN /\ n + 1 \in Nat
            /\ window = [open |-> window.open, first |-> window.first,
                         pending |-> window.pending]
        BY <1>4, <4>1 DEF Window
      <4>3. window' = [open |-> window.open, first |-> n + 1, pending |-> 0]
        BY <4>1, <4>2
      <4>4. window' \in Window
        BY <4>2, <4>3 DEF Window
      <4>5. (window'.open <=> window.open) /\ window'.first = n + 1
            /\ window'.pending = 0
        BY <4>3
      <4> QED
        BY <3>1, <4>1, <4>4, <4>5 DEF n
  <2> QED
    BY <1>3, <2>1, <2>2, <2>3
<1>7. TypeOK'
  BY <1>1, <1>2, <1>6 DEF TypeOK, JInv
<1>8. WindowOK'
  BY <1>1, <1>2, <1>6 DEF WindowOK
<1> QED
  BY <1>1, <1>2, <1>6, <1>7, <1>8, InvariantWhenSaved

---------------------------------------------------------------------------
(* The checkpoints as a sequence. *)

CheckpointRecord == [start : Frame, end : Frame, image : [Cell -> Value]]

LEMMA ImageTyped ==
  ASSUME NEW rs \in Seq(Record), NEW mem \in [Cell -> Value], NEW i \in DOMAIN rs
  PROVE  Image(rs, mem, i) \in [Cell -> Value]
<1>0. Len(rs) \in Nat /\ DOMAIN rs = 1 .. Len(rs) /\ i \in Nat
      /\ \A j \in 1 .. Len(rs) : rs[j] \in Record
  OBVIOUS
<1>1. ASSUME NEW c \in Cell PROVE Image(rs, mem, i)[c] \in Value
  <2>0. mem[c] \in Value
    OBVIOUS
  <2>1. CASE \A k \in i .. Len(rs) : ~ Covers(rs[k], c)
    BY <1>0, <2>0, <2>1, ImageOfUnsaved
  <2>2. CASE \E j \in i .. Len(rs) :
               Covers(rs[j], c) /\ \A k \in i .. j - 1 : ~ Covers(rs[k], c)
    <3>1. PICK j \in i .. Len(rs) :
                 Covers(rs[j], c) /\ \A k \in i .. j - 1 : ~ Covers(rs[k], c)
      BY <2>2
    <3>2. Image(rs, mem, i)[c] = Saved(rs[j], mem, c)
      BY <1>0, <3>1, ImageOfSaved
    <3>3. rs[j] \in Record
      BY <1>0
    <3>4. rs[j].bytes[c] \in Value \cup {Unset}
      BY <3>3 DEF Record
    <3> QED
      BY <2>0, <3>2, <3>4 DEF Saved
  <2> QED
    BY <1>0, <2>1, <2>2, SavedOrNot
<1>2. Image(rs, mem, i) = [c \in Cell |-> Image(rs, mem, i)[c]]
  BY DEF Image
<1> QED
  BY <1>1, <1>2

LEMMA CheckpointsTyped ==
  ASSUME NEW rs \in Seq(Record), NEW mem \in [Cell -> Value]
  PROVE  /\ Checkpoints(rs, mem) \in Seq(CheckpointRecord)
         /\ Len(Checkpoints(rs, mem)) = Len(rs)
         /\ DOMAIN Checkpoints(rs, mem) = DOMAIN rs
         /\ \A i \in DOMAIN rs :
              /\ Checkpoints(rs, mem)[i].start = rs[i].start
              /\ Checkpoints(rs, mem)[i].end = rs[i].end
              /\ Checkpoints(rs, mem)[i].image = Image(rs, mem, i)
<1> DEFINE cs == Checkpoints(rs, mem)
<1>0. Len(rs) \in Nat /\ DOMAIN rs = 1 .. Len(rs)
      /\ \A j \in DOMAIN rs : rs[j] \in Record
  OBVIOUS
<1>1. DOMAIN cs = 1 .. Len(rs)
  BY <1>0 DEF Checkpoints
<1>2. \A i \in DOMAIN rs : cs[i] = [start |-> rs[i].start, end |-> rs[i].end,
                                    image |-> Image(rs, mem, i)]
  BY DEF Checkpoints
<1>3. \A i \in DOMAIN rs : cs[i] \in CheckpointRecord
  <2>1. ASSUME NEW i \in DOMAIN rs PROVE cs[i] \in CheckpointRecord
    <3>1. Image(rs, mem, i) \in [Cell -> Value]
      BY ImageTyped
    <3>2. rs[i].start \in Frame /\ rs[i].end \in Frame
      BY <1>0 DEF Record
    <3>3. cs[i] = [start |-> rs[i].start, end |-> rs[i].end,
                   image |-> Image(rs, mem, i)]
      BY <1>2
    <3> HIDE DEF cs
    <3> QED
      BY <3>1, <3>2, <3>3 DEF CheckpointRecord
  <2> QED
    BY <2>1
<1>4. cs \in [1 .. Len(rs) -> CheckpointRecord]
  <2>1. cs = [i \in 1 .. Len(rs) |-> cs[i]]
    BY <1>0 DEF Checkpoints
  <2>2. \A i \in 1 .. Len(rs) : cs[i] \in CheckpointRecord
    BY <1>0, <1>3
  <2> HIDE DEF cs
  <2> QED
    BY <2>1, <2>2
<1>5. cs \in Seq(CheckpointRecord) /\ Len(cs) = Len(rs)
  <2> HIDE DEF cs
  <2>1. cs \in Seq(CheckpointRecord)
    BY <1>0, <1>4, SeqDef
  <2> QED
    BY <1>0, <1>1, <2>1, LenProperties
<1> QED
  BY <1>0, <1>1, <1>2, <1>5

(* Steps that leave the records alone. *)

LEMMA SealingSteps ==
  ASSUME JInv
  PROVE  /\ EndFrame => JInv' /\ Whole!Seal
         /\ BeginReadOnlyCapture \/ (\E frame \in Frame, extend \in BOOLEAN :
                                       RejectFrame(frame, extend))
              => JInv' /\ UNCHANGED Whole!snapshotVars
<1> USE DEF JInv
<1>1. ASSUME EndFrame PROVE JInv' /\ Whole!Seal
  <2> USE <1>1 DEF EndFrame, CanEndFrame
  <2>1. TypeOK' /\ FramesOK' /\ WindowOK'
    BY DEF TypeOK, FramesOK, WindowOK, BackRecord
  <2>2. BytesOK' /\ PutOffOK'
    BY DEF BytesOK, PutOffOK, PutOffCell, PutOff, BackRecord
  <2>3. Whole!Seal
    BY DEF Whole!Seal
  <2> QED
    BY <2>1, <2>2, <2>3
<1>2. ASSUME BeginReadOnlyCapture PROVE JInv' /\ UNCHANGED Whole!snapshotVars
  <2> USE <1>2 DEF BeginReadOnlyCapture
  <2>1. records # << >> /\ window.pending = 0 /\ AllSaved(records)
    BY WindowClosed, PendingMeansOpen
  <2>2. Len(BackRecord.blocks) \in Nat
    BY <2>1, RecordFacts
  <2>3. TypeOK' /\ FramesOK'
    BY <2>2 DEF TypeOK, FramesOK, Window
  <2>4. WindowOK'
    BY <2>1, <2>2 DEF WindowOK, BackRecord
  <2>5. AllSaved(records') /\ window'.pending = 0
    BY <2>1
  <2>6. JInv'
    BY <2>3, <2>4, <2>5, InvariantWhenSaved
  <2> QED
    BY <2>6 DEF Whole!snapshotVars
<1>3. ASSUME NEW frame \in Frame, NEW extend \in BOOLEAN, RejectFrame(frame, extend)
      PROVE  JInv' /\ UNCHANGED Whole!snapshotVars
  <2> USE <1>3 DEF RejectFrame
  <2>1. TypeOK' /\ FramesOK' /\ WindowOK'
    BY DEF TypeOK, FramesOK, WindowOK, BackRecord
  <2>2. BytesOK' /\ PutOffOK'
    BY DEF BytesOK, PutOffOK, PutOffCell, PutOff, BackRecord
  <2> QED
    BY <2>1, <2>2 DEF Whole!snapshotVars
<1> QED
  BY <1>1, <1>2, <1>3

(* The title writes where it touched: the saved copy hides it. *)
LEMMA WriteStep ==
  ASSUME JInv, NEW c \in Cell, NEW v \in Value, Write(c, v)
  PROVE  JInv' /\ Whole!Simulate
<1> USE DEF JInv, Write
<1>1. /\ records # << >> /\ window.pending = 0 /\ AllSaved(records)
      /\ records \in Seq(Record) /\ memory \in [Cell -> Value]
  BY WindowClosed, PendingMeansOpen DEF TypeOK
<1>2. /\ Len(records) \in Nat /\ DOMAIN records = 1 .. Len(records)
      /\ Len(records) \in DOMAIN records /\ BackRecord = records[Len(records)]
  BY <1>1, RecordFacts
<1>3. memory' \in [Cell -> Value] /\ \A d \in Cell : d # c => memory'[d] = memory[d]
  BY <1>1
<1>4. ASSUME NEW i \in DOMAIN records
      PROVE  Image(records, memory', i) = Image(records, memory, i)
  <2>1. ASSUME NEW d \in Cell
        PROVE  Image(records, memory', i)[d] = Image(records, memory, i)[d]
    <3>0. i \in Nat
      BY <1>2
    <3>1. CASE \A k \in i .. Len(records) : ~ Covers(records[k], d)
      <4>1. d # c
        BY <1>2, <3>1
      <4>2. /\ Image(records, memory', i)[d] = memory'[d]
            /\ Image(records, memory, i)[d] = memory[d]
        BY ONLY <3>0, <3>1, d \in Cell, ImageOfUnsaved
      <4> QED
        BY <1>3, <4>1, <4>2
    <3>2. CASE \E j \in i .. Len(records) :
                 Covers(records[j], d) /\ \A k \in i .. j - 1 : ~ Covers(records[k], d)
      <4>1. PICK j \in i .. Len(records) :
                   Covers(records[j], d) /\ \A k \in i .. j - 1 : ~ Covers(records[k], d)
        BY <3>2
      <4>2. /\ Image(records, memory', i)[d] = Saved(records[j], memory', d)
            /\ Image(records, memory, i)[d] = Saved(records[j], memory, d)
        BY ONLY <1>2, <3>0, <4>1, d \in Cell, ImageOfSaved
      <4>3. records[j].bytes[d] # Unset
        BY <1>1, <1>2, <4>1 DEF AllSaved
      <4> QED
        BY <4>2, <4>3 DEF Saved
    <3> QED
      BY ONLY <1>2, <3>0, <3>1, <3>2, SavedOrNot
  <2> QED
    BY ONLY <2>1, EqualImages
<1>5. Checkpoints(records, memory)' = Checkpoints(records, memory)
  BY <1>4 DEF Checkpoints
<1>6. TypeOK' /\ FramesOK' /\ WindowOK' /\ AllSaved(records') /\ window'.pending = 0
  BY <1>1, <1>3 DEF TypeOK, FramesOK, WindowOK, BackRecord
<1>7. JInv'
  BY <1>6, InvariantWhenSaved
<1> QED
  BY <1>3, <1>5, <1>7 DEF Whole!Simulate

LEMMA ResetStep ==
  ASSUME JInv, Reset
  PROVE  JInv' /\ Whole!Restart
<1> USE DEF JInv, Reset
<1>1. records' = << >> /\ Len(records') = 0 /\ DOMAIN records' = {}
  OBVIOUS
<1>2. TypeOK'
  <2>1. records' \in Seq(Record) /\ Len(records') <= MaxRecords
    BY <1>1, JournalAssumption
  <2>2. window' \in Window
    BY DEF Window, ClosedWindow
  <2> QED
    BY <2>1, <2>2 DEF TypeOK
<1>3. WindowOK' /\ FramesOK' /\ AllSaved(records') /\ window'.pending = 0
  BY <1>1 DEF WindowOK, FramesOK, AllSaved, ClosedWindow
<1>4. JInv'
  BY <1>2, <1>3, InvariantWhenSaved
<1>5. Checkpoints(records', memory') = << >>
  BY <1>1 DEF Checkpoints
<1> QED
  BY <1>4, <1>5 DEF Whole!Restart

LEMMA ExtendStep ==
  ASSUME JInv, NEW frame \in Frame, ExtendFrame(frame)
  PROVE  JInv' /\ Whole!ExtendNewest
<1> DEFINE L == Len(records)
           r == [records[L] EXCEPT !.end = frame]
           cs == Checkpoints(records, memory)
<1>0. /\ TypeOK /\ records # << >> /\ ~ window.open /\ ~ frameOpen
      /\ frame = BackRecord.end + 1 /\ memory' = memory /\ window' = window
      /\ records' = [records EXCEPT ![Len(records)].end = frame]
      /\ frameOpen' = TRUE /\ failed' = failed
  BY PendingMeansOpen DEF JInv, ExtendFrame, CanExtend
<1>1. /\ L \in Nat /\ DOMAIN records = 1 .. L /\ L \in DOMAIN records
      /\ BackRecord = records[L] /\ records[L] \in Record
      /\ records \in Seq(Record) /\ memory \in [Cell -> Value]
      /\ \A i \in DOMAIN records : records[i].start \in Int /\ records[i].end \in Int
  BY <1>0, RecordFacts DEF TypeOK
<1>2. /\ r \in Record /\ r.blocks = records[L].blocks
      /\ r.bytes = records[L].bytes /\ r.start = records[L].start /\ r.end = frame
  BY <1>1 DEF Record
<1>3. records' = [records EXCEPT ![Len(records)] = r]
  BY <1>0, <1>1
<1> HIDE DEF r
<1>4. /\ records' \in Seq(Record) /\ Len(records') = Len(records)
      /\ DOMAIN records' = DOMAIN records /\ records'[Len(records)] = r
      /\ records' # << >>
      /\ \A i \in DOMAIN records : i # Len(records) => records'[i] = records[i]
  BY ONLY <1>0, <1>2, <1>3, ReplacedLast
<1>5. window.pending = 0 /\ AllSaved(records)
  BY <1>0, WindowClosed
<1>6. AllSaved(records')
  <2>1. \A i \in DOMAIN records :
          /\ records'[i].blocks = records[i].blocks
          /\ records'[i].bytes = records[i].bytes
    BY <1>2, <1>4
  <2> QED
    BY <1>4, <1>5, <2>1 DEF AllSaved, Covers, BlocksOf
<1>7. TypeOK' /\ WindowOK'
  BY <1>0, <1>4 DEF TypeOK, WindowOK, JInv
<1>8. FramesOK'
  <2>1. /\ \A i \in DOMAIN records : records[i].start <= records[i].end
        /\ \A i, j \in DOMAIN records : i < j => records[i].start < records[j].start
    BY DEF JInv, FramesOK
  <2>2. r.start <= r.end
    BY <1>0, <1>1, <1>2, <2>1
  <2>3. \A i \in DOMAIN records : records'[i].start = records[i].start
    BY <1>2, <1>4
  <2>4. \A i \in DOMAIN records : records'[i].start <= records'[i].end
    BY <1>4, <2>1, <2>2
  <2> QED
    BY <1>4, <2>1, <2>3, <2>4 DEF FramesOK
<1>9. JInv'
  BY <1>0, <1>5, <1>6, <1>7, <1>8, InvariantWhenSaved
<1>10. ASSUME NEW i \in DOMAIN records
       PROVE  Image(records', memory, i) = Image(records, memory, i)
  <2>1. \A k \in DOMAIN records, c \in Cell :
          /\ Covers(records'[k], c) <=> Covers(records[k], c)
          /\ Saved(records'[k], memory, c) = Saved(records[k], memory, c)
    <3>1. \A k \in DOMAIN records :
            /\ records'[k].blocks = records[k].blocks
            /\ records'[k].bytes = records[k].bytes
      BY <1>2, <1>4
    <3> QED
      BY <3>1 DEF Covers, BlocksOf, Saved
  <2>2. PICK d \in Int : d = 0
    OBVIOUS
  <2>3. ASSUME NEW c \in Cell
        PROVE  Image(records', memory, i + d)[c] = Image(records, memory, i)[c]
    <3>1. \A j \in i .. Len(records) : j \in DOMAIN records /\ j + d = j
      BY <1>1, <2>2
    <3>2. SavesTheSame(records, memory, i, records', memory, d, c)
      BY <1>1, <1>4, <2>1, <2>2, <3>1, SMTT(30) DEF SavesTheSame
    <3> QED
      BY <3>2, SameImage
  <2>4. i + d = i
    BY <1>1, <2>2
  <2> QED
    BY <2>3, <2>4, EqualImages
<1>11. Checkpoints(records', memory) = [cs EXCEPT ![Len(cs)].end = @ + 1]
  <2>1. /\ DOMAIN cs = DOMAIN records /\ Len(cs) = L
        /\ cs[L].end + 1 = frame
    BY <1>0, <1>1, CheckpointsTyped
  <2>2. ASSUME NEW i \in DOMAIN records
        PROVE  Checkpoints(records', memory)[i] =
                 [cs EXCEPT ![Len(cs)].end = @ + 1][i]
    <3>1. Checkpoints(records', memory)[i] =
            [start |-> records'[i].start, end |-> records'[i].end,
             image |-> Image(records, memory, i)]
      BY <1>4, <1>10 DEF Checkpoints
    <3>2. cs[i] = [start |-> records[i].start, end |-> records[i].end,
                   image |-> Image(records, memory, i)]
      BY DEF Checkpoints
    <3> HIDE DEF cs
    <3>3. CASE i = L
      BY <1>2, <1>4, <2>1, <3>1, <3>2, <3>3
    <3>4. CASE i # L
      BY <1>4, <2>1, <3>1, <3>2, <3>4
    <3> QED
      BY <3>3, <3>4
  <2>3. Checkpoints(records', memory) =
          [i \in DOMAIN records |-> Checkpoints(records', memory)[i]]
    BY <1>4 DEF Checkpoints
  <2>4. [cs EXCEPT ![Len(cs)].end = @ + 1] =
          [i \in DOMAIN records |-> [cs EXCEPT ![Len(cs)].end = @ + 1][i]]
    BY <2>1
  <2> QED
    BY ONLY <2>2, <2>3, <2>4
<1>12. cs # << >>
  BY <1>1, CheckpointsTyped
<1> QED
  BY <1>0, <1>9, <1>11, <1>12 DEF Whole!ExtendNewest

(* The images of checkpoints that move in the ring. *)
IsShifted(rs, i, rt, d) ==
  /\ rs \in Seq(Record) /\ rt \in Seq(Record) /\ d \in Int
  /\ i \in DOMAIN rs /\ i + d \in DOMAIN rt /\ Len(rs) + d <= Len(rt)
  /\ \A j \in i .. Len(rs) : rt[j + d] = rs[j]
  /\ \A j \in Len(rs) + d + 1 .. Len(rt), c \in Cell : ~ Covers(rt[j], c)

LEMMA ShiftedImage ==
  ASSUME NEW rs, NEW mem, NEW i, NEW rt, NEW d, IsShifted(rs, i, rt, d)
  PROVE  Image(rt, mem, i + d) = Image(rs, mem, i)
<1>1. /\ Len(rs) \in Nat /\ Len(rt) \in Nat /\ i \in Nat /\ d \in Int
      /\ i + d \in Nat /\ i <= Len(rs)
      /\ DOMAIN rs = 1 .. Len(rs) /\ DOMAIN rt = 1 .. Len(rt)
  BY DEF IsShifted
<1>2. ASSUME NEW c \in Cell
      PROVE  Image(rt, mem, i + d)[c] = Image(rs, mem, i)[c]
  <2>1. SavesTheSame(rs, mem, i, rt, mem, d, c)
    BY <1>1 DEF IsShifted, SavesTheSame
  <2> QED
    BY <2>1, SameImage
<1> QED
  BY ONLY <1>2, EqualImages

LEMMA RoomIn ==
  ASSUME NEW S, NEW seq \in Seq(S), Len(seq) <= MaxRecords
  PROVE  \E d \in {-1, 0} :
           /\ d = -1 <=> Len(seq) = MaxRecords
           /\ Room(seq) \in Seq(S) /\ Len(Room(seq)) = Len(seq) + d
           /\ Len(Room(seq)) < MaxRecords
           /\ \A j \in 1 .. Len(Room(seq)) : Room(seq)[j] = seq[j - d]
<1>0. MaxRecords \in Nat \ {0} /\ Len(seq) \in Nat
  BY JournalAssumption
<1>1. CASE Len(seq) = MaxRecords
  <2>1. seq # << >>
    BY <1>0, <1>1
  <2>2. Room(seq) = Tail(seq)
    BY <1>1 DEF Room
  <2>3. /\ Tail(seq) \in Seq(S) /\ Len(Tail(seq)) = Len(seq) - 1
        /\ \A j \in 1 .. Len(Tail(seq)) : Tail(seq)[j] = seq[j + 1]
    BY <2>1, HeadTailProperties
  <2>4. \A j \in 1 .. Len(Tail(seq)) : j - (-1) = j + 1
    BY <1>0, <2>3
  <2> QED
    BY <1>0, <1>1, <2>2, <2>3, <2>4
<1>2. CASE Len(seq) # MaxRecords
  <2>1. Room(seq) = seq
    BY <1>2 DEF Room
  <2>2. \A j \in 1 .. Len(seq) : j - 0 = j
    BY <1>0
  <2> QED
    BY <1>0, <1>2, <2>1, <2>2
<1> QED
  BY <1>1, <1>2

LEMMA BeginStep ==
  ASSUME JInv, NEW frame \in Frame, BeginFrame(frame)
  PROVE  JInv' /\ Whole!Checkpoint(frame)
<1> DEFINE L == Len(records)
           ring == Room(records)
           new == [start |-> frame, end |-> frame, blocks |-> << >>, bytes |-> Unused]
           cs == Checkpoints(records, memory)
           cp == [start |-> frame, end |-> frame, image |-> memory]
<1>0. /\ TypeOK /\ ~ window.open /\ ~ frameOpen /\ CanCheckpoint(frame)
      /\ memory' = memory /\ window' = window /\ records' = Append(ring, new)
      /\ frameOpen' = TRUE /\ failed' = failed
  BY PendingMeansOpen DEF JInv, BeginFrame
<1>1. /\ records \in Seq(Record) /\ memory \in [Cell -> Value] /\ L \in Nat
      /\ L <= MaxRecords /\ DOMAIN records = 1 .. L
      /\ records # << >> => L \in DOMAIN records /\ BackRecord = records[L]
      /\ \A i \in DOMAIN records :
           records[i] \in Record /\ records[i].start \in Int /\ records[i].end \in Int
  BY <1>0, RecordFacts DEF TypeOK
<1>2. /\ new \in Record /\ \A c \in Cell : ~ Covers(new, c) /\ new.bytes[c] = Unset
  <2>1. << >> \in Seq(Block) /\ DOMAIN << >> = {}
    OBVIOUS
  <2> QED
    BY <2>1 DEF Record, Unused, Covers, BlocksOf
<1>3. window.pending = 0 /\ AllSaved(records)
  BY <1>0, WindowClosed
<1>4. PICK d \in {-1, 0} :
        /\ d = -1 <=> L = MaxRecords
        /\ ring \in Seq(Record) /\ Len(ring) = L + d /\ Len(ring) < MaxRecords
        /\ \A j \in 1 .. Len(ring) : ring[j] = records[j - d]
  BY <1>1, RoomIn, ZenonT(30)
<1>4a. d \in Int /\ L + d \in Nat /\ L + d + 1 \in Nat /\ MaxRecords \in Nat
       /\ L + d < MaxRecords
  <2>1. Len(ring) \in Nat
    BY <1>4
  <2>2. d \in Int /\ Len(ring) = L + d /\ Len(ring) < MaxRecords
    BY <1>4
  <2> QED
    BY ONLY <2>1, <2>2, JournalAssumption DEF JournalAssumption
<1> HIDE DEF ring, new
<1>5. /\ records' \in Seq(Record) /\ records' # << >>
      /\ Len(records') = L + d + 1 /\ DOMAIN records' = 1 .. L + d + 1
      /\ L + d \in Nat /\ L + d < MaxRecords
      /\ \A j \in 1 .. L + d : /\ records'[j] = records[j - d]
                               /\ j - d \in DOMAIN records
      /\ records'[L + d + 1] = new
  <2>1. /\ Append(ring, new) \in Seq(Record) /\ Append(ring, new) # << >>
        /\ Len(Append(ring, new)) = Len(ring) + 1
        /\ \A j \in 1 .. Len(ring) : Append(ring, new)[j] = ring[j]
        /\ Append(ring, new)[Len(ring) + 1] = new
    BY <1>2, <1>4, AppendProperties
  <2>2. Len(ring) \in Nat
    BY <1>4
  <2>3. \A j \in 1 .. L + d : j - d \in DOMAIN records
    BY <1>1, <1>4
  <2> QED
    BY <1>0, <1>4, <2>1, <2>2, <2>3
<1>6. AllSaved(records')
  <2> SUFFICES ASSUME NEW j \in 1 .. L + d + 1, NEW c \in Cell
               PROVE  Covers(records'[j], c) <=> records'[j].bytes[c] # Unset
    BY <1>5 DEF AllSaved
  <2>1. CASE j = L + d + 1
    BY <1>2, <1>5, <2>1
  <2>2. CASE j # L + d + 1
    <3>1. j \in 1 .. L + d
      BY <1>1, <1>4, <2>2
    <3> QED
      BY <1>3, <1>5, <3>1 DEF AllSaved
  <2> QED
    BY <2>1, <2>2
<1>7. FramesOK'
  <2>1. /\ \A i \in DOMAIN records : records[i].start <= records[i].end
        /\ \A i, j \in DOMAIN records : i < j => records[i].start < records[j].start
    BY DEF JInv, FramesOK
  <2>2. new.start = frame /\ new.end = frame /\ frame \in Int
    BY JournalAssumption DEF new, Frame
  <2>3. \A i \in DOMAIN records : records[i].start < frame
    <3>1. ASSUME NEW i \in DOMAIN records PROVE records[i].start < frame
      <4>1. records # << >>
        BY <1>1
      <4>2. frame > records[L].end /\ L \in DOMAIN records
        BY <1>0, <1>1, <4>1 DEF CanCheckpoint
      <4>3. i = L \/ i < L
        BY <1>1
      <4>4. records[i].start <= records[L].start /\ records[L].start <= records[L].end
        BY <1>1, <2>1, <4>2, <4>3
      <4> QED
        BY <1>1, <2>2, <4>2, <4>4
    <3> QED
      BY <3>1
  <2>4. ASSUME NEW i \in 1 .. L + d + 1
        PROVE  /\ records'[i].start <= records'[i].end
               /\ \A j \in 1 .. L + d + 1 : i < j => records'[i].start < records'[j].start
    <3>1. CASE i = L + d + 1
      BY <1>1, <1>4, <1>5, <2>2, <3>1
    <3>2. CASE i # L + d + 1
      <4>1. i \in 1 .. L + d
        BY <1>1, <1>4, <3>2
      <4>2. ASSUME NEW j \in 1 .. L + d + 1, i < j
            PROVE  records'[i].start < records'[j].start
        <5>1. CASE j = L + d + 1
          BY <1>5, <2>2, <2>3, <4>1, <5>1
        <5>2. CASE j # L + d + 1
          <6>1. j \in 1 .. L + d /\ i - d < j - d
            BY ONLY <1>4a, <4>1, <4>2, <5>2
          <6> QED
            BY <1>5, <2>1, <4>1, <6>1
        <5> QED
          BY <5>1, <5>2
      <4> QED
        BY <1>5, <2>1, <4>1, <4>2
    <3> QED
      BY <3>1, <3>2
  <2> QED
    BY <1>5, <2>4 DEF FramesOK
<1>8. TypeOK' /\ WindowOK'
  <2>1. Len(records') <= MaxRecords
    BY ONLY <1>4a, <1>5
  <2> QED
    BY <1>0, <1>5, <2>1 DEF TypeOK, WindowOK, JInv
<1>9. JInv'
  BY <1>0, <1>3, <1>6, <1>7, <1>8, InvariantWhenSaved
<1>10. ASSUME NEW j \in 1 .. L + d
       PROVE  Image(records', memory, j) = Image(records, memory, j - d)
  <2>1. j - d \in DOMAIN records /\ (j - d) + d = j
    BY <1>1, <1>4, <1>5
  <2>2. \A k \in j - d .. L : k + d \in 1 .. L + d /\ (k + d) - d = k
    BY <1>1, <1>4
  <2>3. \A k \in L + d + 1 .. Len(records') : k = L + d + 1
    BY <1>5
  <2>4. IsShifted(records, j - d, records', d)
    <3>1. \A k \in j - d .. L : records'[k + d] = records[k]
      BY ONLY <1>5, <2>2
    <3>2. \A k \in L + d + 1 .. Len(records'), c \in Cell : ~ Covers(records'[k], c)
      BY ONLY <1>2, <1>5, <2>3
    <3>3. (j - d) + d \in DOMAIN records' /\ L + d <= Len(records')
      BY ONLY <1>4a, <1>5, <2>1, j \in 1 .. L + d
    <3> QED
      BY ONLY <1>1, <1>4a, <1>5, <2>1, <3>1, <3>2, <3>3 DEF IsShifted
  <2>5. Image(records', memory, (j - d) + d) = Image(records, memory, j - d)
    BY ONLY <2>4, ShiftedImage
  <2> QED
    BY <2>1, <2>5
<1>11. Image(records', memory, L + d + 1) = memory
  <2>1. ASSUME NEW c \in Cell PROVE Image(records', memory, L + d + 1)[c] = memory[c]
    <3>1. \A k \in L + d + 1 .. Len(records') : ~ Covers(records'[k], c)
      BY <1>2, <1>5
    <3> QED
      BY ONLY <1>5, <3>1, c \in Cell, ImageOfUnsaved
  <2>2. Image(records', memory, L + d + 1) =
          [c \in Cell |-> Image(records', memory, L + d + 1)[c]]
    BY DEF Image
  <2> QED
    BY <1>1, <2>1, <2>2
<1>12. /\ cs \in Seq(CheckpointRecord) /\ Len(cs) = L /\ DOMAIN cs = DOMAIN records
       /\ \A i \in DOMAIN records :
            cs[i] = [start |-> records[i].start, end |-> records[i].end,
                     image |-> Image(records, memory, i)]
  BY <1>1, CheckpointsTyped DEF Checkpoints
<1> HIDE DEF cs
<1>13. PICK e \in {-1, 0} :
         /\ e = -1 <=> Len(cs) = MaxRecords
         /\ Room(cs) \in Seq(CheckpointRecord) /\ Len(Room(cs)) = Len(cs) + e
         /\ \A j \in 1 .. Len(Room(cs)) : Room(cs)[j] = cs[j - e]
  <2>1. Len(cs) <= MaxRecords /\ cs \in Seq(CheckpointRecord)
    BY <1>1, <1>12
  <2>2. \E e \in {-1, 0} :
          /\ e = -1 <=> Len(cs) = MaxRecords
          /\ Room(cs) \in Seq(CheckpointRecord) /\ Len(Room(cs)) = Len(cs) + e
          /\ Len(Room(cs)) < MaxRecords
          /\ \A j \in 1 .. Len(Room(cs)) : Room(cs)[j] = cs[j - e]
    BY ONLY <2>1, RoomIn
  <2> QED
    BY ONLY <2>2
<1>14. e = d
  BY <1>4, <1>12, <1>13
<1>15. Checkpoints(records', memory) = Append(Room(cs), cp)
  <2>1. cp \in CheckpointRecord
    BY <1>1 DEF CheckpointRecord
  <2> HIDE DEF cp
  <2>2. /\ Append(Room(cs), cp) \in Seq(CheckpointRecord)
        /\ Len(Append(Room(cs), cp)) = L + d + 1
        /\ \A j \in 1 .. L + d : Append(Room(cs), cp)[j] = cs[j - d]
        /\ Append(Room(cs), cp)[L + d + 1] = cp
    BY <1>12, <1>13, <1>14, <2>1, AppendProperties
  <2>3. /\ Checkpoints(records', memory) \in Seq(CheckpointRecord)
        /\ Len(Checkpoints(records', memory)) = L + d + 1
    BY <1>1, <1>5, CheckpointsTyped
  <2>4. ASSUME NEW j \in 1 .. L + d + 1
        PROVE  Checkpoints(records', memory)[j] = Append(Room(cs), cp)[j]
    <3>1. Checkpoints(records', memory)[j] =
            [start |-> records'[j].start, end |-> records'[j].end,
             image |-> Image(records', memory, j)]
      BY <1>5 DEF Checkpoints
    <3>2. CASE j = L + d + 1
      BY <1>5, <1>11, <2>2, <3>1, <3>2 DEF new, cp
    <3>3. CASE j # L + d + 1
      <4>1. j \in 1 .. L + d
        BY <1>1, <1>4, <3>3
      <4>2. j - d \in DOMAIN records /\ records'[j] = records[j - d]
        BY <1>5, <4>1
      <4> QED
        BY <1>10, <1>12, <2>2, <3>1, <4>1, <4>2
    <3> QED
      BY <3>2, <3>3
  <2> QED
    BY ONLY <2>2, <2>3, <2>4, SeqEqual
<1>16. cs # << >> => frame > cs[Len(cs)].end
  <2>1. cs # << >> => records # << >>
    BY <1>1, <1>12
  <2> QED
    BY <1>0, <1>1, <1>12, <2>1 DEF CanCheckpoint
<1> QED
  BY <1>0, <1>9, <1>15, <1>16 DEF Whole!Checkpoint, Whole!Newest, Room, cs, cp

LEMMA SubSeqFacts ==
  ASSUME NEW S, NEW seq \in Seq(S), NEW m \in 1 .. Len(seq) + 1,
         NEW n \in 0 .. Len(seq), m <= n + 1
  PROVE  /\ SubSeq(seq, m, n) \in Seq(S) /\ Len(SubSeq(seq, m, n)) = n - m + 1
         /\ DOMAIN SubSeq(seq, m, n) = 1 .. n - m + 1
         /\ \A j \in 1 .. n - m + 1 :
              m + j - 1 \in 1 .. Len(seq) /\ SubSeq(seq, m, n)[j] = seq[m + j - 1]
<1>1. /\ Len(seq) \in Nat /\ m \in Int /\ n \in Int
      /\ \A j \in m .. n : seq[j] \in S
  OBVIOUS
<1>2. /\ SubSeq(seq, m, n) \in Seq(S)
      /\ Len(SubSeq(seq, m, n)) = IF m <= n THEN n - m + 1 ELSE 0
      /\ \A j \in 1 .. n - m + 1 : SubSeq(seq, m, n)[j] = seq[m + j - 1]
  BY ONLY <1>1, SubSeqProperties
<1>3. Len(SubSeq(seq, m, n)) = n - m + 1
  BY <1>1, <1>2
<1>4. DOMAIN SubSeq(seq, m, n) = 1 .. Len(SubSeq(seq, m, n))
  BY <1>2, LenProperties
<1> QED
  BY <1>1, <1>2, <1>3, <1>4

LEMMA DiscardStep ==
  ASSUME JInv, NEW frame \in Frame, DiscardBefore(frame)
  PROVE  JInv' /\ \E i \in DOMAIN Checkpoints(records, memory) : Whole!Forget(i)
<1> DEFINE L == Len(records)
           cs == Checkpoints(records, memory)
<1>0. /\ TypeOK /\ ~ window.open /\ ~ frameOpen
      /\ memory' = memory /\ window' = window
      /\ frameOpen' = frameOpen /\ failed' = failed
  BY PendingMeansOpen DEF JInv, DiscardBefore
<1>1. /\ records \in Seq(Record) /\ memory \in [Cell -> Value] /\ L \in Nat
      /\ L <= MaxRecords /\ DOMAIN records = 1 .. L
  BY <1>0, RecordFacts DEF TypeOK
<1>2. PICK n \in DOMAIN records : records' = SubSeq(records, n + 1, L)
  BY DEF DiscardBefore
<1>3. n \in 1 .. L /\ n \in Int /\ L - n \in Nat /\ L - (n + 1) + 1 = L - n
  BY <1>1
<1>4. /\ records' \in Seq(Record) /\ Len(records') = L - n
      /\ DOMAIN records' = 1 .. L - n
      /\ \A j \in 1 .. L - n : n + j \in DOMAIN records /\ records'[j] = records[n + j]
  <2>1. /\ SubSeq(records, n + 1, L) \in Seq(Record)
        /\ Len(SubSeq(records, n + 1, L)) = L - (n + 1) + 1
        /\ DOMAIN SubSeq(records, n + 1, L) = 1 .. L - (n + 1) + 1
        /\ \A j \in 1 .. L - (n + 1) + 1 :
             /\ n + 1 + j - 1 \in 1 .. Len(records)
             /\ SubSeq(records, n + 1, L)[j] = records[n + 1 + j - 1]
    <3>1. n + 1 \in 1 .. L + 1 /\ L \in 0 .. L /\ n + 1 <= L + 1
      BY <1>1, <1>3
    <3> QED
      BY ONLY <1>1, <3>1, SubSeqFacts
  <2>2. \A j \in 1 .. L - n : n + 1 + j - 1 = n + j
    BY <1>3
  <2> QED
    BY <1>1, <1>2, <1>3, <2>1, <2>2
<1>5. window.pending = 0 /\ AllSaved(records)
  BY <1>0, WindowClosed
<1>6. AllSaved(records')
  BY <1>4, <1>5 DEF AllSaved
<1>7. FramesOK'
  <2>1. /\ \A i \in DOMAIN records : records[i].start <= records[i].end
        /\ \A i, j \in DOMAIN records : i < j => records[i].start < records[j].start
    BY DEF JInv, FramesOK
  <2>2. \A i, j \in 1 .. L - n : i < j => n + i < n + j
    BY <1>3
  <2> QED
    BY ONLY <1>4, <2>1, <2>2 DEF FramesOK
<1>8. TypeOK' /\ WindowOK'
  <2>1. Len(records') <= MaxRecords
    BY <1>1, <1>3, <1>4, JournalAssumption
  <2> QED
    BY <1>0, <1>4, <2>1 DEF TypeOK, WindowOK, JInv
<1>9. JInv'
  BY <1>0, <1>5, <1>6, <1>7, <1>8, InvariantWhenSaved
<1>10. ASSUME NEW j \in 1 .. L - n
       PROVE  Image(records', memory, j) = Image(records, memory, n + j)
  <2>0. PICK d \in Int : d = 0 - n
    BY <1>3
  <2>1. n + j \in DOMAIN records /\ (n + j) + d = j /\ L + d = L - n
    <3>1. n + j \in DOMAIN records
      BY ONLY <1>4, j \in 1 .. L - n
    <3>2. L \in Int /\ n \in Int /\ j \in Int
      BY ONLY <1>1, <1>3, j \in 1 .. L - n
    <3>3. (n + j) + d = j /\ L + d = L - n
      BY ONLY <2>0, <3>2
    <3> QED
      BY ONLY <3>1, <3>3
  <2>2. \A k \in n + j .. L :
          k + d \in 1 .. L - n /\ n + (k + d) = k
    <3>1. L \in Int /\ n \in Int /\ n >= 1 /\ j \in Int /\ j >= 1
      BY ONLY <1>1, <1>3, j \in 1 .. L - n
    <3>2. TAKE k \in n + j .. L
    <3>3. k \in Int /\ k >= n + j /\ k <= L
      BY ONLY <3>1, k \in n + j .. L
    <3>4. k + d \in Int /\ k + d >= 1 /\ k + d <= L - n /\ n + (k + d) = k
      BY ONLY <2>0, <3>1, <3>3
    <3> QED
      BY ONLY <3>1, <3>4
  <2>3. IsShifted(records, n + j, records', d)
    <3>1. \A k \in n + j .. L : records'[k + d] = records[k]
      BY ONLY <1>4, <2>2
    <3>2. \A k \in L + d + 1 .. Len(records'), c \in Cell :
            ~ Covers(records'[k], c)
      <4>1. L + d + 1 .. Len(records') = {}
        BY ONLY <1>3, <1>4, <2>1
      <4> QED
        BY ONLY <4>1
    <3>3. (n + j) + d \in DOMAIN records'
      BY ONLY <1>4, <2>1, j \in 1 .. L - n
    <3>4. L + d <= Len(records')
      BY <1>3, <1>4, <2>1
    <3> QED
      BY ONLY <1>1, <1>4, <2>1, <3>1, <3>2, <3>3, <3>4, d \in Int DEF IsShifted
  <2>4. Image(records', memory, (n + j) + d) = Image(records, memory, n + j)
    BY ONLY <2>3, ShiftedImage
  <2> QED
    BY <2>1, <2>4
<1>11. /\ cs \in Seq(CheckpointRecord) /\ Len(cs) = L /\ DOMAIN cs = DOMAIN records
       /\ \A i \in DOMAIN records :
            cs[i] = [start |-> records[i].start, end |-> records[i].end,
                     image |-> Image(records, memory, i)]
  BY <1>1, CheckpointsTyped DEF Checkpoints
<1> HIDE DEF cs
<1>12. Checkpoints(records', memory) = SubSeq(cs, n + 1, Len(cs))
  <2>1. /\ SubSeq(cs, n + 1, L) \in Seq(CheckpointRecord)
        /\ Len(SubSeq(cs, n + 1, L)) = L - n
        /\ \A j \in 1 .. L - n : SubSeq(cs, n + 1, L)[j] = cs[n + j]
    <3>1. n + 1 \in 1 .. Len(cs) + 1 /\ L \in 0 .. Len(cs) /\ n + 1 <= L + 1
      BY <1>1, <1>3, <1>11
    <3>2. /\ SubSeq(cs, n + 1, L) \in Seq(CheckpointRecord)
          /\ Len(SubSeq(cs, n + 1, L)) = L - (n + 1) + 1
          /\ \A j \in 1 .. L - (n + 1) + 1 :
               SubSeq(cs, n + 1, L)[j] = cs[n + 1 + j - 1]
      BY ONLY <1>11, <3>1, SubSeqFacts
    <3>3. \A j \in 1 .. L - n : n + 1 + j - 1 = n + j
      BY <1>3
    <3> QED
      BY <1>3, <3>2, <3>3
  <2>2. /\ Checkpoints(records', memory) \in Seq(CheckpointRecord)
        /\ Len(Checkpoints(records', memory)) = L - n
    BY <1>1, <1>4, CheckpointsTyped
  <2>3. ASSUME NEW j \in 1 .. L - n
        PROVE  Checkpoints(records', memory)[j] = SubSeq(cs, n + 1, L)[j]
    <3>1. Checkpoints(records', memory)[j] =
            [start |-> records'[j].start, end |-> records'[j].end,
             image |-> Image(records', memory, j)]
      BY <1>4 DEF Checkpoints
    <3>2. n + j \in DOMAIN records /\ records'[j] = records[n + j]
      BY <1>4
    <3> QED
      BY ONLY <1>10, <1>11, <2>1, <3>1, <3>2, j \in 1 .. L - n
  <2>4. Checkpoints(records', memory) = SubSeq(cs, n + 1, L)
    BY ONLY <2>1, <2>2, <2>3, SeqEqual
  <2> QED
    BY <1>11, <2>4
<1>13. Whole!Forget(n)
  BY <1>0, <1>12 DEF Whole!Forget, cs
<1> QED
  BY <1>2, <1>9, <1>11, <1>13 DEF cs

(* What UndoTo copies back is the image of the checkpoint: a block that is *)
(* skipped is never the oldest copy of any of its cells.                   *)
LEMMA RestoredIsImage ==
  ASSUME TypeOK, AllSaved(records), NEW i \in DOMAIN records
  PROVE  Restored(i) = Image(records, memory, i)
<1>0. /\ Len(records) \in Nat /\ DOMAIN records = 1 .. Len(records)
      /\ i \in Nat /\ i \in Int
  BY RecordFacts
<1>1. ASSUME NEW c \in Cell PROVE Restored(i)[c] = Image(records, memory, i)[c]
  <2>0. \A j \in CopiedBack(i, c) : j \in i .. Len(records) /\ Covers(records[j], c)
    BY DEF CopiedBack, Covers
  <2>1. CASE \A k \in i .. Len(records) : ~ Covers(records[k], c)
    <3>1. CopiedBack(i, c) = {}
      BY <2>0, <2>1
    <3>2. Image(records, memory, i)[c] = memory[c]
      BY ONLY <1>0, <2>1, c \in Cell, ImageOfUnsaved
    <3> QED
      BY <3>1, <3>2 DEF Restored
  <2>2. CASE \E j \in i .. Len(records) :
               Covers(records[j], c) /\ \A k \in i .. j - 1 : ~ Covers(records[k], c)
    <3>1. PICK j \in i .. Len(records) :
                 Covers(records[j], c) /\ \A k \in i .. j - 1 : ~ Covers(records[k], c)
      BY <2>2
    <3>2. PICK b \in BlocksOf(records[j]) : c \in Span(b)
      BY <3>1 DEF Covers
    <3>3. ~ Skipped(i, j, b)
      <4>1. ASSUME NEW k \in i .. j - 1, CoversBlock(records[k], b) PROVE FALSE
        <5>1. Covers(records[k], c)
          BY <3>2, <4>1 DEF CoversBlock, Covers
        <5> QED
          BY <3>1, <5>1
      <4> QED
        BY <4>1 DEF Skipped
    <3>4. j \in CopiedBack(i, c)
      BY <3>1, <3>2, <3>3 DEF CopiedBack
    <3>5. \A k \in CopiedBack(i, c) : j <= k
      <4>1. ASSUME NEW k \in CopiedBack(i, c) PROVE j <= k
        <5>1. k \in i .. Len(records) /\ Covers(records[k], c)
          BY <2>0
        <5>2. k \notin i .. j - 1
          BY <3>1, <5>1
        <5> QED
          BY <1>0, <5>1, <5>2
      <4> QED
        BY <4>1
    <3>6. Min(CopiedBack(i, c)) = j
      <4> DEFINE S == CopiedBack(i, c)
      <4>1. S \subseteq Int /\ j \in Int
        BY <1>0, <2>0
      <4> HIDE DEF S
      <4>2. j \in S /\ \A k \in S : j <= k
        BY <3>4, <3>5 DEF S
      <4>3. ASSUME NEW m \in S, \A k \in S : m <= k PROVE m = j
        BY <4>1, <4>2, <4>3
      <4> QED
        BY <4>2, <4>3 DEF Min, S
    <3>7. Restored(i)[c] = records[j].bytes[c]
      BY <3>4, <3>6 DEF Restored
    <3>8. Image(records, memory, i)[c] = Saved(records[j], memory, c)
      BY ONLY <1>0, <3>1, c \in Cell, ImageOfSaved
    <3>9. records[j].bytes[c] # Unset
      BY <1>0, <3>1 DEF AllSaved
    <3> QED
      BY <3>7, <3>8, <3>9 DEF Saved
  <2> QED
    BY ONLY <1>0, <2>1, <2>2, SavedOrNot
<1> QED
  BY <1>1 DEF Restored, Image

LEMMA UndoStep ==
  ASSUME JInv, NEW frame \in Frame, UndoTo(frame)
  PROVE  JInv' /\ \E i \in DOMAIN Checkpoints(records, memory) : Whole!Restore(i)
<1> DEFINE L == Len(records)
           cs == Checkpoints(records, memory)
<1>0. /\ TypeOK /\ ~ window.open /\ ~ frameOpen /\ window' = window
      /\ frameOpen' = frameOpen /\ failed' = failed
  BY PendingMeansOpen DEF JInv, UndoTo
<1>1. /\ records \in Seq(Record) /\ memory \in [Cell -> Value] /\ L \in Nat
      /\ L <= MaxRecords /\ DOMAIN records = 1 .. L
  BY <1>0, RecordFacts DEF TypeOK
<1>2. window.pending = 0 /\ AllSaved(records)
  BY <1>0, WindowClosed
<1>3. PICK i \in DOMAIN records :
        memory' = Restored(i) /\ records' = SubSeq(records, 1, i - 1)
  BY DEF UndoTo
<1>4. /\ memory' = Image(records, memory, i) /\ memory' \in [Cell -> Value]
      /\ i \in 1 .. L /\ i \in Nat /\ i - 1 \in Nat
  BY <1>0, <1>1, <1>2, <1>3, RestoredIsImage, ImageTyped
<1>5. /\ records' \in Seq(Record) /\ Len(records') = i - 1
      /\ DOMAIN records' = 1 .. i - 1
      /\ \A j \in 1 .. i - 1 : j \in DOMAIN records /\ records'[j] = records[j]
  <2>1. 1 \in 1 .. L + 1 /\ i - 1 \in 0 .. L /\ 1 <= (i - 1) + 1
        /\ (i - 1) - 1 + 1 = i - 1
    BY <1>1, <1>4
  <2>2. /\ SubSeq(records, 1, i - 1) \in Seq(Record)
        /\ Len(SubSeq(records, 1, i - 1)) = (i - 1) - 1 + 1
        /\ DOMAIN SubSeq(records, 1, i - 1) = 1 .. (i - 1) - 1 + 1
        /\ \A j \in 1 .. (i - 1) - 1 + 1 :
             1 + j - 1 \in 1 .. L /\ SubSeq(records, 1, i - 1)[j] = records[1 + j - 1]
    BY ONLY <1>1, <2>1, SubSeqFacts
  <2>3. \A j \in 1 .. i - 1 : 1 + j - 1 = j
    BY <1>4
  <2> QED
    BY <1>1, <1>3, <2>1, <2>2, <2>3
<1>6. AllSaved(records')
  BY <1>2, <1>5 DEF AllSaved
<1>7. FramesOK'
  <2>1. /\ \A k \in DOMAIN records : records[k].start <= records[k].end
        /\ \A k, j \in DOMAIN records : k < j => records[k].start < records[j].start
    BY DEF JInv, FramesOK
  <2> QED
    BY ONLY <1>5, <2>1 DEF FramesOK
<1>8. TypeOK' /\ WindowOK'
  <2>1. Len(records') <= MaxRecords
    BY <1>1, <1>4, <1>5, JournalAssumption
  <2> QED
    BY <1>0, <1>4, <1>5, <2>1 DEF TypeOK, WindowOK, JInv
<1>9. JInv'
  BY <1>0, <1>2, <1>6, <1>7, <1>8, InvariantWhenSaved
<1>10. ASSUME NEW k \in 1 .. i - 1
       PROVE  Image(records', memory', k) = Image(records, memory, k)
  <2>0. /\ k \in Nat /\ k \in DOMAIN records /\ Len(records') \in Nat
        /\ \A j \in k .. i - 1 : j \in k .. L /\ j \in 1 .. i - 1
        /\ \A j \in k .. L : j \in DOMAIN records
        /\ k .. Len(records') = k .. i - 1
    BY <1>1, <1>4, <1>5
  <2>1. ASSUME NEW c \in Cell
        PROVE  Image(records', memory', k)[c] = Image(records, memory, k)[c]
    <3>1. CASE \A j \in k .. Len(records') : ~ Covers(records'[j], c)
      <4>1. Image(records', memory', k)[c] = memory'[c]
        BY ONLY <2>0, <3>1, c \in Cell, ImageOfUnsaved
      <4>2. \A j \in k .. i - 1 : ~ Covers(records[j], c)
        BY ONLY <1>5, <2>0, <3>1
      <4>3. Image(records, memory, i)[c] = Image(records, memory, k)[c]
        <5>1. CASE \A j \in i .. L : ~ Covers(records[j], c)
          <6>1. \A j \in k .. L : ~ Covers(records[j], c)
            BY <1>1, <1>4, <2>0, <4>2, <5>1
          <6>2. Image(records, memory, i)[c] = memory[c]
            BY ONLY <1>4, <5>1, c \in Cell, ImageOfUnsaved
          <6>3. Image(records, memory, k)[c] = memory[c]
            BY ONLY <2>0, <6>1, c \in Cell, ImageOfUnsaved
          <6> QED
            BY <6>2, <6>3
        <5>2. CASE \E j \in i .. L :
                     Covers(records[j], c) /\ \A m \in i .. j - 1 : ~ Covers(records[m], c)
          <6>1. PICK j \in i .. L :
                       Covers(records[j], c) /\ \A m \in i .. j - 1 : ~ Covers(records[m], c)
            BY <5>2
          <6>2. j \in k .. L
            BY <1>1, <1>4, <2>0, <6>1
          <6>3. \A m \in k .. j - 1 : ~ Covers(records[m], c)
            <7>1. ASSUME NEW m \in k .. j - 1 PROVE ~ Covers(records[m], c)
              <8>1. m \in k .. i - 1 \/ m \in i .. j - 1
                BY <1>1, <1>4, <2>0, <6>1
              <8> QED
                BY <4>2, <6>1, <8>1
            <7> QED
              BY <7>1
          <6>4. Image(records, memory, i)[c] = Saved(records[j], memory, c)
            BY ONLY <1>1, <1>4, <6>1, c \in Cell, ImageOfSaved
          <6>5. Image(records, memory, k)[c] = Saved(records[j], memory, c)
            BY ONLY <1>1, <2>0, <6>1, <6>2, <6>3, c \in Cell, ImageOfSaved
          <6> QED
            BY <6>4, <6>5
        <5> QED
          BY ONLY <1>1, <1>4, <5>1, <5>2, SavedOrNot
      <4> QED
        BY <1>4, <4>1, <4>3
    <3>2. CASE \E j \in k .. Len(records') :
                 Covers(records'[j], c) /\ \A m \in k .. j - 1 : ~ Covers(records'[m], c)
      <4>1. PICK j \in k .. Len(records') :
                   Covers(records'[j], c) /\ \A m \in k .. j - 1 : ~ Covers(records'[m], c)
        BY <3>2
      <4>2. j \in 1 .. i - 1 /\ j \in k .. L /\ records'[j] = records[j]
        BY ONLY <1>5, <2>0, <4>1
      <4>3. Covers(records[j], c) /\ \A m \in k .. j - 1 : ~ Covers(records[m], c)
        <5>1. \A m \in k .. j - 1 : m \in 1 .. i - 1
          BY <1>4, <2>0, <4>2
        <5> QED
          BY <1>5, <4>1, <4>2, <5>1
      <4>4. Image(records', memory', k)[c] = Saved(records'[j], memory', c)
        BY ONLY <2>0, <4>1, c \in Cell, ImageOfSaved
      <4>5. Image(records, memory, k)[c] = Saved(records[j], memory, c)
        BY ONLY <1>1, <2>0, <4>2, <4>3, c \in Cell, ImageOfSaved, SMTT(30)
      <4>6. records[j].bytes[c] # Unset
        BY <1>2, <1>5, <4>2, <4>3 DEF AllSaved
      <4> QED
        BY <4>2, <4>4, <4>5, <4>6 DEF Saved
    <3> QED
      BY ONLY <2>0, <3>1, <3>2, SavedOrNot
  <2> QED
    BY ONLY <2>1, EqualImages
<1>11. /\ cs \in Seq(CheckpointRecord) /\ Len(cs) = L /\ DOMAIN cs = DOMAIN records
       /\ \A k \in DOMAIN records :
            cs[k] = [start |-> records[k].start, end |-> records[k].end,
                     image |-> Image(records, memory, k)]
  BY <1>1, CheckpointsTyped DEF Checkpoints
<1> HIDE DEF cs
<1>12. Checkpoints(records', memory') = SubSeq(cs, 1, i - 1)
  <2>1. /\ SubSeq(cs, 1, i - 1) \in Seq(CheckpointRecord)
        /\ Len(SubSeq(cs, 1, i - 1)) = i - 1
        /\ \A j \in 1 .. i - 1 : SubSeq(cs, 1, i - 1)[j] = cs[j]
    <3>1. 1 \in 1 .. Len(cs) + 1 /\ i - 1 \in 0 .. Len(cs) /\ 1 <= (i - 1) + 1
          /\ (i - 1) - 1 + 1 = i - 1
      BY <1>1, <1>4, <1>11
    <3>2. /\ SubSeq(cs, 1, i - 1) \in Seq(CheckpointRecord)
          /\ Len(SubSeq(cs, 1, i - 1)) = (i - 1) - 1 + 1
          /\ \A j \in 1 .. (i - 1) - 1 + 1 :
               SubSeq(cs, 1, i - 1)[j] = cs[1 + j - 1]
      BY ONLY <1>11, <3>1, SubSeqFacts
    <3>3. \A j \in 1 .. i - 1 : 1 + j - 1 = j
      BY <1>4
    <3> QED
      BY <3>1, <3>2, <3>3
  <2>2. /\ Checkpoints(records', memory') \in Seq(CheckpointRecord)
        /\ Len(Checkpoints(records', memory')) = i - 1
    BY <1>4, <1>5, CheckpointsTyped
  <2>3. ASSUME NEW j \in 1 .. i - 1
        PROVE  Checkpoints(records', memory')[j] = SubSeq(cs, 1, i - 1)[j]
    <3>1. Checkpoints(records', memory')[j] =
            [start |-> records'[j].start, end |-> records'[j].end,
             image |-> Image(records', memory', j)]
      BY <1>5 DEF Checkpoints
    <3> QED
      BY ONLY <1>5, <1>10, <1>11, <2>1, <3>1, j \in 1 .. i - 1
  <2> QED
    BY ONLY <2>1, <2>2, <2>3, SeqEqual
<1>13. cs[i].image = memory'
  BY <1>3, <1>4, <1>11
<1>14. Whole!Restore(i)
  BY <1>0, <1>12, <1>13 DEF Whole!Restore, cs
<1> QED
  BY <1>3, <1>9, <1>11, <1>14 DEF cs

---------------------------------------------------------------------------
(* A touch.  The block is new, so none of its cells was saved: the         *)
(* checkpoint that covers them now holds, or will be given, what is there. *)

Defers(b) == window.open /\ b.size >= Bulk
DrainedRecord(grows) == IF grows THEN Flushed(BackRecord) ELSE BackRecord
DrainedWindow(grows) == IF grows THEN FlushedWindow ELSE window
TouchedRecord(b, grows) ==
  [DrainedRecord(grows) EXCEPT
     !.blocks = Append(@, b),
     !.bytes  = IF Defers(b) THEN @ ELSE Copied(@, {b})]

LEMMA DrainedFacts ==
  ASSUME JInv, frameOpen, NEW grows \in BOOLEAN
  PROVE  /\ SavesNoLess(DrainedRecord(grows), BackRecord)
         /\ DrainedWindow(grows) \in Window
         /\ DrainedWindow(grows).open <=> window.open
         /\ DrainedWindow(grows).pending # 0 =>
              DrainedWindow(grows) = window /\ DrainedRecord(grows) = BackRecord
         /\ DrainedWindow(grows).pending = 0 => \A c \in Cell :
              Covers(BackRecord, c) => DrainedRecord(grows).bytes[c] # Unset
         /\ ~ window.open => DrainedWindow(grows) = ClosedWindow
         /\ window.open =>
              DrainedWindow(grows).first <= Len(BackRecord.blocks) + 1
<1>0. records # << >>
  BY PendingMeansOpen
<1>1. /\ SavesNoLess(Flushed(BackRecord), BackRecord)
      /\ \A c \in Cell : Covers(BackRecord, c) => Flushed(BackRecord).bytes[c] # Unset
  BY <1>0, FlushFacts
<1>2. /\ window \in Window /\ BackRecord.blocks \in Seq(Block)
      /\ BackRecord \in Record
  BY <1>0, RecordFacts DEF JInv, TypeOK
<1>3. Len(BackRecord.blocks) \in Nat
  BY <1>2
<1>4. /\ ~ window.open => window = ClosedWindow
      /\ window.open => window.first <= Len(BackRecord.blocks) + 1
  BY DEF JInv, WindowOK
<1>5. CASE window.pending = 0
  <2>1. DrainedWindow(grows) = window /\ DrainedRecord(grows) = BackRecord
        /\ Flushed(BackRecord) = BackRecord
    BY <1>5 DEF DrainedWindow, DrainedRecord, FlushedWindow, Flushed
  <2> QED
    BY <1>1, <1>2, <1>4, <1>5, <2>1
<1>6. CASE window.pending # 0 /\ ~ grows
  <2>1. DrainedWindow(grows) = window /\ DrainedRecord(grows) = BackRecord
    BY <1>6 DEF DrainedWindow, DrainedRecord
  <2>2. \A c \in Cell : ~ Covers(BackRecord, c) => BackRecord.bytes[c] = Unset
    BY <1>0, RecordFacts DEF JInv, BytesOK
  <2>3. SavesNoLess(BackRecord, BackRecord)
    BY <1>2, <2>2 DEF SavesNoLess
  <2> QED
    BY <1>2, <1>4, <1>6, <2>1, <2>3
<1>7. CASE window.pending # 0 /\ grows
  <2>1. /\ DrainedRecord(grows) = Flushed(BackRecord)
        /\ DrainedWindow(grows) =
             [window EXCEPT !.first = Len(BackRecord.blocks) + 1, !.pending = 0]
    BY <1>7 DEF DrainedWindow, DrainedRecord, FlushedWindow
  <2>2. window = [open |-> window.open, first |-> window.first,
                  pending |-> window.pending] /\ window.open \in BOOLEAN
    BY <1>2 DEF Window
  <2>3. DrainedWindow(grows) = [open |-> window.open, pending |-> 0,
                                first |-> Len(BackRecord.blocks) + 1]
    BY <2>1, <2>2
  <2>4. DrainedWindow(grows) \in Window
    BY <1>3, <2>2, <2>3 DEF Window
  <2>5. /\ DrainedWindow(grows).open <=> window.open
        /\ DrainedWindow(grows).pending = 0
        /\ DrainedWindow(grows).first = Len(BackRecord.blocks) + 1
    BY <2>3
  <2>6. window.open
    BY <1>7, PendingMeansOpen
  <2> QED
    BY <1>1, <1>3, <2>1, <2>4, <2>5, <2>6
<1> QED
  BY <1>5, <1>6, <1>7

LEMMA TouchStep ==
  ASSUME JInv, NEW b \in Touchable, NEW grows \in BOOLEAN, Touch(b, grows)
  PROVE  JInv' /\ UNCHANGED Whole!snapshotVars
<1> DEFINE L == Len(records)
           back == BackRecord
           D == DrainedRecord(grows)
           W == DrainedWindow(grows)
           N == TouchedRecord(b, grows)
           n == Len(back.blocks)
<1>0. /\ TypeOK /\ frameOpen /\ records # << >>
      /\ memory' = memory /\ frameOpen' = frameOpen /\ failed' = failed
      /\ b \notin BlocksOf(BackRecord) /\ ~ Overlaps(BackRecord, b)
      /\ records' = [records EXCEPT ![Len(records)] = N]
      /\ window' = IF ~ Defers(b) THEN W
                   ELSE [W EXCEPT !.first = IF W.pending = 0 THEN n + 1 ELSE @,
                                  !.pending = @ + 1]
  BY PendingMeansOpen
     DEF JInv, Touch, Defers, DrainedRecord, DrainedWindow, TouchedRecord
<1>1. /\ L \in Nat /\ DOMAIN records = 1 .. L /\ L \in DOMAIN records
      /\ back = records[L] /\ back \in Record /\ back.blocks \in Seq(Block)
      /\ \A c \in Cell : memory[c] \in Value /\ memory[c] # Unset
      /\ \A i \in DOMAIN records : records[i].start \in Int /\ records[i].end \in Int
      /\ records \in Seq(Record) /\ memory \in [Cell -> Value]
      /\ window \in Window
  BY <1>0, RecordFacts DEF TypeOK
<1>2. n \in Nat /\ DOMAIN back.blocks = 1 .. n
  BY <1>1
<1>3. /\ SavesNoLess(D, back) /\ W \in Window /\ (W.open <=> window.open)
      /\ W.pending # 0 => W = window /\ D = back
      /\ W.pending = 0 => \A c \in Cell : Covers(back, c) => D.bytes[c] # Unset
      /\ ~ window.open => W = ClosedWindow
      /\ window.open => W.first <= n + 1
  BY <1>0, DrainedFacts
<1> HIDE DEF D, W
<1>4. /\ D \in Record /\ D.blocks = back.blocks
      /\ D.start = back.start /\ D.end = back.end
      /\ D.bytes \in [Cell -> Value \cup {Unset}]
  BY <1>3 DEF SavesNoLess, Record
<1>5. b \in Block
  BY TouchableAssumption
<1>6. /\ Append(back.blocks, b) \in Seq(Block)
      /\ DOMAIN Append(back.blocks, b) = 1 .. n + 1
      /\ \A m \in 1 .. n : Append(back.blocks, b)[m] = back.blocks[m]
      /\ Append(back.blocks, b)[n + 1] = b
  <2>1. /\ Append(back.blocks, b) \in Seq(Block)
        /\ Len(Append(back.blocks, b)) = n + 1
        /\ \A m \in 1 .. n : Append(back.blocks, b)[m] = back.blocks[m]
        /\ Append(back.blocks, b)[n + 1] = b
    BY ONLY <1>1, <1>5, AppendProperties
  <2> QED
    BY <2>1
<1>7. DEFINE bytes == IF Defers(b) THEN D.bytes ELSE Copied(D.bytes, {b})
<1>8. /\ bytes \in [Cell -> Value \cup {Unset}]
      /\ \A c \in Cell : bytes[c] =
           IF ~ Defers(b) /\ c \in Span(b) THEN memory[c] ELSE D.bytes[c]
  BY <1>1, <1>4 DEF Copied
<1>9. N = [D EXCEPT !.blocks = Append(D.blocks, b), !.bytes = bytes]
  BY DEF TouchedRecord, D
<1> HIDE DEF N, bytes
<1>10. /\ N \in Record /\ N.blocks = Append(back.blocks, b) /\ N.bytes = bytes
       /\ N.start = back.start /\ N.end = back.end
  BY <1>4, <1>6, <1>8, <1>9 DEF Record
<1>11. /\ records' \in Seq(Record) /\ Len(records') = L
       /\ DOMAIN records' = DOMAIN records /\ records'[L] = N /\ records' # << >>
       /\ \A i \in DOMAIN records : i # L => records'[i] = records[i]
  BY ONLY <1>0, <1>10, ReplacedLast
<1>12. \A c \in Cell : /\ Covers(N, c) <=> Covers(back, c) \/ c \in Span(b)
                       /\ c \in Span(b) => ~ Covers(back, c)
  <2>1. \A c \in Cell : Covers(N, c) <=>
                        \E m \in 1 .. n + 1 : c \in Span(Append(back.blocks, b)[m])
    BY <1>6, <1>10, CoversMeans
  <2>2. \A c \in Cell : Covers(back, c) <=> \E m \in 1 .. n : c \in Span(back.blocks[m])
    BY <1>2, CoversMeans
  <2>3. \A m : m \in 1 .. n + 1 <=> m \in 1 .. n \/ m = n + 1
    BY <1>2
  <2>4. \A c \in Cell : c \in Span(b) => ~ Covers(back, c)
    BY <1>0 DEF Overlaps, Covers
  <2> QED
    BY <1>6, <2>1, <2>2, <2>3, <2>4
<1>13. \A c \in Cell : ~ Covers(back, c) => D.bytes[c] = Unset
  BY <1>3 DEF SavesNoLess
<1>14. /\ window' \in Window /\ (window'.open <=> window.open)
       /\ ~ window.open => window' = ClosedWindow
       /\ window.open => window'.first <= n + 2
       /\ ~ Defers(b) => window' = W
       /\ Defers(b) => /\ window'.pending # 0
                       /\ window'.first = IF W.pending = 0 THEN n + 1 ELSE W.first
  <2>1. CASE ~ Defers(b)
    <3>1. window' = W
      BY <1>0, <2>1
    <3>2. window.open => W.first <= n + 2
      BY <1>2, <1>3 DEF Window
    <3> QED
      BY <1>3, <2>1, <3>1, <3>2
  <2>2. CASE Defers(b)
    <3>1. W = [open |-> W.open, first |-> W.first, pending |-> W.pending]
          /\ W.open \in BOOLEAN /\ W.first \in Nat /\ W.pending \in Nat
      BY <1>3 DEF Window
    <3>2. PICK first \in Nat : first = IF W.pending = 0 THEN n + 1 ELSE W.first
      BY <1>2, <3>1
    <3>3. window' = [W EXCEPT !.first = first, !.pending = W.pending + 1]
      BY <1>0, <2>2, <3>2
    <3>4. window' = [open |-> W.open, first |-> first, pending |-> W.pending + 1]
      BY <3>1, <3>3
    <3>5. window' \in Window /\ (window'.open <=> W.open)
          /\ window'.first = first /\ window'.pending = W.pending + 1
      BY <3>1, <3>4 DEF Window
    <3>6. window.open /\ first <= n + 2
      BY <1>2, <1>3, <2>2, <3>1, <3>2 DEF Defers
    <3>7. W.pending + 1 # 0
      BY <3>1
    <3> QED
      BY <1>3, <2>2, <3>2, <3>5, <3>6, <3>7
  <2> QED
    BY <2>1, <2>2
<1>15. TypeOK'
  BY <1>0, <1>1, <1>11, <1>14 DEF TypeOK
<1>16. WindowOK'
  <2>1. Len(BackRecord.blocks)' = n + 1
    BY <1>6, <1>10, <1>11 DEF BackRecord
  <2>2. n + 1 + 1 = n + 2
    BY <1>2
  <2> QED
    BY <1>0, <1>11, <1>14, <2>1, <2>2 DEF WindowOK
<1>17. FramesOK'
  <2>1. /\ \A i \in DOMAIN records : records[i].start <= records[i].end
        /\ \A i, j \in DOMAIN records : i < j => records[i].start < records[j].start
    BY DEF JInv, FramesOK
  <2>2. \A i \in DOMAIN records : /\ records'[i].start = records[i].start
                                  /\ records'[i].end = records[i].end
    BY <1>1, <1>10, <1>11
  <2> QED
    BY <1>11, <2>1, <2>2 DEF FramesOK
<1>18. \A c \in Cell : PutOffCell(BackRecord, c)' <=>
                         PutOffByBlock(window'.first, N.blocks, c)
  BY <1>11 DEF PutOffCell, PutOff, BackRecord, PutOffByBlock
<1>19. \A c \in Cell : PutOffByBlock(window'.first, N.blocks, c) <=>
         \/ n + 1 >= window'.first /\ b.size >= Bulk /\ c \in Span(b)
         \/ \E m \in 1 .. n : /\ m >= window'.first /\ back.blocks[m].size >= Bulk
                              /\ c \in Span(back.blocks[m])
  <2>1. \A m : m \in 1 .. n + 1 <=> m \in 1 .. n \/ m = n + 1
    BY <1>2
  <2> QED
    BY <1>6, <1>10, <2>1 DEF PutOffByBlock
<1>20. \A c \in Cell : PutOffCell(back, c) <=>
         \E m \in 1 .. n : /\ m >= window.first /\ back.blocks[m].size >= Bulk
                           /\ c \in Span(back.blocks[m])
  BY <1>2, PutOffCellMeans DEF PutOffByBlock
<1>21. \A c \in Cell : Covers(back, c) /\ D.bytes[c] = Unset =>
         W.pending # 0 /\ PutOffCell(back, c)
  BY <1>1, <1>3 DEF JInv, BytesOK
<1>22. BytesOK'
  <2>1. ASSUME NEW i \in DOMAIN records, i # L, NEW c \in Cell
        PROVE  Covers(records'[i], c) <=> records'[i].bytes[c] # Unset
    BY <1>11, <2>1 DEF JInv, BytesOK
  <2>2. ASSUME NEW c \in Cell, ~ Covers(N, c) PROVE N.bytes[c] = Unset
    BY <1>8, <1>10, <1>12, <1>13, <2>2
  <2>3. ASSUME NEW c \in Cell, Covers(N, c), N.bytes[c] = Unset
        PROVE  window'.pending # 0 /\ PutOffByBlock(window'.first, N.blocks, c)
    <3>1. D.bytes[c] = Unset /\ (c \in Span(b) => Defers(b))
      BY <1>1, <1>8, <1>10, <2>3
    <3>2. CASE c \in Span(b)
      <4>1. b.size >= Bulk /\ window'.pending # 0
        BY <1>14, <3>1, <3>2 DEF Defers
      <4>2. n + 1 >= window'.first
        BY <1>2, <1>3, <1>14, <3>1, <3>2 DEF Defers, Window
      <4> QED
        BY <1>19, <3>2, <4>1, <4>2
    <3>3. CASE c \notin Span(b)
      <4>1. W.pending # 0 /\ W = window /\ PutOffCell(back, c)
        BY <1>3, <1>12, <1>21, <2>3, <3>1, <3>3
      <4>2. window'.first = window.first /\ window'.pending # 0
        BY <1>14, <4>1
      <4> QED
        BY <1>19, <1>20, <4>1, <4>2
    <3> QED
      BY <3>2, <3>3
  <2>4. ASSUME NEW i \in DOMAIN records, NEW c \in Cell
        PROVE  /\ ~ Covers(records'[i], c) => records'[i].bytes[c] = Unset
               /\ Covers(records'[i], c) /\ records'[i].bytes[c] = Unset =>
                    i = L /\ window'.pending # 0 /\ PutOffCell(records[i], c)'
    <3>1. CASE i = L
      <4>1. PutOffCell(records[i], c)' <=> PutOffByBlock(window'.first, N.blocks, c)
        BY <1>11, <3>1 DEF PutOffCell, PutOff, PutOffByBlock
      <4> QED
        BY <1>11, <2>2, <2>3, <3>1, <4>1
    <3>2. CASE i # L
      BY <2>1, <3>2
    <3> QED
      BY <3>1, <3>2
  <2> QED
    BY <1>11, <2>4 DEF BytesOK
<1>23. PutOffOK'
  <2>1. ASSUME NEW c \in Cell, window'.pending # 0,
               PutOffByBlock(window'.first, N.blocks, c)
        PROVE  N.bytes[c] = Unset
    <3>1. CASE c \in Span(b) /\ n + 1 >= window'.first /\ b.size >= Bulk
      <4>1. Defers(b)
        BY <1>14, <2>1, <3>1 DEF Defers, ClosedWindow
      <4> QED
        BY <1>8, <1>10, <1>12, <1>13, <3>1, <4>1
    <3>2. CASE \E m \in 1 .. n : /\ m >= window'.first /\ back.blocks[m].size >= Bulk
                                 /\ c \in Span(back.blocks[m])
      <4>1. W.pending # 0
        <5>1. ASSUME W.pending = 0 PROVE FALSE
          <6>1. Defers(b)
            BY <1>14, <2>1, <5>1
          <6>2. window'.first = n + 1
            BY <1>14, <5>1, <6>1
          <6>3. \A m \in 1 .. n : ~ (m >= n + 1)
            BY <1>2
          <6> QED
            BY <3>2, <6>2, <6>3
        <5> QED
          BY <5>1
      <4>2. W = window /\ D = back /\ window'.first = window.first
        BY <1>3, <1>14, <4>1
      <4>3. PutOffCell(back, c) /\ window.pending # 0
        BY <1>20, <3>2, <4>1, <4>2
      <4>4. back.bytes[c] = Unset
        BY <4>3 DEF JInv, PutOffOK
      <4>5. Covers(back, c)
        BY <4>3, PutOffIsCovered
      <4> QED
        BY <1>8, <1>10, <1>12, <4>2, <4>4, <4>5
    <3> QED
      BY <1>19, <2>1, <3>1, <3>2
  <2> QED
    BY <1>11, <1>18, <2>1 DEF PutOffOK, BackRecord
<1>24. JInv'
  BY <1>15, <1>16, <1>17, <1>22, <1>23 DEF JInv
<1>25. ASSUME NEW i \in DOMAIN records
       PROVE  Image(records', memory, i) = Image(records, memory, i)
  <2>0. i \in Nat /\ i \in 1 .. L /\ \A k \in i .. L : k \in DOMAIN records
    BY <1>1
  <2>0a. L \in Nat /\ Len(records') = L
    BY <1>1, <1>11
  <2>1. ASSUME NEW c \in Cell
        PROVE  Image(records', memory, i)[c] = Image(records, memory, i)[c]
    <3>1. CASE c \in Span(b)
      <4>1. ~ Covers(back, c) /\ Covers(N, c) /\ Saved(N, memory, c) = memory[c]
        BY <1>8, <1>10, <1>12, <1>13, <3>1 DEF Saved
      <4>2. CASE \A k \in i .. L : ~ Covers(records[k], c)
        <5>1. Image(records, memory, i)[c] = memory[c]
          BY ONLY <2>0, <4>2, c \in Cell, ImageOfUnsaved
        <5>2. /\ L \in i .. L /\ \A k \in i .. L - 1 : k \in i .. L /\ k # L
              /\ Len(records') \in Nat /\ L \in i .. Len(records')
          BY ONLY <2>0, <2>0a
        <5>3. Covers(records'[L], c) /\ \A k \in i .. L - 1 : ~ Covers(records'[k], c)
          BY <1>11, <2>0, <4>1, <4>2, <5>2
        <5>4. Image(records', memory, i)[c] = Saved(records'[L], memory, c)
          BY ONLY <2>0, <5>2, <5>3, c \in Cell, ImageOfSaved
        <5> QED
          BY <1>11, <4>1, <5>1, <5>4
      <4>3. CASE \E j \in i .. L :
                   Covers(records[j], c) /\ \A k \in i .. j - 1 : ~ Covers(records[k], c)
        <5>1. PICK j \in i .. L :
                     Covers(records[j], c) /\ \A k \in i .. j - 1 : ~ Covers(records[k], c)
          BY <4>3
        <5>2a. j # L
          BY <1>1, <4>1, <5>1
        <5>2. /\ \A k \in i .. j - 1 : k \in i .. L /\ k # L
              /\ Len(records') \in Nat /\ j \in i .. Len(records')
          BY ONLY <2>0, <2>0a, <5>2a, j \in i .. L
        <5>3. /\ records'[j] = records[j] /\ Covers(records'[j], c)
              /\ \A k \in i .. j - 1 : ~ Covers(records'[k], c)
          BY <1>11, <2>0, <5>1, <5>2, <5>2a
        <5>4. Image(records', memory, i)[c] = Saved(records'[j], memory, c)
          BY ONLY <2>0, <5>2, <5>3, c \in Cell, ImageOfSaved
        <5>5. Image(records, memory, i)[c] = Saved(records[j], memory, c)
          BY ONLY <1>1, <2>0, <5>1, c \in Cell, ImageOfSaved, ZenonT(30)
        <5> QED
          BY <5>3, <5>4, <5>5
      <4> QED
        BY ONLY <1>1, <2>0, <4>2, <4>3, SavedOrNot
    <3>2. CASE c \notin Span(b)
      <4>0. PICK d \in Int : d = 0
        OBVIOUS
      <4>1. /\ Covers(N, c) <=> Covers(back, c)
            /\ Saved(N, memory, c) = Saved(back, memory, c)
        BY <1>3, <1>8, <1>10, <1>12, <3>2 DEF Saved, SavesNoLess
      <4>2. \A j \in i .. L :
              /\ j + d = j
              /\ Covers(records'[j], c) <=> Covers(records[j], c)
              /\ Saved(records'[j], memory, c) = Saved(records[j], memory, c)
        BY <1>1, <1>11, <2>0, <4>0, <4>1
      <4>3. SavesTheSame(records, memory, i, records', memory, d, c)
        BY <1>1, <1>11, <2>0, <4>0, <4>2 DEF SavesTheSame
      <4>4. Image(records', memory, i + d)[c] = Image(records, memory, i)[c]
        BY ONLY <4>3, c \in Cell, SameImage
      <4>5. i + d = i
        BY <2>0, <4>0
      <4> QED
        BY <4>4, <4>5
    <3> QED
      BY <3>1, <3>2
  <2> QED
    BY ONLY <2>1, EqualImages
<1>26. Checkpoints(records', memory) = Checkpoints(records, memory)
  <2>1. \A i \in DOMAIN records : /\ records'[i].start = records[i].start
                                  /\ records'[i].end = records[i].end
    BY <1>1, <1>10, <1>11
  <2> QED
    BY <1>11, <1>25, <2>1 DEF Checkpoints
<1> QED
  BY <1>0, <1>24, <1>26 DEF Whole!snapshotVars

---------------------------------------------------------------------------
(* A correction.  A checkpoint that is corrected has its own copy of the   *)
(* pair; one that is not finds its copy in a checkpoint that is not, since *)
(* the corrected ones are consecutive and the one before them has a copy.  *)

LEMMA MinOfSet ==
  ASSUME NEW T, T \subseteq Nat, T # {}
  PROVE  Min(T) \in T /\ \A y \in T : Min(T) <= y
  BY LeastElement DEF Min

LEMMA AdjustStep ==
  ASSUME JInv, NEW after \in Frame, NEW through \in Frame, NEW c \in Cell,
         AddFloatPairToSnapshots(after, through, c)
  PROVE  JInv' /\ Whole!Adjust(after, through, c)
<1> DEFINE L == Len(records)
           A == {i \in DOMAIN records : Corrects(after, through, i)}
           cs == Checkpoints(records, memory)
<1>0. /\ TypeOK /\ ~ window.open /\ ~ frameOpen /\ memory' = memory
      /\ window' = window /\ frameOpen' = frameOpen /\ failed' = failed
      /\ A # {} /\ \A i \in A : Covers(records[i], c)
      /\ Min(A) > 1 => Covers(records[Min(A) - 1], c)
      /\ records' = [i \in DOMAIN records |->
                       IF i \in A THEN [records[i] EXCEPT !.bytes[c] = Adjusted(@)]
                                  ELSE records[i]]
  BY PendingMeansOpen DEF JInv, AddFloatPairToSnapshots
<1>1. /\ records \in Seq(Record) /\ memory \in [Cell -> Value] /\ L \in Nat
      /\ L <= MaxRecords /\ DOMAIN records = 1 .. L
      /\ \A i \in DOMAIN records :
           /\ records[i] \in Record
           /\ records[i].bytes \in [Cell -> Value \cup {Unset}]
           /\ records[i].start \in Int /\ records[i].end \in Int
      /\ after \in Int /\ through \in Int
  BY <1>0, RecordFacts, JournalAssumption DEF TypeOK, Frame
<1>2. window.pending = 0 /\ AllSaved(records)
  BY <1>0, WindowClosed
<1>3. A \subseteq Nat /\ Min(A) \in A /\ \A i \in A : Min(A) <= i
  <2>1. A \subseteq Nat /\ A # {}
    BY <1>0, <1>1
  <2> HIDE DEF A
  <2> QED
    BY ONLY <2>1, MinOfSet
<1>4. \A i \in DOMAIN records : i \in A <=> records[i].start \in after + 1 .. through
  BY DEF Corrects
<1> HIDE DEF A
<1>5. ASSUME NEW i \in DOMAIN records
      PROVE  /\ records'[i] \in Record /\ records'[i].blocks = records[i].blocks
             /\ records'[i].start = records[i].start /\ records'[i].end = records[i].end
             /\ \A d \in Cell : d # c => records'[i].bytes[d] = records[i].bytes[d]
             /\ i \notin A => records'[i] = records[i]
             /\ i \in A => /\ records[i].bytes[c] \in Value
                           /\ records'[i].bytes[c] = Adjusted(records[i].bytes[c])
                           /\ records'[i].bytes[c] \in Value
  <2>1. CASE i \notin A
    BY <1>0, <1>1, <2>1
  <2>2. CASE i \in A
    <3>1. records[i].bytes[c] \in Value
      BY <1>0, <1>1, <1>2, <2>2 DEF AllSaved
    <3>2. Adjusted(records[i].bytes[c]) \in Value
      BY <3>1, JournalAssumption
    <3>3. PICK bytes : bytes = [records[i].bytes EXCEPT ![c] = Adjusted(records[i].bytes[c])]
      OBVIOUS
    <3>4. /\ bytes \in [Cell -> Value \cup {Unset}]
          /\ bytes[c] = Adjusted(records[i].bytes[c])
          /\ \A d \in Cell : d # c => bytes[d] = records[i].bytes[d]
      BY <1>1, <3>2, <3>3
    <3>5. records'[i] = [records[i] EXCEPT !.bytes = bytes]
      BY <1>0, <2>2, <3>3
    <3>6. /\ records'[i] \in Record /\ records'[i].blocks = records[i].blocks
          /\ records'[i].start = records[i].start /\ records'[i].end = records[i].end
          /\ records'[i].bytes = bytes
      BY <1>1, <3>4, <3>5 DEF Record
    <3> QED
      BY <2>2, <3>1, <3>2, <3>4, <3>6
  <2> QED
    BY <2>1, <2>2
<1>6. /\ records' \in Seq(Record) /\ Len(records') = L /\ DOMAIN records' = DOMAIN records
  <2>1. DOMAIN records' = 1 .. L
    BY <1>0, <1>1
  <2>2. records' \in [1 .. L -> Record]
    BY <1>0, <1>1, <1>5
  <2>3. records' \in Seq(Record)
    BY <1>1, <2>2, SeqDef
  <2> QED
    BY <1>1, <2>1, <2>3, LenProperties
<1>7. \A i \in DOMAIN records, d \in Cell : Covers(records'[i], d) <=> Covers(records[i], d)
  BY <1>5 DEF Covers, BlocksOf
<1>8. AllSaved(records')
  <2> SUFFICES ASSUME NEW i \in DOMAIN records, NEW d \in Cell
               PROVE  Covers(records'[i], d) <=> records'[i].bytes[d] # Unset
    BY <1>6 DEF AllSaved
  <2>1. CASE d = c /\ i \in A
    <3>1. records'[i].bytes[c] # Unset
      BY <1>5, <2>1, JournalAssumption
    <3> QED
      BY <1>0, <1>7, <2>1, <3>1
  <2>2. CASE ~ (d = c /\ i \in A)
    <3>1. records'[i].bytes[d] = records[i].bytes[d]
      BY <1>5, <2>2
    <3> QED
      BY <1>2, <1>7, <3>1 DEF AllSaved
  <2> QED
    BY <2>1, <2>2
<1>9. JInv'
  <2>1. TypeOK' /\ WindowOK'
    BY <1>0, <1>1, <1>6 DEF TypeOK, WindowOK, JInv
  <2>2. FramesOK'
    <3>1. /\ \A i \in DOMAIN records : records[i].start <= records[i].end
          /\ \A i, j \in DOMAIN records : i < j => records[i].start < records[j].start
      BY DEF JInv, FramesOK
    <3> QED
      BY <1>5, <1>6, <3>1 DEF FramesOK
  <2> QED
    BY <1>0, <1>2, <1>8, <2>1, <2>2, InvariantWhenSaved
<1>10. ASSUME NEW i \in DOMAIN records, NEW d \in Cell,
              \/ d # c
              \/ \A j \in i .. L : j \notin A
       PROVE  Image(records', memory, i)[d] = Image(records, memory, i)[d]
  <2>0. PICK z \in Int : z = 0
    OBVIOUS
  <2>1. i \in Nat /\ i + z \in Nat /\ i + z = i /\ L + z = L
        /\ \A j \in i .. L : j + z = j /\ j \in DOMAIN records
    BY <1>1, <2>0
  <2>2. \A j \in i .. L : Saved(records'[j], memory, d) = Saved(records[j], memory, d)
    <3>1. ASSUME NEW j \in i .. L PROVE records'[j].bytes[d] = records[j].bytes[d]
      <4>1. j \in DOMAIN records
        BY <2>1
      <4>2. CASE d # c
        BY <1>5, <4>1, <4>2
      <4>3. CASE j \notin A
        BY <1>5, <4>1, <4>3
      <4> QED
        BY <1>10, <4>2, <4>3
    <3> QED
      BY <3>1 DEF Saved
  <2>3. SavesTheSame(records, memory, i, records', memory, z, d)
    <3>1. \A j \in i .. L :
            /\ Covers(records'[j + z], d) <=> Covers(records[j], d)
            /\ Saved(records'[j + z], memory, d) = Saved(records[j], memory, d)
      BY <1>7, <2>1, <2>2
    <3>2. L \in Nat /\ Len(records') = L /\ i <= L + 1 /\ L + z + 1 .. L = {}
      BY <1>1, <1>6, <2>0
    <3> QED
      BY ONLY <2>0, <2>1, <3>1, <3>2, z \in Int DEF SavesTheSame
  <2>4. Image(records', memory, i + z)[d] = Image(records, memory, i)[d]
    BY ONLY <2>3, d \in Cell, SameImage
  <2> QED
    BY <2>1, <2>4
<1>11. ASSUME NEW i \in DOMAIN records, i \in A
       PROVE  /\ Image(records, memory, i)[c] = records[i].bytes[c]
              /\ Image(records', memory, i)[c] = Adjusted(records[i].bytes[c])
  <2>1. /\ i \in Nat /\ i \in i .. L /\ i .. i - 1 = {}
        /\ L \in Nat /\ Len(records') \in Nat /\ i \in i .. Len(records')
    BY <1>1, <1>6
  <2>2. Covers(records[i], c) /\ Covers(records'[i], c)
    BY <1>0, <1>7, <1>11
  <2>3. Image(records, memory, i)[c] = Saved(records[i], memory, c)
    BY ONLY <2>1, <2>2, c \in Cell, ImageOfSaved
  <2>4. Image(records', memory, i)[c] = Saved(records'[i], memory, c)
    BY ONLY <2>1, <2>2, c \in Cell, ImageOfSaved
  <2>5. records[i].bytes[c] # Unset /\ records'[i].bytes[c] # Unset
    BY <1>5, <1>11, JournalAssumption
  <2> QED
    BY <1>5, <1>11, <2>3, <2>4, <2>5 DEF Saved
<1>12. ASSUME NEW i \in DOMAIN records, i \notin A
       PROVE  Image(records', memory, i)[c] = Image(records, memory, i)[c]
  <2> DEFINE m == Min(A)
  <2>0. m \in A /\ m \in 1 .. L /\ m \in DOMAIN records /\ i \in 1 .. L /\ i # m
    BY <1>1, <1>3, <1>12 DEF A
  <2>1. \A k, j \in DOMAIN records : k < j => records[k].start < records[j].start
    BY DEF JInv, FramesOK
  <2>0a. L \in Nat
    BY <1>1
  <2> HIDE DEF m
  <2>2. CASE m < i
    <3>1. records[i].start > through
      <4>1. records[m].start \in after + 1 .. through /\ records[m].start < records[i].start
        BY <1>4, <2>0, <2>1, <2>2
      <4>2. ~ (records[i].start \in after + 1 .. through)
        BY <1>4, <1>12
      <4> QED
        BY <1>1, <2>0, <4>1, <4>2
    <3>2. ASSUME NEW j \in i .. L PROVE j \notin A
      <4>1. j \in DOMAIN records /\ (j = i \/ i < j)
        BY <1>1, <2>0
      <4>2. records[j].start > through
        BY <1>1, <2>0, <2>1, <3>1, <4>1
      <4> QED
        BY <1>1, <1>4, <4>1, <4>2
    <3> QED
      BY <1>10, <3>2
  <2>3. CASE i < m
    <3>1. Covers(records[m - 1], c) /\ m - 1 \in i .. L /\ i \in Nat
      BY <1>0, <1>1, <2>0, <2>3 DEF m
    <3>2. PICK j \in i .. L :
                 Covers(records[j], c) /\ \A k \in i .. j - 1 : ~ Covers(records[k], c)
      BY ONLY <1>1, <3>1, SavedOrNot
    <3>3. j <= m - 1
      <4>1. ~ (m - 1 \in i .. j - 1)
        BY <3>1, <3>2
      <4> QED
        BY <1>1, <2>0, <3>1, <4>1
    <3>4. j \in DOMAIN records /\ j < m /\ \A k \in i .. j - 1 : k \in DOMAIN records
      BY <1>1, <2>0, <3>3
    <3>5. j \notin A
      <4>1. j \in A => m <= j
        BY <1>3 DEF m
      <4> QED
        BY <1>1, <2>0, <3>4, <4>1
    <3>6. /\ records'[j] = records[j] /\ Covers(records'[j], c)
          /\ \A k \in i .. j - 1 : ~ Covers(records'[k], c)
      <4>1. records'[j] = records[j]
        BY <1>5, <3>4, <3>5
      <4>2. Covers(records'[j], c)
        BY <1>7, <3>2, <3>4
      <4>3. \A k \in i .. j - 1 : ~ Covers(records'[k], c)
        BY <1>7, <3>2, <3>4
      <4> QED
        BY <4>1, <4>2, <4>3
    <3>7. Image(records, memory, i)[c] = Saved(records[j], memory, c)
      BY ONLY <2>0a, <3>1, <3>2, c \in Cell, ImageOfSaved
    <3>8. Len(records') \in Nat /\ j \in i .. Len(records')
      BY <1>1, <1>6, <3>2
    <3>9. Image(records', memory, i)[c] = Saved(records'[j], memory, c)
      BY ONLY <3>1, <3>6, <3>8, c \in Cell, ImageOfSaved
    <3> QED
      BY <3>6, <3>7, <3>9
  <2> QED
    BY <1>1, <2>0, <2>2, <2>3
<1>13. /\ DOMAIN cs = DOMAIN records
       /\ \A i \in DOMAIN records :
            cs[i] = [start |-> records[i].start, end |-> records[i].end,
                     image |-> Image(records, memory, i)]
  BY DEF Checkpoints
<1> HIDE DEF cs
<1>14. ASSUME NEW i \in DOMAIN records
       PROVE  Checkpoints(records', memory)[i] =
                IF cs[i].start \in after + 1 .. through
                THEN [cs[i] EXCEPT !.image[c] = Adjusted(@)] ELSE cs[i]
  <2>1. Checkpoints(records', memory)[i] =
          [start |-> records[i].start, end |-> records[i].end,
           image |-> Image(records', memory, i)]
    BY <1>5, <1>6 DEF Checkpoints
  <2>2. cs[i].start = records[i].start
    BY <1>13
  <2>3. CASE i \in A
    <3>1. \A d \in Cell : Image(records', memory, i)[d] =
            [Image(records, memory, i) EXCEPT ![c] = Adjusted(@)][d]
      <4>1. DOMAIN Image(records, memory, i) = Cell
        BY DEF Image
      <4> QED
        BY <1>10, <1>11, <2>3, <4>1
    <3>2. Image(records', memory, i) =
            [Image(records, memory, i) EXCEPT ![c] = Adjusted(@)]
      BY <3>1 DEF Image
    <3> QED
      BY <1>4, <1>13, <2>1, <2>2, <2>3, <3>2
  <2>4. CASE i \notin A
    <3>1. \A d \in Cell : Image(records', memory, i)[d] = Image(records, memory, i)[d]
      BY <1>10, <1>12, <2>4
    <3>2. Image(records', memory, i) = Image(records, memory, i)
      BY ONLY <3>1, EqualImages
    <3> QED
      BY <1>4, <1>13, <2>1, <2>2, <2>4, <3>2
  <2> QED
    BY <2>3, <2>4
<1>15. Checkpoints(records', memory) =
         [i \in DOMAIN cs |-> IF cs[i].start \in after + 1 .. through
                              THEN [cs[i] EXCEPT !.image[c] = Adjusted(@)] ELSE cs[i]]
  <2>1. Checkpoints(records', memory) =
          [i \in DOMAIN records |-> Checkpoints(records', memory)[i]]
    BY <1>6 DEF Checkpoints
  <2> QED
    BY ONLY <1>13, <1>14, <2>1
<1> QED
  BY <1>0, <1>9, <1>15 DEF Whole!Adjust, cs

---------------------------------------------------------------------------
(* The theorems of the journal of the memory. *)

LEMMA InitImplements == Init => Whole!SnapshotsInit
<1> SUFFICES ASSUME Init PROVE Whole!SnapshotsInit
  OBVIOUS
<1>1. DOMAIN records = {}
  BY DEF Init
<1>2. Checkpoints(records, memory) = << >>
  BY <1>1 DEF Checkpoints
<1> QED
  BY <1>2 DEF Init, Whole!SnapshotsInit

LEMMA NextImplements ==
  JInv /\ [Next]_journalVars => JInv' /\ [Whole!SnapshotsNext]_(Whole!snapshotVars)
<1> SUFFICES ASSUME JInv, [Next]_journalVars
             PROVE  JInv' /\ [Whole!SnapshotsNext]_(Whole!snapshotVars)
  OBVIOUS
<1>1. CASE UNCHANGED journalVars
  <2>1. JInv'
    BY <1>1 DEF journalVars, JInv, TypeOK, WindowOK, BytesOK, PutOffOK, FramesOK,
                PutOffCell, PutOff, BackRecord
  <2> QED
    BY <1>1, <2>1 DEF journalVars, Whole!snapshotVars
<1>2. ASSUME NEW frame \in Frame, BeginFrame(frame)
      PROVE  JInv' /\ [Whole!SnapshotsNext]_(Whole!snapshotVars)
  BY <1>2, BeginStep DEF Whole!SnapshotsNext
<1>3. ASSUME NEW frame \in Frame, ExtendFrame(frame)
      PROVE  JInv' /\ [Whole!SnapshotsNext]_(Whole!snapshotVars)
  BY <1>3, ExtendStep DEF Whole!SnapshotsNext
<1>4. ASSUME NEW frame \in Frame, UndoTo(frame)
      PROVE  JInv' /\ [Whole!SnapshotsNext]_(Whole!snapshotVars)
  BY <1>4, UndoStep DEF Whole!SnapshotsNext
<1>5. ASSUME NEW frame \in Frame, DiscardBefore(frame)
      PROVE  JInv' /\ [Whole!SnapshotsNext]_(Whole!snapshotVars)
  BY <1>5, DiscardStep DEF Whole!SnapshotsNext
<1>6. CASE \E frame \in Frame, extend \in BOOLEAN : RejectFrame(frame, extend)
  BY <1>6, SealingSteps
<1>7. CASE EndFrame
  BY <1>7, SealingSteps DEF Whole!SnapshotsNext
<1>8. CASE BeginReadOnlyCapture
  BY <1>8, SealingSteps
<1>9. CASE EndReadOnlyCapture \/ TouchNothing \/ \E b \in Touchable : RejectTouch(b)
  BY <1>9, FlushingSteps DEF Whole!snapshotVars
<1>10. CASE Reset
  BY <1>10, ResetStep DEF Whole!SnapshotsNext
<1>11. ASSUME NEW b \in Touchable, NEW grows \in BOOLEAN, Touch(b, grows)
       PROVE  JInv' /\ [Whole!SnapshotsNext]_(Whole!snapshotVars)
  BY <1>11, TouchStep
<1>12. CASE \E b \in Touchable : TouchAgain(b)
  BY <1>1, <1>12 DEF TouchAgain
<1>13. ASSUME NEW after \in Frame, NEW through \in Frame, NEW c \in Cell,
              AddFloatPairToSnapshots(after, through, c)
       PROVE  JInv' /\ [Whole!SnapshotsNext]_(Whole!snapshotVars)
  BY <1>13, AdjustStep DEF Whole!SnapshotsNext
<1>14. ASSUME NEW c \in Cell, NEW v \in Value, Write(c, v)
       PROVE  JInv' /\ [Whole!SnapshotsNext]_(Whole!snapshotVars)
  BY <1>14, WriteStep DEF Whole!SnapshotsNext
<1> QED
  BY <1>1, <1>2, <1>3, <1>4, <1>5, <1>6, <1>7, <1>8, <1>9, <1>10, <1>11, <1>12,
     <1>13, <1>14 DEF Next

THEOREM JournalInvariant == Spec => []JInv
<1>1. JInv /\ [Next]_journalVars => JInv'
  BY NextImplements
<1> QED
  BY InitInvariant, <1>1, PTL DEF Spec

(* The journal's state has its type, and the ring never holds more         *)
(* checkpoints than it was configured for (BeginFrame, Touch, UndoTo).     *)
THEOREM JournalTyped == Spec => []TypeOK
<1>1. JInv => TypeOK
  BY DEF JInv
<1> QED
  BY JournalInvariant, <1>1, PTL

(* Outside the capture window every byte a checkpoint covers was copied    *)
(* (FlushReadOnlyCapture and Touch, whatever fails or grows).              *)
THEOREM JournalSavesInTime == Spec => []NothingIsPutOffForEver
<1>1. JInv => NothingIsPutOffForEver
  BY PendingMeansOpen DEF JInv, BytesOK, NothingIsPutOffForEver
<1> QED
  BY JournalInvariant, <1>1, PTL

(* The journal restores what whole copies of the memory would, for every   *)
(* memory, block layout and limit: UndoTo, with its skipped blocks, brings *)
(* back the memory as it was when the checkpoint began, however the        *)
(* captures, writes, undos, evictions and corrections before it went.      *)
THEOREM JournalImplementsSnapshots == Spec => ImplementsSnapshots
<1>1. JInv /\ [Next]_journalVars => [Whole!SnapshotsNext]_(Whole!snapshotVars)
  BY NextImplements
<1> QED
  BY InitImplements, JournalInvariant, <1>1, PTL
     DEF Spec, ImplementsSnapshots, Whole!SnapshotsSpec

---------------------------------------------------------------------------
(* The images of the pool's checkpoints, for any records and any pool. *)

PoolCopies(rs, i, k) == {j \in i .. Len(rs) : rs[j].saved[k] # Missing}
PoolImage(rs, mem, i) ==
  [k \in Key |-> IF PoolCopies(rs, i, k) = {} THEN mem[k]
                 ELSE rs[Min(PoolCopies(rs, i, k))].saved[k]]
PoolImages(rs, mem) ==
  [i \in DOMAIN rs |-> [start |-> rs[i].first, end |-> rs[i].last,
                        image |-> PoolImage(rs, mem, i)]]

LEMMA ThePoolsImages ==
  /\ PoolCheckpoints = PoolImages(poolRecords, pool)
  /\ PoolCheckpoints' = PoolImages(poolRecords', pool')
  /\ \A i : PoolRestored(i) = PoolImage(poolRecords, pool, i)
  BY DEF PoolCheckpoints, PoolImages, PoolRestored, PoolImage, Copies, PoolCopies

(* No checkpoint from i to j saved the part k. *)
NotSaved(rs, i, j, k) == \A m \in i .. j : rs[m].saved[k] = Missing

LEMMA OldestCopy ==
  ASSUME NEW rs, Len(rs) \in Nat, NEW mem, NEW i \in Nat, NEW k \in Key,
         NEW j \in i .. Len(rs), rs[j].saved[k] # Missing, NotSaved(rs, i, j - 1, k)
  PROVE  PoolImage(rs, mem, i)[k] = rs[j].saved[k]
<1> DEFINE S == PoolCopies(rs, i, k)
<1>1. S \subseteq Nat /\ j \in S /\ \A m \in S : j <= m
  BY DEF PoolCopies, NotSaved
<1>2. PoolImage(rs, mem, i)[k] = rs[Min(S)].saved[k]
  BY <1>1 DEF PoolImage
<1> HIDE DEF S
<1>3. Min(S) \in S /\ Min(S) <= j
  BY <1>1, MinOfSet
<1>4. Min(S) = j
  <2>1. Min(S) \in Nat /\ j \in Nat /\ j <= Min(S)
    BY <1>1, <1>3
  <2> QED
    BY ONLY <1>3, <2>1
<1> QED
  BY <1>2, <1>4

LEMMA NoCopy ==
  ASSUME NEW rs, Len(rs) \in Nat, NEW mem, NEW i \in Nat, NEW k \in Key,
         NotSaved(rs, i, Len(rs), k)
  PROVE  PoolImage(rs, mem, i)[k] = mem[k]
<1>1. PoolCopies(rs, i, k) = {}
  BY DEF PoolCopies, NotSaved
<1> QED
  BY <1>1 DEF PoolImage

LEMMA CopyOrNot ==
  ASSUME NEW rs, Len(rs) \in Nat, NEW i \in Nat, NEW k
  PROVE  \/ NotSaved(rs, i, Len(rs), k)
         \/ \E j \in i .. Len(rs) :
              rs[j].saved[k] # Missing /\ NotSaved(rs, i, j - 1, k)
<1> DEFINE S == PoolCopies(rs, i, k)
<1>1. S \subseteq Nat
  BY DEF PoolCopies
<1>2. CASE S = {}
  BY <1>2 DEF PoolCopies, NotSaved
<1>3. CASE S # {}
  <2>1. PICK j \in S : \A m \in S : j <= m
    BY <1>1, <1>3, LeastElement
  <2>2. j \in i .. Len(rs) /\ rs[j].saved[k] # Missing
    BY <2>1 DEF PoolCopies
  <2>3. ASSUME NEW m \in i .. j - 1 PROVE rs[m].saved[k] = Missing
    <3>1. m \in i .. Len(rs) /\ ~ (j <= m)
      BY <2>2
    <3> QED
      BY <2>1, <3>1 DEF PoolCopies
  <2> QED
    BY <2>2, <2>3 DEF NotSaved
<1> QED
  BY <1>2, <1>3

(* The records rs stay, moved by d places; the newest may save more parts, *)
(* of the pool as it is, and parts it saved may be written; records that   *)
(* begin save nothing.                                                     *)
SavesMore(rs, mem, rt, d, k) ==
  /\ \A j \in DOMAIN rs : j + d >= 1 =>
       \/ rt[j + d].saved[k] = rs[j].saved[k]
       \/ /\ j = Len(rs) /\ rs[j].saved[k] = Missing
          /\ rt[j + d].saved[k] = mem[k]
  /\ NotSaved(rt, Len(rs) + d + 1, Len(rt), k)

RecordsMove(rs, mem, rt, men, d) ==
  /\ Len(rs) \in Nat /\ DOMAIN rs = 1 .. Len(rs)
  /\ Len(rt) \in Nat /\ DOMAIN rt = 1 .. Len(rt)
  /\ d \in Int /\ Len(rs) + d >= 0 /\ Len(rs) + d <= Len(rt)
  /\ \A k \in Key :
       /\ SavesMore(rs, mem, rt, d, k)
       /\ \/ men[k] = mem[k]
          \/ Len(rs) \in DOMAIN rs /\ rs[Len(rs)].saved[k] # Missing

LEMMA MovedImage ==
  ASSUME NEW rs, NEW mem, NEW rt, NEW men, NEW d, RecordsMove(rs, mem, rt, men, d),
         NEW i \in DOMAIN rs, i + d >= 1,
         \A k \in Key : mem[k] # Missing
  PROVE  PoolImage(rt, men, i + d) = PoolImage(rs, mem, i)
<1> DEFINE L == Len(rs)
<1>0. /\ L \in Nat /\ DOMAIN rs = 1 .. L /\ Len(rt) \in Nat /\ d \in Int
      /\ L + d <= Len(rt) /\ i \in 1 .. L /\ i + d \in Nat
  BY DEF RecordsMove
<1>1. ASSUME NEW k \in Key
      PROVE  PoolImage(rt, men, i + d)[k] = PoolImage(rs, mem, i)[k]
  <2>0. /\ \A j \in i .. L :
             \/ rt[j + d].saved[k] = rs[j].saved[k]
             \/ /\ j = L /\ rs[j].saved[k] = Missing
                /\ rt[j + d].saved[k] = mem[k]
        /\ \A m \in L + d + 1 .. Len(rt) : rt[m].saved[k] = Missing
        /\ men[k] = mem[k] \/ rs[L].saved[k] # Missing
    <3>1. \A j \in i .. L : j \in DOMAIN rs /\ j + d >= 1
      BY <1>0
    <3> QED
      BY <3>1 DEF RecordsMove, SavesMore, NotSaved
  <2>1. CASE NotSaved(rs, i, L, k)
    <3>0. /\ \A j \in i .. L : rs[j].saved[k] = Missing
          /\ L \in i .. L /\ men[k] = mem[k]
      <4>1. \A j \in i .. L : rs[j].saved[k] = Missing
        BY <2>1 DEF NotSaved
      <4>2. L \in i .. L
        BY <1>0
      <4> QED
        BY <2>0, <4>1, <4>2
    <3>1. PoolImage(rs, mem, i)[k] = mem[k]
      BY <1>0, <2>1, NoCopy
    <3>2. ASSUME NEW m \in i + d .. L + d - 1 PROVE rt[m].saved[k] = Missing
      <4>1. m - d \in i .. L /\ (m - d) + d = m /\ m - d # L
        BY <1>0
      <4> QED
        BY <2>0, <3>0, <4>1
    <3>3. CASE rt[L + d].saved[k] = Missing
      <4>1. ASSUME NEW m \in i + d .. Len(rt) PROVE rt[m].saved[k] = Missing
        <5>1. m \in i + d .. L + d - 1 \/ m = L + d \/ m \in L + d + 1 .. Len(rt)
          BY <1>0
        <5> QED
          BY <2>0, <3>2, <3>3, <5>1
      <4>2. PoolImage(rt, men, i + d)[k] = men[k]
        BY <1>0, <4>1, NoCopy DEF NotSaved
      <4> QED
        BY <3>0, <3>1, <4>2
    <3>4. CASE rt[L + d].saved[k] # Missing
      <4>1. rt[L + d].saved[k] = mem[k]
        BY <2>0, <3>0, <3>4
      <4>2. L + d \in i + d .. Len(rt)
        BY <1>0
      <4>3. NotSaved(rt, i + d, L + d - 1, k)
        BY <3>2 DEF NotSaved
      <4>4. PoolImage(rt, men, i + d)[k] = rt[L + d].saved[k]
        BY ONLY <1>0, <3>4, <4>2, <4>3, k \in Key, OldestCopy
      <4> QED
        BY <3>1, <4>1, <4>4
    <3> QED
      BY <3>3, <3>4
  <2>2. ASSUME NEW j \in i .. L, rs[j].saved[k] # Missing, NotSaved(rs, i, j - 1, k)
        PROVE  PoolImage(rt, men, i + d)[k] = PoolImage(rs, mem, i)[k]
    <3>0. \A m \in i .. j - 1 : rs[m].saved[k] = Missing
      BY <2>2 DEF NotSaved
    <3>1. rt[j + d].saved[k] = rs[j].saved[k] /\ j + d \in i + d .. Len(rt)
      <4>1. j + d \in i + d .. Len(rt)
        BY <1>0
      <4> QED
        BY <2>0, <2>2, <4>1
    <3>2. ASSUME NEW m \in i + d .. (j + d) - 1 PROVE rt[m].saved[k] = Missing
      <4>1. m - d \in i .. j - 1 /\ m - d \in i .. L /\ (m - d) + d = m /\ m - d # L
        BY <1>0
      <4> QED
        BY <2>0, <3>0, <4>1
    <3>3. NotSaved(rt, i + d, (j + d) - 1, k)
      BY <3>2 DEF NotSaved
    <3>4. PoolImage(rt, men, i + d)[k] = rt[j + d].saved[k]
      BY ONLY <1>0, <2>2, <3>1, <3>3, k \in Key, OldestCopy
    <3>5. PoolImage(rs, mem, i)[k] = rs[j].saved[k]
      BY ONLY <1>0, <2>2, k \in Key, j \in i .. L, OldestCopy
    <3> QED
      BY <3>1, <3>4, <3>5
  <2> QED
    BY ONLY <1>0, <2>1, <2>2, CopyOrNot
<1> QED
  BY <1>1 DEF PoolImage

---------------------------------------------------------------------------
(* The inductive invariant of the pool's journal. *)

PoolRecord == [first : PoolFrame, last : PoolFrame,
               saved : [Key -> PartValue \cup {Missing}]]
PoolImageRecord == [start : PoolFrame, end : PoolFrame, image : [Key -> PartValue]]

PoolTyped ==
  /\ pool \in [Key -> PartValue]
  /\ poolRecords \in Seq(PoolRecord) /\ Len(poolRecords) <= MaxPoolRecords
  /\ poolOpen \in BOOLEAN /\ poolFailed \in BOOLEAN

Ordered(rs) ==
  /\ \A i \in DOMAIN rs : rs[i].first <= rs[i].last
  /\ \A i, j \in DOMAIN rs : i < j => rs[i].last < rs[j].first

PoolInv == PoolTyped /\ (poolOpen => poolRecords # << >>) /\ Ordered(poolRecords)

LEMMA PoolFacts ==
  ASSUME PoolTyped
  PROVE  /\ poolRecords \in Seq(PoolRecord)
         /\ Len(poolRecords) \in Nat /\ DOMAIN poolRecords = 1 .. Len(poolRecords)
         /\ \A i \in DOMAIN poolRecords :
              /\ poolRecords[i] \in PoolRecord
              /\ poolRecords[i].first \in Int /\ poolRecords[i].last \in Int
              /\ poolRecords[i].first \in PoolFrame /\ poolRecords[i].last \in PoolFrame
              /\ poolRecords[i].saved \in [Key -> PartValue \cup {Missing}]
         /\ \A k \in Key : pool[k] \in PartValue /\ pool[k] # Missing
         /\ poolRecords # << >> =>
              Len(poolRecords) \in DOMAIN poolRecords /\ Back = poolRecords[Len(poolRecords)]
<1>1. PoolFrame \subseteq Int
  BY PoolAssumption DEF PoolFrame
<1>2. Len(poolRecords) \in Nat /\ DOMAIN poolRecords = 1 .. Len(poolRecords)
      /\ \A i \in DOMAIN poolRecords : poolRecords[i] \in PoolRecord
  BY DEF PoolTyped
<1>3. \A i \in DOMAIN poolRecords :
        /\ poolRecords[i].first \in PoolFrame /\ poolRecords[i].last \in PoolFrame
        /\ poolRecords[i].saved \in [Key -> PartValue \cup {Missing}]
  BY <1>2 DEF PoolRecord
<1>4. \A k \in Key : pool[k] \in PartValue /\ pool[k] # Missing
  BY PoolAssumption DEF PoolTyped
<1>5. poolRecords # << >> =>
        Len(poolRecords) \in DOMAIN poolRecords /\ Back = poolRecords[Len(poolRecords)]
  <2>1. poolRecords # << >> => Len(poolRecords) # 0
    BY DEF PoolTyped
  <2> QED
    BY <1>2, <2>1 DEF Back
<1>6. poolRecords \in Seq(PoolRecord)
  BY DEF PoolTyped
<1> QED
  BY <1>1, <1>2, <1>3, <1>4, <1>5, <1>6

LEMMA PoolImagesTyped ==
  ASSUME NEW rs \in Seq(PoolRecord), NEW mem \in [Key -> PartValue]
  PROVE  /\ PoolImages(rs, mem) \in Seq(PoolImageRecord)
         /\ Len(PoolImages(rs, mem)) = Len(rs)
         /\ DOMAIN PoolImages(rs, mem) = DOMAIN rs
         /\ \A i \in DOMAIN rs :
              PoolImages(rs, mem)[i] = [start |-> rs[i].first, end |-> rs[i].last,
                                        image |-> PoolImage(rs, mem, i)]
<1> DEFINE cs == PoolImages(rs, mem)
<1>0. /\ Len(rs) \in Nat /\ DOMAIN rs = 1 .. Len(rs)
      /\ \A i \in DOMAIN rs : rs[i] \in PoolRecord
  OBVIOUS
<1>1. DOMAIN cs = DOMAIN rs /\ cs = [i \in 1 .. Len(rs) |-> cs[i]]
      /\ \A i \in DOMAIN rs :
           cs[i] = [start |-> rs[i].first, end |-> rs[i].last,
                    image |-> PoolImage(rs, mem, i)]
  BY <1>0 DEF PoolImages
<1>2. ASSUME NEW i \in DOMAIN rs PROVE cs[i] \in PoolImageRecord
  <2>1. ASSUME NEW k \in Key PROVE PoolImage(rs, mem, i)[k] \in PartValue
    <3>1. CASE NotSaved(rs, i, Len(rs), k)
      BY <1>0, <3>1, NoCopy
    <3>2. ASSUME NEW j \in i .. Len(rs), rs[j].saved[k] # Missing,
                 NotSaved(rs, i, j - 1, k)
          PROVE  PoolImage(rs, mem, i)[k] \in PartValue
      <4>1. i \in Nat
        BY <1>0
      <4>2. PoolImage(rs, mem, i)[k] = rs[j].saved[k]
        BY ONLY <1>0, <3>2, <4>1, k \in Key, j \in i .. Len(rs), OldestCopy
      <4>3. rs[j] \in PoolRecord
        BY <1>0
      <4>4. rs[j].saved[k] \in PartValue \cup {Missing}
        BY <4>3 DEF PoolRecord
      <4> QED
        BY <3>2, <4>2, <4>4
    <3> QED
      BY <1>0, <3>1, <3>2, CopyOrNot
  <2>2. PoolImage(rs, mem, i) \in [Key -> PartValue]
    BY <2>1 DEF PoolImage
  <2>3. rs[i].first \in PoolFrame /\ rs[i].last \in PoolFrame
    BY <1>0 DEF PoolRecord
  <2>4. cs[i] = [start |-> rs[i].first, end |-> rs[i].last,
                 image |-> PoolImage(rs, mem, i)]
    BY <1>1
  <2> HIDE DEF cs
  <2> QED
    BY <2>2, <2>3, <2>4 DEF PoolImageRecord
<1> HIDE DEF cs
<1>3. cs \in Seq(PoolImageRecord)
  <2>1. cs \in [1 .. Len(rs) -> PoolImageRecord]
    BY <1>0, <1>1, <1>2
  <2> QED
    BY <1>0, <2>1, SeqDef
<1>4. Len(cs) = Len(rs)
  BY <1>0, <1>1, <1>3, LenProperties
<1> QED
  BY <1>1, <1>3, <1>4 DEF cs

(* Records that stay where they are make the same checkpoints. *)
LEMMA SamePoolImages ==
  ASSUME NEW rs \in Seq(PoolRecord), NEW mem \in [Key -> PartValue],
         NEW rt \in Seq(PoolRecord), NEW men \in [Key -> PartValue],
         Len(rt) = Len(rs),
         \A i \in DOMAIN rs : rt[i].first = rs[i].first /\ rt[i].last = rs[i].last,
         RecordsMove(rs, mem, rt, men, 0)
  PROVE  PoolImages(rt, men) = PoolImages(rs, mem)
<1>1. /\ Len(rs) \in Nat /\ DOMAIN rs = 1 .. Len(rs) /\ DOMAIN rt = DOMAIN rs
      /\ \A k \in Key : mem[k] # Missing
  BY PoolAssumption
<1>2. ASSUME NEW i \in DOMAIN rs PROVE PoolImage(rt, men, i) = PoolImage(rs, mem, i)
  <2>1. i + 0 = i /\ i >= 1
    BY <1>1
  <2>2. PoolImage(rt, men, i + 0) = PoolImage(rs, mem, i)
    BY ONLY <1>1, <2>1, RecordsMove(rs, mem, rt, men, 0), i \in DOMAIN rs, MovedImage
  <2> QED
    BY <2>1, <2>2
<1> QED
  BY <1>1, <1>2 DEF PoolImages

LEMMA OrderedStill ==
  ASSUME NEW rs, Ordered(rs), NEW rt, DOMAIN rt = DOMAIN rs,
         \A i \in DOMAIN rs : rt[i].first = rs[i].first /\ rt[i].last = rs[i].last
  PROVE  Ordered(rt)
  BY DEF Ordered

---------------------------------------------------------------------------
(* The steps of the pool's journal that change no checkpoint. *)

LEMMA PoolFailStep ==
  ASSUME PoolInv, PoolFail
  PROVE  PoolInv' /\ UNCHANGED WholePool!snapshotVars
<1> USE DEF PoolFail
<1>1. PoolInv'
  BY DEF PoolInv, PoolTyped, Ordered
<1>2. PoolCheckpoints' = PoolCheckpoints
  BY ThePoolsImages
<1> QED
  BY <1>1, <1>2 DEF WholePool!snapshotVars

LEMMA PoolSealStep ==
  ASSUME PoolInv, PoolEndFrame
  PROVE  PoolInv' /\ WholePool!Seal
<1> USE DEF PoolEndFrame
<1>1. PoolInv'
  BY DEF PoolInv, PoolTyped, Ordered
<1>2. PoolCheckpoints' = PoolCheckpoints
  BY ThePoolsImages
<1> QED
  BY <1>1, <1>2 DEF WholePool!Seal

LEMMA PoolResetStep ==
  ASSUME PoolInv, PoolReset
  PROVE  PoolInv' /\ WholePool!Restart
<1> USE DEF PoolReset
<1>1. poolRecords' = << >> /\ Len(poolRecords') = 0 /\ DOMAIN poolRecords' = {}
  OBVIOUS
<1>2. poolRecords' \in Seq(PoolRecord) /\ Len(poolRecords') <= MaxPoolRecords
  BY <1>1, PoolAssumption
<1>3. PoolInv'
  BY <1>1, <1>2 DEF PoolInv, PoolTyped, Ordered
<1>4. PoolCheckpoints' = << >>
  BY <1>1, ThePoolsImages DEF PoolImages
<1> QED
  BY <1>3, <1>4 DEF WholePool!Restart

(* A part is saved as it is now: nothing wrote it since the newest         *)
(* checkpoint began.                                                       *)
LEMMA PoolSaveStep ==
  ASSUME PoolInv, NEW keys, PoolSave(keys)
  PROVE  PoolInv' /\ UNCHANGED WholePool!snapshotVars
<1> DEFINE L == Len(poolRecords)
           r == [poolRecords[L] EXCEPT !.saved = Planned(@, keys)]
<1>1. CASE ~ (poolOpen /\ ~poolFailed)
  BY <1>1, PoolFailStep DEF PoolSave
<1>2. CASE poolOpen /\ ~poolFailed
  <2>0. /\ poolRecords' = [poolRecords EXCEPT ![L].saved = Planned(@, keys)]
        /\ UNCHANGED <<pool, poolOpen, poolFailed>>
    BY <1>2 DEF PoolSave
  <2>1. /\ PoolTyped /\ poolRecords # << >> /\ Ordered(poolRecords)
        /\ poolRecords \in Seq(PoolRecord) /\ pool \in [Key -> PartValue]
        /\ L \in Nat /\ DOMAIN poolRecords = 1 .. L /\ L \in DOMAIN poolRecords
        /\ poolRecords[L] \in PoolRecord
        /\ \A k \in Key : pool[k] \in PartValue /\ pool[k] # Missing
        /\ poolRecords[L].saved \in [Key -> PartValue \cup {Missing}]
    BY <1>2, PoolFacts DEF PoolInv, PoolTyped
  <2>2. \A k \in Key :
          /\ r.saved[k] \in PartValue \cup {Missing}
          /\ \/ r.saved[k] = poolRecords[L].saved[k]
             \/ poolRecords[L].saved[k] = Missing /\ r.saved[k] = pool[k]
    BY <2>1 DEF Planned, PoolRecord
  <2>3. /\ r \in PoolRecord
        /\ r.first = poolRecords[L].first /\ r.last = poolRecords[L].last
    <3>1. r.saved \in [Key -> PartValue \cup {Missing}]
      <4>1. Planned(poolRecords[L].saved, keys) \in [Key -> PartValue \cup {Missing}]
        BY <2>1 DEF Planned
      <4> QED
        BY <2>1, <4>1 DEF PoolRecord
    <3> QED
      BY <2>1, <3>1 DEF PoolRecord
  <2>4. poolRecords' = [poolRecords EXCEPT ![L] = r]
    BY <2>0
  <2> HIDE DEF r
  <2>5. /\ poolRecords' \in Seq(PoolRecord) /\ Len(poolRecords') = L
        /\ poolRecords' # << >> /\ DOMAIN poolRecords' = DOMAIN poolRecords
        /\ poolRecords'[L] = r
        /\ \A i \in DOMAIN poolRecords : i # L => poolRecords'[i] = poolRecords[i]
    BY <2>1, <2>3, <2>4, ExceptSeq
  <2>6. \A i \in DOMAIN poolRecords :
          /\ poolRecords'[i].first = poolRecords[i].first
          /\ poolRecords'[i].last = poolRecords[i].last
    BY <2>3, <2>5
  <2>7. PoolInv'
    <3>1. Ordered(poolRecords')
      BY ONLY <2>1, <2>5, <2>6, OrderedStill
    <3>2. PoolTyped'
      BY <2>0, <2>1, <2>5 DEF PoolTyped
    <3> QED
      BY <2>5, <3>1, <3>2 DEF PoolInv
  <2>8. RecordsMove(poolRecords, pool, poolRecords', pool, 0)
    <3>1. ASSUME NEW k \in Key PROVE SavesMore(poolRecords, pool, poolRecords', 0, k)
      <4>1. ASSUME NEW j \in DOMAIN poolRecords
            PROVE  \/ poolRecords'[j + 0].saved[k] = poolRecords[j].saved[k]
                   \/ /\ j = L /\ poolRecords[j].saved[k] = Missing
                      /\ poolRecords'[j + 0].saved[k] = pool[k]
        <5>1. j + 0 = j
          BY <2>1
        <5> QED
          BY <2>2, <2>5, <5>1
      <4>2. L + 0 + 1 .. Len(poolRecords') = {}
        BY <2>1, <2>5
      <4> QED
        BY <4>1, <4>2 DEF SavesMore, NotSaved
    <3> QED
      BY <2>1, <2>5, <3>1 DEF RecordsMove
  <2>9. PoolImages(poolRecords', pool) = PoolImages(poolRecords, pool)
    BY ONLY <2>1, <2>5, <2>6, <2>8, SamePoolImages
  <2> QED
    BY <2>0, <2>7, <2>9, ThePoolsImages DEF WholePool!snapshotVars
<1> QED
  BY <1>1, <1>2

(* The title writes a part the newest checkpoint has saved. *)
LEMMA PoolWriteStep ==
  ASSUME PoolInv, NEW p \in Key, NEW v \in PartValue, PoolWrite(p, v)
  PROVE  PoolInv' /\ WholePool!Simulate
<1> DEFINE L == Len(poolRecords)
<1>0. /\ poolOpen /\ pool' = [pool EXCEPT ![p] = v] /\ Back.saved[p] # Missing
      /\ UNCHANGED <<poolRecords, poolOpen, poolFailed>>
  BY DEF PoolWrite
<1>1. /\ PoolTyped /\ poolRecords # << >> /\ Back = poolRecords[L]
      /\ poolRecords \in Seq(PoolRecord) /\ pool \in [Key -> PartValue]
      /\ L \in Nat /\ DOMAIN poolRecords = 1 .. L /\ L \in DOMAIN poolRecords
  BY <1>0, PoolFacts DEF PoolInv, PoolTyped
<1>2. pool' \in [Key -> PartValue] /\ \A k \in Key : k # p => pool'[k] = pool[k]
  BY <1>0, <1>1
<1>3. PoolInv'
  BY <1>0, <1>1, <1>2 DEF PoolInv, PoolTyped
<1>4. RecordsMove(poolRecords, pool, poolRecords, pool', 0)
  <2>1. ASSUME NEW k \in Key
        PROVE  /\ SavesMore(poolRecords, pool, poolRecords, 0, k)
               /\ pool'[k] = pool[k] \/ poolRecords[L].saved[k] # Missing
    <3>1. \A j \in DOMAIN poolRecords : j + 0 = j
      BY <1>1
    <3>2. L + 0 + 1 .. L = {}
      BY <1>1
    <3>3. SavesMore(poolRecords, pool, poolRecords, 0, k)
      BY <3>1, <3>2 DEF SavesMore, NotSaved
    <3> QED
      BY <1>0, <1>1, <1>2, <3>3
  <2> QED
    BY <1>1, <2>1 DEF RecordsMove
<1>5. PoolImages(poolRecords, pool') = PoolImages(poolRecords, pool)
  BY ONLY <1>1, <1>2, <1>4, SamePoolImages
<1> QED
  BY <1>0, <1>2, <1>3, <1>5, ThePoolsImages DEF WholePool!Simulate

LEMMA PoolExtendStep ==
  ASSUME PoolInv, NEW frame \in PoolFrame, ~ poolOpen, PoolCanBegin(frame, TRUE),
         poolRecords' = PoolBegun(frame, TRUE), poolOpen' = TRUE,
         UNCHANGED <<pool, poolFailed>>
  PROVE  PoolInv' /\ WholePool!ExtendNewest
<1> DEFINE L == Len(poolRecords)
           r == [poolRecords[L] EXCEPT !.last = frame]
           cs == PoolImages(poolRecords, pool)
<1>0. /\ poolRecords # << >> /\ frame = Back.last + 1 /\ pool' = pool
      /\ poolRecords' = [poolRecords EXCEPT ![L].last = frame]
  BY DEF PoolCanBegin, PoolBegun
<1>1. /\ PoolTyped /\ Back = poolRecords[L] /\ Ordered(poolRecords)
      /\ poolRecords \in Seq(PoolRecord) /\ pool \in [Key -> PartValue]
      /\ L \in Nat /\ DOMAIN poolRecords = 1 .. L /\ L \in DOMAIN poolRecords
      /\ poolRecords[L] \in PoolRecord
      /\ \A k \in Key : pool[k] # Missing
      /\ \A i \in DOMAIN poolRecords :
           poolRecords[i].first \in Int /\ poolRecords[i].last \in Int
  BY <1>0, PoolFacts DEF PoolInv, PoolTyped
<1>2. /\ r \in PoolRecord /\ r.first = poolRecords[L].first /\ r.last = frame
      /\ r.saved = poolRecords[L].saved
  BY <1>1 DEF PoolRecord
<1>3. poolRecords' = [poolRecords EXCEPT ![L] = r]
  BY <1>0
<1> HIDE DEF r
<1>4. /\ poolRecords' \in Seq(PoolRecord) /\ Len(poolRecords') = L
      /\ poolRecords' # << >> /\ DOMAIN poolRecords' = DOMAIN poolRecords
      /\ poolRecords'[L] = r
      /\ \A i \in DOMAIN poolRecords : i # L => poolRecords'[i] = poolRecords[i]
  <2>1. poolRecords \in Seq(PoolRecord) /\ L \in 1 .. Len(poolRecords) /\ r \in PoolRecord
    BY <1>1, <1>2
  <2> QED
    BY ONLY <1>1, <1>3, <2>1, ExceptSeq
<1>5. Ordered(poolRecords')
  <2>1. /\ \A i \in DOMAIN poolRecords : poolRecords'[i].first = poolRecords[i].first
        /\ \A i \in DOMAIN poolRecords :
             i # L => poolRecords'[i].last = poolRecords[i].last
        /\ poolRecords'[L].last = poolRecords[L].last + 1
    BY <1>0, <1>1, <1>2, <1>4
  <2>2. \A i \in DOMAIN poolRecords : poolRecords'[i].first <= poolRecords'[i].last
    <3>1. ASSUME NEW i \in DOMAIN poolRecords
          PROVE  poolRecords'[i].first <= poolRecords'[i].last
      <4>1. poolRecords[i].first <= poolRecords[i].last
        BY <1>1 DEF Ordered
      <4>2. poolRecords[i].first \in Int /\ poolRecords[i].last \in Int
        BY <1>1
      <4>3. poolRecords'[i].first = poolRecords[i].first
            /\ poolRecords'[i].last \in {poolRecords[i].last, poolRecords[i].last + 1}
        BY <2>1
      <4> QED
        BY ONLY <4>1, <4>2, <4>3
    <3> QED
      BY <3>1
  <2>3. ASSUME NEW i \in DOMAIN poolRecords, NEW j \in DOMAIN poolRecords, i < j
        PROVE  poolRecords'[i].last < poolRecords'[j].first
    <3>1. i # L
      BY <1>1, <2>3
    <3>2. poolRecords[i].last < poolRecords[j].first
      BY <1>1, <2>3 DEF Ordered
    <3> QED
      BY <2>1, <3>1, <3>2
  <2> QED
    BY <1>4, <2>2, <2>3 DEF Ordered
<1>6. PoolInv'
  <2>1. PoolTyped'
    BY <1>0, <1>1, <1>4 DEF PoolTyped
  <2> QED
    BY <1>4, <1>5, <2>1 DEF PoolInv
<1>7. RecordsMove(poolRecords, pool, poolRecords', pool, 0)
  <2>1. ASSUME NEW k \in Key PROVE SavesMore(poolRecords, pool, poolRecords', 0, k)
    <3>1. \A j \in DOMAIN poolRecords : j + 0 = j
      BY <1>1
    <3>2. \A j \in DOMAIN poolRecords : poolRecords'[j].saved = poolRecords[j].saved
      BY <1>2, <1>4
    <3>3. L + 0 + 1 .. Len(poolRecords') = {}
      <4>1. L \in Nat /\ Len(poolRecords') = L
        BY <1>1, <1>4
      <4> QED
        BY ONLY <4>1
    <3> QED
      BY <3>1, <3>2, <3>3 DEF SavesMore, NotSaved
  <2>2. /\ L \in Nat /\ Len(poolRecords') = L /\ DOMAIN poolRecords = 1 .. L
        /\ DOMAIN poolRecords' = 1 .. L
    BY <1>1, <1>4
  <2> QED
    BY ONLY <2>1, <2>2 DEF RecordsMove
<1>8. /\ cs \in Seq(PoolImageRecord) /\ Len(cs) = L /\ DOMAIN cs = DOMAIN poolRecords
      /\ \A i \in DOMAIN poolRecords :
           cs[i] = [start |-> poolRecords[i].first, end |-> poolRecords[i].last,
                    image |-> PoolImage(poolRecords, pool, i)]
  BY <1>1, PoolImagesTyped
<1>9. \A i \in DOMAIN poolRecords :
        PoolImage(poolRecords', pool, i) = PoolImage(poolRecords, pool, i)
  <2>1. ASSUME NEW i \in DOMAIN poolRecords
        PROVE  PoolImage(poolRecords', pool, i) = PoolImage(poolRecords, pool, i)
    <3>1. i + 0 = i /\ i + 0 >= 1
      BY <1>1
    <3>2. PoolImage(poolRecords', pool, i + 0) = PoolImage(poolRecords, pool, i)
      BY ONLY <1>1, <1>7, <3>1, i \in DOMAIN poolRecords, MovedImage
    <3> QED
      BY <3>1, <3>2
  <2> QED
    BY <2>1
<1> HIDE DEF cs
<1>10. PoolImages(poolRecords', pool) = [cs EXCEPT ![L].end = @ + 1]
  <2>1. ASSUME NEW i \in DOMAIN poolRecords
        PROVE  [start |-> poolRecords'[i].first, end |-> poolRecords'[i].last,
                image |-> PoolImage(poolRecords', pool, i)]
                 = [cs EXCEPT ![L].end = @ + 1][i]
    <3>1. CASE i = L
      <4>1. [cs EXCEPT ![L].end = @ + 1][i] = [cs[L] EXCEPT !.end = @ + 1]
        BY <1>1, <1>8, <3>1
      <4>2. cs[L] = [start |-> poolRecords[L].first, end |-> poolRecords[L].last,
                     image |-> PoolImage(poolRecords, pool, L)]
        BY <1>1, <1>8
      <4>3. /\ poolRecords'[L].first = poolRecords[L].first
            /\ poolRecords'[L].last = poolRecords[L].last + 1
            /\ PoolImage(poolRecords', pool, L) = PoolImage(poolRecords, pool, L)
        BY <1>0, <1>1, <1>2, <1>4, <1>9
      <4>4. [cs[L] EXCEPT !.end = @ + 1] =
              [start |-> poolRecords[L].first, end |-> poolRecords[L].last + 1,
               image |-> PoolImage(poolRecords, pool, L)]
        BY ONLY <4>2
      <4> QED
        BY ONLY <3>1, <4>1, <4>3, <4>4
    <3>2. CASE i # L
      BY <1>4, <1>8, <1>9, <3>2
    <3> QED
      BY <3>1, <3>2
  <2> QED
    BY <1>4, <1>8, <2>1 DEF PoolImages
<1>11. cs # << >>
  BY <1>1, <1>8
<1> QED
  BY <1>0, <1>6, <1>8, <1>10, <1>11, ThePoolsImages DEF WholePool!ExtendNewest, cs

LEMMA PoolRoomIn ==
  ASSUME NEW S, NEW seq \in Seq(S), Len(seq) <= MaxPoolRecords
  PROVE  \E d \in {-1, 0} :
           /\ d = -1 <=> Len(seq) = MaxPoolRecords
           /\ PoolRoom(seq) \in Seq(S) /\ Len(PoolRoom(seq)) = Len(seq) + d
           /\ Len(PoolRoom(seq)) < MaxPoolRecords
           /\ \A j \in 1 .. Len(PoolRoom(seq)) : PoolRoom(seq)[j] = seq[j - d]
<1>0. MaxPoolRecords \in Nat \ {0} /\ Len(seq) \in Nat
  BY PoolAssumption
<1>1. CASE Len(seq) = MaxPoolRecords
  <2>1. seq # << >>
    BY <1>0, <1>1
  <2>2. PoolRoom(seq) = Tail(seq)
    BY <1>1 DEF PoolRoom
  <2>3. /\ Tail(seq) \in Seq(S) /\ Len(Tail(seq)) = Len(seq) - 1
        /\ \A j \in 1 .. Len(Tail(seq)) : Tail(seq)[j] = seq[j + 1]
    BY <2>1, HeadTailProperties
  <2>4. \A j \in 1 .. Len(Tail(seq)) : j - (-1) = j + 1
    BY <1>0, <2>3
  <2> QED
    BY <1>0, <1>1, <2>2, <2>3, <2>4
<1>2. CASE Len(seq) # MaxPoolRecords
  <2>1. PoolRoom(seq) = seq
    BY <1>2 DEF PoolRoom
  <2>2. \A j \in 1 .. Len(seq) : j - 0 = j
    BY <1>0
  <2> QED
    BY <1>0, <1>2, <2>1, <2>2
<1> QED
  BY <1>1, <1>2

LEMMA PoolBeginStep ==
  ASSUME PoolInv, NEW frame \in PoolFrame, ~ poolOpen, PoolCanBegin(frame, FALSE),
         poolRecords' = PoolBegun(frame, FALSE), poolOpen' = TRUE,
         UNCHANGED <<pool, poolFailed>>
  PROVE  PoolInv' /\ WholePool!Checkpoint(frame)
<1> DEFINE L == Len(poolRecords)
           ring == PoolRoom(poolRecords)
           new == [first |-> frame, last |-> frame,
                   saved |-> [k \in Key |-> Missing]]
           cs == PoolImages(poolRecords, pool)
           cp == [start |-> frame, end |-> frame, image |-> pool]
<1>0. /\ poolRecords # << >> => frame > Back.last
      /\ pool' = pool /\ poolRecords' = Append(ring, new)
  BY DEF PoolCanBegin, PoolBegun
<1>1. /\ PoolTyped /\ Ordered(poolRecords)
      /\ poolRecords \in Seq(PoolRecord) /\ pool \in [Key -> PartValue]
      /\ L \in Nat /\ L <= MaxPoolRecords /\ DOMAIN poolRecords = 1 .. L
      /\ poolRecords # << >> => L \in DOMAIN poolRecords /\ Back = poolRecords[L]
      /\ \A k \in Key : pool[k] # Missing
      /\ \A i \in DOMAIN poolRecords :
           poolRecords[i].first \in Int /\ poolRecords[i].last \in Int
  BY PoolFacts DEF PoolInv, PoolTyped
<1>2. /\ new \in PoolRecord /\ new.first = frame /\ new.last = frame
      /\ \A k \in Key : new.saved[k] = Missing
      /\ frame \in Int
  BY PoolAssumption DEF PoolRecord, PoolFrame
<1>3. PICK d \in {-1, 0} :
        /\ d = -1 <=> L = MaxPoolRecords
        /\ ring \in Seq(PoolRecord) /\ Len(ring) = L + d /\ Len(ring) < MaxPoolRecords
        /\ \A j \in 1 .. Len(ring) : ring[j] = poolRecords[j - d]
  <2>1. poolRecords \in Seq(PoolRecord) /\ Len(poolRecords) <= MaxPoolRecords
    BY <1>1
  <2> QED
    BY ONLY <2>1, PoolRoomIn, ZenonT(30)
<1>4. /\ d \in Int /\ L + d \in Nat /\ L + d + 1 \in Nat /\ MaxPoolRecords \in Nat
      /\ L + d < MaxPoolRecords
  <2>1. Len(ring) \in Nat
    BY <1>3
  <2> QED
    BY <1>3, <2>1, PoolAssumption
<1> HIDE DEF ring, new
<1>5. /\ poolRecords' \in Seq(PoolRecord) /\ poolRecords' # << >>
      /\ Len(poolRecords') = L + d + 1 /\ DOMAIN poolRecords' = 1 .. L + d + 1
      /\ \A j \in 1 .. L + d : /\ poolRecords'[j] = poolRecords[j - d]
                               /\ j - d \in DOMAIN poolRecords
      /\ poolRecords'[L + d + 1] = new
  <2>1. /\ Append(ring, new) \in Seq(PoolRecord) /\ Append(ring, new) # << >>
        /\ Len(Append(ring, new)) = Len(ring) + 1
        /\ \A j \in 1 .. Len(ring) : Append(ring, new)[j] = ring[j]
        /\ Append(ring, new)[Len(ring) + 1] = new
    <3>1. ring \in Seq(PoolRecord) /\ new \in PoolRecord
      BY <1>2, <1>3
    <3> QED
      BY ONLY <3>1, AppendProperties
  <2>2. \A j \in 1 .. L + d : j - d \in DOMAIN poolRecords
    <3>1. DOMAIN poolRecords = 1 .. L /\ L \in Nat /\ d \in {-1, 0}
      BY <1>1
    <3> QED
      BY ONLY <3>1
  <2>3. poolRecords' = Append(ring, new) /\ Len(ring) = L + d
        /\ \A j \in 1 .. Len(ring) : ring[j] = poolRecords[j - d]
    BY <1>0, <1>3 DEF ring, new
  <2>4. DOMAIN poolRecords' = 1 .. Len(poolRecords')
    BY ONLY <2>1, <2>3, LenProperties
  <2> QED
    BY ONLY <1>4, <2>1, <2>2, <2>3, <2>4
<1>6. Ordered(poolRecords')
  <2>1. \A i \in DOMAIN poolRecords : poolRecords[i].last < frame
    <3>1. ASSUME NEW i \in DOMAIN poolRecords PROVE poolRecords[i].last < frame
      <4>1. poolRecords # << >> /\ L \in DOMAIN poolRecords /\ frame > poolRecords[L].last
        <5>1. poolRecords # << >>
          BY <1>1
        <5> QED
          BY <1>0, <1>1, <5>1
      <4>2. CASE i = L
        BY <1>1, <1>2, <4>1, <4>2
      <4>3. CASE i # L
        <5>1. i < L
          BY <1>1, <4>3
        <5>2. poolRecords[i].last < poolRecords[L].first
              /\ poolRecords[L].first <= poolRecords[L].last
          BY <1>1, <4>1, <5>1 DEF Ordered
        <5> QED
          BY <1>1, <1>2, <4>1, <5>2
      <4> QED
        BY <4>2, <4>3
    <3> QED
      BY <3>1
  <2>2. ASSUME NEW i \in 1 .. L + d + 1
        PROVE  poolRecords'[i].first <= poolRecords'[i].last
    <3>1. CASE i = L + d + 1
      <4>1. poolRecords'[i].first = frame /\ poolRecords'[i].last = frame
        BY <1>2, <1>5, <3>1
      <4> QED
        BY ONLY <1>2, <4>1
    <3>2. CASE i # L + d + 1
      <4>1. i \in 1 .. L + d
        BY <1>4, <3>2
      <4> QED
        BY <1>1, <1>5, <4>1 DEF Ordered
    <3> QED
      BY <3>1, <3>2
  <2>3. ASSUME NEW i \in 1 .. L + d + 1, NEW j \in 1 .. L + d + 1, i < j
        PROVE  poolRecords'[i].last < poolRecords'[j].first
    <3>0. i \in 1 .. L + d
      BY <1>4, <2>3
    <3>1. CASE j = L + d + 1
      BY <1>2, <1>5, <2>1, <3>0, <3>1
    <3>2. CASE j # L + d + 1
      <4>1. j \in 1 .. L + d /\ i - d < j - d
        BY <1>4, <2>3, <3>2
      <4> QED
        BY <1>1, <1>5, <3>0, <4>1 DEF Ordered
    <3> QED
      BY <3>1, <3>2
  <2> QED
    BY <1>5, <2>2, <2>3 DEF Ordered
<1>7. PoolInv'
  <2>1. PoolTyped'
    <3>1. Len(poolRecords') <= MaxPoolRecords
      BY ONLY <1>4, <1>5
    <3> QED
      BY <1>0, <1>1, <1>5, <3>1 DEF PoolTyped
  <2> QED
    BY <1>5, <1>6, <2>1 DEF PoolInv
<1>8. RecordsMove(poolRecords, pool, poolRecords', pool, d)
  <2>1. ASSUME NEW k \in Key PROVE SavesMore(poolRecords, pool, poolRecords', d, k)
    <3>1. ASSUME NEW j \in DOMAIN poolRecords, j + d >= 1
          PROVE  poolRecords'[j + d] = poolRecords[j]
      <4>1. j + d \in 1 .. L + d /\ (j + d) - d = j
        BY <1>1, <1>4, <3>1
      <4> QED
        BY <1>5, <4>1
    <3>2. \A m \in L + d + 1 .. Len(poolRecords') : poolRecords'[m].saved[k] = Missing
      <4>1. \A m \in L + d + 1 .. Len(poolRecords') : m = L + d + 1
        <5>1. Len(poolRecords') = L + d + 1
          BY <1>5
        <5> QED
          BY ONLY <1>4, <5>1
      <4> QED
        BY <1>2, <1>5, <4>1
    <3> QED
      BY <3>1, <3>2 DEF SavesMore, NotSaved
  <2>2. L + d >= 0 /\ L + d <= Len(poolRecords')
    <3>1. Len(poolRecords') = L + d + 1
      BY <1>5
    <3> QED
      BY ONLY <1>4, <3>1
  <2> QED
    BY <1>1, <1>4, <1>5, <2>1, <2>2 DEF RecordsMove
<1>9. ASSUME NEW j \in 1 .. L + d
      PROVE  PoolImage(poolRecords', pool, j) = PoolImage(poolRecords, pool, j - d)
  <2>1. j - d \in DOMAIN poolRecords /\ (j - d) + d = j /\ (j - d) + d >= 1
    BY <1>4, <1>5
  <2>2. PoolImage(poolRecords', pool, (j - d) + d) = PoolImage(poolRecords, pool, j - d)
    BY ONLY <1>1, <1>8, <2>1, MovedImage
  <2> QED
    BY <2>1, <2>2
<1>10. PoolImage(poolRecords', pool, L + d + 1) = pool
  <2>1. ASSUME NEW k \in Key PROVE PoolImage(poolRecords', pool, L + d + 1)[k] = pool[k]
    <3>1. NotSaved(poolRecords', L + d + 1, Len(poolRecords'), k)
      BY <1>8 DEF RecordsMove, SavesMore
    <3>2. Len(poolRecords') \in Nat
      BY <1>8 DEF RecordsMove
    <3> QED
      BY ONLY <1>4, <3>1, <3>2, k \in Key, NoCopy
  <2>2. PoolImage(poolRecords', pool, L + d + 1) =
          [k \in Key |-> PoolImage(poolRecords', pool, L + d + 1)[k]]
    BY DEF PoolImage
  <2> QED
    BY <1>1, <2>1, <2>2
<1>11. /\ cs \in Seq(PoolImageRecord) /\ Len(cs) = L /\ DOMAIN cs = DOMAIN poolRecords
       /\ \A i \in DOMAIN poolRecords :
            cs[i] = [start |-> poolRecords[i].first, end |-> poolRecords[i].last,
                     image |-> PoolImage(poolRecords, pool, i)]
  BY <1>1, PoolImagesTyped
<1> HIDE DEF cs
<1>12. /\ PoolRoom(cs) \in Seq(PoolImageRecord) /\ Len(PoolRoom(cs)) = L + d
       /\ \A j \in 1 .. L + d : PoolRoom(cs)[j] = cs[j - d]
  <2>1. PICK e \in {-1, 0} :
          /\ e = -1 <=> Len(cs) = MaxPoolRecords
          /\ PoolRoom(cs) \in Seq(PoolImageRecord) /\ Len(PoolRoom(cs)) = Len(cs) + e
          /\ Len(PoolRoom(cs)) < MaxPoolRecords
          /\ \A j \in 1 .. Len(PoolRoom(cs)) : PoolRoom(cs)[j] = cs[j - e]
    <3>1. cs \in Seq(PoolImageRecord) /\ Len(cs) <= MaxPoolRecords
      BY <1>1, <1>11
    <3> QED
      BY ONLY <3>1, PoolRoomIn, ZenonT(30)
  <2>2. e = d
    BY <1>3, <1>11, <2>1
  <2> QED
    BY <1>11, <2>1, <2>2
<1>13. PoolImages(poolRecords', pool) = Append(PoolRoom(cs), cp)
  <2>1. cp \in PoolImageRecord
    BY <1>1 DEF PoolImageRecord
  <2>2. cp = [start |-> new.first, end |-> new.last,
              image |-> PoolImage(poolRecords', pool, L + d + 1)]
    BY <1>2, <1>10
  <2> HIDE DEF cp
  <2>3. /\ Append(PoolRoom(cs), cp) \in Seq(PoolImageRecord)
        /\ Len(Append(PoolRoom(cs), cp)) = L + d + 1
        /\ \A j \in 1 .. L + d : Append(PoolRoom(cs), cp)[j] = cs[j - d]
        /\ Append(PoolRoom(cs), cp)[L + d + 1] = cp
    BY <1>4, <1>12, <2>1, AppendProperties
  <2>4. /\ PoolImages(poolRecords', pool) \in Seq(PoolImageRecord)
        /\ Len(PoolImages(poolRecords', pool)) = L + d + 1
        /\ \A j \in 1 .. L + d + 1 :
             PoolImages(poolRecords', pool)[j] =
               [start |-> poolRecords'[j].first, end |-> poolRecords'[j].last,
                image |-> PoolImage(poolRecords', pool, j)]
    BY <1>1, <1>5, PoolImagesTyped
  <2>5. ASSUME NEW j \in 1 .. L + d + 1
        PROVE  PoolImages(poolRecords', pool)[j] = Append(PoolRoom(cs), cp)[j]
    <3>1. CASE j = L + d + 1
      BY <1>5, <2>2, <2>3, <2>4, <3>1
    <3>2. CASE j # L + d + 1
      <4>1. j \in 1 .. L + d
        BY <1>4, <3>2
      <4>2. j - d \in DOMAIN poolRecords /\ poolRecords'[j] = poolRecords[j - d]
        BY <1>5, <4>1
      <4>3. PoolImage(poolRecords', pool, j) = PoolImage(poolRecords, pool, j - d)
        BY <1>9, <4>1
      <4> QED
        BY <1>11, <2>3, <2>4, <4>1, <4>2, <4>3
    <3> QED
      BY <3>1, <3>2
  <2> QED
    BY ONLY <2>3, <2>4, <2>5, SeqEqual
<1>14. cs # << >> => frame > cs[Len(cs)].end
  <2>1. ASSUME cs # << >> PROVE frame > cs[Len(cs)].end
    <3>1. L # 0
      BY <1>11, <2>1
    <3>2. poolRecords # << >> /\ L \in DOMAIN poolRecords
      BY <1>1, <3>1
    <3> QED
      BY <1>0, <1>1, <1>11, <3>2
  <2> QED
    BY <2>1
<1> QED
  BY <1>0, <1>7, <1>13, <1>14, ThePoolsImages
     DEF WholePool!Checkpoint, WholePool!Newest, PoolRoom, cs, cp

LEMMA WithoutFirst ==
  ASSUME NEW S, NEW seq \in Seq(S), NEW n \in 0 .. Len(seq)
  PROVE  /\ SubSeq(seq, n + 1, Len(seq)) \in Seq(S)
         /\ Len(SubSeq(seq, n + 1, Len(seq))) = Len(seq) - n
         /\ \A j \in 1 .. Len(seq) - n : SubSeq(seq, n + 1, Len(seq))[j] = seq[j + n]
<1>1. Len(seq) \in Nat /\ n \in Nat /\ n <= Len(seq)
  OBVIOUS
<1>2. PICK m \in Nat, l \in Nat : m = n + 1 /\ l = Len(seq)
  BY <1>1
<1>3. /\ m \in 1 .. Len(seq) + 1 /\ l \in 0 .. Len(seq)
      /\ m <= l + 1 /\ l - m + 1 = Len(seq) - n
      /\ \A j \in 1 .. Len(seq) - n : m + j - 1 = j + n
  BY ONLY <1>1, <1>2
<1>4. /\ SubSeq(seq, m, l) \in Seq(S) /\ Len(SubSeq(seq, m, l)) = l - m + 1
      /\ \A j \in 1 .. l - m + 1 : SubSeq(seq, m, l)[j] = seq[m + j - 1]
  <2>1. m \in 1 .. Len(seq) + 1
    BY <1>3
  <2>2. l \in 0 .. Len(seq) /\ m <= l + 1
    BY <1>3
  <2> QED
    BY ONLY seq \in Seq(S), <2>1, <2>2, SubSeqFacts
<1> QED
  BY ONLY <1>2, <1>3, <1>4

(* The records from m + 1 to n of the pool's ring, moved to the front. *)
LEMMA PoolSubSeq ==
  ASSUME PoolTyped, NEW m \in 0 .. Len(poolRecords), NEW n \in m .. Len(poolRecords),
         poolRecords' = SubSeq(poolRecords, m + 1, n)
  PROVE  /\ poolRecords' \in Seq(PoolRecord) /\ Len(poolRecords') = n - m
         /\ DOMAIN poolRecords' = 1 .. n - m
         /\ \A j \in 1 .. n - m :
              j + m \in DOMAIN poolRecords /\ poolRecords'[j] = poolRecords[j + m]
         /\ Ordered(poolRecords) => Ordered(poolRecords')
         /\ Len(poolRecords') <= MaxPoolRecords
<1> DEFINE L == Len(poolRecords)
<1>1. /\ poolRecords \in Seq(PoolRecord) /\ L \in Nat /\ L <= MaxPoolRecords
      /\ DOMAIN poolRecords = 1 .. L /\ m \in Nat /\ n \in Nat /\ n - m \in Nat
      /\ n <= L /\ m <= n /\ MaxPoolRecords \in Nat
  BY PoolFacts, PoolAssumption DEF PoolTyped
<1>2. /\ poolRecords' \in Seq(PoolRecord) /\ Len(poolRecords') = n - m
      /\ DOMAIN poolRecords' = 1 .. n - m
      /\ \A j \in 1 .. n - m :
           j + m \in DOMAIN poolRecords /\ poolRecords'[j] = poolRecords[j + m]
  <2>1. m + 1 \in 1 .. L + 1 /\ n \in 0 .. L /\ m + 1 <= n + 1 /\ n - (m + 1) + 1 = n - m
    BY ONLY <1>1
  <2>2. /\ SubSeq(poolRecords, m + 1, n) \in Seq(PoolRecord)
        /\ Len(SubSeq(poolRecords, m + 1, n)) = n - (m + 1) + 1
        /\ DOMAIN SubSeq(poolRecords, m + 1, n) = 1 .. n - (m + 1) + 1
        /\ \A j \in 1 .. n - (m + 1) + 1 :
             /\ m + 1 + j - 1 \in 1 .. L
             /\ SubSeq(poolRecords, m + 1, n)[j] = poolRecords[m + 1 + j - 1]
    BY ONLY <1>1, <2>1, SubSeqFacts
  <2>3. \A j \in 1 .. n - m : m + 1 + j - 1 = j + m
    BY ONLY <1>1
  <2> QED
    BY ONLY <1>1, <2>1, <2>2, <2>3, poolRecords' = SubSeq(poolRecords, m + 1, n)
<1>3. Ordered(poolRecords) => Ordered(poolRecords')
  <2>1. \A i, j \in 1 .. n - m : i < j => i + m < j + m
    BY ONLY <1>1
  <2> QED
    BY ONLY <1>2, <2>1 DEF Ordered
<1>4. Len(poolRecords') <= MaxPoolRecords
  BY ONLY <1>1, <1>2
<1> QED
  BY <1>2, <1>3, <1>4

(* The copies that an undo forgets are those it has restored: an older     *)
(* checkpoint finds in the pool what it found in them.                     *)
LEMMA PoolUndoStep ==
  ASSUME PoolInv, NEW i \in DOMAIN poolRecords, ~ poolOpen,
         pool' = PoolRestored(i), poolRecords' = SubSeq(poolRecords, 1, i - 1),
         UNCHANGED <<poolOpen, poolFailed>>
  PROVE  PoolInv' /\ WholePool!Restore(i)
<1> DEFINE L == Len(poolRecords)
           cs == PoolImages(poolRecords, pool)
<1>1. /\ PoolTyped /\ Ordered(poolRecords)
      /\ poolRecords \in Seq(PoolRecord) /\ pool \in [Key -> PartValue]
      /\ L \in Nat /\ DOMAIN poolRecords = 1 .. L /\ i \in 1 .. L
      /\ \A k \in Key : pool[k] # Missing
  BY PoolFacts DEF PoolInv, PoolTyped
<1>2. pool' = PoolImage(poolRecords, pool, i)
  BY ThePoolsImages
<1>3. /\ poolRecords' \in Seq(PoolRecord) /\ Len(poolRecords') = i - 1
      /\ DOMAIN poolRecords' = 1 .. i - 1
      /\ \A j \in 1 .. i - 1 :
           j \in DOMAIN poolRecords /\ poolRecords'[j] = poolRecords[j]
      /\ Ordered(poolRecords') /\ Len(poolRecords') <= MaxPoolRecords
  <2>1. /\ 0 \in 0 .. L /\ i - 1 \in 0 .. L /\ 0 + 1 = 1 /\ i - 1 - 0 = i - 1
        /\ \A j \in 1 .. i - 1 : j + 0 = j
    BY ONLY <1>1
  <2>2. poolRecords' = SubSeq(poolRecords, 0 + 1, i - 1)
    BY <2>1
  <2>3. /\ poolRecords' \in Seq(PoolRecord) /\ Len(poolRecords') = i - 1 - 0
        /\ DOMAIN poolRecords' = 1 .. i - 1 - 0
        /\ \A j \in 1 .. i - 1 - 0 :
             j + 0 \in DOMAIN poolRecords /\ poolRecords'[j] = poolRecords[j + 0]
        /\ Ordered(poolRecords) => Ordered(poolRecords')
        /\ Len(poolRecords') <= MaxPoolRecords
    BY ONLY <1>1, <2>1, <2>2, PoolSubSeq
  <2> QED
    BY ONLY <1>1, <2>1, <2>3
<1>4. /\ cs \in Seq(PoolImageRecord) /\ Len(cs) = L /\ DOMAIN cs = DOMAIN poolRecords
      /\ \A j \in DOMAIN poolRecords :
           cs[j] = [start |-> poolRecords[j].first, end |-> poolRecords[j].last,
                    image |-> PoolImage(poolRecords, pool, j)]
  BY ONLY <1>1, PoolImagesTyped
<1>5. pool' \in [Key -> PartValue]
  <2>1. cs[i] \in PoolImageRecord
    BY ONLY <1>1, <1>4
  <2>2. cs[i].image = PoolImage(poolRecords, pool, i)
    BY ONLY <1>1, <1>4
  <2> HIDE DEF cs
  <2> QED
    BY <1>2, <2>1, <2>2 DEF PoolImageRecord
<1>6. PoolInv'
  <2>1. PoolTyped'
    BY <1>1, <1>3, <1>5 DEF PoolTyped
  <2> QED
    BY <1>3, <2>1 DEF PoolInv
<1>7. ASSUME NEW j \in 1 .. i - 1
      PROVE  PoolImage(poolRecords', pool', j) = PoolImage(poolRecords, pool, j)
  <2>0. /\ j \in Nat /\ j \in 1 .. L /\ i \in Nat /\ Len(poolRecords') \in Nat
        /\ i - 1 \in Nat
    BY ONLY <1>1, <1>3, j \in 1 .. i - 1
  <2>1. ASSUME NEW k \in Key
        PROVE  PoolImage(poolRecords', pool', j)[k] = PoolImage(poolRecords, pool, j)[k]
    <3>1. ASSUME NEW q \in j .. L, poolRecords[q].saved[k] # Missing,
                 NotSaved(poolRecords, j, q - 1, k)
          PROVE  PoolImage(poolRecords', pool', j)[k] = PoolImage(poolRecords, pool, j)[k]
      <4>1. PoolImage(poolRecords, pool, j)[k] = poolRecords[q].saved[k]
        BY ONLY <1>1, <2>0, <3>1, k \in Key, q \in j .. L, OldestCopy
      <4>2. CASE q <= i - 1
        <5>1. q \in j .. Len(poolRecords') /\ q \in 1 .. i - 1
          BY ONLY <1>3, <2>0, <4>2, q \in j .. L
        <5>2. poolRecords'[q].saved[k] # Missing
          BY <1>3, <3>1, <5>1
        <5>3. NotSaved(poolRecords', j, q - 1, k)
          <6>1. \A m \in j .. q - 1 : m \in 1 .. i - 1
            BY ONLY <2>0, <5>1
          <6> QED
            BY <1>3, <3>1, <6>1 DEF NotSaved
        <5>4. PoolImage(poolRecords', pool', j)[k] = poolRecords'[q].saved[k]
          BY ONLY <2>0, <5>1, <5>2, <5>3, k \in Key, OldestCopy
        <5> QED
          BY <1>3, <4>1, <5>1, <5>4
      <4>3. CASE ~ (q <= i - 1)
        <5>1. /\ q \in i .. L /\ \A m \in j .. i - 1 : m \in j .. q - 1 /\ m \in 1 .. i - 1
              /\ \A m \in i .. q - 1 : m \in j .. q - 1
          BY ONLY <1>1, <2>0, <4>3, q \in j .. L, j \in 1 .. i - 1
        <5>2. NotSaved(poolRecords', j, Len(poolRecords'), k)
          BY <1>3, <3>1, <5>1 DEF NotSaved
        <5>3. NotSaved(poolRecords, i, q - 1, k)
          BY <3>1, <5>1 DEF NotSaved
        <5>4. PoolImage(poolRecords', pool', j)[k] = pool'[k]
          BY ONLY <2>0, <5>2, k \in Key, NoCopy
        <5>5. PoolImage(poolRecords, pool, i)[k] = poolRecords[q].saved[k]
          BY ONLY <1>1, <2>0, <3>1, <5>1, <5>3, k \in Key, OldestCopy
        <5> QED
          BY <1>2, <4>1, <5>4, <5>5
      <4> QED
        BY <4>2, <4>3
    <3>2. CASE NotSaved(poolRecords, j, L, k)
      <4>1. /\ \A m \in j .. i - 1 : m \in j .. L /\ m \in 1 .. i - 1
            /\ \A m \in i .. L : m \in j .. L
        BY ONLY <1>1, <2>0, j \in 1 .. i - 1
      <4>2. NotSaved(poolRecords', j, Len(poolRecords'), k)
        BY <1>3, <3>2, <4>1 DEF NotSaved
      <4>3. NotSaved(poolRecords, i, L, k)
        BY <3>2, <4>1 DEF NotSaved
      <4>4. PoolImage(poolRecords', pool', j)[k] = pool'[k]
        BY ONLY <2>0, <4>2, k \in Key, NoCopy
      <4>5. /\ PoolImage(poolRecords, pool, i)[k] = pool[k]
            /\ PoolImage(poolRecords, pool, j)[k] = pool[k]
        BY ONLY <1>1, <2>0, <3>2, <4>3, k \in Key, NoCopy
      <4> QED
        BY <1>2, <4>4, <4>5
    <3> QED
      BY ONLY <1>1, <2>0, <3>1, <3>2, CopyOrNot
  <2> QED
    BY ONLY <2>1 DEF PoolImage
<1> HIDE DEF cs
<1>8. PoolImages(poolRecords', pool') = SubSeq(cs, 1, i - 1)
  <2>1. /\ 1 \in 1 .. Len(cs) + 1 /\ i - 1 \in 0 .. Len(cs) /\ 1 <= i - 1 + 1
        /\ i - 1 - 1 + 1 = i - 1 /\ \A j \in 1 .. i - 1 : 1 + j - 1 = j
    BY ONLY <1>1, <1>4
  <2>2. /\ SubSeq(cs, 1, i - 1) \in Seq(PoolImageRecord)
        /\ Len(SubSeq(cs, 1, i - 1)) = i - 1 - 1 + 1
        /\ \A j \in 1 .. i - 1 - 1 + 1 : SubSeq(cs, 1, i - 1)[j] = cs[1 + j - 1]
    BY ONLY <1>4, <2>1, SubSeqFacts
  <2>3. /\ PoolImages(poolRecords', pool') \in Seq(PoolImageRecord)
        /\ Len(PoolImages(poolRecords', pool')) = i - 1
        /\ \A j \in 1 .. i - 1 :
             PoolImages(poolRecords', pool')[j] =
               [start |-> poolRecords'[j].first, end |-> poolRecords'[j].last,
                image |-> PoolImage(poolRecords', pool', j)]
    BY ONLY <1>3, <1>5, PoolImagesTyped
  <2>4. ASSUME NEW j \in 1 .. i - 1
        PROVE  PoolImages(poolRecords', pool')[j] = SubSeq(cs, 1, i - 1)[j]
    <3>1. j \in DOMAIN poolRecords /\ poolRecords'[j] = poolRecords[j]
      BY <1>3
    <3> QED
      BY ONLY <1>4, <1>7, <2>1, <2>2, <2>3, <3>1, j \in 1 .. i - 1
  <2> QED
    BY ONLY <2>1, <2>2, <2>3, <2>4, SeqEqual
<1>9. cs[i].image = PoolImage(poolRecords, pool, i)
  BY ONLY <1>1, <1>4
<1> QED
  BY <1>2, <1>6, <1>8, <1>9, ThePoolsImages DEF WholePool!Restore, cs

LEMMA PoolDiscardStep ==
  ASSUME PoolInv, NEW n \in 0 .. Len(poolRecords), ~ poolOpen,
         poolRecords' = SubSeq(poolRecords, n + 1, Len(poolRecords)),
         UNCHANGED <<pool, poolOpen, poolFailed>>
  PROVE  PoolInv' /\ WholePool!Forget(n)
<1> DEFINE L == Len(poolRecords)
           cs == PoolImages(poolRecords, pool)
<1>1. /\ PoolTyped /\ Ordered(poolRecords)
      /\ poolRecords \in Seq(PoolRecord) /\ pool \in [Key -> PartValue]
      /\ L \in Nat /\ DOMAIN poolRecords = 1 .. L /\ n \in Nat /\ L - n \in Nat
      /\ \A k \in Key : pool[k] # Missing
  BY PoolFacts DEF PoolInv, PoolTyped
<1>2. /\ poolRecords' \in Seq(PoolRecord) /\ Len(poolRecords') = L - n
      /\ DOMAIN poolRecords' = 1 .. L - n
      /\ \A j \in 1 .. L - n :
           j + n \in DOMAIN poolRecords /\ poolRecords'[j] = poolRecords[j + n]
      /\ Ordered(poolRecords') /\ Len(poolRecords') <= MaxPoolRecords
  <2>1. L \in n .. L
    BY ONLY <1>1
  <2> QED
    BY ONLY <1>1, <2>1, n \in 0 .. L, PoolSubSeq,
            poolRecords' = SubSeq(poolRecords, n + 1, Len(poolRecords))
<1>3. PoolInv'
  <2>1. PoolTyped'
    BY <1>1, <1>2 DEF PoolTyped
  <2> QED
    BY <1>2, <2>1 DEF PoolInv
<1>4. PICK d \in Int : d = 0 - n
  BY <1>1
<1>4a. L \in Nat /\ n \in Nat /\ n <= L /\ Len(poolRecords') = L - n /\ d = 0 - n
  <2>1. L \in Nat /\ n \in Nat /\ n \in 0 .. L
    BY <1>1
  <2> QED
    BY ONLY <1>2, <1>4, <2>1
<1>5. RecordsMove(poolRecords, pool, poolRecords', pool, d)
  <2>1. ASSUME NEW k \in Key PROVE SavesMore(poolRecords, pool, poolRecords', d, k)
    <3>1. ASSUME NEW j \in DOMAIN poolRecords, j + d >= 1
          PROVE  poolRecords'[j + d] = poolRecords[j]
      <4>1. j + d \in 1 .. L - n /\ (j + d) + n = j
        BY <1>1, <1>4, <3>1
      <4> QED
        BY <1>2, <4>1
    <3>2. L + d + 1 .. Len(poolRecords') = {}
      BY ONLY <1>4a
    <3> QED
      BY <3>1, <3>2 DEF SavesMore, NotSaved
  <2>2. L + d >= 0 /\ L + d <= Len(poolRecords')
    BY ONLY <1>4a
  <2> QED
    BY <1>1, <1>2, <1>4, <2>1, <2>2 DEF RecordsMove
<1>6. ASSUME NEW j \in 1 .. L - n
      PROVE  PoolImage(poolRecords', pool, j) = PoolImage(poolRecords, pool, j + n)
  <2>1. j + n \in DOMAIN poolRecords /\ (j + n) + d = j /\ (j + n) + d >= 1
    <3>1. j + n \in DOMAIN poolRecords
      BY <1>2
    <3>2. (j + n) + d = j /\ (j + n) + d >= 1
      BY ONLY <1>4a, j \in 1 .. L - n
    <3> QED
      BY <3>1, <3>2
  <2>2. PoolImage(poolRecords', pool, (j + n) + d) = PoolImage(poolRecords, pool, j + n)
    BY ONLY <1>1, <1>5, <2>1, MovedImage
  <2> QED
    BY <2>1, <2>2
<1>7. /\ cs \in Seq(PoolImageRecord) /\ Len(cs) = L /\ DOMAIN cs = DOMAIN poolRecords
      /\ \A j \in DOMAIN poolRecords :
           cs[j] = [start |-> poolRecords[j].first, end |-> poolRecords[j].last,
                    image |-> PoolImage(poolRecords, pool, j)]
  BY ONLY <1>1, PoolImagesTyped
<1> HIDE DEF cs
<1>8. PoolImages(poolRecords', pool) = SubSeq(cs, n + 1, Len(cs))
  <2>1. cs \in Seq(PoolImageRecord) /\ Len(cs) = L /\ n \in 0 .. Len(cs)
    BY <1>7
  <2>2. /\ SubSeq(cs, n + 1, Len(cs)) \in Seq(PoolImageRecord)
        /\ Len(SubSeq(cs, n + 1, Len(cs))) = Len(cs) - n
        /\ \A j \in 1 .. Len(cs) - n : SubSeq(cs, n + 1, Len(cs))[j] = cs[j + n]
    BY ONLY <2>1, WithoutFirst
  <2>3. /\ PoolImages(poolRecords', pool) \in Seq(PoolImageRecord)
        /\ Len(PoolImages(poolRecords', pool)) = L - n
        /\ \A j \in 1 .. L - n :
             PoolImages(poolRecords', pool)[j] =
               [start |-> poolRecords'[j].first, end |-> poolRecords'[j].last,
                image |-> PoolImage(poolRecords', pool, j)]
    BY ONLY <1>1, <1>2, PoolImagesTyped
  <2>4. ASSUME NEW j \in 1 .. L - n
        PROVE  PoolImages(poolRecords', pool)[j] = SubSeq(cs, n + 1, Len(cs))[j]
    <3>1. j + n \in DOMAIN poolRecords /\ poolRecords'[j] = poolRecords[j + n]
      BY <1>2
    <3> QED
      BY ONLY <1>6, <1>7, <2>1, <2>2, <2>3, <3>1, j \in 1 .. L - n
  <2> QED
    BY ONLY <2>1, <2>2, <2>3, <2>4, SeqEqual
<1> QED
  BY <1>3, <1>8, ThePoolsImages DEF WholePool!Forget, cs

---------------------------------------------------------------------------
(* The theorems of the pool's journal. *)

LEMMA PoolInitImplements == PoolInit => PoolInv /\ WholePool!SnapshotsInit
<1> SUFFICES ASSUME PoolInit PROVE PoolInv /\ WholePool!SnapshotsInit
  OBVIOUS
<1>1. /\ poolRecords = << >> /\ Len(poolRecords) = 0 /\ DOMAIN poolRecords = {}
      /\ pool \in [Key -> PartValue] /\ poolOpen = FALSE /\ poolFailed = FALSE
  BY DEF PoolInit
<1>2. poolRecords \in Seq(PoolRecord) /\ Len(poolRecords) <= MaxPoolRecords
  BY <1>1, PoolAssumption
<1>3. PoolInv
  BY <1>1, <1>2 DEF PoolInv, PoolTyped, Ordered
<1>4. PoolCheckpoints = << >>
  BY <1>1 DEF PoolCheckpoints
<1> QED
  BY <1>1, <1>3, <1>4 DEF WholePool!SnapshotsInit

LEMMA PoolBeginFrameStep ==
  ASSUME PoolInv, NEW frame \in PoolFrame, NEW extend \in BOOLEAN,
         PoolBeginFrame(frame, extend)
  PROVE  PoolInv' /\ [WholePool!SnapshotsNext]_(WholePool!snapshotVars)
<1>1. CASE ~ PoolCanBegin(frame, extend)
  BY <1>1, PoolFailStep DEF PoolBeginFrame
<1>2. CASE PoolCanBegin(frame, extend)
  <2>1. /\ ~ poolOpen /\ poolRecords' = PoolBegun(frame, extend) /\ poolOpen' = TRUE
        /\ UNCHANGED <<pool, poolFailed>>
    BY <1>2 DEF PoolBeginFrame
  <2>2. CASE extend = TRUE
    <3>1. PoolInv' /\ WholePool!ExtendNewest
      BY <1>2, <2>1, <2>2, PoolExtendStep
    <3> QED
      BY <3>1 DEF WholePool!SnapshotsNext
  <2>3. CASE extend = FALSE
    <3>1. PoolInv' /\ WholePool!Checkpoint(frame)
      BY <1>2, <2>1, <2>3, PoolBeginStep
    <3> QED
      BY <3>1 DEF WholePool!SnapshotsNext
  <2> QED
    BY <2>2, <2>3
<1> QED
  BY <1>1, <1>2

LEMMA PoolNextImplements ==
  PoolInv /\ [PoolNext]_poolVars
    => PoolInv' /\ [WholePool!SnapshotsNext]_(WholePool!snapshotVars)
<1> DEFINE Step == [WholePool!SnapshotsNext]_(WholePool!snapshotVars)
<1> SUFFICES ASSUME PoolInv, [PoolNext]_poolVars PROVE PoolInv' /\ Step
  OBVIOUS
<1>1. CASE UNCHANGED poolVars
  <2>1. /\ pool' = pool /\ poolRecords' = poolRecords /\ poolOpen' = poolOpen
        /\ poolFailed' = poolFailed
    BY <1>1 DEF poolVars
  <2>2. PoolInv'
    BY <2>1 DEF PoolInv, PoolTyped, Ordered
  <2>3. PoolCheckpoints' = PoolCheckpoints
    BY <2>1, ThePoolsImages
  <2> QED
    BY <2>1, <2>2, <2>3 DEF WholePool!snapshotVars
<1>2. ASSUME NEW frame \in PoolFrame, NEW extend \in BOOLEAN,
             PoolBeginFrame(frame, extend)
      PROVE  PoolInv' /\ Step
  BY <1>2, PoolBeginFrameStep
<1>3. ASSUME NEW frame \in PoolFrame, PoolUndoTo(frame)
      PROVE  PoolInv' /\ Step
  <2>1. PICK i \in DOMAIN poolRecords :
          pool' = PoolRestored(i) /\ poolRecords' = SubSeq(poolRecords, 1, i - 1)
    BY <1>3 DEF PoolUndoTo
  <2>2. ~ poolOpen /\ UNCHANGED <<poolOpen, poolFailed>>
    BY <1>3 DEF PoolUndoTo
  <2>3. PoolInv' /\ WholePool!Restore(i)
    BY <2>1, <2>2, PoolUndoStep
  <2>4. i \in DOMAIN PoolCheckpoints
    BY DEF PoolCheckpoints
  <2> QED
    BY <2>3, <2>4 DEF WholePool!SnapshotsNext
<1>4. ASSUME NEW frame \in PoolFrame, PoolDiscardBefore(frame)
      PROVE  PoolInv' /\ Step
  <2>1. PICK n \in 0 .. Len(poolRecords) :
          poolRecords' = SubSeq(poolRecords, n + 1, Len(poolRecords))
    BY <1>4 DEF PoolDiscardBefore
  <2>2. ~ poolOpen /\ UNCHANGED <<pool, poolOpen, poolFailed>>
    BY <1>4 DEF PoolDiscardBefore
  <2>3. PoolInv' /\ WholePool!Forget(n)
    BY <2>1, <2>2, PoolDiscardStep
  <2>4. CASE n = 0
    <3>1. PoolTyped /\ poolRecords \in Seq(PoolRecord)
      BY DEF PoolInv, PoolTyped
    <3>2. SubSeq(poolRecords, 1, Len(poolRecords)) = poolRecords
      <4>1. /\ SubSeq(poolRecords, 1, Len(poolRecords)) \in Seq(PoolRecord)
            /\ Len(SubSeq(poolRecords, 1, Len(poolRecords))) = Len(poolRecords)
            /\ \A j \in 1 .. Len(poolRecords) :
                 SubSeq(poolRecords, 1, Len(poolRecords))[j] = poolRecords[j]
        <5>1. /\ 1 \in 1 .. Len(poolRecords) + 1
              /\ Len(poolRecords) \in 0 .. Len(poolRecords)
              /\ 1 <= Len(poolRecords) + 1 /\ Len(poolRecords) - 1 + 1 = Len(poolRecords)
              /\ \A j \in 1 .. Len(poolRecords) : 1 + j - 1 = j
          BY <3>1
        <5>2. /\ SubSeq(poolRecords, 1, Len(poolRecords)) \in Seq(PoolRecord)
              /\ Len(SubSeq(poolRecords, 1, Len(poolRecords))) = Len(poolRecords) - 1 + 1
              /\ \A j \in 1 .. Len(poolRecords) - 1 + 1 :
                   SubSeq(poolRecords, 1, Len(poolRecords))[j] = poolRecords[1 + j - 1]
          BY ONLY <3>1, <5>1, SubSeqFacts
        <5> QED
          BY ONLY <5>1, <5>2
      <4> QED
        BY ONLY <3>1, <4>1, SeqEqual
    <3>3. poolRecords' = poolRecords
      BY <2>1, <2>4, <3>2
    <3>4. PoolCheckpoints' = PoolCheckpoints
      BY <2>2, <3>3, ThePoolsImages
    <3> QED
      BY <2>2, <2>3, <3>4 DEF WholePool!snapshotVars
  <2>5. CASE n # 0
    <3>1. n \in DOMAIN poolRecords
      BY <2>5, PoolFacts DEF PoolInv
    <3>2. n \in DOMAIN PoolCheckpoints
      BY <3>1 DEF PoolCheckpoints
    <3> QED
      BY <2>3, <3>2 DEF WholePool!SnapshotsNext
  <2> QED
    BY <2>4, <2>5
<1>5. ASSUME NEW keys, PoolSave(keys)
      PROVE  PoolInv' /\ Step
  BY <1>5, PoolSaveStep
<1>6. ASSUME NEW k \in Key, NEW v \in PartValue, PoolWrite(k, v)
      PROVE  PoolInv' /\ Step
  BY <1>6, PoolWriteStep DEF WholePool!SnapshotsNext
<1>7. CASE PoolEndFrame
  BY <1>7, PoolSealStep DEF WholePool!SnapshotsNext
<1>8. CASE PoolReset
  BY <1>8, PoolResetStep DEF WholePool!SnapshotsNext
<1> HIDE DEF Step
<1> QED
  BY <1>1, <1>2, <1>3, <1>4, <1>5, <1>6, <1>7, <1>8
     DEF PoolNext, PoolTouch, CaptureMasks

THEOREM PoolInvariant == PoolSpec => []PoolInv
<1>1. PoolInv /\ [PoolNext]_poolVars => PoolInv'
  BY PoolNextImplements
<1>2. PoolInit => PoolInv
  BY PoolInitImplements
<1> QED
  BY <1>1, <1>2, PTL DEF PoolSpec

(* The pool's journal restores what whole copies of the pool would, for    *)
(* every number of slots, parts and checkpoints: UndoTo, oldest copy       *)
(* first, brings back every part as it was when the checkpoint began,      *)
(* also a part that only a later checkpoint saved, and evictions, earlier  *)
(* undos and failures change nothing of it.                                *)
THEOREM PoolJournalImplementsSnapshots == PoolSpec => PoolImplementsSnapshots
<1>1. PoolInv /\ [PoolNext]_poolVars => [WholePool!SnapshotsNext]_(WholePool!snapshotVars)
  BY PoolNextImplements
<1>2. PoolInit => WholePool!SnapshotsInit
  BY PoolInitImplements
<1> QED
  BY <1>1, <1>2, PoolInvariant, PTL
     DEF PoolSpec, PoolImplementsSnapshots, WholePool!SnapshotsSpec

---------------------------------------------------------------------------
(* The two journals of one pool.  What the checkpoints of the pool hold is *)
(* the first cells of what those of the memory hold.                       *)

SameCopy(p, c) ==
  /\ p.start = c.start /\ p.end = c.end
  /\ \A k \in Key : p.image[k] = c.image[k + 1]
SameCopies(ps, cs) ==
  /\ ps \in Seq(PoolImageRecord) /\ cs \in Seq(CheckpointRecord)
  /\ Len(ps) = Len(cs)
  /\ \A i \in 1 .. Len(cs) : SameCopy(ps[i], cs[i])

BothAgree ==
  /\ JournalsAgree /\ poolOpen = frameOpen
  /\ SameCopies(PoolCheckpoints, Checkpoints(records, memory))

BothInv == JInv /\ PoolInv /\ BothAgree

LEMMA PoolCells ==
  ASSUME NEW k \in Key
  PROVE  k + 1 \in Cell /\ k \in Int
<1>1. Slots * Parts \in Nat /\ Slots * Parts <= Cells /\ Cells \in Nat
  BY SharedAssumption, PoolAssumption, JournalAssumption
<1> QED
  BY <1>1 DEF Key, Cell

LEMMA SameCopiesSubSeq ==
  ASSUME NEW ps, NEW cs, SameCopies(ps, cs),
         NEW m \in 1 .. Len(cs) + 1, NEW n \in 0 .. Len(cs), m <= n + 1
  PROVE  SameCopies(SubSeq(ps, m, n), SubSeq(cs, m, n))
<1>1. /\ ps \in Seq(PoolImageRecord) /\ cs \in Seq(CheckpointRecord)
      /\ Len(ps) = Len(cs) /\ Len(cs) \in Nat
      /\ \A i \in 1 .. Len(cs) : SameCopy(ps[i], cs[i])
  BY DEF SameCopies
<1>2. /\ SubSeq(cs, m, n) \in Seq(CheckpointRecord)
      /\ Len(SubSeq(cs, m, n)) = n - m + 1
      /\ \A j \in 1 .. n - m + 1 :
           m + j - 1 \in 1 .. Len(cs) /\ SubSeq(cs, m, n)[j] = cs[m + j - 1]
  <2>1. cs \in Seq(CheckpointRecord)
    BY <1>1
  <2> QED
    BY ONLY <2>1, m \in 1 .. Len(cs) + 1, n \in 0 .. Len(cs), m <= n + 1, SubSeqFacts
<1>3. /\ SubSeq(ps, m, n) \in Seq(PoolImageRecord)
      /\ Len(SubSeq(ps, m, n)) = n - m + 1
      /\ \A j \in 1 .. n - m + 1 : SubSeq(ps, m, n)[j] = ps[m + j - 1]
  <2>1. ps \in Seq(PoolImageRecord) /\ m \in 1 .. Len(ps) + 1 /\ n \in 0 .. Len(ps)
    BY <1>1
  <2> QED
    BY ONLY <2>1, m <= n + 1, SubSeqFacts
<1> QED
  BY ONLY <1>1, <1>2, <1>3 DEF SameCopies

LEMMA SameCopiesAppend ==
  ASSUME NEW ps, NEW cs, SameCopies(ps, cs), NEW p \in PoolImageRecord,
         NEW c \in CheckpointRecord, SameCopy(p, c)
  PROVE  SameCopies(Append(ps, p), Append(cs, c))
<1>1. /\ ps \in Seq(PoolImageRecord) /\ cs \in Seq(CheckpointRecord)
      /\ Len(ps) = Len(cs) /\ Len(cs) \in Nat
      /\ \A i \in 1 .. Len(cs) : SameCopy(ps[i], cs[i])
  BY DEF SameCopies
<1>2. /\ Append(cs, c) \in Seq(CheckpointRecord)
      /\ Len(Append(cs, c)) = Len(cs) + 1
      /\ \A i \in 1 .. Len(cs) : Append(cs, c)[i] = cs[i]
      /\ Append(cs, c)[Len(cs) + 1] = c
  BY ONLY <1>1, c \in CheckpointRecord, AppendProperties
<1>3. /\ Append(ps, p) \in Seq(PoolImageRecord)
      /\ Len(Append(ps, p)) = Len(cs) + 1
      /\ \A i \in 1 .. Len(cs) : Append(ps, p)[i] = ps[i]
      /\ Append(ps, p)[Len(cs) + 1] = p
  BY ONLY <1>1, p \in PoolImageRecord, AppendProperties
<1>4. \A i \in 1 .. Len(cs) + 1 : i \in 1 .. Len(cs) \/ i = Len(cs) + 1
  BY <1>1
<1> QED
  BY ONLY <1>1, <1>2, <1>3, <1>4, SameCopy(p, c) DEF SameCopies

LEMMA SameCopiesTail ==
  ASSUME NEW ps, NEW cs, SameCopies(ps, cs), cs # << >>
  PROVE  SameCopies(Tail(ps), Tail(cs))
<1>1. /\ ps \in Seq(PoolImageRecord) /\ cs \in Seq(CheckpointRecord)
      /\ Len(ps) = Len(cs) /\ Len(cs) \in Nat
      /\ \A i \in 1 .. Len(cs) : SameCopy(ps[i], cs[i])
  BY DEF SameCopies
<1>2. /\ Tail(cs) \in Seq(CheckpointRecord) /\ Len(Tail(cs)) = Len(cs) - 1
      /\ \A j \in 1 .. Len(Tail(cs)) : Tail(cs)[j] = cs[j + 1]
  BY ONLY <1>1, cs # << >>, HeadTailProperties
<1>3. /\ Tail(ps) \in Seq(PoolImageRecord) /\ Len(Tail(ps)) = Len(cs) - 1
      /\ \A j \in 1 .. Len(Tail(ps)) : Tail(ps)[j] = ps[j + 1]
  <2>1. ps # << >>
    BY <1>1
  <2> QED
    BY ONLY <1>1, <2>1, HeadTailProperties
<1>4. \A j \in 1 .. Len(cs) - 1 : j + 1 \in 1 .. Len(cs)
  BY ONLY <1>1
<1> QED
  BY ONLY <1>1, <1>2, <1>3, <1>4 DEF SameCopies

LEMMA AgreedFacts ==
  ASSUME BothInv
  PROVE  /\ records \in Seq(Record) /\ poolRecords \in Seq(PoolRecord)
         /\ Len(records) \in Nat /\ Len(poolRecords) = Len(records)
         /\ DOMAIN records = 1 .. Len(records)
         /\ DOMAIN poolRecords = 1 .. Len(records)
         /\ memory \in [Cell -> Value] /\ pool \in [Key -> PartValue]
         /\ Len(Checkpoints(records, memory)) = Len(records)
         /\ Len(PoolCheckpoints) = Len(records)
         /\ \A i \in 1 .. Len(records) :
              /\ poolRecords[i].first = records[i].start
              /\ poolRecords[i].last = records[i].end
              /\ poolRecords[i].first \in Int /\ poolRecords[i].last \in Int
<1>1. /\ records \in Seq(Record) /\ memory \in [Cell -> Value]
      /\ poolRecords \in Seq(PoolRecord) /\ pool \in [Key -> PartValue]
      /\ \A i \in DOMAIN poolRecords :
           poolRecords[i].first \in Int /\ poolRecords[i].last \in Int
  BY PoolFacts DEF BothInv, JInv, TypeOK, PoolInv, PoolTyped
<1>2. /\ Len(records) \in Nat /\ DOMAIN records = 1 .. Len(records)
      /\ Len(poolRecords) \in Nat /\ DOMAIN poolRecords = 1 .. Len(poolRecords)
  BY ONLY <1>1, LenProperties
<1>3. /\ Len(Checkpoints(records, memory)) = Len(records)
      /\ \A i \in DOMAIN records :
           /\ Checkpoints(records, memory)[i].start = records[i].start
           /\ Checkpoints(records, memory)[i].end = records[i].end
  BY ONLY <1>1, CheckpointsTyped
<1>4. /\ Len(PoolCheckpoints) = Len(poolRecords)
      /\ \A i \in DOMAIN poolRecords :
           /\ PoolCheckpoints[i].start = poolRecords[i].first
           /\ PoolCheckpoints[i].end = poolRecords[i].last
  <2>1. PoolCheckpoints = PoolImages(poolRecords, pool)
    BY ThePoolsImages
  <2>2. \A i \in DOMAIN poolRecords :
          PoolCheckpoints[i] = [start |-> poolRecords[i].first, end |-> poolRecords[i].last,
                                image |-> PoolImage(poolRecords, pool, i)]
    BY ONLY <1>1, <2>1, PoolImagesTyped
  <2>3. Len(PoolCheckpoints) = Len(poolRecords)
    BY ONLY <1>1, <2>1, PoolImagesTyped
  <2>4. ASSUME NEW i \in DOMAIN poolRecords
        PROVE  /\ PoolCheckpoints[i].start = poolRecords[i].first
               /\ PoolCheckpoints[i].end = poolRecords[i].last
    <3>1. PoolCheckpoints[i] = [start |-> poolRecords[i].first, end |-> poolRecords[i].last,
                                image |-> PoolImage(poolRecords, pool, i)]
      BY <2>2
    <3> QED
      BY ONLY <3>1
  <2> QED
    BY ONLY <2>3, <2>4
<1>5. /\ Len(PoolCheckpoints) = Len(Checkpoints(records, memory))
      /\ \A i \in 1 .. Len(Checkpoints(records, memory)) :
           SameCopy(PoolCheckpoints[i], Checkpoints(records, memory)[i])
  BY DEF BothInv, BothAgree, SameCopies
<1>6. ASSUME NEW i \in 1 .. Len(records)
      PROVE  /\ poolRecords[i].first = records[i].start
             /\ poolRecords[i].last = records[i].end
  <2>1. SameCopy(PoolCheckpoints[i], Checkpoints(records, memory)[i])
    BY ONLY <1>3, <1>5, i \in 1 .. Len(records)
  <2>2. /\ PoolCheckpoints[i].start = poolRecords[i].first
        /\ PoolCheckpoints[i].end = poolRecords[i].last
    BY ONLY <1>2, <1>3, <1>4, <1>5, i \in 1 .. Len(records)
  <2>3. /\ Checkpoints(records, memory)[i].start = records[i].start
        /\ Checkpoints(records, memory)[i].end = records[i].end
    BY ONLY <1>2, <1>3, i \in 1 .. Len(records)
  <2> QED
    BY ONLY <2>1, <2>2, <2>3 DEF SameCopy
<1> QED
  BY ONLY <1>1, <1>2, <1>3, <1>4, <1>5, <1>6

(* Steps that change neither the memory nor a checkpoint of either. *)
LEMMA AgreeStill ==
  ASSUME BothInv, JInv', PoolInv', poolOpen' = frameOpen',
         pool' = pool, memory' = memory, PoolCheckpoints' = PoolCheckpoints,
         Checkpoints(records, memory)' = Checkpoints(records, memory)
  PROVE  BothInv'
<1>1. JournalsAgree' = JournalsAgree
  BY DEF JournalsAgree
<1>2. SameCopies(PoolCheckpoints, Checkpoints(records, memory))' =
        SameCopies(PoolCheckpoints, Checkpoints(records, memory))
  BY DEF SameCopies, SameCopy
<1> QED
  BY <1>1, <1>2 DEF BothInv, BothAgree

LEMMA BothBeginStep ==
  ASSUME BothInv, NEW frame \in Frame, NEW extend \in BOOLEAN, BothBegin(frame, extend)
  PROVE  BothInv'
<1> DEFINE L == Len(records)
           cs == Checkpoints(records, memory)
           ps == PoolCheckpoints
<1>0. JInv /\ PoolInv /\ SameCopies(ps, cs) /\ poolOpen = frameOpen /\ JournalsAgree
  BY DEF BothInv, BothAgree
<1>1. /\ records \in Seq(Record) /\ poolRecords \in Seq(PoolRecord)
      /\ L \in Nat /\ Len(poolRecords) = L /\ DOMAIN records = 1 .. L
      /\ memory \in [Cell -> Value] /\ pool \in [Key -> PartValue]
      /\ Len(cs) = L /\ Len(ps) = L
      /\ \A i \in 1 .. L : poolRecords[i].last = records[i].end
  BY AgreedFacts
<1>2. frame \in PoolFrame
  BY SharedAssumption DEF Frame, PoolFrame
<1>3. /\ poolRecords # << >> <=> records # << >>
      /\ records # << >> => Back.last = BackRecord.end
  <2>1. (poolRecords # << >> <=> L # 0) /\ (records # << >> <=> L # 0)
    BY ONLY <1>1
  <2>2. L # 0 => L \in 1 .. L
    BY ONLY <1>1
  <2> QED
    BY <1>1, <2>1, <2>2 DEF Back, BackRecord
<1>4. /\ PoolCanBegin(frame, TRUE) <=> CanExtend(frame)
      /\ PoolCanBegin(frame, FALSE) <=> CanCheckpoint(frame)
  BY <1>3 DEF PoolCanBegin, CanExtend, CanCheckpoint
<1>5. CASE ~ PoolCanBegin(frame, extend)
  <2>1. PoolFail
    BY <1>5 DEF BothBegin, PoolBeginFrame
  <2>2. RejectFrame(frame, extend)
    BY <1>4, <1>5 DEF BothBegin, BeginFrame, ExtendFrame
  <2>3. PoolInv' /\ UNCHANGED WholePool!snapshotVars
    BY <1>0, <2>1, PoolFailStep
  <2>4. JInv' /\ UNCHANGED Whole!snapshotVars
    BY <1>0, <2>2, SealingSteps
  <2> QED
    BY <1>0, <2>3, <2>4, AgreeStill DEF Whole!snapshotVars, WholePool!snapshotVars
<1>6. CASE PoolCanBegin(frame, extend) /\ extend = TRUE
  <2>1. /\ ~ poolOpen /\ poolRecords' = PoolBegun(frame, TRUE) /\ poolOpen' = TRUE
        /\ UNCHANGED <<pool, poolFailed>>
    BY <1>6 DEF BothBegin, PoolBeginFrame
  <2>2. ExtendFrame(frame)
    BY <1>4, <1>6 DEF BothBegin, RejectFrame
  <2>3. PoolInv' /\ WholePool!ExtendNewest
    BY <1>0, <1>2, <1>6, <2>1, PoolExtendStep
  <2>4. JInv' /\ Whole!ExtendNewest
    BY <1>0, <2>2, ExtendStep
  <2>5. /\ cs' = [cs EXCEPT ![Len(cs)].end = @ + 1] /\ memory' = memory
        /\ cs # << >> /\ frameOpen' = TRUE
    BY <2>4 DEF Whole!ExtendNewest
  <2>6. ps' = [ps EXCEPT ![Len(ps)].end = @ + 1] /\ pool' = pool /\ poolOpen' = TRUE
    BY <2>3 DEF WholePool!ExtendNewest
  <2>7. SameCopies(ps', cs')
    <3> HIDE DEF ps, cs
    <3>1. /\ ps \in Seq(PoolImageRecord) /\ cs \in Seq(CheckpointRecord)
          /\ DOMAIN ps = 1 .. L /\ DOMAIN cs = 1 .. L
          /\ \A i \in 1 .. L : SameCopy(ps[i], cs[i])
      BY <1>0, <1>1 DEF SameCopies
    <3>2. /\ cs' \in Seq(CheckpointRecord) /\ ps' \in Seq(PoolImageRecord)
          /\ Len(cs') = L /\ Len(ps') = L
      <4>1. /\ records' \in Seq(Record) /\ memory' \in [Cell -> Value]
            /\ poolRecords' \in Seq(PoolRecord) /\ pool' \in [Key -> PartValue]
        BY <2>3, <2>4 DEF JInv, TypeOK, PoolInv, PoolTyped
      <4>2. cs' \in Seq(CheckpointRecord)
        BY <4>1, CheckpointsTyped DEF cs
      <4>3. ps' \in Seq(PoolImageRecord)
        BY <4>1, PoolImagesTyped, ThePoolsImages DEF ps
      <4>4. DOMAIN cs' = 1 .. L /\ DOMAIN ps' = 1 .. L
        BY <2>5, <2>6, <3>1
      <4> QED
        BY ONLY <1>1, <4>2, <4>3, <4>4, LenProperties
    <3>3. ASSUME NEW i \in 1 .. L PROVE SameCopy(ps'[i], cs'[i])
      <4>1. CASE i = L
        <5>1. /\ cs'[i] = [cs[i] EXCEPT !.end = @ + 1]
              /\ ps'[i] = [ps[i] EXCEPT !.end = @ + 1]
          BY <1>1, <2>5, <2>6, <3>1, <4>1
        <5>2. cs[i] \in CheckpointRecord /\ ps[i] \in PoolImageRecord
          BY <1>1, <3>1
        <5>3. SameCopy(ps[i], cs[i])
          BY <3>1
        <5> QED
          BY <5>1, <5>2, <5>3 DEF SameCopy, CheckpointRecord, PoolImageRecord
      <4>2. CASE i # L
        BY <1>1, <2>5, <2>6, <3>1, <4>2
      <4> QED
        BY <4>1, <4>2
    <3> QED
      BY <3>2, <3>3 DEF SameCopies
  <2>8. JournalsAgree'
    BY <1>0, <2>5, <2>6 DEF JournalsAgree
  <2> QED
    BY <2>3, <2>4, <2>5, <2>6, <2>7, <2>8 DEF BothInv, BothAgree
<1>7. CASE PoolCanBegin(frame, extend) /\ extend = FALSE
  <2>1. /\ ~ poolOpen /\ poolRecords' = PoolBegun(frame, FALSE) /\ poolOpen' = TRUE
        /\ UNCHANGED <<pool, poolFailed>>
    BY <1>7 DEF BothBegin, PoolBeginFrame
  <2>2. BeginFrame(frame)
    BY <1>4, <1>7 DEF BothBegin, RejectFrame
  <2>3. PoolInv' /\ WholePool!Checkpoint(frame)
    BY <1>0, <1>2, <1>7, <2>1, PoolBeginStep
  <2>4. JInv' /\ Whole!Checkpoint(frame)
    BY <1>0, <2>2, BeginStep
  <2> DEFINE c == [start |-> frame, end |-> frame, image |-> memory]
             p == [start |-> frame, end |-> frame, image |-> pool]
  <2>5. /\ cs' = Append(IF L = MaxRecords THEN Tail(cs) ELSE cs, c)
        /\ memory' = memory /\ frameOpen' = TRUE
    BY <1>1, <2>4 DEF Whole!Checkpoint
  <2>6. /\ ps' = Append(IF L = MaxRecords THEN Tail(ps) ELSE ps, p)
        /\ pool' = pool /\ poolOpen' = TRUE
    BY <1>1, <2>3, SharedAssumption DEF WholePool!Checkpoint
  <2>7. /\ c \in CheckpointRecord /\ p \in PoolImageRecord /\ SameCopy(p, c)
    BY <1>0, <1>1, <1>2 DEF CheckpointRecord, PoolImageRecord, SameCopy, JournalsAgree
  <2> HIDE DEF c, p, ps, cs
  <2>8. SameCopies(ps', cs')
    <3>1. CASE L = MaxRecords
      <4>1. L # 0
        BY <3>1, JournalAssumption
      <4>2. cs # << >>
        BY <1>1, <4>1
      <4>3. SameCopies(Tail(ps), Tail(cs))
        BY ONLY <1>0, <4>2, SameCopiesTail
      <4> QED
        BY ONLY <2>5, <2>6, <2>7, <3>1, <4>3, SameCopiesAppend
    <3>2. CASE L # MaxRecords
      BY ONLY <1>0, <2>5, <2>6, <2>7, <3>2, SameCopiesAppend
    <3> QED
      BY <3>1, <3>2
  <2>9. JournalsAgree'
    BY <1>0, <2>5, <2>6 DEF JournalsAgree
  <2> QED
    BY <2>3, <2>4, <2>5, <2>6, <2>8, <2>9 DEF BothInv, BothAgree, ps, cs
<1> QED
  BY <1>5, <1>6, <1>7

(* Both undo to the same checkpoint: its frames are no other's. *)
LEMMA BothUndoStep ==
  ASSUME BothInv, NEW frame \in Frame, UndoTo(frame), PoolUndoTo(frame)
  PROVE  BothInv'
<1> DEFINE L == Len(records)
           cs == Checkpoints(records, memory)
           ps == PoolCheckpoints
<1>0. JInv /\ PoolInv /\ SameCopies(ps, cs) /\ poolOpen = frameOpen
  BY DEF BothInv, BothAgree
<1>1. /\ L \in Nat /\ DOMAIN records = 1 .. L /\ DOMAIN poolRecords = 1 .. L
      /\ records \in Seq(Record) /\ Len(cs) = L
      /\ \A i \in 1 .. L : /\ poolRecords[i].first = records[i].start
                           /\ poolRecords[i].last = records[i].end
                           /\ poolRecords[i].first \in Int /\ poolRecords[i].last \in Int
      /\ frame \in Int
  BY AgreedFacts, JournalAssumption DEF Frame
<1>2. PICK i \in 1 .. L :
        /\ Contains(i, frame) /\ records' = SubSeq(records, 1, i - 1)
  BY <1>1 DEF UndoTo
<1>3. PICK h \in 1 .. L :
        /\ poolRecords[h].first <= frame /\ frame <= poolRecords[h].last
        /\ pool' = PoolRestored(h) /\ poolRecords' = SubSeq(poolRecords, 1, h - 1)
  BY <1>1 DEF PoolUndoTo
<1>4. h = i
  <2>1. poolRecords[i].first <= frame /\ frame <= poolRecords[i].last
    BY <1>1, <1>2 DEF Contains
  <2>2. /\ i < h => poolRecords[i].last < poolRecords[h].first
        /\ h < i => poolRecords[h].last < poolRecords[i].first
    BY <1>0, <1>1 DEF PoolInv, Ordered
  <2>3. /\ poolRecords[i].first \in Int /\ poolRecords[i].last \in Int
        /\ poolRecords[h].first \in Int /\ poolRecords[h].last \in Int
        /\ i \in Int /\ h \in Int
    BY <1>1
  <2> QED
    BY ONLY <1>1, <1>3, <2>1, <2>2, <2>3
<1>5. JInv' /\ \E m \in DOMAIN cs : Whole!Restore(m)
  BY <1>0, UndoStep
<1>6. PICK m \in DOMAIN cs : Whole!Restore(m)
  BY <1>5
<1>7. /\ memory' = cs[m].image /\ cs' = SubSeq(cs, 1, m - 1) /\ frameOpen' = frameOpen
  BY <1>6 DEF Whole!Restore
<1>8. ~ poolOpen /\ UNCHANGED <<poolOpen, poolFailed>>
  BY DEF PoolUndoTo
<1>9. PoolInv' /\ WholePool!Restore(h)
  BY <1>0, <1>1, <1>3, <1>8, PoolUndoStep
<1>10. pool' = ps[h].image /\ ps' = SubSeq(ps, 1, h - 1) /\ poolOpen' = poolOpen
  BY <1>9 DEF WholePool!Restore
<1>11. cs \in Seq(CheckpointRecord)
  BY <1>0 DEF SameCopies
<1>12. m = i
  <2>1. m \in 1 .. L /\ 1 \in 1 .. L + 1 /\ m - 1 \in 0 .. L /\ 1 <= m - 1 + 1
        /\ i - 1 \in 0 .. L /\ 1 <= i - 1 + 1
    BY <1>1, <1>11
  <2>2. Len(SubSeq(cs, 1, m - 1)) = m - 1 - 1 + 1
    BY ONLY <1>1, <1>11, <2>1, SubSeqFacts
  <2>3. Len(SubSeq(records, 1, i - 1)) = i - 1 - 1 + 1
    BY ONLY <1>1, <2>1, SubSeqFacts
  <2>4. Len(cs') = Len(records')
    <3>1. records' \in Seq(Record) /\ memory' \in [Cell -> Value]
      BY <1>5 DEF JInv, TypeOK
    <3> QED
      BY <3>1, CheckpointsTyped
  <2>5. m - 1 - 1 + 1 = i - 1 - 1 + 1
    BY ONLY <1>2, <1>7, <2>2, <2>3, <2>4
  <2> QED
    BY ONLY <2>1, <2>5, i \in 1 .. L
<1> HIDE DEF cs, ps
<1>13. SameCopies(ps', cs')
  <2>1. 1 \in 1 .. L + 1 /\ i - 1 \in 0 .. L /\ 1 <= i - 1 + 1
    BY ONLY <1>1, i \in 1 .. L
  <2>2. SameCopies(SubSeq(ps, 1, i - 1), SubSeq(cs, 1, i - 1))
    BY ONLY <1>0, <1>1, <2>1, SameCopiesSubSeq
  <2> QED
    BY ONLY <1>4, <1>7, <1>10, <1>12, <2>2
<1>14. JournalsAgree'
  <2>1. SameCopy(ps[i], cs[i])
    BY <1>0, <1>1 DEF SameCopies
  <2> QED
    BY <1>4, <1>7, <1>10, <1>12, <2>1 DEF SameCopy, JournalsAgree
<1> QED
  BY <1>0, <1>5, <1>7, <1>9, <1>10, <1>13, <1>14 DEF BothInv, BothAgree, cs, ps

LEMMA BothDiscardStep ==
  ASSUME BothInv, NEW frame \in Frame, DiscardBefore(frame), PoolDiscardBefore(frame)
  PROVE  BothInv'
<1> DEFINE L == Len(records)
           cs == Checkpoints(records, memory)
           ps == PoolCheckpoints
<1>0. JInv /\ PoolInv /\ SameCopies(ps, cs) /\ poolOpen = frameOpen /\ JournalsAgree
  BY DEF BothInv, BothAgree
<1>1. /\ L \in Nat /\ DOMAIN records = 1 .. L /\ Len(poolRecords) = L
      /\ records \in Seq(Record) /\ Len(cs) = L /\ Len(ps) = L
      /\ \A i \in 1 .. L : /\ poolRecords[i].last = records[i].end
                           /\ poolRecords[i].last \in Int
      /\ frame \in Int
  BY AgreedFacts, JournalAssumption DEF Frame
<1>2. PICK n \in 1 .. L :
        /\ \A i \in 1 .. n : records[i].end < frame
        /\ n < L => records[n + 1].end >= frame
        /\ records' = SubSeq(records, n + 1, L)
  BY <1>1 DEF DiscardBefore
<1>3. PICK h \in 0 .. L :
        /\ \A i \in 1 .. h : poolRecords[i].last < frame
        /\ h < L => poolRecords[h + 1].last >= frame
        /\ poolRecords' = SubSeq(poolRecords, h + 1, L)
  BY <1>1 DEF PoolDiscardBefore
<1>4. h = n
  <2>1. CASE h < n
    <3>1. h + 1 \in 1 .. n /\ h + 1 \in 1 .. L /\ h < L
      BY ONLY <1>1, <2>1, n \in 1 .. L, h \in 0 .. L
    <3>2. /\ poolRecords[h + 1].last >= frame /\ records[h + 1].end < frame
          /\ poolRecords[h + 1].last = records[h + 1].end
          /\ poolRecords[h + 1].last \in Int
      BY <1>1, <1>2, <1>3, <3>1
    <3> QED
      BY ONLY <1>1, <3>2
  <2>2. CASE n < h
    <3>1. n + 1 \in 1 .. h /\ n + 1 \in 1 .. L /\ n < L
      BY ONLY <1>1, <2>2, n \in 1 .. L, h \in 0 .. L
    <3>2. /\ records[n + 1].end >= frame /\ poolRecords[n + 1].last < frame
          /\ poolRecords[n + 1].last = records[n + 1].end
          /\ poolRecords[n + 1].last \in Int
      BY <1>1, <1>2, <1>3, <3>1
    <3> QED
      BY ONLY <1>1, <3>2
  <2> QED
    BY ONLY <1>1, <2>1, <2>2, n \in 1 .. L, h \in 0 .. L
<1>5. JInv' /\ \E m \in DOMAIN cs : Whole!Forget(m)
  BY <1>0, DiscardStep
<1>6. PICK m \in DOMAIN cs : Whole!Forget(m)
  BY <1>5
<1>7. /\ memory' = memory /\ cs' = SubSeq(cs, m + 1, L) /\ frameOpen' = frameOpen
  BY <1>1, <1>6 DEF Whole!Forget
<1>8. ~ poolOpen /\ UNCHANGED <<pool, poolOpen, poolFailed>>
  BY DEF PoolDiscardBefore
<1>9. PoolInv' /\ WholePool!Forget(h)
  BY <1>0, <1>1, <1>3, <1>8, PoolDiscardStep
<1>10. pool' = pool /\ ps' = SubSeq(ps, h + 1, L) /\ poolOpen' = poolOpen
  BY <1>1, <1>9 DEF WholePool!Forget
<1>11. cs \in Seq(CheckpointRecord)
  BY <1>0 DEF SameCopies
<1>12. m = n
  <2>1. m \in 0 .. Len(cs) /\ Len(cs) = L /\ n \in 0 .. Len(records) /\ m \in Int
    BY <1>1, <1>11
  <2>2. Len(SubSeq(cs, m + 1, L)) = L - m
    BY ONLY <1>11, <2>1, WithoutFirst
  <2>3. Len(SubSeq(records, n + 1, L)) = L - n
    BY ONLY <1>1, <2>1, WithoutFirst
  <2>4. Len(cs') = Len(records')
    <3>1. records' \in Seq(Record) /\ memory' \in [Cell -> Value]
      BY <1>5 DEF JInv, TypeOK
    <3> QED
      BY <3>1, CheckpointsTyped
  <2>5. L - m = L - n
    BY ONLY <1>2, <1>7, <2>2, <2>3, <2>4
  <2> QED
    BY ONLY <1>1, <2>1, <2>5, n \in 1 .. L
<1> HIDE DEF cs, ps
<1>13. SameCopies(ps', cs')
  <2>1. n + 1 \in 1 .. L + 1 /\ L \in 0 .. L /\ n + 1 <= L + 1
    BY ONLY <1>1, n \in 1 .. L
  <2>2. SameCopies(SubSeq(ps, n + 1, L), SubSeq(cs, n + 1, L))
    BY ONLY <1>0, <1>1, <2>1, SameCopiesSubSeq
  <2> QED
    BY ONLY <1>4, <1>7, <1>10, <1>12, <2>2
<1>14. JournalsAgree'
  BY <1>0, <1>7, <1>10 DEF JournalsAgree
<1> QED
  BY <1>0, <1>5, <1>7, <1>9, <1>10, <1>13, <1>14 DEF BothInv, BothAgree, cs, ps

LEMMA BothWriteStep ==
  ASSUME BothInv, NEW c \in Cell, NEW v \in Value, BothWrite(c, v)
  PROVE  BothInv'
<1>0. /\ JInv /\ PoolInv /\ poolOpen = frameOpen /\ JournalsAgree
      /\ SameCopies(PoolCheckpoints, Checkpoints(records, memory))
      /\ memory \in [Cell -> Value] /\ pool \in [Key -> PartValue]
  BY AgreedFacts DEF BothInv, BothAgree
<1>1. Write(c, v) /\ memory' = [memory EXCEPT ![c] = v]
  BY DEF BothWrite, Write
<1>2. JInv' /\ Whole!Simulate
  BY <1>0, <1>1, WriteStep
<1>3. /\ Checkpoints(records, memory)' = Checkpoints(records, memory)
      /\ frameOpen' = frameOpen
  BY <1>2 DEF Whole!Simulate
<1>4. /\ PoolInv' /\ PoolCheckpoints' = PoolCheckpoints /\ poolOpen' = poolOpen
      /\ \A k \in Key : pool'[k] = IF k + 1 = c THEN v ELSE pool[k]
  <2>1. CASE c - 1 \in Key
    <3>1. PoolWrite(c - 1, v) /\ v \in PartValue
      BY <2>1, SharedAssumption DEF BothWrite
    <3>2. PoolInv' /\ WholePool!Simulate
      BY <1>0, <2>1, <3>1, PoolWriteStep
    <3>3. pool' = [pool EXCEPT ![c - 1] = v]
      BY <3>1 DEF PoolWrite
    <3>4. \A k \in Key : k + 1 = c <=> k = c - 1
      BY PoolCells, JournalAssumption DEF Cell
    <3> QED
      BY <1>0, <3>2, <3>3, <3>4 DEF WholePool!Simulate
  <2>2. CASE c - 1 \notin Key
    <3>1. /\ pool' = pool /\ poolRecords' = poolRecords /\ poolOpen' = poolOpen
          /\ poolFailed' = poolFailed
      BY <2>2 DEF BothWrite, poolVars
    <3>2. PoolInv'
      BY <1>0, <3>1 DEF PoolInv, PoolTyped, Ordered
    <3>3. PoolCheckpoints' = PoolCheckpoints
      BY <3>1, ThePoolsImages
    <3>4. \A k \in Key : k + 1 # c
      BY <2>2, PoolCells, JournalAssumption DEF Cell
    <3> QED
      BY <3>1, <3>2, <3>3, <3>4
  <2> QED
    BY <2>1, <2>2
<1>5. SameCopies(PoolCheckpoints', Checkpoints(records, memory)')
  BY <1>0, <1>3, <1>4
<1>6. JournalsAgree'
  <2>1. ASSUME NEW k \in Key PROVE pool'[k] = memory'[k + 1]
    <3>1. k + 1 \in Cell /\ pool[k] = memory[k + 1]
      BY <1>0, PoolCells DEF JournalsAgree
    <3> QED
      BY <1>0, <1>1, <1>4, <3>1
  <2> QED
    BY <2>1 DEF JournalsAgree
<1> QED
  BY <1>0, <1>2, <1>3, <1>4, <1>5, <1>6 DEF BothInv, BothAgree

(* A correction of a pair that is not in the pool. *)
LEMMA OtherAdjustStep ==
  ASSUME BothInv, NEW after \in Frame, NEW through \in Frame, NEW c \in Cell,
         c - 1 \notin Key, AddFloatPairToSnapshots(after, through, c),
         UNCHANGED poolVars
  PROVE  BothInv'
<1> DEFINE cs == Checkpoints(records, memory)
           ps == PoolCheckpoints
<1>0. JInv /\ PoolInv /\ SameCopies(ps, cs) /\ poolOpen = frameOpen /\ JournalsAgree
  BY DEF BothInv, BothAgree
<1>1. JInv' /\ Whole!Adjust(after, through, c)
  BY <1>0, AdjustStep
<1>2. /\ memory' = memory /\ frameOpen' = frameOpen
      /\ cs' = [i \in DOMAIN cs |->
                  IF cs[i].start \in after + 1 .. through
                  THEN [cs[i] EXCEPT !.image[c] = Adjusted(@)] ELSE cs[i]]
  BY <1>1 DEF Whole!Adjust
<1>3. /\ pool' = pool /\ poolRecords' = poolRecords /\ poolOpen' = poolOpen
      /\ poolFailed' = poolFailed
  BY DEF poolVars
<1>4. PoolInv'
  BY <1>0, <1>3 DEF PoolInv, PoolTyped, Ordered
<1>5. ps' = ps
  BY <1>3, ThePoolsImages
<1>6. cs' \in Seq(CheckpointRecord)
  <2>1. records' \in Seq(Record) /\ memory' \in [Cell -> Value]
    BY <1>1 DEF JInv, TypeOK
  <2> QED
    BY <2>1, CheckpointsTyped
<1>7. /\ cs \in Seq(CheckpointRecord) /\ ps \in Seq(PoolImageRecord) /\ Len(ps) = Len(cs)
      /\ \A i \in 1 .. Len(cs) : SameCopy(ps[i], cs[i])
  BY <1>0 DEF SameCopies
<1> HIDE DEF cs, ps
<1>8. DOMAIN cs = 1 .. Len(cs) /\ DOMAIN cs' = DOMAIN cs /\ Len(cs') = Len(cs)
  <2>1. DOMAIN cs = 1 .. Len(cs) /\ Len(cs) \in Nat
    BY <1>7
  <2>2. DOMAIN cs' = DOMAIN cs
    BY <1>2
  <2> QED
    BY ONLY <1>6, <2>1, <2>2, LenProperties
<1>9. ASSUME NEW i \in 1 .. Len(cs) PROVE SameCopy(ps[i], cs'[i])
  <2>1. cs[i] \in CheckpointRecord /\ SameCopy(ps[i], cs[i])
    BY <1>7
  <2>2. CASE cs'[i] = [cs[i] EXCEPT !.image[c] = Adjusted(@)]
    <3>1. \A k \in Key : k + 1 \in Cell /\ k + 1 # c
      BY PoolCells, JournalAssumption DEF Cell
    <3>2. /\ cs'[i].start = cs[i].start /\ cs'[i].end = cs[i].end
          /\ \A k \in Key : cs'[i].image[k + 1] = cs[i].image[k + 1]
      BY <2>1, <2>2, <3>1 DEF CheckpointRecord
    <3> QED
      BY <2>1, <3>2 DEF SameCopy
  <2>3. CASE cs'[i] = cs[i]
    BY <2>1, <2>3
  <2> QED
    BY <1>2, <1>8, <2>2, <2>3
<1>10. SameCopies(ps', cs')
  BY <1>5, <1>6, <1>7, <1>8, <1>9 DEF SameCopies
<1>11. JournalsAgree'
  BY <1>0, <1>2, <1>3 DEF JournalsAgree
<1> QED
  BY <1>0, <1>1, <1>2, <1>3, <1>4, <1>10, <1>11 DEF BothInv, BothAgree, cs, ps

LEMMA BothInitInvariant == BothInit => BothInv
<1> SUFFICES ASSUME BothInit PROVE BothInv
  OBVIOUS
<1>1. JInv /\ PoolInv
  BY InitInvariant, PoolInitImplements DEF BothInit
<1>2. DOMAIN records = {} /\ DOMAIN poolRecords = {}
  BY DEF BothInit, Init, PoolInit
<1>3. Checkpoints(records, memory) = << >> /\ PoolCheckpoints = << >>
  BY <1>2 DEF Checkpoints, PoolCheckpoints
<1>4. SameCopies(PoolCheckpoints, Checkpoints(records, memory))
  BY <1>3 DEF SameCopies
<1>5. JournalsAgree /\ poolOpen = frameOpen
  BY DEF BothInit, JournalsAgree, Init, PoolInit
<1> QED
  BY <1>1, <1>4, <1>5 DEF BothInv, BothAgree

LEMMA BothNextInvariant == BothInv /\ [BothNext]_vars => BothInv'
<1> SUFFICES ASSUME BothInv, [BothNext]_vars PROVE BothInv'
  OBVIOUS
<1>0. JInv /\ PoolInv /\ poolOpen = frameOpen
  BY DEF BothInv, BothAgree
<1> DEFINE JournalStays ==
             /\ JInv' /\ memory' = memory /\ frameOpen' = frameOpen
             /\ Checkpoints(records, memory)' = Checkpoints(records, memory)
           PoolStays == PoolInv' /\ UNCHANGED WholePool!snapshotVars
<1>1. ASSUME JournalStays, PoolStays PROVE BothInv'
  <2>1. pool' = pool /\ poolOpen' = poolOpen /\ PoolCheckpoints' = PoolCheckpoints
    BY <1>1 DEF WholePool!snapshotVars
  <2> QED
    BY <1>0, <1>1, <2>1, AgreeStill
<1>2. ASSUME UNCHANGED journalVars PROVE JournalStays
  <2>1. JInv /\ [Next]_journalVars
    BY <1>0, <1>2
  <2>2. JInv'
    BY <2>1, NextImplements
  <2> QED
    BY <1>2, <2>2 DEF journalVars
<1>3. ASSUME UNCHANGED poolVars PROVE PoolStays
  <2>1. /\ pool' = pool /\ poolRecords' = poolRecords /\ poolOpen' = poolOpen
        /\ poolFailed' = poolFailed
    BY <1>3 DEF poolVars
  <2>2. PoolInv'
    BY <1>0, <2>1 DEF PoolInv, PoolTyped, Ordered
  <2>3. PoolCheckpoints' = PoolCheckpoints
    BY <2>1, ThePoolsImages
  <2> QED
    BY <2>1, <2>2, <2>3 DEF WholePool!snapshotVars
<1>4. ASSUME NEW b \in Touchable, BothTouch(b) PROVE BothInv'
  <2>1. PoolStays
    <3>1. PoolSave(KeysOf(b))
      BY <1>4 DEF BothTouch, CaptureMasks
    <3> QED
      BY <1>0, <3>1, PoolSaveStep
  <2>2. JournalStays
    <3>1. CASE TouchAgain(b)
      BY <1>2, <3>1 DEF TouchAgain
    <3>2. ASSUME NEW grows \in BOOLEAN, Touch(b, grows) PROVE JournalStays
      BY <1>0, <3>2, TouchStep DEF Whole!snapshotVars
    <3> HIDE DEF JournalStays
    <3> QED
      BY <1>4, <3>1, <3>2 DEF BothTouch
  <2> HIDE DEF JournalStays, PoolStays
  <2> QED
    BY <1>1, <2>1, <2>2
<1>5. CASE EndFrame /\ PoolEndFrame
  <2>1. JInv' /\ Whole!Seal
    BY <1>0, <1>5, SealingSteps
  <2>2. PoolInv' /\ WholePool!Seal
    BY <1>0, <1>5, PoolSealStep
  <2> QED
    BY <2>1, <2>2, AgreeStill DEF Whole!Seal, WholePool!Seal
<1>6. CASE Reset /\ PoolReset
  <2>1. JInv' /\ Whole!Restart
    BY <1>0, <1>6, ResetStep
  <2>2. PoolInv' /\ WholePool!Restart
    BY <1>0, <1>6, PoolResetStep
  <2>3. SameCopies(PoolCheckpoints', Checkpoints(records, memory)')
    BY <2>1, <2>2 DEF Whole!Restart, WholePool!Restart, SameCopies
  <2>4. JournalsAgree'
    BY <2>1, <2>2 DEF Whole!Restart, WholePool!Restart, JournalsAgree, BothInv, BothAgree
  <2> QED
    BY <2>1, <2>2, <2>3, <2>4 DEF Whole!Restart, WholePool!Restart, BothInv, BothAgree
<1>7. CASE OnlyJournal
  <2>1. UNCHANGED poolVars /\ PoolStays
    <3>1. UNCHANGED poolVars
      BY <1>7 DEF OnlyJournal
    <3> HIDE DEF PoolStays
    <3> QED
      BY <1>3, <3>1
  <2>2. CASE BeginReadOnlyCapture
    <3>1. JournalStays
      BY <1>0, <2>2, SealingSteps DEF Whole!snapshotVars
    <3> HIDE DEF JournalStays, PoolStays
    <3> QED
      BY <1>1, <2>1, <3>1
  <2>3. CASE EndReadOnlyCapture \/ TouchNothing \/ \E b \in Touchable : RejectTouch(b)
    <3>1. JournalStays
      BY <1>0, <2>3, FlushingSteps
    <3> HIDE DEF JournalStays, PoolStays
    <3> QED
      BY <1>1, <2>1, <3>1
  <2>4. ASSUME NEW after \in Frame, NEW through \in Frame, NEW c \in Cell,
               c - 1 \notin Key, AddFloatPairToSnapshots(after, through, c)
        PROVE  BothInv'
    BY <2>1, <2>4, OtherAdjustStep
  <2> HIDE DEF JournalStays, PoolStays
  <2> QED
    BY <1>7, <2>2, <2>3, <2>4 DEF OnlyJournal
<1>8. CASE OnlyPool
  <2>1. PoolStays
    <3>1. PoolSave({KeyOf(0, part) : part \in {0}})
      BY <1>8 DEF OnlyPool, PoolTouch
    <3> QED
      BY <1>0, <3>1, PoolSaveStep
  <2>2. UNCHANGED journalVars
    BY <1>8 DEF OnlyPool
  <2> HIDE DEF JournalStays, PoolStays
  <2> QED
    BY <1>1, <1>2, <2>1, <2>2
<1>9. CASE UNCHANGED vars
  <2>1. UNCHANGED journalVars /\ UNCHANGED poolVars
    BY <1>9 DEF vars
  <2> HIDE DEF JournalStays, PoolStays
  <2> QED
    BY <1>1, <1>2, <1>3, <2>1
<1> HIDE DEF JournalStays, PoolStays
<1>10. ASSUME NEW frame \in Frame, NEW extend \in BOOLEAN, BothBegin(frame, extend)
       PROVE  BothInv'
  BY <1>10, BothBeginStep
<1>11. ASSUME NEW frame \in Frame,
              \/ UndoTo(frame) /\ PoolUndoTo(frame)
              \/ DiscardBefore(frame) /\ PoolDiscardBefore(frame)
       PROVE  BothInv'
  BY <1>11, BothUndoStep, BothDiscardStep
<1>12. ASSUME NEW c \in Cell, NEW v \in Value, BothWrite(c, v) PROVE BothInv'
  BY <1>12, BothWriteStep
<1> QED
  BY <1>4, <1>5, <1>6, <1>7, <1>8, <1>9, <1>10, <1>11, <1>12 DEF BothNext

(* Driven by the same calls, the two journals keep the same pool, though   *)
(* RollbackJournal::UndoTo copies newest first and skips covered blocks    *)
(* and PartitionedPoolJournal::UndoTo copies oldest first: for every       *)
(* memory, pool, block layout and ring, and whatever either refuses.       *)
THEOREM TheJournalsAgree == BothSpec => []JournalsAgree
<1>1. BothInv => JournalsAgree
  BY DEF BothInv, BothAgree
<1> QED
  BY BothInitInvariant, BothNextInvariant, <1>1, PTL DEF BothSpec
=============================================================================
