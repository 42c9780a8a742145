----------------------------- MODULE MCJournals -----------------------------
(***************************************************************************)
(* The two journals over a memory of three cells, the pool being the first *)
(* two, and blocks of which two overlap.                                   *)
(***************************************************************************)
EXTENDS Journals

MCAdjusted(v) == 1 - v
MCTouchable == {[at |-> 1, size |-> 2], [at |-> 2, size |-> 2],
                [at |-> 3, size |-> 1]}
===========================================================================
