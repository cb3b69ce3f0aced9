------------------------------ MODULE MCMemory ------------------------------
EXTENDS Memory

MCPage == 0..5
MCMmap == {3, 4}

(* After a page doubt every property is open, so nothing is left to check;  *)
(* after an offset doubt only PagesBacked is left, which looks at no offset. *)
(* The other doubts concern InputIsTracked only: one of them at a time.      *)
Undecided == doubts \cap (PageDoubts \cup OffsetDoubts) = {} /\ Cardinality(doubts) <= 1
=============================================================================
