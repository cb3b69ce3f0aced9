----------------------------- MODULE MCRangeSet -----------------------------
(* Bit vectors of two bits, with every right-hand side and adjustment; the  *)
(* theorems of RangeSetProofs are for every width.                          *)
EXTENDS RangeSet
=============================================================================
