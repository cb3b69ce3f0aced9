---------------------------- MODULE MCExprCache -----------------------------
(* Two operators, a cache of two, and a sweep beyond four entries. *)
EXTENDS ExprCache

MCOp == {"Neg", "Not"}
=============================================================================
