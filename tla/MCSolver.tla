------------------------------ MODULE MCSolver ------------------------------
(* Three one-bit bytes; a two-byte address, a sum that overlaps it, a       *)
(* single byte, and a concrete expression.                                  *)
EXTENDS Solver

CONSTANTS addr, sum, byte, konst

MCByte == 0..2
MCValue == 0..1
MCInput == [b \in MCByte |-> IF b = 1 THEN 1 ELSE 0]
MCExpr == {addr, sum, byte, konst}
MCDeps ==
    [e \in MCExpr |-> CASE e = addr -> {0, 1}
                        [] e = sum -> {1, 2}
                        [] e = byte -> {2}
                        [] e = konst -> {}]
MCResult == 0..3
MCDenote ==
    [e \in MCExpr |-> [w \in [MCByte -> MCValue] |->
        CASE e = addr -> w[0] + 2 * w[1]
          [] e = sum -> w[1] + w[2]
          [] e = byte -> w[2]
          [] e = konst -> 1]]
MCTests ==
    [e \in MCExpr |-> CASE e = addr -> {{0, 1}}
                        [] e = sum -> {{0, 1}}
                        [] e = byte -> {{0}}
                        [] e = konst -> {{1}}]
=============================================================================
