--------------------------- MODULE MCExprBuilder ----------------------------
EXTENDS ExprBuilder

R0 == Read(0)
R1 == Read(1)
Pair == Two("Concat", R1, R0)
Signed == Widen("SExt", R0, 4)
Unsigned == Widen("ZExt", R0, 4)
High == Two("Concat", R0, Const(0, 2))
Low == Two("Concat", Const(0, 2), R1)
Sum == Two("Add", Pair, Unsigned)
Less == Two("Ult", R0, R1)

Four(ns) == {Const(n, 4) : n \in ns}
Bits2 == {Const(n, 2) : n \in 0..2}

Linear == {"Add", "Sub", "Mul", "Neg"}
Bitwise1 == {"And", "Or", "Xor", "Not", "Shl", "LShr", "AShr"}
Widths == {"Concat", "Extract", "ZExt", "SExt"}
Truth == {"LAnd", "LOr", "LNot", "Equal", "Distinct", "Ite"}

Plan(seeds, operands, kinds) ==
    [linearization |-> FALSE, inputs |-> {6}, seeds |-> seeds, operands |-> operands, kinds |-> kinds,
     blocks |-> 0]

MCPlans ==
    [linear |-> Plan({Pair, Signed}, Four({1, 15}) \cup {Pair}, <<Linear, Linear, Linear>>),
     bits |-> Plan({Pair, High, Unsigned, Sum}, Four({2, 3, 12, 15}) \cup {High, Low},
                   <<Bitwise1, Bitwise1 \cup {"Extract", "Add"}>>),
     divide |-> Plan({R0}, Bits2 \cup Four({1, 2, 3, 6, 15}) \cup {R1},
                     <<{"SExt", "ZExt", "Concat"}, Division \cup {"Mul"}, Division \cup {"Mul", "Extract"}>>),
     widths |-> Plan({R0, Signed, Sum}, Bits2 \cup {R1, Cut(Sum, 0, 2)}, <<Widths, Widths, Widths>>),
     mixed |-> Plan({Pair}, Four({0, 1, 12}) \cup {Low}, <<Arith, Arith \cup Comparison>>),
     truth |-> Plan({Pair}, Four({1, 12}) \cup {Low, Less, One("LNot", Less), Bool(TRUE), Bool(FALSE)},
                    <<{"Equal", "Ult", "Sge"}, Truth, Truth>>),
     blocks |-> [linearization |-> TRUE, inputs |-> {6}, seeds |-> {Pair}, operands |-> Four({6}),
                 kinds |-> <<{"Add"}, {"Not"}>>, blocks |-> 3]]

MCHash(pc, stack) ==
    IF stack = <<>> THEN 0 ELSE IF Len(stack) = 1 THEN stack[1] ELSE stack[1] + 2 * stack[2]
=============================================================================
