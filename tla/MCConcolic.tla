----------------------------- MODULE MCConcolic -----------------------------
EXTENDS Concolic

MCTainted ==
    {{},
     {<<"RAX", 0>>, <<"RAX", 1>>, <<"XMM0", 0>>, <<"XMM0", 5>>, <<"mem", 0>>},
     {<<"RCX", 0>>, <<"RAX", 5>>, <<"XMM1", 1>>, <<"XMM0", 9>>, <<"mem", 3>>},
     {<<"RSI", 0>>, <<"RDX", 0>>, <<"RSP", 0>>}}

(* RSI, RDI and RBP are addresses, RSP is at the top. *)
MCStart ==
    [x \in Cell |->
        CASE x[1] = "RSP" /\ x[2] = 2 -> 1
          [] x[1] \in {"RDI", "RBP"} /\ x[2] = 1 -> 1
          [] x[1] = "RAX" -> IF x[2] = 0 THEN 1 ELSE 0
          [] x[1] = "RCX" /\ x[2] = 0 -> 1
          [] x[1] = "XMM1" /\ x[2] \in {0, 4} -> 1
          [] x[1] = "mem" -> x[2] % 3
          [] OTHER -> 0]

All == {"Binary", "Vector", "Carry", "IncDec", "NegNot", "Mul", "Shift", "Move", "Bits", "Stack",
        "String", "Jcc", "Conditional", "Cmpxchg", "Concrete"}

(* Every instruction, then a jump; and longer programs of fewer *)
MCPrograms ==
    {<<All, {"Jcc"}>>, <<{"IncDec"}, {"Carry"}, {"Jcc"}>>, <<{"Cmpxchg"}, {"IncDec"}, {"Jcc"}>>,
     <<{"Stack"}, {"Stack"}, {"Jcc"}>>}

AlReg == Reg("RAX", 0, 1)
MCUnaries == {AlReg, Reg("RAX", 1, 1), Reg("RAX", 0, 4), Reg("RCX", 0, 2), At("RSI", 1)}
MCBinaries ==
    {<<AlReg, Reg("RCX", 0, 1)>>, <<Reg("RAX", 1, 1), Imm(1, 1)>>, <<Reg("RAX", 0, 4), Reg("RCX", 0, 4)>>,
     <<Reg("RAX", 0, 8), At("RSI", 8)>>, <<Reg("RAX", 0, 2), Imm(3, 2)>>,
     <<Mem("RDI", "RDX", 1, 2, 2), Reg("RCX", 0, 2)>>, <<Reg("RCX", 0, 2), Reg("RDX", 0, 2)>>, <<At("RSI", 1), Imm(2, 1)>>}
MCWidenings == {<<Reg("RAX", 0, 2), AlReg>>, <<Reg("RCX", 0, 4), AlReg>>, <<Reg("RAX", 0, 8), Reg("RAX", 0, 4)>>,
                <<Reg("RAX", 0, 8), At("RSI", 2)>>}
MCMemories == {Mem("RSI", "RDX", 1, 2, 8), Mem("none", "RAX", 0, 4, 8), Mem("RDI", "none", 0, 1, 8)}
MCCounts == {Imm(0, 1), Imm(1, 1), Imm(3, 1)}
MCLanes16 == {<<Full("XMM0"), Full("XMM1")>>, <<Full("XMM0"), At("RSI", 16)>>}
=============================================================================
