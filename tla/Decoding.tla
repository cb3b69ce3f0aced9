------------------------------ MODULE Decoding ------------------------------
(***************************************************************************)
(* From instructions to handlers: the tables of analyzeInstruction          *)
(* (analysis.cpp) and the forms of operands that the generic functions of   *)
(* analysis_instruction.cpp accept.  A row has the parameters that a case   *)
(* gives the handler; where the instruction means something else, that is   *)
(* in the row too.                                                          *)
(***************************************************************************)
EXTENDS FlagTables, Sequences

(* CMOVcc, Jcc, SETcc: the condition and whether it is inverted *)
CmovForms == JccKind \X BOOLEAN
JccForms == JccKind \X BOOLEAN
SetForms == JccKind \X BOOLEAN

(* BT, BTC, BTR, BTS *)
BtForms == {"Invalid", "Xor", "And", "Or"}

(* Widths of CMPS and SCAS *)
CmpsForms == {1, 2, 4, 8}
ScasForms == {1, 2, 4, 8}

(* PACKSSDW, PACKSSWB, PACKUSDW, PACKUSWB: <<width of a result, signed>> *)
PackForms == {2, 1} \X BOOLEAN
VpackForms == {2, 1} \X BOOLEAN

(* PADD, PSUB: <<operation, width>> *)
PaddForms == {"Add"} \X {1, 2, 4, 8}
VpaddForms == {"Add"} \X {1, 2, 4, 8}
PsubForms == {"Sub"} \X {1, 2, 4, 8}
VpsubForms == {"Sub"} \X {1, 2, 4, 8}

(* PCMPEQ, PCMPGT: <<comparison, width>> *)
PcmpForms == {"Equal", "Sgt"} \X {1, 2, 4, 8}
VpcmpForms == {"Equal", "Sgt"} \X {1, 2, 4, 8}

(* PMAX, PMIN: <<comparison, width, that of the instruction>>; PMAXSW has   *)
(* an unsigned one                                                          *)
PcmpxchgForms ==
    {<<"Sgt", 1, "Sgt">>, <<"Sgt", 4, "Sgt">>, <<"Ugt", 2, "Sgt">>}
        \cup {<<k, w, k>> : k \in {"Ugt", "Slt", "Ult"}, w \in {1, 2, 4}}
VpcmpxchgForms ==
    {<<"Sgt", 1, "Sgt">>, <<"Sgt", 4, "Sgt">>, <<"Ugt", 2, "Sgt">>}
        \cup {<<k, w, k>> : k \in {"Ugt", "Slt", "Ult"}, w \in {1, 2, 4}}

(* PMULHUW, PMULHW: signed; PMULLD, PMULLW: width *)
PmulhwForms == {FALSE, TRUE}
VpmulhwForms == {FALSE, TRUE}
PmulForms == {4, 2}
VpmulForms == {4, 2}

(* PSLL, PSRA, PSRL: <<operation, width>>, 16 for the shifts by bytes *)
PshiftForms == ({"Shl", "LShr"} \X {2, 4, 8, 16}) \cup ({"AShr"} \X {2, 4})
VpshiftForms == ({"Shl", "LShr"} \X {2, 4, 8, 16}) \cup ({"AShr"} \X {2, 4})

(* PUNPCKH, PUNPCKL: <<high, width>>; so are VPUNPCKH and VPUNPCKL, by the  *)
(* same handlers of two operands                                            *)
PunpckForms == BOOLEAN \X {1, 2, 4, 8}
VpunpckForms == BOOLEAN \X {1, 2, 4, 8}

-----------------------------------------------------------------------------
(* analyzeUnary, analyzeBinary, analyzeTernary, analyzeTernaryImm: the types *)
(* of operands for which a handler is inserted; others are UNREACHABLE       *)
UnaryForm(o) == o.type \in {"reg", "mem"}

BinaryForm(o) ==
    \/ o[1].type = "reg" /\ o[2].type \in {"reg", "imm", "mem"}
    \/ o[1].type = "mem" /\ o[2].type \in {"reg", "imm"}

TernaryForm(d, o) == d.type = "reg" /\ o[1].type = "reg" /\ o[2].type \in {"reg", "mem"}

TernaryImmForm(o) == o[1].type = "reg" /\ o[2].type \in {"reg", "mem"}

(* GET_REG: with a register that is not shadowed no handler is inserted *)
Inserted(o) == \A k \in DOMAIN o : o[k].type # "other"
=============================================================================
