----------------------------- MODULE Instrument -----------------------------
(***************************************************************************)
(* The handlers of the instructions on general purpose registers, memory   *)
(* and EFLAGS (instrument.cpp).  A handler runs before its instruction: it *)
(* takes the shadow state s and the machine state c and gives the shadow   *)
(* state after it.  The variants of a handler for registers, memory and    *)
(* immediates are one operator over operands: reading a memory operand     *)
(* concretises its address, except where a comment says that it does not.  *)
(***************************************************************************)
EXTENDS FlagExprs

(* Reading an operand that may be memory: getExprFromMemSrc *)
Touch(s, c, o) == AfterGet(MakeAddrConcrete(s, c, o), c, o)
TouchAll(s, c, os) ==
    LET after[k \in 0..Len(os)] == IF k = 0 THEN s ELSE Touch(after[k - 1], c, os[k])
    IN  after[Len(os)]

(* getExprFromRegReg, ...: the expressions of operands; if one is symbolic,  *)
(* those of the others are constants (fixRegExpr, fixMemExpr, fixImmExpr)    *)
ExprsOf(s, c, os) == [k \in DOMAIN os |-> GetExpr(s, c, os[k])]
FixExprs(c, os, es) == [k \in DOMAIN os |-> IF es[k] = Null THEN SeenExpr(c, os[k]) ELSE es[k]]
Branch(s, c, os, es, Then(_, _), Else(_)) ==
    IF \E k \in DOMAIN es : es[k] # Null THEN Then(s, FixExprs(c, os, es)) ELSE Else(s)

(* The two ways of a handler: with the state after the operands are read    *)
(* and their expressions, or, if all are concrete, with the state alone     *)
IfSymbolic(s, c, os, Then(_, _), Else(_)) ==
    Branch(TouchAll(s, c, os), c, os, ExprsOf(s, c, os), Then, Else)

(* A result and its flags *)
SetResult(s, c, op, dst, res, a, b) == SetExpr(SetEflags(s, op, res, a, b), c, dst, res)

(* extendToDouble *)
ExtendToDouble(e, signed) ==
    IF signed THEN SExt(e, 2 * Len(e)) ELSE ZExt(e, 2 * Len(e))

-----------------------------------------------------------------------------
(* Shifts and rotates *)

(* getOpKindShift *)
OpKindShift(kind) ==
    CASE kind = "Rol" -> "ROL" [] kind = "Ror" -> "ROR"
      [] kind \in {"AShr", "LShr"} -> "SHR" [] kind = "Shl" -> "SHL"

(* normalizeShiftCount *)
NormalizeShiftCount(e, size, modulo) ==
    Binary("URem", ZExt(e, size), Constant(modulo, size))

(* A rotate is (x << n) | (x >> (bits - n)). *)
Rotate(kind, a, n, left) ==
    IF kind = "Ror" THEN Binary("Or", Binary("LShr", a, n), Binary("Shl", a, left))
    ELSE Binary("Or", Binary("LShr", a, left), Binary("Shl", a, n))

(* doShift, by a normalised count *)
ShiftExpr(kind, a, n) ==
    IF kind \in {"Rol", "Ror"} THEN Rotate(kind, a, n, Binary("Sub", Constant(Bits(a), Len(a)), n))
    ELSE Binary(kind, a, n)
SetShift(s, c, kind, dst, a, n) == SetResult(s, c, OpKindShift(kind), dst, ShiftExpr(kind, a, n), a, n)
DoShift(s, c, kind, dst, a, b) == SetShift(s, c, kind, dst, a, NormalizeShiftCount(b, Len(a), Bits(a)))

(* instrumentShift{Reg,Mem}{Imm,Cl} *)
InstrumentShift(s, c, kind, dst, count) ==
    IfSymbolic(s, c, <<dst, count>>,
               LAMBDA t, e : DoShift(t, c, kind, dst, e[1], e[2]),
               LAMBDA t : InvalidateEflags(t, OpKindShift(kind)))

(* doShiftd: the flags are not supported *)
DoShiftd(kind, a, b, n) ==
    Extract(Binary(kind, IF kind = "Shl" THEN b \o a ELSE a \o b,
                   NormalizeShiftCount(n, 2 * Len(a), 4 * CharBit)),
            IF kind = "Shl" THEN Len(a) ELSE 0, Len(a))

(* instrumentShiftd{Reg,Mem}Reg{Imm,Cl} *)
InstrumentShiftd(s, c, kind, dst, src, count) ==
    InvalidateEflags(
        IfSymbolic(s, c, <<dst, src, count>>,
                   LAMBDA t, e : SetExpr(t, c, dst, DoShiftd(kind, e[1], e[2], e[3])), LAMBDA t : t),
        OpKindShift(kind))

-----------------------------------------------------------------------------
(* Arithmetic and logic *)

(* getOpKindBinary *)
OpKindBinary(kind) ==
    CASE kind = "Add" -> "ADD" [] kind = "Sub" -> "SUB"
      [] kind \in {"And", "Or", "Xor"} -> "LOGIC"

(* doBinary; write is false for CMP and TEST *)
DoBinary(s, c, kind, dst, a, b, write) ==
    IF write THEN SetResult(s, c, OpKindBinary(kind), dst, Binary(kind, a, b), a, b)
    ELSE SetEflags(s, OpKindBinary(kind), Binary(kind, a, b), a, b)

(* instrumentBinary{RegReg,RegImm,RegMem,MemReg,MemImm} *)
InstrumentBinary(s, c, kind, dst, src, write) ==
    IfSymbolic(s, c, <<dst, src>>,
               LAMBDA t, e : DoBinary(t, c, kind, dst, e[1], e[2], write),
               LAMBDA t : InvalidateEflags(t, OpKindBinary(kind)))

(* doCarry: the carry is added to the destination first *)
DoCarry(s, c, kind, dst, a, b, cf) ==
    DoBinary(s, c, kind, dst, Binary(kind, a, BoolToBit(cf, dst.size)), b, TRUE)

(* fixCfExpr: EFLAGS_CF is the mask 1 << 0 and indexes the bits of EFLAGS,  *)
(* so a concrete carry is bit 1 of the register, which is always set.       *)
FixCf(cf) == IF cf # Null THEN cf ELSE BConst(1)

(* Mutant: the carry flag is used only if another operand is symbolic. *)
InstrumentCarryLazy(s, c, kind, dst, src) ==
    IfSymbolic(s, c, <<dst, src>>,
               LAMBDA t, e : DoCarry(t, c, kind, dst, e[1], e[2], FixCf(Null)),
               LAMBDA t : InvalidateEflags(t, OpKindBinary(kind)))

(* instrumentCarry{RegReg,...} with getExprFrom...Cf *)
CarryOrClear(s, c, kind, dst, src, cf) ==
    IF cf = Null THEN InvalidateEflags(s, OpKindBinary(kind))
    ELSE DoCarry(s, c, kind, dst, SeenExpr(c, dst), SeenExpr(c, src), cf)
CarryWith(s, c, kind, dst, src, cf) ==
    IfSymbolic(s, c, <<dst, src>>,
               LAMBDA t, e : DoCarry(t, c, kind, dst, e[1], e[2], FixCf(cf)),
               LAMBDA t : CarryOrClear(t, c, kind, dst, src, cf))
InstrumentCarry(s, c, kind, dst, src) == CarryWith(s, c, kind, dst, src, ComputeJcc(s, "B", FALSE))

(* instrumentIncDec{Reg,Mem} with doIncDec and getOpKindIncDec *)
OpKindIncDec(kind) == IF kind = "Add" THEN "INC" ELSE "DEC"
DoIncDec(s, c, kind, dst, a, one) == SetResult(s, c, OpKindIncDec(kind), dst, Binary(kind, a, one), a, one)
InstrumentIncDec(s, c, kind, dst) ==
    IfSymbolic(s, c, <<dst>>,
               LAMBDA t, e : DoIncDec(t, c, kind, dst, e[1], Constant(1, dst.size)),
               LAMBDA t : InvalidateEflags(t, OpKindIncDec(kind)))

(* instrumentNegNot{Reg,Mem} with doNegNot *)
InstrumentNegNot(s, c, kind, dst) ==
    IfSymbolic(s, c, <<dst>>,
               LAMBDA t, e : SetResult(t, c, "LOGIC", dst, Unary(kind, e[1]), e[1], Null),
               LAMBDA t : InvalidateEflags(t, "LOGIC"))

(* doMul: the low half of the product to l, the high half to h if there is  *)
(* such a register                                                          *)
SetHalves(s, c, l, h, low, high) ==
    IF h = Null THEN SetExpr(s, c, l, low) ELSE SetExpr(SetExpr(s, c, l, low), c, h, high)
SetProduct(s, c, l, h, x, y, res) ==
    SetHalves(SetEflags(s, "UMUL", res, y, x), c, l, h, Extract(res, 0, l.size), Extract(res, l.size, l.size))
MulExtended(s, c, l, h, x, y) == SetProduct(s, c, l, h, x, y, Binary("Mul", x, y))
DoMul(s, c, l, h, src, a, signed) ==
    MulExtended(s, c, l, h, ExtendToDouble(src, signed), ExtendToDouble(a, signed))

(* instrumentMul{Reg,Mem} and instrumentIMul{Reg,Mem,RegReg,RegMem} *)
InstrumentMul(s, c, l, h, src, signed) ==
    IfSymbolic(s, c, <<src, l>>,
               LAMBDA t, e : DoMul(t, c, l, h, e[1], e[2], signed),
               LAMBDA t : SetHalves(InvalidateEflags(t, "UMUL"), c, l, h, Null, Null))

(* instrumentIMulReg{Reg,Mem}Imm with the second doMul *)
InstrumentIMulImm(s, c, dst, src, imm) ==
    IfSymbolic(s, c, <<src, imm>>,
               LAMBDA t, e : SetResult(t, c, "SMUL", dst, Binary("Mul", e[1], e[2]), e[1], e[2]),
               LAMBDA t : InvalidateEflags(ClearExpr(t, c, dst), "SMUL"))

(* instrumentDiv{Reg,Mem} with doDiv *)
DivExtended(s, c, l, h, a, x, signed) ==
    SetHalves(s, c, l, h, Extract(Binary(IF signed THEN "SDiv" ELSE "UDiv", a, x), 0, h.size),
                          Extract(Binary(IF signed THEN "SRem" ELSE "URem", a, x), 0, h.size))
InstrumentDiv(s, c, l, h, src, signed) ==
    IfSymbolic(InvalidateEflags(s, "UMUL"), c, <<src, l, h>>,
               LAMBDA t, e : DivExtended(t, c, l, h, e[2] \o e[3], ExtendToDouble(e[1], signed), signed),
               LAMBDA t : t)

-----------------------------------------------------------------------------
(* Conversions and bits *)

(* instrumentCbw, instrumentMovsxReg{Reg,Mem} and Movzx *)
InstrumentExtend(s, c, dst, src, signed) ==
    IfSymbolic(s, c, <<src>>,
               LAMBDA t, e : SetExpr(t, c, dst, IF signed THEN SExt(e[1], dst.size) ELSE ZExt(e[1], dst.size)),
               LAMBDA t : ClearExpr(t, c, dst))

(* instrumentCwd *)
InstrumentCwd(s, c, dx, ax) ==
    IfSymbolic(s, c, <<ax>>,
               LAMBDA t, e : SetExpr(t, c, dx, Extract(SExt(e[1], 2 * ax.size), ax.size, ax.size)),
               LAMBDA t : ClearExpr(t, c, dx))

(* doBsf and doBsr: the bits that are looked at, and the one that is found; *)
(* doBsf leaves out the highest                                             *)
BsBits(e, reverse) == IF reverse THEN 0..Bits(e) - 1 ELSE 0..Bits(e) - 2
BsFound(ns, reverse) ==
    CHOOSE n \in ns : \A m \in ns : IF reverse THEN n >= m ELSE n <= m
DoBs(e, reverse) ==
    LET Ones(i) == {n \in BsBits(e, reverse) : Bit(e, n)[i] = 1}
    IN  Of(Len(e), [i \in Inputs |->
            IF Ones(i) = {} THEN Bits(e) ELSE BsFound(Ones(i), reverse)])

(* instrumentBsRegReg and instrumentBsRegMem with doBs; the second clears   *)
(* its source instead of its destination                                    *)
SetBs(s, c, dst, a, reverse) ==
    SetExpr(SetEflags(s, "SUB", a, a, Constant(0, Len(a))), c, dst, DoBs(a, reverse))
InstrumentBs(s, c, dst, src, reverse) ==
    IfSymbolic(s, c, <<src>>,
               LAMBDA t, e : SetBs(t, c, dst, e[1], reverse),
               LAMBDA t : InvalidateEflags(ClearExpr(t, c, IF src.type = "mem" THEN src ELSE dst), "SUB"))

(* instrumentBswapReg *)
InstrumentBswap(s, c, dst) ==
    IfSymbolic(s, c, <<dst>>,
               LAMBDA t, e : SetExpr(t, c, dst, [k \in 1..dst.size |-> e[1][dst.size + 1 - k]]),
               LAMBDA t : t)

(* The mask of doBt is an int: 1 << n wraps at its width, and its sign is   *)
(* extended.                                                                *)
BtMask(kind, one) == IF kind = "And" THEN -1 - one ELSE one

(* doBt: kind is Or, Xor or And, or Invalid for BT itself *)
DoBt(s, c, kind, dst, e, bit) ==
    IF kind = "Invalid" THEN SetEflags(s, "BT", Bit(e, bit), Null, Null)
    ELSE SetExpr(SetEflags(s, "BT", Bit(e, bit), Null, Null), c, dst,
                 Binary(kind, e, Constant(BtMask(kind, AsSigned(2^(bit % (4 * CharBit)), 4 * CharBit)), dst.size)))

(* instrumentBt{Reg,Mem}{Reg,Imm}: the source is concretised, the address   *)
(* of the destination is not                                                *)
BtExpr(s, c, kind, dst, e, n) ==
    IF e = Null THEN InvalidateEflags(AfterGet(s, c, dst), "BT")
    ELSE DoBt(s, c, kind, dst, e, n % (dst.size * CharBit))
InstrumentBt(s, c, kind, dst, src) ==
    BtExpr(IF src.type = "imm" THEN s ELSE Concretize(s, c, src), c, kind, dst, GetExpr(s, c, dst), Seen(c, src))

-----------------------------------------------------------------------------
(* Moves *)

(* What a move does when the addresses are concrete, byte by byte *)
MoveBytes(s, c, dst, src) ==
    IF src.type = "imm" THEN ClearExpr(s, c, dst) ELSE SetBytes(s, c, dst, GetBytes(s, c, src))

(* Mutant: the address of the source is not concretised. *)
InstrumentMovFree(s, c, dst, src) == MoveBytes(MakeAddrConcrete(s, c, dst), c, dst, src)

(* instrumentMov{RegReg,RegImm,RegMem,MemImm,MemReg}, Movh{RegMem,MemReg} *)
InstrumentMov(s, c, dst, src) ==
    MoveBytes(MakeAddrConcrete(MakeAddrConcrete(s, c, dst), c, src), c, dst, src)

(* instrumentMovlz{RegReg,RegMem,MemReg}: width bytes are moved, the bytes  *)
(* of a register from the size of the source on are cleared                 *)
LowPart(o, width) == IF o.type = "reg" THEN Reg(o.reg, 0, width) ELSE o
FromSize(dst, src) == IF dst.type = "mem" THEN {} ELSE {<<dst.reg, k>> : k \in src.size..dst.size - 1}
InstrumentMovlz(s, c, dst, src, width) ==
    ClearCells(InstrumentMov(s, c, LowPart(dst, width), LowPart(src, width)), FromSize(dst, src))

(* instrumentLeaRegMem: a 4-byte destination takes the low bytes *)
InstrumentLea(s, c, dst, m) == SetExpr(AfterAddr(s, c, m), c, dst, AddrExpr(s, c, m))

(* instrumentXchg{RegReg,RegMem,MemReg}: the address is not concretised *)
InstrumentXchg(s, c, dst, src) ==
    SetExpr(SetExpr(AfterGet(AfterGet(s, c, src), c, dst), c, dst, GetExpr(s, c, src)),
            c, src, GetExpr(s, c, dst))

(* instrumentXadd{RegReg,MemReg}: no flags *)
InstrumentXadd(s, c, dst, src) ==
    IfSymbolic(s, c, <<dst, src>>,
               LAMBDA t, e : SetExpr(SetExpr(t, c, dst, Binary("Add", e[2], e[1])), c, src, e[1]),
               LAMBDA t : t)

(* instrumentPush{Reg,Imm,Mem}: slot is the stack memory that is written *)
InstrumentPush(s, c, slot, src) ==
    MoveBytes(MakeAddrConcrete(Concretize(s, c, Full("RSP")), c, src), c, slot, src)

(* instrumentPop{Reg,Mem} *)
InstrumentPop(s, c, slot, dst) ==
    MoveBytes(MakeAddrConcrete(Concretize(s, c, Full("RSP")), c, dst), c, dst, slot)

(* instrumentCall *)
InstrumentCall(s, c, slot) == ClearExpr(Concretize(s, c, Full("RSP")), c, slot)

-----------------------------------------------------------------------------
(* Strings *)

(* instrumentMovs *)
InstrumentMovs(s, c, dst, src) ==
    MoveBytes(Concretize(Concretize(s, c, Full("RSI")), c, Full("RDI")), c, dst, src)

(* instrumentStos *)
InstrumentStos(s, c, dst, src) == MoveBytes(Concretize(s, c, Full("RDI")), c, dst, src)

(* The flags of a comparison, of operands whose addresses are concrete *)
CompareFlags(s, c, a, b) == InstrumentBinary(s, c, "Sub", a, b, FALSE)

(* instrumentScas *)
InstrumentScas(s, c, ax, m) == CompareFlags(Concretize(s, c, Full("RDI")), c, ax, m)

(* instrumentCmps: dst is the first memory operand, at RSI *)
InstrumentCmps(s, c, dst, src) ==
    CompareFlags(Concretize(Concretize(s, c, Full("RSI")), c, Full("RDI")), c, dst, src)

-----------------------------------------------------------------------------
(* Conditions *)

AddCondition(s, e, taken) == IF e = Null THEN s ELSE AddJcc(s, e, taken)

(* Mutant: the inverted condition is added. *)
InstrumentJccInverted(s, jcc, inv, taken) == AddCondition(s, ComputeJcc(s, jcc, ~inv), taken)

(* instrumentJcc *)
InstrumentJcc(s, jcc, inv, taken) == AddCondition(s, ComputeJcc(s, jcc, inv), taken)

(* instrumentCmovReg{Reg,Mem} *)
MoveIf(s, c, dst, src, taken) == IF taken = 1 THEN InstrumentMov(s, c, dst, src) ELSE s
InstrumentCmov(s, c, dst, src, jcc, inv, taken) ==
    MoveIf(InstrumentJcc(s, jcc, inv, taken), c, dst, src, taken)

(* instrumentSet{Reg,Mem} with doSet *)
DoSet(e) == IF e = Null THEN Null ELSE BoolToBit(e, 1)
InstrumentSet(s, c, dst, jcc, inv) ==
    SetExpr(MakeAddrConcrete(s, c, dst), c, dst, DoSet(ComputeJcc(s, jcc, inv)))

(* instrumentCmpxchg{RegReg,MemReg}: a comparison, a jump on its outcome    *)
(* and the move that was done; memory is compared with swapped operands     *)
MoveEqual(s, c, dst, src, ax, equal) ==
    InstrumentMov(InstrumentJcc(s, "Z", ~equal, 1), c, IF equal THEN dst ELSE ax, IF equal THEN src ELSE dst)
DoCmpxchg(s, c, dst, src, ax, a, b) ==
    MoveEqual(InstrumentBinary(s, c, "Sub", a, b, FALSE), c, dst, src, ax, Seen(c, ax) = Seen(c, dst))
InstrumentCmpxchg(s, c, dst, src, ax) ==
    Branch(AfterGet(AfterGet(AfterGet(s, c, dst), c, src), c, ax), c, <<dst, src, ax>>,
           ExprsOf(s, c, <<dst, src, ax>>),
           LAMBDA t, e : DoCmpxchg(t, c, dst, src, ax, IF dst.type = "mem" THEN ax ELSE dst,
                                   IF dst.type = "mem" THEN dst ELSE ax),
           LAMBDA t : InvalidateEflags(t, "SUB"))

(* Mutant: the target is made concrete without a constraint. *)
InstrumentJmpClear(s, c, o) == ClearExpr(s, c, o)

(* instrumentJmp{Reg,Mem}: Solver::solveAll on the target; the address of   *)
(* memory is not concretised                                                *)
InstrumentJmp(s, c, o) == Concretize(s, c, o)

-----------------------------------------------------------------------------
(* Instructions that make registers concrete *)

Gr32(r) == Reg(r, 0, 4)

(* instrumentRdtsc *)
InstrumentRdtsc(s, c) == ClearExpr(ClearExpr(s, c, Gr32("RAX")), c, Gr32("RDX"))

(* instrumentRdtscp *)
InstrumentRdtscp(s, c) == ClearExpr(InstrumentRdtsc(s, c), c, Gr32("RCX"))

(* instrumentCpuid *)
InstrumentCpuid(s, c) ==
    ClearExpr(ClearExpr(InstrumentRdtsc(s, c), c, Gr32("RBX")), c, Gr32("RCX"))

(* instrumentClrReg and instrumentClrMem *)
InstrumentClr(s, c, o) == ClearExpr(s, c, o)

(* instrumentConcretizeReg and instrumentConcretizeMem, on every operand of *)
(* an instruction without a handler                                         *)
InstrumentConcretize(s, c, os) ==
    LET after[k \in 0..Len(os)] == IF k = 0 THEN s
                                   ELSE IF os[k].type = "imm" THEN after[k - 1]
                                   ELSE Concretize(after[k - 1], c, os[k])
    IN  after[Len(os)]

(* instrumentConcretizeEflags *)
InstrumentConcretizeEflags(s) == InvalidateEflags(s, "ADD")
=============================================================================
