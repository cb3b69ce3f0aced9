-------------------------- MODULE InstrumentVector --------------------------
(***************************************************************************)
(* The handlers of the SSE and AVX instructions on 16-byte registers       *)
(* (instrument.cpp).  The RegReg and RegMem variants of a handler are one  *)
(* operator; Do... is what it computes.                                    *)
(***************************************************************************)
EXTENDS Instrument

(* The handlers of dst = dst op src: with no symbolic operand they return *)
SseOp(s, c, dst, src, Do(_, _)) ==
    IfSymbolic(s, c, <<dst, src>>, LAMBDA t, e : SetExpr(t, c, dst, Do(e[1], e[2])), LAMBDA t : t)

(* ... and those of dst = a op b, which clear dst *)
AvxOp(s, c, dst, a, b, Do(_, _)) ==
    IfSymbolic(s, c, <<a, b>>, LAMBDA t, e : SetExpr(t, c, dst, Do(e[1], e[2])), LAMBDA t : ClearExpr(t, c, dst))

(* instrument<Op>RegRegImm, instrument<Op>RegMemImm: one operand and the dst *)
VectorUnary(s, c, dst, src, Do(_)) ==
    IfSymbolic(s, c, <<src>>, LAMBDA t, e : SetExpr(t, c, dst, Do(e[1])), LAMBDA t : ClearExpr(t, c, dst))

(* The result of the elements of a and b at the same place *)
Paired(x, y, F(_, _)) == Join([k \in DOMAIN x |-> F(x[k], y[k])])
Elementwise(a, b, width, F(_, _)) == Paired(Elements(a, width), Elements(b, width), F)

(* doParith *)
DoParith(a, b, kind, width) == Elementwise(a, b, width, LAMBDA x, y : Binary(kind, x, y))

(* doPcmp *)
DoPcmp(a, b, kind, width) ==
    Elementwise(a, b, width, LAMBDA x, y : Ite(Compare(kind, x, y), Constant(-1, width), Constant(0, width)))

(* doPcmpxchg *)
DoPcmpxchg(a, b, kind, width) ==
    Elementwise(a, b, width, LAMBDA x, y : Ite(Compare(kind, x, y), x, y))

(* doPmul *)
DoPmul(a, b, width) == Elementwise(a, b, width, LAMBDA x, y : Binary("Mul", x, y))

(* doPmulhw *)
DoPmulhw(a, b, signed) ==
    Elementwise(a, b, 2, LAMBDA x, y :
        Extract(Binary("Mul", ExtendToDouble(x, signed), ExtendToDouble(y, signed)), 2, 2))

(* doPmaddwd *)
PairSums(p) == Join([k \in 1..(Len(p) \div 2) |-> Binary("Add", p[2 * k - 1], p[2 * k])])
DoPmaddwd(a, b) ==
    PairSums([k \in 1..(Len(a) \div 2) |->
        Binary("Mul", ZExt(Extract(a, 2 * k - 2, 2), 4), ZExt(Extract(b, 2 * k - 2, 2), 4))])

(* saturateIntToInt, saturateIntToUint: of twice width bytes, to lo..hi *)
Clamp(e, width, lt, lo, gt, hi) ==
    Ite(Compare(lt, e, Constant(lo, 2 * width)), Constant(lo, width),
        Ite(Compare(gt, e, Constant(hi, 2 * width)), Constant(hi, width), Extract(e, 0, width)))
SaturateTo(e, width, signed) ==
    IF signed THEN Clamp(e, width, "Slt", -(2^(width * CharBit - 1)), "Sgt", 2^(width * CharBit - 1) - 1)
    ELSE Clamp(e, width, "Ult", 0, "Ugt", 2^(width * CharBit) - 1)

(* doPack *)
DoPack(a, b, width, signed) ==
    Join([k \in 1..(2 * Len(a)) \div (2 * width) |->
        SaturateTo(Extract(a \o b, (k - 1) * 2 * width, 2 * width), width, signed)])

(* instrumentPalignr{Reg,Mem} *)
DoPalignr(a, b, off) == Extract(b \o a, off, Len(a))

(* doPunpckh, doPunpckl: the elements of half a register, alternating *)
DoPunpckh(a, b, width) ==
    LET half == Len(a) \div 2
    IN  Join([k \in 1..(half \div width) |->
            Extract(a, half + (k - 1) * width, width) \o Extract(b, half + (k - 1) * width, width)])
DoPunpckl(a, b, width) ==
    Join([k \in 1..(Len(a) \div (2 * width)) |->
        Extract(a, (k - 1) * width, width) \o Extract(b, (k - 1) * width, width)])

(* doPshuf: the result is of 4-byte elements, whatever the width *)
DoPshuf(e, imm, width) ==
    Join([k \in 1..(Len(e) \div width) |->
        Extract(LShrBytes(e, ((imm \div 4^(k - 1)) % 4) * width), 0, 4)])

(* doPshufw, of one 16-byte lane *)
DoPshufw(e, imm, high) ==
    LET words == Join([k \in 1..4 |->
                    Extract(LShrBytes(e, ((imm \div 4^(k - 1)) % 4) * 2), IF high THEN 8 ELSE 0, 2)])
    IN  IF high THEN Extract(e, 0, 8) \o words ELSE words \o Extract(e, 8, 8)

(* doPshufb: the index is masked, its highest bit gives zero *)
ByteAt(a, index) == [i \in Inputs |-> a[1 + index[i]][i]]
DoPshufb(a, b) ==
    [k \in DOMAIN a |->
        Ite(Bit(b, k * CharBit - 1), Constant(0, 1),
            <<ByteAt(a, Binary("And", Extract(b, k - 1, 1), Constant(2^CharBit \div 2 - 1, 1))[1])>>)[1]]

(* doPshift: PSLLDQ and PSRLDQ shift the whole register by bytes *)
DoPshift(e, kind, n, width) ==
    IF width = 16 THEN (IF kind = "Shl" THEN ShlBytes(e, n) ELSE LShrBytes(e, n))
    ELSE Join([k \in 1..(Len(e) \div width) |->
            Binary(kind, Extract(e, (k - 1) * width, width), Constant(n, width))])

(* instrumentPmovmskb *)
DoPmovmskb(e, size) ==
    LET sum[k \in 0..Len(e)] == IF k = 0 THEN BConst(0)
                               ELSE [i \in Inputs |-> sum[k - 1][i] + Bit(e, k * CharBit - 1)[i] * 2^(k - 1)]
    IN  Of(size, sum[Len(e)])

(* doPextr: & binds weaker than *, so the index is lost but for its bits    *)
(* above those of an element; size is that of the destination               *)
DoPextr(e, imm, size, width) ==
    LET n == imm & ((size \div width - 1) * width * CharBit)
    IN  ZExt(Extract(LShrBytes(e, n \div CharBit), 0, width), size)

-----------------------------------------------------------------------------
(* instrument...{RegReg,RegMem} *)

InstrumentPack(s, c, dst, src, width, signed) ==
    SseOp(s, c, dst, src, LAMBDA a, b : DoPack(a, b, width, signed))
InstrumentPalignr(s, c, dst, src, off) == SseOp(s, c, dst, src, LAMBDA a, b : DoPalignr(a, b, off))
InstrumentParith(s, c, dst, src, kind, width) ==
    SseOp(s, c, dst, src, LAMBDA a, b : DoParith(a, b, kind, width))
InstrumentPcmp(s, c, dst, src, kind, width) ==
    SseOp(s, c, dst, src, LAMBDA a, b : DoPcmp(a, b, kind, width))
InstrumentPmaddwd(s, c, dst, src) == SseOp(s, c, dst, src, DoPmaddwd)
InstrumentPcmpxchg(s, c, dst, src, kind, width) ==
    SseOp(s, c, dst, src, LAMBDA a, b : DoPcmpxchg(a, b, kind, width))
InstrumentPmul(s, c, dst, src, width) == SseOp(s, c, dst, src, LAMBDA a, b : DoPmul(a, b, width))
InstrumentPmulhw(s, c, dst, src, signed) == SseOp(s, c, dst, src, LAMBDA a, b : DoPmulhw(a, b, signed))
InstrumentPmovmskb(s, c, dst, src) == VectorUnary(s, c, dst, src, LAMBDA e : DoPmovmskb(e, dst.size))
InstrumentPshuf(s, c, dst, src, imm, width) == VectorUnary(s, c, dst, src, LAMBDA e : DoPshuf(e, imm, width))
InstrumentPshufw(s, c, dst, src, imm, high) == VectorUnary(s, c, dst, src, LAMBDA e : DoPshufw(e, imm, high))
InstrumentPunpckh(s, c, dst, src, width) == SseOp(s, c, dst, src, LAMBDA a, b : DoPunpckh(a, b, width))
InstrumentPunpckl(s, c, dst, src, width) == SseOp(s, c, dst, src, LAMBDA a, b : DoPunpckl(a, b, width))

(* instrument...{RegRegReg,RegRegMem} *)

InstrumentTernary(s, c, dst, x, y, kind) == AvxOp(s, c, dst, x, y, LAMBDA a, b : Binary(kind, a, b))
InstrumentVparith(s, c, dst, x, y, kind, width) ==
    AvxOp(s, c, dst, x, y, LAMBDA a, b : DoParith(a, b, kind, width))
InstrumentVpcmp(s, c, dst, x, y, kind, width) ==
    AvxOp(s, c, dst, x, y, LAMBDA a, b : DoPcmp(a, b, kind, width))
InstrumentVpmaddwd(s, c, dst, x, y) == AvxOp(s, c, dst, x, y, DoPmaddwd)
InstrumentVpcmpxchg(s, c, dst, x, y, kind, width) ==
    AvxOp(s, c, dst, x, y, LAMBDA a, b : DoPcmpxchg(a, b, kind, width))
InstrumentVpmulhw(s, c, dst, x, y, signed) == AvxOp(s, c, dst, x, y, LAMBDA a, b : DoPmulhw(a, b, signed))
InstrumentVpmul(s, c, dst, x, y, width) == AvxOp(s, c, dst, x, y, LAMBDA a, b : DoPmul(a, b, width))
InstrumentVpshufb(s, c, dst, x, y) == AvxOp(s, c, dst, x, y, DoPshufb)
InstrumentVpack(s, c, dst, x, y, width, signed) ==
    AvxOp(s, c, dst, x, y, LAMBDA a, b : DoPack(a, b, width, signed))

-----------------------------------------------------------------------------
(* Handlers that do not follow the common form *)

(* instrumentPshufb{RegReg,RegMem}: the indices are made concrete first *)
InstrumentPshufb(s, c, dst, src) == SseOp(Concretize(s, c, src), c, dst, src, DoPshufb)

(* getLimitedValue of a count that may be 16 bytes wide *)
LimitedValue(v) ==
    IF \E k \in DOMAIN v : k > 8 /\ v[k][input] # 0 THEN 2^(8 * CharBit) - 1
    ELSE NumOf(v, IF Len(v) < 8 THEN Len(v) ELSE 8, input)
SeenCount(c, count) == LimitedValue(SeenExpr(c, count))

(* A count in a register is made concrete, one in memory is not. *)
ReadCount(s, c, count) ==
    IF count.type = "reg" THEN Concretize(s, c, count) ELSE MakeAddrConcrete(s, c, count)
ShiftBy(e, kind, n, width) == IF e = Null THEN Null ELSE DoPshift(e, kind, n, width)
SetUnlessNull(s, c, o, e) == IF e = Null THEN s ELSE SetExpr(s, c, o, e)

(* instrumentPshift{RegReg,RegImm,RegMem}: a concrete register is left *)
InstrumentPshift(s, c, dst, count, kind, width) ==
    SetUnlessNull(ReadCount(AfterGet(s, c, dst), c, count), c, dst,
                  ShiftBy(GetExpr(s, c, dst), kind, SeenCount(c, count), width))

(* instrumentVpshift{RegRegReg,RegRegImm,RegRegMem} *)
InstrumentVpshift(s, c, dst, a, count, kind, width) ==
    SetExpr(ReadCount(AfterGet(s, c, a), c, count), c, dst,
            ShiftBy(GetExpr(s, c, a), kind, SeenCount(c, count), width))

(* instrumentPextr{RegRegImm,MemRegImm} *)
InstrumentPextr(s, c, dst, src, imm, width) ==
    VectorUnary(MakeAddrConcrete(s, c, dst), c, dst, src, LAMBDA e : DoPextr(e, imm, dst.size, width))

(* instrumentVmovlRegRegMem: the high half of src, the low half of memory *)
InstrumentVmovl(s, c, dst, src, m) ==
    InstrumentMov(InstrumentMov(s, c, Reg(dst.reg, 8, 8), Reg(src.reg, 8, 8)), c, Reg(dst.reg, 0, 8), m)
=============================================================================
