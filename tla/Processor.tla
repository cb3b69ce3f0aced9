------------------------------ MODULE Processor ------------------------------
(***************************************************************************)
(* What the instructions do on the processor, in the runs on all inputs at *)
(* once: the reference the handlers are checked against.  It is external   *)
(* to the repository; the handlers mirror it, and nothing here is taken    *)
(* from them.  c.flag has the value of every flag in every run, Undef      *)
(* where the processor leaves it undefined.                                *)
(***************************************************************************)
EXTENDS FlagTables, ThreadContext

Undef == 2
AllUndef == BConst(Undef)

WriteFlags(c, fs) == [c EXCEPT !.flag = fs @@ @]

ResultFlags(e, cf, of) == [CF |-> cf, OF |-> of, PF |-> Parity(e), SF |-> Msb(e), ZF |-> Zero(e)]

InRange(x, lo, hi) == lo <= x /\ x <= hi

(* Whether a condition holds of the flags that are set *)
ConditionOf(set, jcc) ==
    CASE jcc = "B" -> "CF" \in set
      [] jcc = "BE" -> {"CF", "ZF"} \cap set # {}
      [] jcc = "L" -> ("SF" \in set) # ("OF" \in set)
      [] jcc = "LE" -> ("SF" \in set) # ("OF" \in set) \/ "ZF" \in set
      [] jcc = "O" -> "OF" \in set
      [] jcc = "S" -> "SF" \in set
      [] jcc = "P" -> "PF" \in set
      [] jcc = "Z" -> "ZF" \in set

(* ... in the run on i *)
Condition(c, jcc, i) == ConditionOf({f \in Flag : c.flag[f][i] = 1}, jcc)

Taken(c, jcc, inv, i) == Condition(c, jcc, i) # inv

-----------------------------------------------------------------------------
(* Arithmetic and logic *)

(* Results: an expression and its flags *)
Result(e, cf, of) == [e |-> e, flags |-> ResultFlags(e, cf, of)]
Put(c, dst, r) == Store(WriteFlags(c, r.flags), dst, r.e)

(* a + b + carry, or a - b - carry, by the unsigned and the signed sums *)
Outside(f, lo, hi) == [i \in Inputs |-> AsBool(f[i] < lo \/ f[i] > hi)]
SumResult(size, sum, ssum, half) == Result(Of(size, sum), Outside(sum, 0, 2 * half - 1), Outside(ssum, -half, half - 1))
AddSub(kind, a, b, carry) ==
    SumResult(Len(a),
              [i \in Inputs |-> IF kind = "Add" THEN Num(a, i) + Num(b, i) + carry[i]
                                ELSE Num(a, i) - Num(b, i) - carry[i]],
              [i \in Inputs |-> IF kind = "Add" THEN SNum(a, i) + SNum(b, i) + carry[i]
                                ELSE SNum(a, i) - SNum(b, i) - carry[i]],
              2^(Bits(a) - 1))

BinaryResult(kind, a, b) ==
    IF kind \in {"Add", "Sub"} THEN AddSub(kind, a, b, BConst(0)) ELSE Result(Binary(kind, a, b), BConst(0), BConst(0))

(* write is false for CMP and TEST *)
PutIf(c, dst, r, write) == IF write THEN Put(c, dst, r) ELSE WriteFlags(c, r.flags)
ExecBinary(c, kind, dst, src, write) == PutIf(c, dst, BinaryResult(kind, Load(c, dst), Load(c, src)), write)

ExecCarry(c, kind, dst, src) == Put(c, dst, AddSub(kind, Load(c, dst), Load(c, src), c.flag["CF"]))

KeepCF(c, r) == [r EXCEPT !.flags.CF = c.flag["CF"]]
ExecIncDec(c, kind, dst) ==
    Put(c, dst, KeepCF(c, AddSub(kind, Load(c, dst), Constant(1, dst.size), BConst(0))))

ExecNegNot(c, kind, dst) ==
    IF kind = "Neg" THEN Put(c, dst, AddSub("Sub", Constant(0, dst.size), Load(c, dst), BConst(0)))
    ELSE Store(c, dst, Unary("Not", Load(c, dst)))

(* A product is cut off at its low part, or fills both registers. *)
Product(a, b, signed) ==
    [i \in Inputs |-> IF signed THEN SNum(a, i) * SNum(b, i) ELSE Num(a, i) * Num(b, i)]

MulFlags(cut) == [CF |-> cut, OF |-> cut, PF |-> AllUndef, SF |-> AllUndef, ZF |-> AllUndef]
CutFlags(p, e, signed) ==
    MulFlags([i \in Inputs |-> AsBool(p[i] # IF signed THEN SNum(e, i) ELSE Num(e, i))])

(* MUL and IMUL with one operand; a product of bytes is in AX *)
HighPart(l, h) == IF l.size = 1 THEN Reg("RAX", 1, 1) ELSE h
PutLow(c, dst, p, signed) == Store(WriteFlags(c, CutFlags(p, Of(dst.size, p), signed)), dst, Of(dst.size, p))
PutProduct(c, l, h, p, signed) ==
    Store(PutLow(c, l, p, signed), HighPart(l, h), Extract(Of(2 * l.size, p), l.size, l.size))
ExecMul(c, l, h, src, signed) == PutProduct(c, l, h, Product(Load(c, src), Load(c, l), signed), signed)

ExecIMul(c, dst, a, b) == PutLow(c, dst, Product(Load(c, a), Load(c, b), TRUE), TRUE)

(* DIV and IDIV: the runs that do not fault, and what they do *)
Dividend(c, l, h) == Load(c, l) \o Load(c, HighPart(l, h))
Number(e, i, signed) == IF signed THEN SNum(e, i) ELSE Num(e, i)
Fits(q, half, signed) == IF signed THEN InRange(q, -half, half - 1) ELSE q < 2 * half
DividesBy(x, y, half, signed, i) ==
    Number(y, i, signed) # 0 /\ Fits(SDivide(Number(x, i, signed), Number(y, i, signed)), half, signed)
Divides(c, l, h, src, signed, i) ==
    DividesBy(Dividend(c, l, h), Load(c, src), 2^(l.size * CharBit - 1), signed, i)
PutDivision(c, l, h, x, y, ok, signed) ==
    Store(Store(WriteFlags(c, [f \in Flag |-> AllUndef]), l,
                Of(l.size, [i \in Inputs |-> IF i \notin ok THEN 0
                                             ELSE SDivide(Number(x, i, signed), Number(y, i, signed))])),
          HighPart(l, h),
          Of(l.size, [i \in Inputs |-> IF i \notin ok THEN 0
                                       ELSE SRemainder(Number(x, i, signed), Number(y, i, signed))]))
ExecDiv(c, l, h, src, signed) ==
    PutDivision(c, l, h, Dividend(c, l, h), Load(c, src),
                {i \in Inputs : Divides(c, l, h, src, signed, i)}, signed)

-----------------------------------------------------------------------------
(* Shifts: the count is taken modulo the bits of the largest operand that   *)
(* is encoded alike.                                                        *)

Count(c, count, size, i) == Num(Load(c, count), i) % ((IF size = 8 THEN 8 ELSE 4) * CharBit)

(* Bit n of a number; Shifted is the bit that is shifted out last. *)
BitOf(x, n) == (x \div 2^n) % 2

RotateLeft(x, m, bits) == (ShiftLeft(x, m, bits) + (x \div 2^(bits - m))) % 2^bits

ShiftResult(kind, x, n, bits) ==
    CASE kind = "Shl" -> ShiftLeft(x, n, bits)
      [] kind = "LShr" -> ShiftRight(x, n, bits)
      [] kind = "AShr" -> ShiftRight(AsSigned(x, bits), n, bits)
      [] kind = "Rol" -> RotateLeft(x, n % bits, bits)
      [] kind = "Ror" -> RotateLeft(x, (bits - n) % bits, bits)

(* The last bit out, or round *)
ShiftCF(kind, x, n, r, bits) ==
    CASE kind = "Shl" -> IF n > bits THEN Undef ELSE BitOf(x, bits - n)
      [] kind = "LShr" -> IF n > bits THEN Undef ELSE BitOf(x, n - 1)
      [] kind = "AShr" -> BitOf(x, IF n > bits THEN bits - 1 ELSE n - 1)
      [] kind = "Rol" -> r % 2
      [] kind = "Ror" -> BitOf(r, bits - 1)

ShiftOF(kind, x, n, r, bits) ==
    IF n # 1 THEN Undef
    ELSE CASE kind = "Shl" -> (BitOf(r, bits - 1) + BitOf(x, bits - 1)) % 2
           [] kind = "LShr" -> BitOf(x, bits - 1)
           [] kind = "AShr" -> 0
           [] kind = "Rol" -> (BitOf(r, bits - 1) + r) % 2
           [] kind = "Ror" -> (BitOf(r, bits - 1) + BitOf(r, bits - 2)) % 2

(* A count of zero leaves the flags, a rotate all but CF and OF. *)
PutCounted(c, dst, n, r) ==
    Store(WriteFlags(c, [f \in DOMAIN r.flags |->
             [i \in Inputs |-> IF n[i] = 0 THEN c.flag[f][i] ELSE r.flags[f][i]]]), dst, r.e)

Only(r, fs) == [r EXCEPT !.flags = [f \in fs |-> @[f]]]
ShiftFlags(kind, x, n, e, bits) ==
    Only(Result(e, [i \in Inputs |-> IF n[i] = 0 THEN 0 ELSE ShiftCF(kind, x[i], n[i], Num(e, i), bits)],
                   [i \in Inputs |-> ShiftOF(kind, x[i], n[i], Num(e, i), bits)]),
         IF kind \in {"Rol", "Ror"} THEN {"CF", "OF"} ELSE Flag)
PutShift(c, kind, dst, x, n, bits) ==
    PutCounted(c, dst, n,
        ShiftFlags(kind, x, n, Of(dst.size, [i \in Inputs |-> ShiftResult(kind, x[i], n[i], bits)]), bits))
Nums(e) == [i \in Inputs |-> Num(e, i)]
RunCounts(c, count, size) == [i \in Inputs |-> Count(c, count, size, i)]
ExecShift(c, kind, dst, count) ==
    PutShift(c, kind, dst, Nums(Load(c, dst)), RunCounts(c, count, dst.size), dst.size * CharBit)

(* SHLD, SHRD *)
DoubleShift(kind, x, y, n, bits) ==
    IF kind = "Shl" THEN ShiftLeft(x, n, bits) + ShiftRight(y, bits - n, bits)
    ELSE ShiftRight(x, n, bits) + ShiftLeft(y, bits - n, bits)
ShiftdFlags(kind, x, n, e, bits) ==
    Result(e, [i \in Inputs |-> IF n[i] = 0 THEN 0 ELSE BitOf(x[i], IF kind = "Shl" THEN bits - n[i] ELSE n[i] - 1)],
              [i \in Inputs |-> IF n[i] = 1 THEN (Msb(e)[i] + BitOf(x[i], bits - 1)) % 2 ELSE Undef])
PutShiftd(c, kind, dst, x, y, n, bits) ==
    PutCounted(c, dst, n,
        ShiftdFlags(kind, x, n, Of(dst.size, [i \in Inputs |-> DoubleShift(kind, x[i], y[i], n[i], bits)]), bits))
ExecShiftd(c, kind, dst, src, count) ==
    PutShiftd(c, kind, dst, Nums(Load(c, dst)), Nums(Load(c, src)), RunCounts(c, count, dst.size), dst.size * CharBit)

-----------------------------------------------------------------------------
(* Conversions, bits and moves *)

ExecMov(c, dst, src) == Store(c, dst, Load(c, src))

ExecExtend(c, dst, src, signed) ==
    Store(c, dst, IF signed THEN SExt(Load(c, src), dst.size) ELSE ZExt(Load(c, src), dst.size))

ExecCwd(c, dx, ax) ==
    Store(c, dx, Of(dx.size, [i \in Inputs |-> -(Msb(Load(c, ax))[i])]))

(* BSF, BSR: of zero the destination is left, and only ZF is defined *)
OnesIn(x, bits) == {n \in 0..bits - 1 : BitOf(x, n) = 1}
FirstOf(ns, reverse, none) ==
    IF ns = {} THEN none ELSE CHOOSE n \in ns : \A m \in ns : IF reverse THEN m <= n ELSE n <= m
ExecBs(c, dst, src, reverse) ==
    Store(WriteFlags(c, [f \in Flag |-> IF f = "ZF" THEN Zero(Load(c, src)) ELSE AllUndef]), dst,
          Of(dst.size, [i \in Inputs |->
                FirstOf(OnesIn(Num(Load(c, src), i), src.size * CharBit), reverse, Num(Load(c, dst), i))]))

ExecBswap(c, dst) == Store(c, dst, [k \in 1..dst.size |-> Load(c, dst)[dst.size + 1 - k]])

(* BT, BTS, BTR, BTC: bit is the one at n, the number of the run *)
NewBit(kind, bit) == CASE kind = "Or" -> 1 [] kind = "And" -> 0 [] OTHER -> 1 - bit
BtFlags(bit) == [f \in {"CF"} |-> bit] @@ [f \in {"OF", "SF", "PF"} |-> AllUndef]
PutBit(c, kind, dst, x, n, bit) ==
    IF kind = "Invalid" THEN WriteFlags(c, BtFlags(bit))
    ELSE Store(WriteFlags(c, BtFlags(bit)), dst,
               Of(dst.size, [i \in Inputs |-> x[i] + (NewBit(kind, bit[i]) - bit[i]) * 2^n[i]]))
BitsOf(x, n) == [i \in Inputs |-> BitOf(x[i], n[i])]
BtAt(c, kind, dst, x, n) == PutBit(c, kind, dst, x, n, BitsOf(x, n))
ExecBt(c, kind, dst, src) ==
    BtAt(c, kind, dst, Nums(Load(c, dst)), [i \in Inputs |-> Num(Load(c, src), i) % (dst.size * CharBit)])

ExecLea(c, dst, m) == Store(c, dst, Of(dst.size, [i \in Inputs |-> Address(c, m, i)]))

ExecXchg(c, dst, src) == Store(Store(c, dst, Load(c, src)), src, Load(c, dst))

ExecXadd(c, dst, src) ==
    Put(Store(c, src, Load(c, dst)), dst, AddSub("Add", Load(c, dst), Load(c, src), BConst(0)))

(* A register moves by n. *)
Advance(c, r, n) ==
    Store(c, Full(r), Of(8, [i \in Inputs |-> RegNum(c, r, i) + n]))

ExecPush(c, slot, src) == Advance(Store(c, slot, Load(c, src)), "RSP", -8)
ExecPop(c, slot, dst) == Advance(Store(c, dst, Load(c, slot)), "RSP", 8)
ExecLeave(c) ==
    Advance(Store(Store(c, Full("RSP"), Load(c, Full("RBP"))), Full("RBP"), Load(c, At("RBP", 8))), "RSP", 8)

(* A repeated string instruction counts RCX down. *)
Repeat(c, rep) == IF rep THEN Advance(c, "RCX", -1) ELSE c
ExecMovs(c, dst, src, rep) ==
    Advance(Advance(Repeat(Store(c, dst, Load(c, src)), rep), "RSI", dst.size), "RDI", dst.size)
ExecStos(c, dst, src, rep) == Advance(Repeat(Store(c, dst, Load(c, src)), rep), "RDI", dst.size)
ExecScas(c, ax, m) == Advance(ExecBinary(c, "Sub", ax, m, FALSE), "RDI", m.size)
ExecCmps(c, a, b) ==
    Advance(Advance(ExecBinary(c, "Sub", a, b, FALSE), "RSI", a.size), "RDI", a.size)

ExecCmov(c, dst, src, jcc, inv) ==
    Store(c, dst, Ite([i \in Inputs |-> AsBool(Taken(c, jcc, inv, i))], Load(c, src), Load(c, dst)))
ExecSet(c, dst, jcc, inv) ==
    Store(c, dst, Of(1, [i \in Inputs |-> AsBool(Taken(c, jcc, inv, i))]))

(* CMPXCHG; only the register that changes is written *)
PutEqual(c, dst, src, ax, x, a, equal) ==
    Store(Store(WriteFlags(c, AddSub("Sub", a, x, BConst(0)).flags), dst, Ite(equal, Load(c, src), x)),
          ax, Ite(equal, a, x))
CompareExchange(c, dst, src, ax, x, a) ==
    PutEqual(c, dst, src, ax, x, a, [i \in Inputs |-> AsBool(Num(x, i) = Num(a, i))])
ExecCmpxchg(c, dst, src, ax) == CompareExchange(c, dst, src, ax, Load(c, dst), Load(c, ax))

-----------------------------------------------------------------------------
(* SSE: a lane is an element of width bytes; F gives its number from those  *)
(* of the operands in one run.                                              *)

Lanes(a, b, width, F(_, _)) ==
    Join([k \in DOMAIN Elements(a, width) |->
            Of(width, [i \in Inputs |-> F(Num(Elements(a, width)[k], i), Num(Elements(b, width)[k], i))])])

(* Saturation of a signed number to a signed or unsigned one *)
Saturate(x, lo, hi) == IF x < lo THEN lo ELSE IF x > hi THEN hi ELSE x
PackLanes(a, b, width, signed) ==
    LET es == Elements(a \o b, 2 * width)
        n == 2^(width * CharBit)
    IN  Join([k \in DOMAIN es |-> Of(width, [i \in Inputs |->
            IF signed THEN Saturate(SNum(es[k], i), -(n \div 2), n \div 2 - 1)
            ELSE Saturate(SNum(es[k], i), 0, n - 1)])])

(* PMADDWD: sums of neighbouring signed products *)
MaddLanes(a, b) ==
    LET x == Elements(a, 2)
        y == Elements(b, 2)
    IN  Join([k \in 1..(Len(x) \div 2) |-> Of(4, [i \in Inputs |->
            SNum(x[2 * k - 1], i) * SNum(y[2 * k - 1], i) + SNum(x[2 * k], i) * SNum(y[2 * k], i)])])

(* PUNPCK: elements of the low or the high halves, by turns *)
Interleave(a, b, width, high) ==
    LET x == Elements(a, width)
        y == Elements(b, width)
        from == IF high THEN Len(x) \div 2 ELSE 0
    IN  Join([k \in 1..Len(x) |->
            IF k % 2 = 1 THEN x[from + (k + 1) \div 2] ELSE y[from + k \div 2]])

(* PSHUFD, PSHUFLW, PSHUFHW: order is a function on the elements of src *)
Shuffle(e, width, order) == Join([k \in DOMAIN order |-> Elements(e, width)[order[k]]])

(* PSHUFB: a byte with its highest bit set gives zero, another selects *)
ShuffleBytes(a, b) ==
    [k \in DOMAIN a |-> [i \in Inputs |->
        LET top == 2^(CharBit - 1)
        IN  IF b[k][i] >= top THEN 0 ELSE a[1 + (b[k][i] % 16)][i]]]

(* PMOVMSKB *)
MaskOf(e, size) ==
    Of(size, [i \in Inputs |->
        LET sum[k \in 0..Len(e)] == IF k = 0 THEN 0
                                    ELSE sum[k - 1] + BitOf(e[k][i], CharBit - 1) * 2^(k - 1)
        IN  sum[Len(e)]])

(* A value that does not depend on the input *)
ExecSetConcrete(c, dst) == Store(c, dst, Constant(1, dst.size))
=============================================================================
