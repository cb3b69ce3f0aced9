----------------------------- MODULE BitVectors -----------------------------
(***************************************************************************)
(* The bit-vector expressions of pintool/expr.h, by what they evaluate to. *)
(* An expression is the sequence of its bytes, the lowest first; a byte is *)
(* its value under every assignment of the input (Inputs).  Booleans are   *)
(* 0 and 1 under every assignment.  Bytes have CharBit bits, so that a     *)
(* 64-bit register is small enough for arithmetic on integers.             *)
(***************************************************************************)
EXTENDS Integers, Sequences, Bitwise

CONSTANTS
    CharBit,    \* CHAR_BIT
    Inputs      \* the assignments to the symbolic input

ASSUME BitVectorsAssumption == CharBit \in Nat \ {0} /\ Inputs # {}

Byte == 0..2^CharBit - 1

Bits(e) == Len(e) * CharBit

(* The value of the low n bytes of e under input i *)
NumOf(e, n, i) ==
    LET num[k \in 0..n] == IF k = 0 THEN 0
                           ELSE num[k - 1] + e[k][i] * 2^(CharBit * (k - 1))
    IN  num[n]

Num(e, i) == NumOf(e, Len(e), i)

(* ... as a signed number *)
AsSigned(n, bits) == IF n >= 2^(bits - 1) THEN n - 2^bits ELSE n
SNum(e, i) == AsSigned(Num(e, i), Bits(e))

(* The expression of size bytes that has the values f, cut to its width *)
Of(size, f) ==
    [k \in 1..size |->
        [i \in Inputs |-> (f[i] \div 2^(CharBit * (k - 1))) % 2^CharBit]]

(* createConstant *)
Constant(n, size) == Of(size, [i \in Inputs |-> n])

(* A value is constant if no input changes it: isConcrete *)
IsConstant(e) == \A k \in DOMAIN e : \A i, j \in Inputs : e[k][i] = e[k][j]

(* createExtract(e, from, size) at byte boundaries; createConcat(h, l) is    *)
(* l \o h.                                                                  *)
Extract(e, from, size) == SubSeq(e, from + 1, from + size)

(* createZExt and createSExt; both leave e alone if it is wide enough *)
ZExt(e, size) == IF Len(e) >= size THEN e ELSE Of(size, [i \in Inputs |-> Num(e, i)])
SExt(e, size) == IF Len(e) >= size THEN e ELSE Of(size, [i \in Inputs |-> SNum(e, i)])

Abs(x) == IF x < 0 THEN -x ELSE x
Truncate(x, y) == IF (x < 0) = (y < 0) THEN Abs(x) \div Abs(y) ELSE -(Abs(x) \div Abs(y))

(* SDiv rounds to zero, SRem has the sign of the dividend; a division by    *)
(* zero is all ones, its remainder the dividend.                            *)
SDivide(x, y) == IF y = 0 THEN -1 ELSE Truncate(x, y)
SRemainder(x, y) == IF y = 0 THEN x ELSE x - y * Truncate(x, y)

ShiftLeft(x, n, bits) == IF n >= bits THEN 0 ELSE (x % 2^(bits - n)) * 2^n
ShiftRight(x, n, bits) == IF n >= bits THEN (IF x < 0 THEN -1 ELSE 0) ELSE x \div 2^n

(* The arithmetic operators: x and y are unsigned, of the given width *)
Arithmetic(kind, x, y, bits) ==
    CASE kind = "Add" -> x + y
      [] kind = "Sub" -> x - y
      [] kind = "Mul" -> x * y
      [] kind = "UDiv" -> IF y = 0 THEN -1 ELSE x \div y
      [] kind = "URem" -> IF y = 0 THEN x ELSE x % y
      [] kind = "SDiv" -> SDivide(AsSigned(x, bits), AsSigned(y, bits))
      [] kind = "SRem" -> SRemainder(AsSigned(x, bits), AsSigned(y, bits))
      [] kind = "Shl" -> ShiftLeft(x, y, bits)
      [] kind = "LShr" -> ShiftRight(x, y, bits)
      [] kind = "AShr" -> ShiftRight(AsSigned(x, bits), y, bits)

(* The bitwise operators, on bytes *)
Logical(kind, x, y) ==
    CASE kind = "And" -> x & y [] kind = "Or" -> x | y [] kind = "Xor" -> x ^^ y

Holds(kind, x, y, bits) ==
    LET sx == AsSigned(x, bits)
        sy == AsSigned(y, bits)
    IN  CASE kind = "Equal" -> x = y
          [] kind = "Distinct" -> x # y
          [] kind = "Ult" -> x < y
          [] kind = "Ule" -> x <= y
          [] kind = "Ugt" -> x > y
          [] kind = "Uge" -> x >= y
          [] kind = "Slt" -> sx < sy
          [] kind = "Sle" -> sx <= sy
          [] kind = "Sgt" -> sx > sy
          [] kind = "Sge" -> sx >= sy

AsBool(b) == IF b THEN 1 ELSE 0

(* createBinaryExpr; the bitwise operators go byte by byte *)
Binary(kind, a, b) ==
    IF kind \in {"And", "Or", "Xor"}
    THEN [k \in DOMAIN a |-> [i \in Inputs |-> Logical(kind, a[k][i], b[k][i])]]
    ELSE Of(Len(a), [i \in Inputs |-> Arithmetic(kind, Num(a, i), Num(b, i), Bits(a))])
Compare(kind, a, b) ==
    [i \in Inputs |-> AsBool(Holds(kind, Num(a, i), Num(b, i), Bits(a)))]

(* createShl, createLShr by n whole bytes, for expressions of any size *)
ShlBytes(e, n) == [k \in DOMAIN e |-> IF k > n THEN e[k - n] ELSE [i \in Inputs |-> 0]]
LShrBytes(e, n) == [k \in DOMAIN e |-> IF k + n <= Len(e) THEN e[k + n] ELSE [i \in Inputs |-> 0]]

(* createNeg, createNot *)
Unary(kind, a) ==
    IF kind = "Not" THEN [k \in DOMAIN a |-> [i \in Inputs |-> 2^CharBit - 1 - a[k][i]]]
    ELSE Of(Len(a), [i \in Inputs |-> -Num(a, i)])

(* createIte *)
Ite(c, a, b) == [k \in DOMAIN a |-> [i \in Inputs |-> IF c[i] = 1 THEN a[k][i] ELSE b[k][i]]]

(* createExtract(e, n, 1), createMsb, createLsb *)
Bit(e, n) == [i \in Inputs |-> (e[(n \div CharBit) + 1][i] \div 2^(n % CharBit)) % 2]
Msb(e) == Bit(e, Bits(e) - 1)
Lsb(e) == Bit(e, 0)

(* boolToBit *)
BoolToBit(b, size) == Of(size, b)

(* Boolean connectives *)
BNot(b) == [i \in Inputs |-> 1 - b[i]]
BAnd(b, c) == [i \in Inputs |-> b[i] * c[i]]
BOr(b, c) == [i \in Inputs |-> AsBool(b[i] + c[i] > 0)]
BXor(b, c) == [i \in Inputs |-> (b[i] + c[i]) % 2]
BConst(n) == [i \in Inputs |-> n]

Zero(e) == [i \in Inputs |-> AsBool(\A k \in DOMAIN e : e[k][i] = 0)]

(* Even parity of the low byte *)
RECURSIVE OnesOf(_)
OnesOf(n) == IF n = 0 THEN 0 ELSE (n % 2) + OnesOf(n \div 2)
Parity(e) == [i \in Inputs |-> 1 - (OnesOf(e[1][i]) % 2)]

(* The elements of width bytes of e, the lowest first, and back *)
Elements(e, width) == [k \in 1..(Len(e) \div width) |-> Extract(e, (k - 1) * width, width)]
RECURSIVE Join(_)
Join(es) == IF es = <<>> THEN <<>> ELSE Head(es) \o Join(Tail(es))
=============================================================================
