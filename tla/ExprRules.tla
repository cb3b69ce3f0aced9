----------------------------- MODULE ExprRules ------------------------------
(***************************************************************************)
(* The expression builders of pintool/codegen/expr_builder.cpp, and what   *)
(* codegen/gen_expr_builder.py generates for them.  The builders form a    *)
(* chain; each rewrites what it is asked to create, asks itself or the     *)
(* next one for parts, or passes the request on.                           *)
(*                                                                         *)
(* An expression is a tree.  A request is the node that BaseExprBuilder    *)
(* would make of it: its kind, width, operands and, for Extract, index.    *)
(* Equal trees are one object, which the cache sees to (module ExprCache). *)
(***************************************************************************)
EXTENDS BitVectors

LOCAL INSTANCE SequencesExt

ReadBits == CharBit

Node(kind, bits, args, val) == [kind |-> kind, bits |-> bits, args |-> args, val |-> val]

(* Constant, Bool and Read: val is the value, or the offset in the input *)
Const(n, bits) == Node("Constant", bits, <<>>, n % 2^bits)
Bool(b) == Node("Bool", 1, <<>>, AsBool(b))
Read(off) == Node("Read", ReadBits, <<>>, off)

Comparison == {"Equal", "Distinct", "Ult", "Ule", "Ugt", "Uge", "Slt", "Sle", "Sgt", "Sge"}
Connective == {"LAnd", "LOr", "LNot"}
IsBool(kind) == kind \in Comparison \cup Connective \cup {"Bool"}

(* Requests: createAdd(l, r), createNot(e), createExtract(e, index, bits) ... *)
Two(kind, l, r) ==
    Node(kind, CASE kind = "Concat" -> l.bits + r.bits [] IsBool(kind) -> 1 [] OTHER -> l.bits, <<l, r>>, 0)
One(kind, e) == Node(kind, e.bits, <<e>>, 0)
Cut(e, index, bits) == Node("Extract", bits, <<e>>, index)
Widen(kind, e, bits) == Node(kind, bits, <<e>>, 0)
Choice(c, t, f) == Node("Ite", t.bits, <<c, t, f>>, 0)

-----------------------------------------------------------------------------
(* The value of e when the input is i: toZ3ExprRecursively.                  *)
InputByteAt(off, i) == (i \div 2^(ReadBits * off)) % 2^ReadBits

RECURSIVE Value(_, _)
Value(e, i) ==
    LET arg(k) == Value(e.args[k], i)
        width == e.args[1].bits
    IN  CASE e.kind \in {"Constant", "Bool"} -> e.val
          [] e.kind = "Read" -> InputByteAt(e.val, i)
          [] e.kind = "Concat" -> arg(1) * 2^(e.args[2].bits) + arg(2)
          [] e.kind = "Extract" -> (arg(1) \div 2^e.val) % 2^e.bits
          [] e.kind = "ZExt" -> arg(1) % 2^e.bits
          [] e.kind = "SExt" -> AsSigned(arg(1), width) % 2^e.bits
          [] e.kind = "Neg" -> (-arg(1)) % 2^e.bits
          [] e.kind = "Not" -> 2^e.bits - 1 - arg(1)
          [] e.kind \in {"And", "Or", "Xor"} -> Logical(e.kind, arg(1), arg(2))
          [] e.kind \in Comparison -> AsBool(Holds(e.kind, arg(1), arg(2), width))
          [] e.kind = "LAnd" -> arg(1) * arg(2)
          [] e.kind = "LOr" -> AsBool(arg(1) + arg(2) > 0)
          [] e.kind = "LNot" -> 1 - arg(1)
          [] e.kind = "Ite" -> IF arg(1) = 1 THEN arg(2) ELSE arg(3)
          [] OTHER -> Arithmetic(e.kind, arg(1), arg(2), width) % 2^e.bits

(* What the classes of expr.h assert of a node *)
NodeOK(e) ==
    LET bits(k) == e.args[k].bits
    IN  CASE e.kind \in {"Constant", "Bool", "Read"} -> TRUE
          [] e.kind = "Concat" -> e.bits = bits(1) + bits(2)
          [] e.kind = "Extract" -> e.bits > 0 /\ e.val >= 0 /\ e.val + e.bits <= bits(1)
          [] e.kind \in {"ZExt", "SExt"} -> e.bits > bits(1)
          [] e.kind = "Ite" -> bits(2) = bits(3) /\ IsBool(e.args[1].kind)
          [] Len(e.args) = 1 -> TRUE
          [] OTHER -> bits(1) = bits(2)
RECURSIVE NodesOf(_)
NodesOf(e) == {e} \cup UNION {NodesOf(e.args[k]) : k \in DOMAIN e.args}

-----------------------------------------------------------------------------
IsConst(e) == e.kind = "Constant"
IsZero(e) == IsConst(e) /\ e.val = 0
IsOne(e) == IsConst(e) /\ e.val = 1
IsAllOnes(e) == IsConst(e) /\ e.val = 2^e.bits - 1
IsExt(e) == e.kind \in {"ZExt", "SExt"}

(* isZeroBit: the bit is known to be zero *)
RECURSIVE IsZeroBit(_, _)
IsZeroBit(e, n) ==
    CASE IsConst(e) -> (e.val \div 2^n) % 2 = 0
      [] e.kind = "Concat" ->
            LET right == e.args[2]
            IN  IF right.bits <= n THEN IsZeroBit(e.args[1], n - right.bits) ELSE IsZeroBit(right, n)
      [] OTHER -> FALSE

ActiveBits(e) == CHOOSE n \in 0..e.bits : e.val < 2^n /\ \A m \in 0..(n - 1) : e.val >= 2^m

RECURSIVE CountLeadingZeros(_)
CountLeadingZeros(e) ==
    CASE IsConst(e) -> e.bits - ActiveBits(e)
      [] e.kind = "Concat" ->
            LET left == CountLeadingZeros(e.args[1])
            IN  IF left = e.args[1].bits THEN left + CountLeadingZeros(e.args[2]) ELSE left
      [] e.kind = "ZExt" -> e.bits - e.args[1].bits
      [] OTHER -> 0

-----------------------------------------------------------------------------
(* A builder and those after it: a rule calls create functions of its own    *)
(* builder (Create) or leaves the request to the next one (Forward).         *)
Builder(chain, interesting, input) == [chain |-> chain, interesting |-> interesting, input |-> input]

RECURSIVE Create(_, _)
Forward(self, q) == Create([self EXCEPT !.chain = Tail(@)], q)

-----------------------------------------------------------------------------
(* CommutativeExprBuilder: a constant goes to the left. *)
Commutes == {"Add", "Mul", "And", "Or", "Xor", "LAnd", "LOr"} \cup Comparison
SwapKind(kind) ==
    CASE kind = "Ult" -> "Ugt" [] kind = "Ule" -> "Uge" [] kind = "Ugt" -> "Ult" [] kind = "Uge" -> "Ule"
      [] kind = "Slt" -> "Sgt" [] kind = "Sle" -> "Sge" [] kind = "Sgt" -> "Slt" [] kind = "Sge" -> "Sle"
      [] OTHER -> kind

(* Mutant: a comparison is swapped and keeps its kind. *)
CommutativeKeepKind(q, self) ==
    IF q.kind \in Commutes /\ ~IsConst(q.args[1]) /\ IsConst(q.args[2])
    THEN Create(self, Two(q.kind, q.args[2], q.args[1]))
    ELSE Forward(self, q)

Commutative(q, self) ==
    IF Len(q.args) = 2 /\ ~IsConst(q.args[1]) /\ IsConst(q.args[2])
    THEN CASE q.kind \in Commutes -> Create(self, Two(SwapKind(q.kind), q.args[2], q.args[1]))
           [] q.kind = "Sub" -> Create(self, Two("Add", Create(self, One("Neg", q.args[2])), q.args[1]))
           [] OTHER -> Forward(self, q)
    ELSE Forward(self, q)

-----------------------------------------------------------------------------
(* CommonSimplifyExprBuilder *)
None == Node("None", 0, <<>>, 0)

CommonConcat(q, self) ==
    LET l == q.args[1]
        r == q.args[2]
    IN  CASE l.kind = "Extract" /\ r.kind = "Extract" /\ l.args = r.args /\ r.val + r.bits = l.val ->
                Create(self, Cut(l.args[1], r.val, r.bits + l.bits))
          [] l.kind = "Extract" /\ IsExt(l.args[1]) /\ l.val = r.bits /\ l.args[1].args[1] = r ->
                Create(self, Cut(l.args[1], 0, l.bits + r.bits))
          [] OTHER -> Forward(self, q)

CommonExtract(q, self) ==
    LET e == q.args[1]
        left == e.args[1]
        right == e.args[2]
        rest == IF q.val = 0 /\ e.bits = q.bits THEN e ELSE Forward(self, q)
    IN  CASE e.kind = "Concat" ->
                CASE q.val >= right.bits -> Create(self, Cut(left, q.val - right.bits, q.bits))
                  [] q.val + q.bits <= right.bits -> Create(self, Cut(right, q.val, q.bits))
                  [] q.val < right.bits /\ q.val + q.bits > right.bits /\ IsConst(left) ->
                        Create(self, Two("Concat", Create(self, Cut(left, 0, q.bits - right.bits + q.val)),
                                           Create(self, Cut(right, q.val, right.bits - q.val))))
                  [] OTHER -> rest
          [] IsExt(e) /\ left.bits >= q.val + q.bits -> Create(self, Cut(left, q.val, q.bits))
          [] e.kind = "ZExt" /\ q.val >= left.bits -> Const(0, q.bits)
          [] e.kind = "Extract" -> Create(self, Cut(left, e.val + q.val, q.bits))
          [] OTHER -> rest

CommonZExt(q, self) ==
    LET e == q.args[1]
    IN  CASE e.bits > q.bits -> Create(self, Cut(e, 0, q.bits))
          [] e.bits = q.bits -> e
          [] OTHER -> Forward(self, q)

CommonAdd(q, self) == IF IsZero(q.args[1]) THEN q.args[2] ELSE Forward(self, q)

CommonMul(q, self) ==
    CASE IsZero(q.args[1]) -> q.args[1]
      [] IsOne(q.args[1]) -> q.args[2]
      [] OTHER -> Forward(self, q)

(* simplifyAnd, simplifyOr, simplifyXor: None if there is nothing to gain *)
SimplifyBits(kind, l, r) ==
    CASE IsZero(l) -> IF kind = "And" THEN l ELSE r
      [] IsAllOnes(l) /\ kind # "Xor" -> IF kind = "And" THEN r ELSE l
      [] OTHER -> None

(* createAnd, createOr, createXor: 0x00ff0000 & 0xaabbccdd = 0x00bb0000 *)
CommonBits(q, self) ==
    LET l == q.args[1]
        r == q.args[2]
        simple == SimplifyBits(q.kind, l, r)
        low == r.args[2]
        high == SimplifyBits(q.kind, Create(self, Cut(l, low.bits, r.args[1].bits)), r.args[1])
    IN  CASE simple # None -> simple
          [] simple = None /\ IsConst(l) /\ r.kind = "Concat" /\ high # None ->
                Create(self, Two("Concat", high, Create(self, Two(q.kind, Create(self, Cut(l, 0, low.bits)), low))))
          [] OTHER -> Forward(self, q)

(* createShl and createLShr by a constant: by bytes, they move the operand *)
CommonShift(q, self) ==
    LET l == q.args[1]
        n == q.args[2].val
        zero == Const(0, n)
    IN  IF IsZero(l) THEN l
        ELSE IF ~IsConst(q.args[2]) THEN Forward(self, q)
        ELSE CASE n = 0 -> l
               [] n >= l.bits -> Const(0, l.bits)
               [] n \in 1..(l.bits - 1) /\ n % CharBit = 0 ->
                    IF q.kind = "Shl"
                    THEN Create(self, Two("Concat", Create(self, Cut(l, 0, l.bits - n)), zero))
                    ELSE Create(self, Two("Concat", zero, Create(self, Cut(l, n, l.bits - n))))
               [] OTHER -> Forward(self, q)

CommonAShr(q, self) == IF IsZero(q.args[2]) THEN q.args[1] ELSE Forward(self, q)

CommonEqual(q, self) ==
    IF q.args[1].kind # "Bool" THEN Forward(self, q)
    ELSE IF q.args[1].val = 1 THEN q.args[2] ELSE Create(self, One("LNot", q.args[2]))

Common(q, self) ==
    CASE q.kind = "Concat" -> CommonConcat(q, self)
      [] q.kind = "Extract" -> CommonExtract(q, self)
      [] q.kind = "ZExt" -> CommonZExt(q, self)
      [] q.kind = "Add" -> CommonAdd(q, self)
      [] q.kind = "Mul" -> CommonMul(q, self)
      [] q.kind \in {"And", "Or", "Xor"} -> CommonBits(q, self)
      [] q.kind \in {"Shl", "LShr"} -> CommonShift(q, self)
      [] q.kind = "AShr" -> CommonAShr(q, self)
      [] q.kind = "Equal" -> CommonEqual(q, self)
      [] OTHER -> Forward(self, q)

-----------------------------------------------------------------------------
(* ConstantFoldingExprBuilder.  llvm::APInt computes what z3 would. *)
Folded(q) ==
    LET n == Value(q, CHOOSE i \in Inputs : TRUE)
    IN  IF IsBool(q.kind) THEN Bool(n = 1) ELSE Const(n, q.bits)

Folding(q, self) ==
    LET all(kind) == \A k \in DOMAIN q.args : q.args[k].kind = kind
    IN  CASE q.kind = "Ite" -> IF q.args[1].kind # "Bool" THEN Forward(self, q)
                               ELSE IF q.args[1].val = 1 THEN q.args[2] ELSE q.args[3]
          [] q.kind \in Connective -> IF all("Bool") THEN Folded(q) ELSE Forward(self, q)
          [] q.kind \in {"Equal", "Distinct"} /\ all("Bool") -> Folded(q)
          [] q.kind \notin Connective \cup {"Ite"} /\ all("Constant") -> Folded(q)
          [] OTHER -> Forward(self, q)

-----------------------------------------------------------------------------
(* SymbolicExprBuilder *)

(* canEvaluateTruncated: the operands are asked about with 1 for bits. *)
RECURSIVE CanEvaluateTruncated(_, _)
CanEvaluateTruncated(e, bits) ==
    LET operands == CanEvaluateTruncated(e.args[1], 1) /\ CanEvaluateTruncated(e.args[2], 1)
    IN  CASE e.kind = "Mul" -> operands
          [] e.kind \in {"UDiv", "URem"} ->
                /\ \A k \in 1..2 : CountLeadingZeros(e.args[k]) >= e.bits - bits
                /\ operands
          [] OTHER -> e.kind \in {"ZExt", "SExt", "Constant", "Concat"}

(* ... and evaluateInDifferentType *)
SymbolicExtract(q, self) ==
    LET e == q.args[1]
        cut(k) == Create(self, Cut(e.args[k], q.val, q.bits))
    IN  IF /\ q.val = 0 /\ q.bits % CharBit = 0
           /\ e.kind \in {"Mul", "UDiv", "URem"} /\ CanEvaluateTruncated(e, q.bits)
        THEN Create(self, Two(e.kind, cut(1), cut(2)))
        ELSE Forward(self, q)

SymbolicConcat(q, self) ==
    LET l == q.args[1]
        r == q.args[2]
    IN  IF r.kind = "Concat" /\ IsConst(l) /\ IsConst(r.args[1])
        THEN Create(self, Two("Concat", Create(self, Two("Concat", l, r.args[1])), r.args[2]))
        ELSE IF l.kind = "Concat"
        THEN Create(self, Two("Concat", l.args[1], Create(self, Two("Concat", l.args[2], r))))
        ELSE Forward(self, q)

(* simplifyExclusiveExpr: no bit can be set in both, so l and r are cut     *)
(* where the one or the other is zero.                                      *)
Exclusive(l, r) == \A n \in 0..(l.bits - 1) : IsZeroBit(l, n) \/ IsZeroBit(r, n)

ZeroUntil(e, n) ==
    CHOOSE m \in n..e.bits : /\ \A k \in n..(m - 1) : IsZeroBit(e, k)
                             /\ m < e.bits => ~IsZeroBit(e, m)

RECURSIVE Slices(_, _, _)
Slices(l, r, n) ==
    LET m == ZeroUntil(l, n)
        k == ZeroUntil(r, m)
    IN  IF n >= l.bits THEN <<>>
        ELSE Slices(l, r, k) \o SelectSeq(<<Cut(l, m, k - m), Cut(r, n, m - n)>>, LAMBDA q : q.bits # 0)

SimplifyExclusive(l, r, self) ==
    LET es == Slices(l, r, 0)
    IN  FoldLeft(LAMBDA e, slice : Create(self, Two("Concat", e, Create(self, slice))), Create(self, Head(es)), Tail(es))

(* A sum or a difference by its constant operand: createAdd, createSub       *)
LeftConst(e) == IsConst(e.args[1])
RightConst(e) == IsConst(e.args[2])

SymbolicAddConst(q, self) ==
    LET l == q.args[1]
        r == q.args[2]
        add(a, b) == Create(self, Two("Add", a, b))
        sub(a, b) == Create(self, Two("Sub", a, b))
    IN  IF r.kind = "Add" /\ LeftConst(r) THEN add(add(l, r.args[1]), r.args[2])
        ELSE IF r.kind = "Add" /\ RightConst(r) THEN add(add(l, r.args[2]), r.args[1])
        ELSE IF r.kind = "Sub" /\ LeftConst(r) THEN sub(add(l, r.args[1]), r.args[2])
        ELSE IF r.kind = "Sub" /\ RightConst(r) THEN add(sub(l, r.args[2]), r.args[1])
        ELSE Forward(self, q)

SymbolicAddNonConst(q, self) ==
    LET swap == q.args[1].kind \in {"Add", "Sub"}
        l == IF swap THEN q.args[2] ELSE q.args[1]
        r == IF swap THEN q.args[1] ELSE q.args[2]
        add(a, b) == Create(self, Two("Add", a, b))
        sub(a, b) == Create(self, Two("Sub", a, b))
    IN  IF l = r THEN Create(self, Two("Mul", Const(2, l.bits), l))
        ELSE IF r.kind = "Add" /\ LeftConst(r) THEN add(r.args[1], add(l, r.args[2]))
        ELSE IF r.kind = "Add" /\ RightConst(r) THEN add(r.args[2], add(l, r.args[1]))
        ELSE IF r.kind = "Sub" /\ LeftConst(r) THEN add(r.args[1], sub(l, r.args[2]))
        ELSE IF r.kind = "Sub" /\ RightConst(r) THEN add(Create(self, One("Neg", r.args[2])), add(l, r.args[1]))
        ELSE Forward(self, Two("Add", l, r))

SymbolicAdd(q, self) ==
    CASE Exclusive(q.args[1], q.args[2]) -> SimplifyExclusive(q.args[1], q.args[2], self)
      [] ~Exclusive(q.args[1], q.args[2]) /\ ~IsConst(q.args[2]) ->
            IF IsConst(q.args[1]) THEN SymbolicAddConst(q, self) ELSE SymbolicAddNonConst(q, self)
      [] OTHER -> Forward(self, q)

SymbolicSubConst(q, self) ==
    LET l == q.args[1]
        r == q.args[2]
        add(a, b) == Create(self, Two("Add", a, b))
        sub(a, b) == Create(self, Two("Sub", a, b))
    IN  IF r.kind = "Add" /\ LeftConst(r) THEN sub(sub(l, r.args[1]), r.args[2])
        ELSE IF r.kind = "Add" /\ RightConst(r) THEN sub(sub(l, r.args[2]), r.args[1])
        ELSE IF r.kind = "Sub" /\ LeftConst(r) THEN add(sub(l, r.args[1]), r.args[2])
        ELSE IF r.kind = "Sub" /\ RightConst(r) THEN sub(add(l, r.args[2]), r.args[1])
        ELSE Forward(self, q)

SymbolicSubNonConst(q, self) ==
    LET l == q.args[1]
        r == q.args[2]
        add(a, b) == Create(self, Two("Add", a, b))
        sub(a, b) == Create(self, Two("Sub", a, b))
        neg(a) == Create(self, One("Neg", a))
    IN  IF l = r THEN Const(0, l.bits)
        ELSE IF l.kind = "Add" /\ LeftConst(l) THEN add(l.args[1], sub(l.args[2], r))
        ELSE IF l.kind = "Sub" /\ LeftConst(l) THEN sub(l.args[1], add(l.args[2], r))
        ELSE IF r.kind = "Add" /\ LeftConst(r) THEN add(neg(r.args[1]), sub(l, r.args[2]))
        ELSE IF r.kind = "Add" /\ RightConst(r) THEN add(neg(r.args[2]), sub(l, r.args[1]))
        ELSE IF r.kind = "Sub" /\ LeftConst(r) THEN add(neg(r.args[1]), add(l, r.args[2]))
        ELSE IF r.kind = "Sub" /\ RightConst(r) THEN add(r.args[2], sub(l, r.args[1]))
        ELSE Forward(self, q)

SymbolicSub(q, self) ==
    IF IsConst(q.args[2]) THEN Forward(self, q)
    ELSE IF IsConst(q.args[1]) THEN SymbolicSubConst(q, self) ELSE SymbolicSubNonConst(q, self)

SymbolicMul(q, self) ==
    LET l == q.args[1]
        r == q.args[2]
        mul(a, b) == Create(self, Two("Mul", a, b))
    IN  IF IsConst(l) /\ r.kind = "Mul" /\ LeftConst(r) THEN mul(mul(l, r.args[1]), r.args[2])
        ELSE IF IsConst(l) /\ r.kind = "Add" /\ LeftConst(r)
        THEN Create(self, Two("Add", mul(l, r.args[1]), mul(l, r.args[2])))
        ELSE Forward(self, q)

(* createSDiv, createUDiv by a constant *)
SymbolicSDiv(q, self) ==
    LET l == q.args[1]
        r == q.args[2]
        x == l.args[1]
    IN  IF IsConst(l) \/ ~IsConst(r) THEN Forward(self, q)
        ELSE IF IsAllOnes(r) THEN Create(self, One("Neg", l))
        ELSE IF l.kind = "SExt" /\ x.bits >= ActiveBits(r)
        THEN Create(self, Widen("SExt", Create(self, Two("SDiv", x, Create(self, Cut(r, 0, x.bits)))), l.bits))
        ELSE IF l.kind = "SDiv" /\ RightConst(l)
        THEN Create(self, Two("SDiv", x, Create(self, Two("Mul", l.args[2], r))))
        ELSE Forward(self, q)

(* Mutant: the divisor is not cut to the width of the dividend. *)
SymbolicUDivUncut(q, self) ==
    IF q.args[1].kind = "Concat" /\ IsZero(q.args[1].args[1]) /\ IsConst(q.args[2])
    THEN Create(self, Two("Concat", q.args[1].args[1], Create(self, Two("UDiv", q.args[1].args[2], q.args[2]))))
    ELSE Forward(self, q)

SymbolicUDiv(q, self) ==
    LET l == q.args[1]
        r == q.args[2]
        x == l.args[2]
    IN  IF IsConst(l) \/ ~IsConst(r) THEN Forward(self, q)
        ELSE IF l.kind = "Concat" /\ IsZero(l.args[1]) /\ ActiveBits(r) <= x.bits
        THEN Create(self, Two("Concat", l.args[1], Create(self, Two("UDiv", x, Create(self, Cut(r, 0, x.bits))))))
        ELSE IF l.kind = "UDiv" /\ RightConst(l)
        THEN Create(self, Two("UDiv", l.args[1], Create(self, Two("Mul", x, r))))
        ELSE Forward(self, q)

(* C(x, y) & C(w, v) is C(x & w, y & v) *)
ByHalves(q, self) ==
    LET half(k) == Create(self, Two(q.kind, q.args[1].args[k], q.args[2].args[k]))
    IN  Create(self, Two("Concat", half(1), half(2)))
SameHalves(l, r) == l.kind = "Concat" /\ r.kind = "Concat" /\ l.args[1].bits = r.args[1].bits

SymbolicAnd(q, self) ==
    LET l == q.args[1]
        r == q.args[2]
    IN  IF IsConst(l) \/ IsConst(r) THEN Forward(self, q)
        ELSE IF l = r THEN l
        ELSE IF SameHalves(l, r) THEN ByHalves(q, self)
        ELSE Forward(self, q)

SymbolicOr(q, self) ==
    LET l == q.args[1]
        r == q.args[2]
        part(k, index) == Create(self, Two("Or", Create(self, Cut(l, index, r.args[k].bits)), r.args[k]))
    IN  IF Exclusive(l, r) THEN SimplifyExclusive(l, r, self)
        ELSE IF IsConst(r) THEN Forward(self, q)
        ELSE IF IsConst(l)
        THEN IF r.kind = "Concat" THEN Create(self, Two("Concat", part(1, r.args[2].bits), part(2, 0))) ELSE Forward(self, q)
        ELSE IF l = r THEN l
        ELSE IF SameHalves(l, r) THEN ByHalves(q, self)
        ELSE Forward(self, q)

SymbolicXor(q, self) ==
    IF ~IsConst(q.args[1]) /\ q.args[1] = q.args[2] THEN Const(0, q.bits) ELSE Forward(self, q)

SymbolicEqual(q, self) == IF q.args[1] = q.args[2] THEN Bool(TRUE) ELSE Forward(self, q)

SymbolicDistinct(q, self) == Create(self, One("LNot", Create(self, Two("Equal", q.args[1], q.args[2]))))

(* createLOr and createLAnd: the absorbing value of the one is 1, of the other 0 *)
SymbolicLogical(q, self) ==
    LET l == q.args[1]
        r == q.args[2]
        absorbing(e) == e.val = AsBool(q.kind = "LOr")
    IN  IF l.kind = "Bool" THEN (IF absorbing(l) THEN l ELSE r)
        ELSE IF r.kind = "Bool" THEN (IF absorbing(r) THEN r ELSE l)
        ELSE Forward(self, q)

SymbolicLNot(q, self) ==
    LET e == q.args[1]
    IN  CASE e.kind = "Bool" -> Bool(e.val = 0)
          [] e.kind = "LNot" -> e.args[1]
          [] OTHER -> Forward(self, q)

SymbolicIte(q, self) ==
    LET c == q.args[1]
    IN  CASE c.kind = "Bool" -> IF c.val = 1 THEN q.args[2] ELSE q.args[3]
          [] c.kind = "LNot" -> Create(self, Choice(c.args[1], q.args[3], q.args[2]))
          [] OTHER -> Forward(self, q)

Symbolic(q, self) ==
    CASE q.kind = "Concat" -> SymbolicConcat(q, self)
      [] q.kind = "Extract" -> SymbolicExtract(q, self)
      [] q.kind = "Add" -> SymbolicAdd(q, self)
      [] q.kind = "Sub" -> SymbolicSub(q, self)
      [] q.kind = "Mul" -> SymbolicMul(q, self)
      [] q.kind = "SDiv" -> SymbolicSDiv(q, self)
      [] q.kind = "UDiv" -> SymbolicUDiv(q, self)
      [] q.kind = "And" -> SymbolicAnd(q, self)
      [] q.kind = "Or" -> SymbolicOr(q, self)
      [] q.kind = "Xor" -> SymbolicXor(q, self)
      [] q.kind = "Equal" -> SymbolicEqual(q, self)
      [] q.kind = "Distinct" -> SymbolicDistinct(q, self)
      [] q.kind \in {"LOr", "LAnd"} -> SymbolicLogical(q, self)
      [] q.kind = "LNot" -> SymbolicLNot(q, self)
      [] q.kind = "Ite" -> SymbolicIte(q, self)
      [] OTHER -> Forward(self, q)

-----------------------------------------------------------------------------
(* BaseExprBuilder *)
Base(q) == IF q.kind = "Extract" /\ q.bits = q.args[1].bits THEN q.args[1] ELSE q

(* evaluate: the expression with the bytes of the input, by constant folding *)
RECURSIVE Evaluate(_, _)
Evaluate(e, input) ==
    CASE e.kind = "Read" -> Const(InputByteAt(e.val, input), ReadBits)
      [] e.kind \in {"Constant", "Bool"} -> e
      [] OTHER -> Folding([e EXCEPT !.args = [k \in DOMAIN e.args |-> Evaluate(e.args[k], input)]],
                           Builder(<<"Folding", "Base">>, "yes", input))

(* PruneExprBuilder: in a block that is not interesting, what would be       *)
(* symbolic becomes its value.  The flag is "unknown" to find out whether    *)
(* the builder is reached at all: then there is an Unknown in the result.    *)
NotPruned == {"Concat", "Extract"} \cup Comparison

(* Mutant: evaluated on an input of zeros. *)
PruneEmptyInput(q, self) ==
    CASE q.kind \in NotPruned \/ self.interesting = "yes" -> Forward(self, q)
      [] q.kind \notin NotPruned /\ self.interesting = "no" -> Evaluate(Forward(self, q), 0)
      [] OTHER -> Node("Unknown", q.bits, <<>>, 0)

Prune(q, self) ==
    LET ref == Forward(self, q)
    IN  CASE q.kind \in NotPruned \/ self.interesting = "yes" -> ref
          [] q.kind \notin NotPruned /\ self.interesting = "no" -> Evaluate(ref, self.input)
          [] q.kind \notin NotPruned /\ self.interesting = "unknown" -> Node("Unknown", q.bits, <<>>, 0)

(* SymbolicExprBuilder::create and PruneExprBuilder::create: the chains, of  *)
(* which the cache before BaseExprBuilder changes no expression.             *)
Chain(linearization) ==
    <<"Commutative", "Symbolic", "Common", "Folding">> \o (IF linearization THEN <<"Prune">> ELSE <<>>) \o <<"Base">>

Create(self, q) ==
    CASE Head(self.chain) = "Commutative" -> Commutative(q, self)
      [] Head(self.chain) = "Symbolic" -> Symbolic(q, self)
      [] Head(self.chain) = "Common" -> Common(q, self)
      [] Head(self.chain) = "Folding" -> Folding(q, self)
      [] Head(self.chain) = "Prune" -> Prune(q, self)
      [] Head(self.chain) = "Base" -> Base(q)

(* Whether PruneExprBuilder is asked about anything when q is created *)
AsksPrune(q, input) ==
    \E e \in NodesOf(Create(Builder(Chain(TRUE), "unknown", input), q)) : e.kind = "Unknown"
=============================================================================
