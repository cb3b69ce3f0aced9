---------------------------- MODULE ThreadContext ----------------------------
(***************************************************************************)
(* The shadow state of the pintool (thread_context.h, memory.h) beside the *)
(* machine it shadows.  Both are kept by cells, the bytes of registers and *)
(* of memory.                                                              *)
(*                                                                         *)
(* A shadow state s has in s.cell the expression of every cell, Null for a *)
(* concrete one, and in s.path the inputs that satisfy the constraints     *)
(* given to the solver.  A machine state c has in c.cell what every cell   *)
(* holds in the run on each input; the pintool sees the run on `input'.    *)
(***************************************************************************)
EXTENDS BitVectors, FiniteSets, TLC

CONSTANTS
    Gpr,        \* general purpose registers, of 8 bytes
    Vector,     \* SSE registers, of 16 bytes
    MemSize     \* bytes of memory

VARIABLE
    input       \* the input of this run of the pintool

Null == <<>>
NoReg == "none"         \* REG_INVALID()
AddrSize == 8           \* sizeof(ADDRINT)

RegSize(r) == IF r \in Vector THEN 16 ELSE 8
RegCells == (Gpr \X (0..7)) \cup (Vector \X (0..15))
MemCells == {"mem"} \X (0..MemSize - 1)
Cell == RegCells \cup MemCells

(* Operands: a (part of a) register, memory at base + disp + index * scale, *)
(* an immediate.                                                            *)
Reg(r, off, size) == [type |-> "reg", reg |-> r, off |-> off, size |-> size]
Mem(base, index, disp, scale, size) ==
    [type |-> "mem", base |-> base, index |-> index, disp |-> disp,
     scale |-> scale, size |-> size]
Imm(n, size) == [type |-> "imm", n |-> n, size |-> size]
Full(r) == Reg(r, 0, RegSize(r))
At(base, size) == Mem(base, NoReg, 0, 1, size)

(* The number a register holds in the run on input i *)
RegNum(c, r, i) ==
    IF r = NoReg THEN 0 ELSE NumOf([k \in 1..AddrSize |-> c.cell[<<r, k - 1>>]], AddrSize, i)

(* The address of a memory operand; addresses wrap, and so does memory. *)
Address(c, o, i) ==
    (RegNum(c, o.base, i) + o.disp + RegNum(c, o.index, i) * o.scale) % 2^(AddrSize * CharBit)

(* The cells of an operand in the run on input i: regToRegAddr, addr *)
MemAt(a, size) == [k \in 1..size |-> <<"mem", (a + k - 1) % MemSize>>]
Cells(c, o, i) ==
    IF o.type = "reg" THEN [k \in 1..o.size |-> <<o.reg, o.off + k - 1>>]
    ELSE MemAt(Address(c, o, i), o.size)

(* A 32-bit result is zero-extended to the 64-bit register. *)
IsGr32(o) == o.type = "reg" /\ o.reg \in Gpr /\ o.off = 0 /\ o.size = 4
UpperHalf(o) == IF IsGr32(o) THEN {<<o.reg, k>> : k \in 4..7} ELSE {}

-----------------------------------------------------------------------------
(* The machine: what an instruction reads and writes, in all runs at once. *)

LoadAt(c, cells, size) == [k \in 1..size |-> [i \in Inputs |-> c.cell[cells[i][k]][i]]]
Load(c, o) ==
    IF o.type = "imm" THEN Constant(o.n, o.size)
    ELSE LoadAt(c, [i \in Inputs |-> Cells(c, o, i)], o.size)

(* The byte of e that is stored at cell x, or the old one *)
NewByte(cells, e, x, old) ==
    IF \E k \in DOMAIN cells : cells[k] = x THEN e[CHOOSE k \in DOMAIN cells : cells[k] = x] ELSE old

StoreAt(c, cells, e, zero) ==
    [c EXCEPT !.cell = [x \in zero |-> BConst(0)]
        @@ [x \in UNION {{cells[i][k] : k \in DOMAIN e} : i \in Inputs} |->
              [i \in Inputs |-> NewByte(cells[i], [k \in DOMAIN e |-> e[k][i]], x, c.cell[x][i])]]
        @@ @]
Store(c, o, e) == StoreAt(c, [i \in Inputs |-> Cells(c, o, i)], e, UpperHalf(o))

(* What the pintool sees of an operand: getRegValue, getMemValue *)
SeenAt(c, cells) == [k \in DOMAIN cells |-> BConst(c.cell[cells[k]][input])]
SeenExpr(c, o) ==
    IF o.type = "imm" THEN Constant(o.n, o.size) ELSE SeenAt(c, Cells(c, o, input))
Seen(c, o) == Num(SeenExpr(c, o), input)

-----------------------------------------------------------------------------
(* The shadow *)

ClearCells(s, cells) == [s EXCEPT !.cell = [x \in cells |-> Null] @@ @]

CellSet(c, o) == {Cells(c, o, input)[k] : k \in 1..o.size}

(* clearExprFromReg, clearExprFromMem *)
ClearExpr(s, c, o) == ClearCells(s, CellSet(c, o) \cup UpperHalf(o))

SetAt(s, cells, e, zero) ==
    [s EXCEPT !.cell = [x \in {cells[k] : k \in DOMAIN cells} |-> e[CHOOSE k \in DOMAIN cells : cells[k] = x]]
                         @@ [x \in zero |-> Null] @@ @]

(* setExprToReg and setExprToMem, a byte at a time: bytes of e may be Null *)
SetBytes(s, c, o, e) == SetAt(s, Cells(c, o, input), e, UpperHalf(o))

(* setExprToReg, setExprToMem *)
SetExpr(s, c, o, e) == IF e = Null THEN ClearExpr(s, c, o) ELSE SetBytes(s, c, o, e)

(* The bytes of an operand, Null where they are concrete *)
BytesAt(s, cells) == [k \in DOMAIN cells |-> s.cell[cells[k]]]
GetBytes(s, c, o) == BytesAt(s, Cells(c, o, input))

(* The expression of bytes, in which those without one have the value seen: *)
(* Null if no byte is symbolic, or if all together are a constant           *)
NullIfConstant(e) == IF Len(e) > 1 /\ IsConstant(e) THEN Null ELSE e
ExprOf(bytes, seen) ==
    IF \A k \in DOMAIN bytes : bytes[k] = Null THEN Null
    ELSE NullIfConstant([k \in DOMAIN bytes |-> IF bytes[k] = Null THEN seen[k] ELSE bytes[k]])

(* getExprFromReg, getExprFromMem *)
GetExpr(s, c, o) == IF o.type = "imm" THEN Null ELSE ExprOf(GetBytes(s, c, o), SeenExpr(c, o))

(* ... which clear the cells if they are a constant *)
AfterGet(s, c, o) ==
    IF o.type = "imm" \/ o.size = 1 \/ GetExpr(s, c, o) # Null THEN s
    ELSE ClearCells(s, CellSet(c, o))

-----------------------------------------------------------------------------
(* Constraints *)

(* Solver::addValue, addAddr and solveAll: the expression has the constant   *)
(* value v it has in this run.                                               *)
AddValue(s, e, v) == [s EXCEPT !.path = {i \in @ : \A k \in DOMAIN e : e[k][i] = v[k][i]}]

(* Solver::addJcc: the condition is as it was in this run. *)
AddJcc(s, b, taken) == [s EXCEPT !.path = {i \in @ : b[i] = taken}]

(* A symbolic expression has the value it has in this run. *)
Constrain(s, e, v) == IF e = Null THEN s ELSE AddValue(s, e, v)

(* getBaseExpr, for a base that is symbolic, concrete or missing *)
BaseExpr(c, o, e) ==
    IF e # Null THEN Of(AddrSize, [i \in Inputs |-> Num(e, i) + o.disp])
    ELSE IF o.base # NoReg \/ o.disp # 0 THEN Constant(RegNum(c, o.base, input) + o.disp, AddrSize)
    ELSE Null

(* getIndexExpr *)
IndexExpr(c, o, e) ==
    IF e # Null THEN Of(AddrSize, [i \in Inputs |-> Num(e, i) * o.scale])
    ELSE IF o.index # NoReg THEN Constant(RegNum(c, o.index, input) * o.scale, AddrSize)
    ELSE Null

(* createAddrExpr *)
CreateAddrExpr(base, index) ==
    IF base = Null THEN index
    ELSE IF index = Null THEN base
    ELSE Of(AddrSize, [i \in Inputs |-> Num(base, i) + Num(index, i)])

(* getAddrExpr *)
RegExpr(s, c, r) == IF r = NoReg THEN Null ELSE GetExpr(s, c, Full(r))
AddrOf(c, o, base, index) ==
    IF base = Null /\ index = Null THEN Null
    ELSE CreateAddrExpr(BaseExpr(c, o, base), IndexExpr(c, o, index))
AddrExpr(s, c, o) == AddrOf(c, o, RegExpr(s, c, o.base), RegExpr(s, c, o.index))

AfterGetReg(s, c, r) == IF r = NoReg THEN s ELSE AfterGet(s, c, Full(r))
AfterAddr(s, c, o) == AfterGetReg(AfterGetReg(s, c, o.base), c, o.index)

(* makeAddrConcrete: Solver::addAddr *)
MakeAddrConcrete(s, c, o) ==
    IF o.type # "mem" THEN s
    ELSE Constrain(AfterAddr(s, c, o), AddrExpr(s, c, o), Constant(Address(c, o, input), AddrSize))

(* concretizeReg, concretizeMem: a symbolic operand gets its value *)
ConcretizeExpr(s, c, o, e) ==
    IF e = Null THEN AfterGet(s, c, o) ELSE ClearExpr(AddValue(s, e, SeenExpr(c, o)), c, o)
Concretize(s, c, o) == ConcretizeExpr(s, c, o, GetExpr(s, c, o))
=============================================================================
