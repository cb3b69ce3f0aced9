------------------------------ MODULE Concolic ------------------------------
(***************************************************************************)
(* Concolic execution: a program runs on one input under the pintool.      *)
(* Before each instruction its handler updates the shadow state; then the  *)
(* processor executes it.  The same program runs on every other input in   *)
(* the model, so that the shadow can be compared with what it predicts.    *)
(*                                                                         *)
(* An action is named for the function of analysis_instruction.cpp that    *)
(* inserts the handler.  Where a handler is known to differ from the       *)
(* processor, its action enters what it spoils in doubt: flags, or "data"  *)
(* for registers and memory, after which nothing is claimed.               *)
(***************************************************************************)
EXTENDS InstrumentVector, Processor, Decoding

CONSTANTS
    Tainted,    \* sets of cells: each is what may be symbolic at the start
    Start,      \* what the cells hold in a run whose input they do not hold
    Programs,   \* kinds of programs: the instructions each step may execute
    Unaries,    \* operands of instructions with one,
    Binaries,   \* pairs of operands, of one size
    Widenings,  \* pairs of a destination and a narrower source
    Memories,   \* memory operands for LEA
    Counts,     \* shift counts
    Lanes16     \* pairs of 16-byte operands, the first a register

VARIABLES
    sym,        \* the shadow state
    cpu,        \* the machine
    follow,     \* the inputs on which the program took the same branches
    doubt,      \* what is not claimed to be exact
    program,    \* the kind of the program
    steps       \* instructions executed

vars == <<input, sym, cpu, follow, doubt, program, steps>>

Data == "data"

(* The byte of the input a tainted cell holds: one of two *)
InputByte(x) == [i \in Inputs |-> IF x[2] % 2 = 0 THEN i % 2^CharBit ELSE (3 * i + 1) % 2^CharBit]

(* EFLAGS at the start: concrete, or of a comparison with the input *)
Compared == [res |-> Binary("Sub", <<InputByte(<<"mem", 0>>)>>, Constant(2, 1)),
             dst |-> <<InputByte(<<"mem", 0>>)>>, src |-> Constant(2, 1)]
Clean == [f \in Flag |-> BConst(0)]

Init ==
    /\ input \in Inputs
    /\ \E cells \in Tainted, compared \in BOOLEAN :
        LET shadow == [cell |-> [x \in Cell |-> IF x \in cells THEN InputByte(x) ELSE Null],
                       path |-> Inputs] @@ EflagsInit
            machine == [cell |-> [x \in Cell |-> IF x \in cells THEN InputByte(x) ELSE BConst(Start[x])],
                        flag |-> Clean]
        IN  /\ sym = IF compared THEN SetEflags(shadow, "SUB", Compared.res, Compared.dst, Compared.src)
                     ELSE shadow
            /\ cpu = IF compared
                     THEN WriteFlags(machine, AddSub("Sub", Compared.dst, Compared.src, BConst(0)).flags)
                     ELSE machine
    /\ follow = Inputs
    /\ doubt = {}
    /\ program \in Programs
    /\ steps = 0

-----------------------------------------------------------------------------
May(name) == steps < Len(program) /\ name \in program[steps + 1] /\ Data \notin doubt

(* The instruction retires: s and c are the states after it, wrote are the  *)
(* flags that it writes, vague those of them the handler does not get       *)
(* right, and exact is whether data is.                                     *)
Retire(s, c, wrote, vague, exact) ==
    /\ sym' = s
    /\ cpu' = c
    /\ doubt' = ((doubt \ wrote) \cup vague) \cup (IF exact THEN {} ELSE {Data})
    /\ steps' = steps + 1
    /\ UNCHANGED <<input, program>>

Straight == UNCHANGED follow

(* Conditions under which handlers are exact *)

Every(P(_)) == \A i \in sym.path : P(i)

Symbolic(os) == \E k \in DOMAIN os : GetExpr(sym, cpu, os[k]) # Null

(* Nothing is left in the upper half of a register whose lower half is      *)
(* written by a handler that returns early.                                 *)
NoUpper(o) == \A x \in UpperHalf(o) : sym.cell[x] = Null
ClearUnless(some, o) == some \/ NoUpper(o)

NoExpr(o) == \A k \in 1..o.size : sym.cell[Cells(cpu, o, input)[k]] = Null

(* A memory operand is at one address: the handlers that do not concretise  *)
(* an address rely on it.                                                   *)
OneAddress(o) == o.type = "mem" => \A i \in sym.path : Address(cpu, o, i) = Address(cpu, o, input)

(* The condition can be read: its flags are exact and defined, all of them  *)
(* symbolic or none, and it is not JCC_Z by way of the flags, which takes   *)
(* OF for ZF.                                                               *)
Whole(jcc) == FlagsFromJcc(jcc) \subseteq sym.valid \/ FlagsFromJcc(jcc) \cap sym.valid = {}
Readable(jcc) ==
    /\ FlagsFromJcc(jcc) \cap doubt = {}
    /\ \A f \in FlagsFromJcc(jcc), i \in sym.path : cpu.flag[f][i] # Undef
    /\ Whole(jcc)
    /\ jcc = "Z" /\ "ZF" \in sym.valid => ComputeFastJcc(sym, "Z") # Null

Cl == Reg("RCX", 0, 1)
Ax(n) == Reg("RAX", 0, n)
Dx(n) == Reg("RDX", 0, n)

-----------------------------------------------------------------------------
(* Arithmetic *)

AnalyzeBinary ==
    /\ May("Binary")
    /\ \E o \in Binaries, kind \in {"Add", "Sub", "And", "Or", "Xor"}, write \in BOOLEAN :
        /\ BinaryForm(o)
        /\ write \/ kind \in {"Sub", "And"}
        /\ Retire(InstrumentBinary(sym, cpu, kind, o[1], o[2], write),
                  ExecBinary(cpu, kind, o[1], o[2], write), Flag, {},
                  write => ClearUnless(Symbolic(o), o[1]))
    /\ Straight

(* PAND, POR, PXOR and PTEST use the same handler, which takes EFLAGS to    *)
(* be written; PTEST sets CF by another operation.                          *)
AnalyzeBinaryVector ==
    /\ May("Vector")
    /\ \E o \in Lanes16, kind \in {"And", "Or", "Xor"}, write \in BOOLEAN :
        /\ write \/ kind = "And"
        /\ LET e == Binary(kind, Load(cpu, o[1]), Load(cpu, o[2]))
           IN  Retire(InstrumentBinary(sym, cpu, kind, o[1], o[2], write),
                      IF write THEN Store(cpu, o[1], e)
                      ELSE WriteFlags(cpu, [f \in Flag |->
                            IF f = "ZF" THEN Zero(e)
                            ELSE IF f = "CF" THEN Zero(Binary("And", Unary("Not", Load(cpu, o[1])), Load(cpu, o[2])))
                            ELSE BConst(0)]),
                      IF write THEN {} ELSE Flag, IF write THEN Flag ELSE {"CF", "SF", "PF"}, TRUE)
    /\ Straight

(* The carry is added to the destination first, and the flags are those of  *)
(* the second addition alone.  A concrete carry is taken to be set.         *)
AnalyzeCarry ==
    /\ May("Carry") /\ Readable("B")
    /\ \E o \in Binaries, kind \in {"Add", "Sub"} :
        LET fixed == ComputeJcc(sym, "B", FALSE) = Null
            some == Symbolic(o) \/ ~fixed
        IN  Retire(InstrumentCarry(sym, cpu, kind, o[1], o[2]), ExecCarry(cpu, kind, o[1], o[2]),
                   Flag,
                   IF some /\ ~Every(LAMBDA i : cpu.flag["CF"][i] = 0) THEN {"CF", "OF"} ELSE {},
                   /\ ClearUnless(some, o[1])
                   /\ Symbolic(o) /\ fixed => Every(LAMBDA i : cpu.flag["CF"][i] = 1))
    /\ Straight

AnalyzeIncDec ==
    /\ May("IncDec")
    /\ \E o \in {o \in Unaries : UnaryForm(o)}, kind \in {"Add", "Sub"} :
        Retire(InstrumentIncDec(sym, cpu, kind, o), ExecIncDec(cpu, kind, o), Flag \ {"CF"}, {},
               ClearUnless(Symbolic(<<o>>), o))
    /\ Straight

(* The flags are those of a logical operation, for NOT as well. *)
AnalyzeNegNot ==
    /\ May("NegNot")
    /\ \E o \in {o \in Unaries : UnaryForm(o)}, kind \in {"Neg", "Not"} :
        Retire(InstrumentNegNot(sym, cpu, kind, o), ExecNegNot(cpu, kind, o), Flag,
               CASE kind = "Not" -> Flag
                 [] Symbolic(<<o>>) -> {"CF", "OF"}
                 [] OTHER -> {},
               ClearUnless(Symbolic(<<o>>), o))
    /\ Straight

(* The overflow of a product is inverted; that of bytes goes to DL. *)
AnalyzeMul ==
    /\ May("Mul")
    /\ \E src \in {o \in Unaries : o.size <= 4}, signed \in BOOLEAN :
        LET l == Ax(src.size)
            h == Dx(src.size)
        IN  Retire(InstrumentMul(sym, cpu, l, h, src, signed), ExecMul(cpu, l, h, src, signed),
                   Flag, IF Symbolic(<<src, l>>) THEN {"CF", "OF"} ELSE {}, src.size > 1)
    /\ Straight

AnalyzeIMul ==
    /\ May("Mul")
    /\ \E o \in {o \in Binaries : o[1].type = "reg" /\ o[1].size \in {2, 4}} :
        LET dst == Reg(o[1].reg, 0, o[1].size)
        IN  Retire(IF o[2].type = "imm" THEN InstrumentIMulImm(sym, cpu, dst, o[1], o[2])
                   ELSE InstrumentMul(sym, cpu, dst, Null, o[2], TRUE),
                   IF o[2].type = "imm" THEN ExecIMul(cpu, dst, o[1], o[2])
                   ELSE ExecIMul(cpu, dst, dst, o[2]),
                   Flag, IF Symbolic(o) THEN {"CF", "OF"} ELSE {}, TRUE)
    /\ Straight

(* A run that faults leaves the path, and no constraint says so. *)
AnalyzeDiv ==
    /\ May("Mul")
    /\ \E src \in {o \in Unaries : o.size <= 4}, signed \in BOOLEAN :
        LET l == Ax(src.size)
            h == Dx(src.size)
            some == Symbolic(<<src, l, h>>)
            divides == {i \in Inputs : Divides(cpu, l, h, src, signed, i)}
        IN  /\ input \in divides
            /\ follow' = follow \cap divides
            /\ Retire(InstrumentDiv(sym, cpu, l, h, src, signed), ExecDiv(cpu, l, h, src, signed),
                      Flag, {},
                      src.size > 1 /\ sym.path \subseteq divides /\ ClearUnless(some, l) /\ ClearUnless(some, h))

(* Flags are those of a count of one, and a count of zero leaves them. *)
AnalyzeShift ==
    /\ May("Shift")
    /\ \E o \in Unaries, kind \in {"Shl", "LShr", "AShr", "Rol", "Ror"}, count \in Counts \cup {Cl} :
        LET some == Symbolic(<<o, count>>)
            N(i) == Count(cpu, count, o.size, i)
            rotate == kind \in {"Rol", "Ror"}
            affected == Affected(OpKindShift(kind))
            moved == Every(LAMBDA i : N(i) # 0)
        IN  Retire(InstrumentShift(sym, cpu, kind, o, count), ExecShift(cpu, kind, o, count),
                   IF moved THEN affected ELSE {},
                   IF ~moved THEN affected
                   ELSE IF some /\ ~rotate /\ ~Every(LAMBDA i : N(i) = 1) THEN {"CF"}
                   ELSE {},
                   ClearUnless(some, o) /\ (some => rotate \/ Every(LAMBDA i : N(i) < o.size * CharBit)))
    /\ Straight

AnalyzeShiftd ==
    /\ May("Shift")
    /\ \E o \in {o \in Binaries : o[1].size \in {2, 4} /\ o[2].type = "reg"},
         kind \in {"Shl", "LShr"}, count \in Counts \cup {Cl} :
        LET some == Symbolic(<<o[1], o[2], count>>)
            moved == Every(LAMBDA i : Count(cpu, count, o[1].size, i) # 0)
        IN  Retire(InstrumentShiftd(sym, cpu, kind, o[1], o[2], count),
                   ExecShiftd(cpu, kind, o[1], o[2], count),
                   Flag, IF some \/ ~moved THEN Flag ELSE {}, ClearUnless(some, o[1]))
    /\ Straight

-----------------------------------------------------------------------------
(* Conversions, bits and moves *)

AnalyzeMovsxMovzxCbw ==
    /\ May("Move")
    /\ \E o \in Widenings, signed \in BOOLEAN :
        Retire(InstrumentExtend(sym, cpu, o[1], o[2], signed), ExecExtend(cpu, o[1], o[2], signed),
               {}, {}, TRUE)
    /\ Straight

AnalyzeCwd ==
    /\ May("Move")
    /\ \E n \in {2, 4, 8} :
        Retire(InstrumentCwd(sym, cpu, Dx(n), Ax(n)), ExecCwd(cpu, Dx(n), Ax(n)), {}, {}, TRUE)
    /\ Straight

(* A scan of zero keeps the destination, BSF misses the highest bit, and a  *)
(* concrete source in memory leaves the expression of the destination.      *)
AnalyzeBs ==
    /\ May("Bits")
    /\ \E o \in {o \in Binaries : o[1].type = "reg" /\ o[2].type # "imm" /\ o[1].size > 1}, reverse \in BOOLEAN :
        LET X(i) == Num(Load(cpu, o[2]), i)
            some == Symbolic(<<o[2]>>)
        IN  Retire(InstrumentBs(sym, cpu, o[1], o[2], reverse), ExecBs(cpu, o[1], o[2], reverse),
                   Flag, {},
                   /\ Every(LAMBDA i : X(i) # 0)
                   /\ some /\ ~reverse => Every(LAMBDA i : X(i) # 2^(o[2].size * CharBit - 1))
                   /\ ~some /\ o[2].type = "mem" => NoExpr(o[1]) /\ NoUpper(o[1]))
    /\ Straight

AnalyzeBswap ==
    /\ May("Bits")
    /\ \E o \in {o \in Unaries : o.type = "reg" /\ o.size \in {4, 8}} :
        Retire(InstrumentBswap(sym, cpu, o), ExecBswap(cpu, o), {}, {}, ClearUnless(Symbolic(<<o>>), o))
    /\ Straight

(* A bit of memory is within the operand. *)
AnalyzeBt ==
    /\ May("Bits")
    /\ \E o \in {o \in Binaries : o[1].size > 1 /\ o[2].type # "mem"}, kind \in BtForms :
        LET bits == o[1].size * CharBit
        IN  /\ o[1].type = "mem" => Seen(cpu, o[2]) < bits
            /\ Retire(InstrumentBt(sym, cpu, kind, o[1], o[2]), ExecBt(cpu, kind, o[1], o[2]),
                      {"CF", "OF", "SF", "PF"}, {},
                      /\ OneAddress(o[1])
                      /\ kind # "Invalid" =>
                            /\ ClearUnless(Symbolic(<<o[1]>>), o[1])
                            /\ o[1].size = 8 => Seen(cpu, o[2]) % bits < 4 * CharBit - 1)
    /\ Straight

AnalyzeMov ==
    /\ May("Move")
    /\ \E o \in Binaries \cup Lanes16 :
        Retire(InstrumentMov(sym, cpu, o[1], o[2]), ExecMov(cpu, o[1], o[2]), {}, {}, TRUE)
    /\ Straight

AnalyzeMovh ==
    /\ May("Move")
    /\ \E o \in Lanes16, store \in BOOLEAN :
        LET high == Reg(o[1].reg, 8, 8)
            m == [o[2] EXCEPT !.size = 8]
            dst == IF store THEN m ELSE high
            src == IF store THEN high ELSE m
        IN  /\ o[2].type = "mem"
            /\ Retire(InstrumentMov(sym, cpu, dst, src), ExecMov(cpu, dst, src), {}, {}, TRUE)
    /\ Straight

(* MOVD and MOVQ; from one 16-byte register to another the upper half is    *)
(* not cleared.                                                             *)
AnalyzeMovlz ==
    /\ May("Move")
    /\ \E r, q \in Vector, g \in {"RAX", "RCX"}, width \in {4, 8}, form \in 1..4 :
        LET m == At("RSI", width)
            dst == CASE form = 2 -> Reg(g, 0, width) [] form = 3 -> m [] OTHER -> Full(r)
            src == CASE form = 1 -> Reg(g, 0, width) [] form = 4 -> Full(q) [] OTHER -> Full(r)
            low == IF src.type = "reg" THEN Reg(src.reg, 0, width) ELSE src
            c1 == IF form \in {1, 4} THEN Store(cpu, dst, Constant(0, 16)) ELSE cpu
        IN  /\ form = 4 => width = 8 /\ r # q
            /\ Retire(InstrumentMovlz(sym, cpu, dst, src, width),
                      Store(c1, IF form \in {1, 4} THEN Reg(r, 0, width) ELSE dst, Load(cpu, low)), {}, {},
                      form = 4 => NoExpr(Reg(r, 8, 8)))
    /\ Straight

AnalyzeLea ==
    /\ May("Move")
    /\ \E m \in Memories, size \in {4, 8} :
        Retire(InstrumentLea(sym, cpu, Ax(size), m), ExecLea(cpu, Ax(size), m), {}, {}, TRUE)
    /\ Straight

AnalyzeXchg ==
    /\ May("Move")
    /\ \E o \in {o \in Binaries : o[2].type # "imm"} :
        Retire(InstrumentXchg(sym, cpu, o[1], o[2]), ExecXchg(cpu, o[1], o[2]), {}, {},
               OneAddress(o[1]) /\ OneAddress(o[2]))
    /\ Straight

(* No flags are set. *)
AnalyzeXadd ==
    /\ May("Binary")
    /\ \E o \in {o \in Binaries : o[2].type = "reg"} :
        LET some == Symbolic(o)
        IN  Retire(InstrumentXadd(sym, cpu, o[1], o[2]), ExecXadd(cpu, o[1], o[2]), Flag,
                   IF some \/ sym.valid # {} THEN Flag ELSE {},
                   ClearUnless(some, o[1]) /\ ClearUnless(some, o[2]))
    /\ Straight

-----------------------------------------------------------------------------
(* The stack *)

Slot8 == Mem("RSP", NoReg, -8, 1, 8)

AnalyzePush ==
    /\ May("Stack")
    /\ \E o \in {Full("RAX"), At("RSI", 8), Imm(1, 8)} :
        Retire(InstrumentPush(sym, cpu, Slot8, o), ExecPush(cpu, Slot8, o), {}, {}, TRUE)
    /\ Straight

AnalyzePop ==
    /\ May("Stack")
    /\ \E o \in {Full("RAX"), At("RSI", 8)} :
        Retire(InstrumentPop(sym, cpu, At("RSP", 8), o), ExecPop(cpu, At("RSP", 8), o), {}, {}, TRUE)
    /\ Straight

(* Call of a register or memory: the handler of the call, then of a jump,   *)
(* which does not see an expression of the target in the slot just cleared  *)
AnalyzeCall ==
    /\ May("Stack")
    /\ \E o \in {Full("RAX"), At("RSI", 8)} :
        /\ Retire(InstrumentJmp(InstrumentCall(sym, cpu, Slot8), cpu, o),
                  ExecPush(cpu, Slot8, Imm(1, 8)), {}, {},
                  OneAddress(o) /\ CellSet(cpu, o) \cap CellSet(cpu, Slot8) = {})
        /\ follow' = {i \in follow : Num(Load(cpu, o), i) = Seen(cpu, o)}

(* Only the call stack is told of a return. *)
AnalyzeRet ==
    /\ May("Stack")
    /\ LET slot == At("RSP", 8)
       IN  /\ Retire(sym, Advance(cpu, "RSP", 8), {}, {}, NoExpr(Full("RSP")) /\ NoExpr(slot))
           /\ follow' = {i \in follow : Num(Load(cpu, slot), i) = Seen(cpu, slot)}

(* LEAVE clears RBP alone. *)
AnalyzeLeave ==
    /\ May("Stack")
    /\ Retire(InstrumentClr(sym, cpu, Full("RBP")), ExecLeave(cpu), {}, {},
              NoExpr(Full("RBP")) /\ NoExpr(Full("RSP")) /\ NoExpr(At("RBP", 8)))
    /\ Straight

-----------------------------------------------------------------------------
(* Strings; REP counts RCX down behind the handler. *)

AnalyzeMovs ==
    /\ May("String")
    /\ \E n \in {1, 4}, rep \in BOOLEAN :
        Retire(InstrumentMovs(sym, cpu, At("RDI", n), At("RSI", n)),
               ExecMovs(cpu, At("RDI", n), At("RSI", n), rep), {}, {}, rep => NoExpr(Full("RCX")))
    /\ Straight

AnalyzeStos ==
    /\ May("String")
    /\ \E n \in {1, 4}, rep \in BOOLEAN :
        Retire(InstrumentStos(sym, cpu, At("RDI", n), Ax(n)),
               ExecStos(cpu, At("RDI", n), Ax(n), rep), {}, {}, rep => NoExpr(Full("RCX")))
    /\ Straight

AnalyzeScas ==
    /\ May("String")
    /\ \E n \in ScasForms :
        Retire(InstrumentScas(sym, cpu, Ax(n), At("RDI", n)), ExecScas(cpu, Ax(n), At("RDI", n)), Flag, {}, TRUE)
    /\ Straight

AnalyzeCmps ==
    /\ May("String")
    /\ \E n \in CmpsForms :
        Retire(InstrumentCmps(sym, cpu, At("RSI", n), At("RDI", n)),
               ExecCmps(cpu, At("RSI", n), At("RDI", n)), Flag, {}, TRUE)
    /\ Straight

-----------------------------------------------------------------------------
(* Conditions and jumps *)

AnalyzeJcc ==
    /\ May("Jcc")
    /\ \E f \in JccForms :
        /\ Readable(f[1])
        /\ Retire(InstrumentJcc(sym, f[1], f[2], AsBool(Taken(cpu, f[1], f[2], input))), cpu, {}, {}, TRUE)
        /\ follow' = {i \in follow : Taken(cpu, f[1], f[2], i) = Taken(cpu, f[1], f[2], input)}

(* A 32-bit destination loses its upper half even if nothing is moved. *)
AnalyzeCmov ==
    /\ May("Conditional")
    /\ \E o \in {o \in Binaries : o[1].type = "reg" /\ o[1].size > 1 /\ o[2].type # "imm"}, f \in CmovForms :
        LET taken == Taken(cpu, f[1], f[2], input)
        IN  /\ Readable(f[1])
            /\ Retire(InstrumentCmov(sym, cpu, o[1], o[2], f[1], f[2], AsBool(taken)),
                      ExecCmov(cpu, o[1], o[2], f[1], f[2]), {}, {}, ClearUnless(taken, o[1]))
    /\ Straight

AnalyzeSet ==
    /\ May("Conditional")
    /\ \E o \in {o \in Unaries : UnaryForm(o) /\ o.size = 1}, f \in SetForms :
        /\ Readable(f[1])
        /\ Retire(InstrumentSet(sym, cpu, o, f[1], f[2]), ExecSet(cpu, o, f[1], f[2]), {}, {}, TRUE)
    /\ Straight

(* A register is compared the wrong way round: only ZF is right. *)
AnalyzeCmpxchg ==
    /\ May("Cmpxchg")
    /\ \E o \in {o \in Binaries : o[2].type = "reg" /\ o[1] # Ax(o[1].size) /\ o[1].size # 4} :
        LET ax == Ax(o[1].size)
        IN  Retire(InstrumentCmpxchg(sym, cpu, o[1], o[2], ax), ExecCmpxchg(cpu, o[1], o[2], ax), Flag,
                   IF o[1].type = "reg" /\ Symbolic(<<o[1], o[2], ax>>) THEN Flag \ {"ZF"} ELSE {},
                   OneAddress(o[1]))
    /\ Straight

AnalyzeJmp ==
    /\ May("Jcc")
    /\ \E o \in {Full("RAX"), At("RSI", 8)} :
        /\ Retire(InstrumentJmp(sym, cpu, o), cpu, {}, {}, OneAddress(o))
        /\ follow' = {i \in follow : Num(Load(cpu, o), i) = Seen(cpu, o)}

-----------------------------------------------------------------------------
(* Instructions whose results are concrete *)

AnalyzeRdtsc ==
    /\ May("Concrete")
    /\ \E rs \in {<<"RAX", "RDX">>, <<"RAX", "RDX", "RCX">>, <<"RAX", "RDX", "RBX", "RCX">>} :
        LET c[k \in 0..Len(rs)] == IF k = 0 THEN cpu ELSE ExecSetConcrete(c[k - 1], Gr32(rs[k]))
        IN  Retire(CASE Len(rs) = 2 -> InstrumentRdtsc(sym, cpu)
                     [] Len(rs) = 3 -> InstrumentRdtscp(sym, cpu)
                     [] OTHER -> InstrumentCpuid(sym, cpu),
                   c[Len(rs)], {}, {}, TRUE)
    /\ Straight

AnalyzeClear ==
    /\ May("Concrete")
    /\ \E o \in Unaries :
        Retire(InstrumentClr(sym, cpu, o), ExecSetConcrete(cpu, o), {}, {}, OneAddress(o))
    /\ Straight

(* An instruction without a handler computes something of its operands. *)
AnalyzeDefault ==
    /\ May("Concrete")
    /\ \E o \in Binaries :
        Retire(InstrumentConcretize(sym, cpu, o), Store(cpu, o[1], Binary("Sub", Load(cpu, o[2]), Load(cpu, o[1]))),
               {}, {}, OneAddress(o[1]) /\ OneAddress(o[2]) /\ NoUpper(o[1]))
    /\ Straight

(* MOV from a register that is not shadowed: the destination is written     *)
(* and its expression stays.                                                *)
AnalyzeNotInserted ==
    /\ May("Concrete")
    /\ \E o \in {<<Ax(8), [type |-> "other"]>>} :
        Retire(IF Inserted(o) THEN InstrumentMov(sym, cpu, o[1], o[2]) ELSE sym,
               ExecSetConcrete(cpu, o[1]), {}, {}, NoExpr(o[1]))
    /\ Straight

(* One that sets CF alone *)
AnalyzeDefaultFlags ==
    /\ May("Concrete")
    /\ Retire(InstrumentConcretizeEflags(sym), WriteFlags(cpu, [f \in {"CF"} |-> BConst(1)]),
              {"CF"}, sym.valid \ {"CF"}, TRUE)
    /\ Straight

-----------------------------------------------------------------------------
(* SSE and AVX: o is the pair of operands, d the destination, which is the  *)
(* first of them but for AVX.                                               *)

Full16 == {Full(r) : r \in Vector}

(* s is the shadow after dst = x op y *)
RetireVector(s, d, x, y, Exec(_, _), exact) ==
    /\ Retire(s, Store(cpu, d, Exec(Load(cpu, x), Load(cpu, y))), {}, {}, exact)
    /\ Straight

(* Every element is non-negative. *)
NonNegative(e, width) ==
    \A k \in DOMAIN Elements(e, width) : Every(LAMBDA i : SNum(Elements(e, width)[k], i) >= 0)

ParithLanes(a, b, kind, width) == Lanes(a, b, width, LAMBDA x, y : IF kind = "Add" THEN x + y ELSE x - y)

AnalyzeParith ==
    /\ May("Vector")
    /\ \E o \in Lanes16, f \in PaddForms \cup PsubForms :
        RetireVector(InstrumentParith(sym, cpu, o[1], o[2], f[1], f[2]), o[1], o[1], o[2],
                     LAMBDA a, b : ParithLanes(a, b, f[1], f[2]), TRUE)

AnalyzeVparith ==
    /\ May("Vector")
    /\ \E d \in Full16, o \in Lanes16, f \in VpaddForms \cup VpsubForms :
        /\ TernaryForm(d, o)
        /\ RetireVector(InstrumentVparith(sym, cpu, d, o[1], o[2], f[1], f[2]), d, o[1], o[2],
                        LAMBDA a, b : ParithLanes(a, b, f[1], f[2]), TRUE)

AnalyzeTernary ==
    /\ May("Vector")
    /\ \E d \in Full16, o \in Lanes16, kind \in {"Or", "Xor"} :
        /\ TernaryForm(d, o)
        /\ RetireVector(InstrumentTernary(sym, cpu, d, o[1], o[2], kind), d, o[1], o[2],
                        LAMBDA a, b : Binary(kind, a, b), TRUE)

CompareLanes(a, b, kind, width) ==
    Lanes(a, b, width, LAMBDA x, y : IF Holds(kind, x, y, width * CharBit) THEN -1 ELSE 0)

AnalyzePcmp ==
    /\ May("Vector")
    /\ \E o \in Lanes16, f \in PcmpForms :
        RetireVector(InstrumentPcmp(sym, cpu, o[1], o[2], f[1], f[2]), o[1], o[1], o[2],
                     LAMBDA a, b : CompareLanes(a, b, f[1], f[2]), TRUE)

AnalyzeVpcmp ==
    /\ May("Vector")
    /\ \E d \in Full16, o \in Lanes16, f \in VpcmpForms :
        /\ TernaryForm(d, o)
        /\ RetireVector(InstrumentVpcmp(sym, cpu, d, o[1], o[2], f[1], f[2]), d, o[1], o[2],
                        LAMBDA a, b : CompareLanes(a, b, f[1], f[2]), TRUE)

SelectLanes(a, b, kind, width) ==
    Lanes(a, b, width, LAMBDA x, y : IF Holds(kind, x, y, width * CharBit) THEN x ELSE y)

AnalyzePcmpxchg ==
    /\ May("Vector")
    /\ \E o \in Lanes16, f \in PcmpxchgForms :
        RetireVector(InstrumentPcmpxchg(sym, cpu, o[1], o[2], f[1], f[2]), o[1], o[1], o[2],
                     LAMBDA a, b : SelectLanes(a, b, f[3], f[2]), Symbolic(o) => f[1] = f[3])

AnalyzeVpcmpxchg ==
    /\ May("Vector")
    /\ \E d \in Full16, o \in Lanes16, f \in VpcmpxchgForms :
        /\ TernaryForm(d, o)
        /\ RetireVector(InstrumentVpcmpxchg(sym, cpu, d, o[1], o[2], f[1], f[2]), d, o[1], o[2],
                        LAMBDA a, b : SelectLanes(a, b, f[3], f[2]), Symbolic(o) => f[1] = f[3])

AnalyzePmul ==
    /\ May("Vector")
    /\ \E o \in Lanes16, width \in PmulForms :
        RetireVector(InstrumentPmul(sym, cpu, o[1], o[2], width), o[1], o[1], o[2],
                     LAMBDA a, b : Lanes(a, b, width, LAMBDA x, y : x * y), TRUE)

AnalyzeVpmul ==
    /\ May("Vector")
    /\ \E d \in Full16, o \in Lanes16, width \in VpmulForms :
        /\ TernaryForm(d, o)
        /\ RetireVector(InstrumentVpmul(sym, cpu, d, o[1], o[2], width), d, o[1], o[2],
                        LAMBDA a, b : Lanes(a, b, width, LAMBDA x, y : x * y), TRUE)

HighLanes(a, b, signed) ==
    Lanes(a, b, 2, LAMBDA x, y :
        (IF signed THEN AsSigned(x, 2 * CharBit) * AsSigned(y, 2 * CharBit) ELSE x * y) \div 2^(2 * CharBit))

AnalyzePmulhw ==
    /\ May("Vector")
    /\ \E o \in Lanes16, signed \in PmulhwForms :
        RetireVector(InstrumentPmulhw(sym, cpu, o[1], o[2], signed), o[1], o[1], o[2],
                     LAMBDA a, b : HighLanes(a, b, signed), TRUE)

AnalyzeVpmulhw ==
    /\ May("Vector")
    /\ \E d \in Full16, o \in Lanes16, signed \in VpmulhwForms :
        /\ TernaryForm(d, o)
        /\ RetireVector(InstrumentVpmulhw(sym, cpu, d, o[1], o[2], signed), d, o[1], o[2],
                        LAMBDA a, b : HighLanes(a, b, signed), TRUE)

(* The signed elements are extended with zeros. *)
MaddExact(o) == Symbolic(o) => NonNegative(Load(cpu, o[1]), 2) /\ NonNegative(Load(cpu, o[2]), 2)

AnalyzePmaddwd ==
    /\ May("Vector")
    /\ \E o \in Lanes16 :
        RetireVector(InstrumentPmaddwd(sym, cpu, o[1], o[2]), o[1], o[1], o[2], MaddLanes, MaddExact(o))

AnalyzeVpmaddwd ==
    /\ May("Vector")
    /\ \E d \in Full16, o \in Lanes16 :
        /\ TernaryForm(d, o)
        /\ RetireVector(InstrumentVpmaddwd(sym, cpu, d, o[1], o[2]), d, o[1], o[2], MaddLanes, MaddExact(o))

(* An unsigned saturation takes the elements for unsigned. *)
PackExact(o, width, signed) ==
    Symbolic(o) /\ ~signed =>
        NonNegative(Load(cpu, o[1]), 2 * width) /\ NonNegative(Load(cpu, o[2]), 2 * width)

AnalyzePack ==
    /\ May("Vector")
    /\ \E o \in Lanes16, f \in PackForms :
        RetireVector(InstrumentPack(sym, cpu, o[1], o[2], f[1], f[2]), o[1], o[1], o[2],
                     LAMBDA a, b : PackLanes(a, b, f[1], f[2]), PackExact(o, f[1], f[2]))

AnalyzeVpack ==
    /\ May("Vector")
    /\ \E d \in Full16, o \in Lanes16, f \in VpackForms :
        /\ TernaryForm(d, o)
        /\ RetireVector(InstrumentVpack(sym, cpu, d, o[1], o[2], f[1], f[2]), d, o[1], o[2],
                        LAMBDA a, b : PackLanes(a, b, f[1], f[2]), PackExact(o, f[1], f[2]))

AnalyzePalignr ==
    /\ May("Vector")
    /\ \E o \in Lanes16, off \in {1, 16} :
        RetireVector(InstrumentPalignr(sym, cpu, o[1], o[2], off), o[1], o[1], o[2],
                     LAMBDA a, b : [k \in 1..16 |-> IF k + off <= 16 THEN b[k + off] ELSE a[k + off - 16]], TRUE)

InstrumentPunpck(s, x, y, f) ==
    IF f[1] THEN InstrumentPunpckh(s, cpu, x, y, f[2]) ELSE InstrumentPunpckl(s, cpu, x, y, f[2])

AnalyzePunpck ==
    /\ May("Vector")
    /\ \E o \in Lanes16, f \in PunpckForms :
        RetireVector(InstrumentPunpck(sym, o[1], o[2], f), o[1], o[1], o[2],
                     LAMBDA a, b : Interleave(a, b, f[2], f[1]), TRUE)

(* VPUNPCK and VPAND have three operands, and handlers that take the first  *)
(* two for the only ones.                                                   *)
AnalyzeVpunpckVpand ==
    /\ May("Vector")
    /\ \E d \in Full16, o \in Lanes16 :
        LET exact == ~Symbolic(<<d, o[1], o[2]>>) /\ OneAddress(o[2])
        IN  \/ \E f \in VpunpckForms :
                RetireVector(InstrumentPunpck(sym, d, o[1], f), d, o[1], o[2],
                             LAMBDA a, b : Interleave(a, b, f[2], f[1]), exact)
            \/ /\ Retire(InstrumentBinary(sym, cpu, "And", d, o[1], TRUE),
                         Store(cpu, d, Binary("And", Load(cpu, o[1]), Load(cpu, o[2]))), {}, Flag, exact)
               /\ Straight

AnalyzePshufb ==
    /\ May("Vector")
    /\ \E o \in Lanes16 :
        RetireVector(InstrumentPshufb(sym, cpu, o[1], o[2]), o[1], o[1], o[2], ShuffleBytes, OneAddress(o[2]))

AnalyzeVpshufb ==
    /\ May("Vector")
    /\ \E d \in Full16, o \in Lanes16 :
        /\ TernaryForm(d, o)
        /\ RetireVector(InstrumentVpshufb(sym, cpu, d, o[1], o[2]), d, o[1], o[2], ShuffleBytes, TRUE)

(* The elements an immediate selects *)
Order(imm, from) == [k \in 1..4 |-> from + 1 + ((imm \div 4^(k - 1)) % 4)]

AnalyzePshuf ==
    /\ May("Vector")
    /\ \E o \in Lanes16, imm \in {27, 228} :
        /\ TernaryImmForm(o)
        /\ Retire(InstrumentPshuf(sym, cpu, o[1], o[2], imm, 4),
                  Store(cpu, o[1], Shuffle(Load(cpu, o[2]), 4, Order(imm, 0))), {}, {}, TRUE)
    /\ Straight

AnalyzePshufw ==
    /\ May("Vector")
    /\ \E o \in Lanes16, high \in BOOLEAN :
        LET same == [k \in 1..4 |-> IF high THEN k ELSE 4 + k]
            order == IF high THEN same \o Order(27, 4) ELSE Order(27, 0) \o same
        IN  /\ TernaryImmForm(o)
            /\ Retire(InstrumentPshufw(sym, cpu, o[1], o[2], 27, high),
                      Store(cpu, o[1], Shuffle(Load(cpu, o[2]), 2, order)), {}, {}, TRUE)
    /\ Straight

(* The count is the low half of the second operand; that of memory is not   *)
(* made concrete, and one too large for an element is cut.                  *)
CountOf(count, i) == NumOf(Load(cpu, count), IF count.size < 8 THEN count.size ELSE 8, i)

ShiftLanes(e, count, kind, width) ==
    LET Byte16(k, i) == LET j == IF kind = "Shl" THEN k - CountOf(count, i) ELSE k + CountOf(count, i)
                        IN  IF j \in 1..16 THEN e[j][i] ELSE 0
    IN  IF width = 16 THEN [k \in 1..16 |-> [i \in Inputs |-> Byte16(k, i)]]
        ELSE Join([k \in DOMAIN Elements(e, width) |-> Of(width, [i \in Inputs |->
                ShiftResult(kind, Num(Elements(e, width)[k], i), CountOf(count, i), width * CharBit)])])

ShiftExact(a, count, width) ==
    Symbolic(<<a, count>>) =>
        /\ SeenCount(cpu, count) < 2^(2 * CharBit)
        /\ count.type = "mem" => Every(LAMBDA i : CountOf(count, i) = SeenCount(cpu, count))

Shifts16 == Lanes16 \cup {<<Full(r), Imm(1, 1)>> : r \in Vector}

AnalyzePshift ==
    /\ May("Vector")
    /\ \E o \in Shifts16, f \in PshiftForms :
        /\ f[2] = 16 => o[2].type = "imm"
        /\ Retire(InstrumentPshift(sym, cpu, o[1], o[2], f[1], f[2]),
                  Store(cpu, o[1], ShiftLanes(Load(cpu, o[1]), o[2], f[1], f[2])), {}, {},
                  ShiftExact(o[1], o[2], f[2]))
    /\ Straight

AnalyzeVpshift ==
    /\ May("Vector")
    /\ \E d \in Full16, o \in Shifts16, f \in VpshiftForms :
        /\ f[2] = 16 => o[2].type = "imm"
        /\ Retire(InstrumentVpshift(sym, cpu, d, o[1], o[2], f[1], f[2]),
                  Store(cpu, d, ShiftLanes(Load(cpu, o[1]), o[2], f[1], f[2])), {}, {},
                  ShiftExact(o[1], o[2], f[2]))
    /\ Straight

AnalyzePmovmskb ==
    /\ May("Vector")
    /\ \E r \in Vector :
        Retire(InstrumentPmovmskb(sym, cpu, Ax(4), Full(r)),
               Store(cpu, Ax(4), MaskOf(Load(cpu, Full(r)), 4)), {}, {}, TRUE)
    /\ Straight

(* The element is always the lowest. *)
AnalyzePextr ==
    /\ May("Vector")
    /\ \E r \in Vector, dst \in {Ax(4), At("RSI", 2)}, imm \in {0, 1} :
        Retire(InstrumentPextr(sym, cpu, dst, Full(r), imm, 2),
               Store(cpu, dst, ZExt(Elements(Load(cpu, Full(r)), 2)[imm + 1], dst.size)), {}, {},
               Symbolic(<<Full(r)>>) => imm = 0)
    /\ Straight

AnalyzeVmovl ==
    /\ May("Vector")
    /\ \E r, q \in Vector :
        LET m == At("RSI", 8)
        IN  Retire(InstrumentVmovl(sym, cpu, Full(r), Full(q), m),
                   Store(cpu, Full(r), Load(cpu, m) \o Load(cpu, Reg(q, 8, 8))), {}, {}, TRUE)
    /\ Straight

-----------------------------------------------------------------------------
Next ==
    \/ AnalyzeBinary \/ AnalyzeBinaryVector \/ AnalyzeCarry \/ AnalyzeIncDec \/ AnalyzeNegNot
    \/ AnalyzeMul \/ AnalyzeIMul \/ AnalyzeDiv \/ AnalyzeShift \/ AnalyzeShiftd
    \/ AnalyzeMovsxMovzxCbw \/ AnalyzeCwd \/ AnalyzeBs \/ AnalyzeBswap \/ AnalyzeBt
    \/ AnalyzeMov \/ AnalyzeMovh \/ AnalyzeMovlz \/ AnalyzeLea \/ AnalyzeXchg \/ AnalyzeXadd
    \/ AnalyzePush \/ AnalyzePop \/ AnalyzeCall \/ AnalyzeRet \/ AnalyzeLeave
    \/ AnalyzeMovs \/ AnalyzeStos \/ AnalyzeScas \/ AnalyzeCmps
    \/ AnalyzeJcc \/ AnalyzeCmov \/ AnalyzeSet \/ AnalyzeCmpxchg \/ AnalyzeJmp
    \/ AnalyzeRdtsc \/ AnalyzeClear \/ AnalyzeDefault \/ AnalyzeNotInserted \/ AnalyzeDefaultFlags
    \/ AnalyzeParith \/ AnalyzeVparith \/ AnalyzeTernary \/ AnalyzePcmp \/ AnalyzeVpcmp
    \/ AnalyzePcmpxchg \/ AnalyzeVpcmpxchg \/ AnalyzePmul \/ AnalyzeVpmul \/ AnalyzePmulhw
    \/ AnalyzeVpmulhw \/ AnalyzePmaddwd \/ AnalyzeVpmaddwd \/ AnalyzePack \/ AnalyzeVpack
    \/ AnalyzePalignr \/ AnalyzePunpck \/ AnalyzeVpunpckVpand \/ AnalyzePshufb \/ AnalyzeVpshufb
    \/ AnalyzePshuf \/ AnalyzePshufw \/ AnalyzePshift \/ AnalyzeVpshift
    \/ AnalyzePmovmskb \/ AnalyzePextr \/ AnalyzeVmovl

Spec == Init /\ [][Next]_vars

-----------------------------------------------------------------------------
(* The shadow predicts the machine: on every input that satisfies the       *)
(* constraints, a cell with an expression holds its value, and a cell       *)
(* without one holds what it holds in this run (setExprToReg,               *)
(* setExprToMem and the early returns of the handlers).                     *)
DataSound ==
    Data \notin doubt =>
        \A x \in Cell, i \in sym.path :
            cpu.cell[x][i] = IF sym.cell[x] = Null THEN cpu.cell[x][input] ELSE sym.cell[x][i]

(* So do the conditions of jumps: what computeJcc makes of the last         *)
(* operations is what the flags say on every input of the path.             *)
ConditionsSound ==
    Data \notin doubt =>
        \A jcc \in {j \in JccKind : Readable(j)} :
            LET e == ComputeJcc(sym, jcc, FALSE)
            IN  \A i \in sym.path :
                    Condition(cpu, jcc, i) = IF e = Null THEN Condition(cpu, jcc, input) ELSE e[i] = 1

(* The input of the run satisfies its own constraints: the mismatch that    *)
(* trace.cpp looks for cannot happen (Solver::addJcc, addValue).            *)
InputOnPath == Data \notin doubt => input \in sym.path

(* The constraints are enough: an input that satisfies them takes the same  *)
(* branches, so that negating the last leads where the solver says.         *)
PathFollows == Data \notin doubt => sym.path \subseteq follow
=============================================================================
