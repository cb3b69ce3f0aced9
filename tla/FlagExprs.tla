------------------------------ MODULE FlagExprs ------------------------------
(***************************************************************************)
(* The expressions of the flags and of the conditions of jumps (flags.cpp) *)
(* over the EFLAGS part of a shadow state s: s.valid is valid_set_, s.ops  *)
(* operations_, s.kinds op_kinds_ and s.start start_.  The operation of a  *)
(* kind is the record of its result, destination and source.               *)
(***************************************************************************)
EXTENDS FlagTables, ThreadContext

NoOp == [res |-> Null, dst |-> Null, src |-> Null]      \* flags_ = 0

EflagsInit ==
    [valid |-> {}, ops |-> [k \in OpKind |-> NoOp], kinds |-> [n \in Slot |-> NoKind],
     start |-> 0]

(* Eflags::set with validate and FlagOperation::set *)
SetEflags(s, kind, res, dst, src) ==
    [s EXCEPT !.valid = (@ \ Undefined(kind)) \cup Affected(kind),
              !.ops[kind] = [res |-> res, dst |-> dst, src |-> src],
              !.kinds[(s.start + 1) % CcOpLast] = kind,
              !.start = (@ + 1) % CcOpLast]

(* Eflags::invalidate *)
InvalidateEflags(s, kind) == [s EXCEPT !.valid = @ \ FlagsOf(kind)]

-----------------------------------------------------------------------------
(* What the operation of each kind makes of a flag *)

(* MulFlagOperation::_computeOF: the low half, extended, is the product *)
MulOF(op, signed) ==
    Compare("Equal", op.res,
            (IF signed THEN SExt(Extract(op.res, 0, Len(op.res) \div 2), Len(op.res))
             ELSE ZExt(Extract(op.res, 0, Len(op.res) \div 2), Len(op.res))))

(* computeCF *)
CF(kind, op) ==
    CASE kind = "ADD" -> Compare("Ult", op.res, op.src)
      [] kind = "SUB" -> Compare("Ult", op.dst, op.src)
      [] kind = "LOGIC" -> BConst(0)
      [] kind = "SHL" -> Msb(op.dst)
      [] kind = "SHR" -> Lsb(op.dst)
      [] kind = "ROL" -> Lsb(op.res)
      [] kind = "ROR" -> Msb(op.res)
      [] kind \in {"SMUL", "UMUL"} -> MulOF(op, kind = "SMUL")
      [] kind = "BT" -> op.res

(* computeOF *)
OF(kind, op) ==
    CASE kind = "ADD" -> BAnd(BNot(BXor(Msb(op.dst), Msb(op.src))), BXor(Msb(op.res), Msb(op.dst)))
      [] kind = "SUB" -> BAnd(BXor(Msb(op.dst), Msb(op.src)), BXor(Msb(op.res), Msb(op.dst)))
      [] kind = "LOGIC" -> BConst(0)
      [] kind = "INC" -> Compare("Equal", op.res, Constant(2^(Bits(op.res) - 1), Len(op.res)))
      [] kind = "DEC" -> Compare("Equal", op.res, Constant(2^(Bits(op.res) - 1) - 1, Len(op.res)))
      [] kind \in {"SHL", "SHR"} -> BXor(Msb(op.res), Msb(op.dst))
      [] kind = "ROL" -> BXor(Msb(op.res), Lsb(op.res))
      [] kind = "ROR" -> BXor(Msb(op.res), Bit(op.res, Bits(op.res) - 2))
      [] kind \in {"SMUL", "UMUL"} -> MulOF(op, kind = "SMUL")

FlagExpr(flag, kind, op) ==
    CASE flag = "CF" -> CF(kind, op)
      [] flag = "OF" -> OF(kind, op)
      [] flag = "PF" -> Parity(op.res)
      [] flag = "SF" -> Msb(op.res)
      [] flag = "ZF" -> Zero(op.res)

-----------------------------------------------------------------------------
(* The search of the ring, newest first; only called for valid flags, whose *)
(* writers are in the ring of a short program                               *)

(* (start_ - i) % CC_OP_LAST in unsigned arithmetic; 2^32 is congruent to   *)
(* 2^16 modulo CC_OP_LAST.                                                  *)
SlotKind(s, n) == s.kinds[((s.start - n) % 2^16) % CcOpLast]

(* computeFlag *)
Newest(ns) == CHOOSE n \in ns : \A m \in ns : n <= m
KindFlag(s, flag, kind) == FlagExpr(flag, kind, s.ops[kind])
ComputeFlag(s, flag) ==
    KindFlag(s, flag, SlotKind(s, Newest({n \in Slot : SlotKind(s, n) # NoKind /\ flag \in FlagsOf(SlotKind(s, n))})))

(* computeFastJcc of the condition that is not inverted, Null if it does    *)
(* not apply: kind is that of the last operation, op                        *)
FastCompare == [B |-> "Ult", BE |-> "Ule", L |-> "Slt", LE |-> "Sle", Z |-> "Equal"]
FastJcc(kind, op, jcc) ==
    IF kind = "SUB" /\ jcc \in DOMAIN FastCompare THEN Compare(FastCompare[jcc], op.dst, op.src)
    ELSE IF jcc = "S" /\ "SF" \in FlagsOf(kind) THEN Msb(op.res)
    ELSE IF kind # "SUB" /\ jcc = "Z" /\ "ZF" \in FlagsOf(kind) THEN Zero(op.res)
    ELSE Null
ComputeFastJcc(s, jcc) == FastJcc(s.kinds[s.start], s.ops[s.kinds[s.start]], jcc)

(* computeSlowJcc, of the flags: the case of JCC_Z goes on into that of     *)
(* JCC_O                                                                    *)
SlowJcc(flags, jcc) ==
    CASE jcc = "B" -> flags["CF"]
      [] jcc = "BE" -> BOr(flags["CF"], flags["ZF"])
      [] jcc = "L" -> BXor(flags["SF"], flags["OF"])
      [] jcc = "LE" -> BOr(BXor(flags["SF"], flags["OF"]), flags["ZF"])
      [] jcc = "S" -> flags["SF"]
      [] jcc \in {"Z", "O"} -> flags["OF"]
      [] jcc = "P" -> flags["PF"]
ComputeSlowJcc(s, jcc) == SlowJcc([f \in FlagsFromJcc(jcc) \cup {"OF"} |-> ComputeFlag(s, f)], jcc)

(* computeJcc: Null if a flag of the condition is concrete *)
Invert(e, inv) == IF inv THEN BNot(e) ELSE e
FastOrSlow(s, jcc, fast) == IF fast # Null THEN fast ELSE ComputeSlowJcc(s, jcc)
ComputeJcc(s, jcc, inv) ==
    IF ~(FlagsFromJcc(jcc) \subseteq s.valid) THEN Null
    ELSE Invert(FastOrSlow(s, jcc, ComputeFastJcc(s, jcc)), inv)
=============================================================================
