----------------------------- MODULE FlagTables -----------------------------
(***************************************************************************)
(* The kinds of operations that write EFLAGS and the conditions that read  *)
(* it, with the flags of each (pintool/flags.h).                           *)
(***************************************************************************)
EXTENDS Integers

Flag == {"CF", "PF", "ZF", "SF", "OF"}
OpKind == {"ADD", "SUB", "LOGIC", "INC", "DEC", "SHL", "SHR", "ROR", "ROL",
           "SMUL", "UMUL", "BT"}
JccKind == {"B", "BE", "L", "LE", "O", "S", "P", "Z"}

CcOpLast == 12         \* CC_OP_LAST
Slot == 0..CcOpLast - 1
NoKind == "-1"         \* op_kinds_ is filled with -1

(* getAffectedEflagsFromOpKind *)
Affected(kind) ==
    CASE kind = "BT" -> {"CF"}
      [] kind \in {"INC", "DEC"} -> Flag \ {"CF"}
      [] kind \in {"ROR", "ROL"} -> {"CF", "OF"}
      [] OTHER -> Flag

(* getUndefinedEflagsFromOpKind; AF is in no jump's condition *)
Undefined(kind) == IF kind = "BT" THEN {"OF", "SF", "PF"} ELSE {}

(* getEflagsFromOpKind *)
FlagsOf(kind) == Affected(kind) \cup Undefined(kind)

(* getEflagsFromJcc *)
FlagsFromJcc(jcc) ==
    CASE jcc = "B" -> {"CF"}
      [] jcc = "BE" -> {"CF", "ZF"}
      [] jcc = "L" -> {"SF", "OF"}
      [] jcc = "LE" -> {"SF", "OF", "ZF"}
      [] jcc = "S" -> {"SF"}
      [] jcc = "Z" -> {"ZF"}
      [] jcc = "O" -> {"OF"}
      [] jcc = "P" -> {"PF"}
=============================================================================
