------------------------------- MODULE Eflags -------------------------------
(***************************************************************************)
(* Eflags (pintool/flags.h, flags.cpp): the lazy EFLAGS register of the    *)
(* symbolic executor.  An instruction with a symbolic operand records its  *)
(* operands in the FlagOperation of its kind and its kind in a ring; one   *)
(* without invalidates the flags it changes.  A conditional jump looks for *)
(* the operations its flags come from and builds its condition from them.  *)
(*                                                                         *)
(* The operands are abstracted to the time stamp of the operation: what a  *)
(* condition is built from is a set of pairs <<flag, time stamp>>.         *)
(***************************************************************************)
EXTENDS FlagTables, FiniteSets

CONSTANTS
    SetKinds,   \* the kinds of the instructions that are executed
    Jcc,        \* the conditions that are asked for
    MaxSets     \* bound on the instructions with a symbolic operand

ASSUME EflagsAssumption ==
    SetKinds \subseteq OpKind /\ Jcc \subseteq JccKind /\ MaxSets \in Nat

Concrete == 0          \* no symbolic operation wrote the flag
Garbage == -1          \* read through operations_[-1]

VARIABLES
    validSet,   \* valid_set_
    operations, \* time stamp of operations_[kind], 0 before it is set
    opKinds,    \* op_kinds_
    start,      \* start_
    sets,       \* number of calls of set
    writer      \* observer: the operation that wrote each flag last

vars == <<validSet, operations, opKinds, start, sets, writer>>

TypeOK ==
    /\ validSet \subseteq Flag
    /\ operations \in [OpKind -> 0..MaxSets]
    /\ opKinds \in [Slot -> OpKind \cup {NoKind}]
    /\ start \in Slot
    /\ sets \in 0..MaxSets
    /\ writer \in [Flag -> 0..MaxSets]

Init ==
    /\ validSet = {}
    /\ operations = [k \in OpKind |-> 0]
    /\ opKinds = [s \in Slot |-> NoKind]
    /\ start = 0
    /\ sets = 0
    /\ writer = [f \in Flag |-> Concrete]

-----------------------------------------------------------------------------
(* set, for an instruction with a symbolic operand *)
Set(kind) ==
    LET nextStart == (start + 1) % CcOpLast
    IN  /\ sets < MaxSets
        /\ sets' = sets + 1
        /\ validSet' = (validSet \ Undefined(kind)) \cup Affected(kind)
        /\ operations' = [operations EXCEPT ![kind] = sets + 1]
        /\ opKinds' = [opKinds EXCEPT ![nextStart] = kind]
        /\ start' = nextStart
        /\ writer' = [f \in Flag |-> IF f \in Affected(kind) THEN sets + 1
                                     ELSE IF f \in Undefined(kind) THEN Concrete
                                     ELSE writer[f]]

(* Mutant: the flags that become undefined stay valid. *)
InvalidateAffected(kind) ==
    /\ validSet' = validSet \ Affected(kind)
    /\ writer' = [f \in Flag |-> IF f \in FlagsOf(kind) THEN Concrete ELSE writer[f]]
    /\ UNCHANGED <<operations, opKinds, start, sets>>

(* invalidate, for an instruction without *)
Invalidate(kind) ==
    /\ validSet' = validSet \ FlagsOf(kind)
    /\ writer' = [f \in Flag |-> IF f \in FlagsOf(kind) THEN Concrete ELSE writer[f]]
    /\ UNCHANGED <<operations, opKinds, start, sets>>

Next == \E kind \in SetKinds : Set(kind) \/ Invalidate(kind)

Spec == Init /\ [][Next]_vars

-----------------------------------------------------------------------------
(* computeJcc *)

IsValid(jcc) == FlagsFromJcc(jcc) \subseteq validSet

(* Mutant: from the oldest to the newest. *)
SearchSlotUp(i) == (start + 1 + i) % CcOpLast

(* (start_ - i) % CC_OP_LAST in unsigned arithmetic.  TLC has no 2^32; it   *)
(* is congruent to 2^16 modulo CC_OP_LAST.                                  *)
SearchSlot(i) == ((start - i) % 2^16) % CcOpLast

(* flags_ of the operation in a slot, {} if it was never set *)
SlotFlags(s) ==
    IF operations[opKinds[s]] = 0 THEN {} ELSE FlagsOf(opKinds[s])

(* The first slot of the search that is out of bounds, or has the flag *)
Hit(flag, i) ==
    LET s == SearchSlot(i)
    IN  opKinds[s] = NoKind \/ flag \in SlotFlags(s)

(* computeFlag: what the flag is computed from, {} for NULL *)
ComputeFlag(flag) ==
    LET hits == {i \in Slot : Hit(flag, i)}
    IN  {<<flag, IF opKinds[SearchSlot(i)] = NoKind THEN Garbage
                 ELSE operations[opKinds[SearchSlot(i)]]>> :
            i \in {j \in hits : \A k \in hits : j <= k}}

(* computeFastJcc applies, ... *)
IsFast(jcc) ==
    LET kind == opKinds[start]
    IN  \/ kind = "SUB" /\ jcc \in {"B", "BE", "L", "LE", "Z", "S"}
        \/ jcc = "S" /\ "SF" \in FlagsOf(kind)
        \/ jcc = "Z" /\ "ZF" \in FlagsOf(kind)

(* ... and takes all from the last operation. *)
ComputeFastJcc(jcc) ==
    {<<f, operations[opKinds[start]]>> : f \in FlagsFromJcc(jcc)}

(* computeSlowJcc: the case of JCC_Z goes on into that of JCC_O *)
ComputeSlowJcc(jcc) ==
    CASE jcc = "B" -> ComputeFlag("CF")
      [] jcc = "BE" -> ComputeFlag("CF") \cup ComputeFlag("ZF")
      [] jcc = "L" -> ComputeFlag("SF") \cup ComputeFlag("OF")
      [] jcc = "LE" -> ComputeFlag("SF") \cup ComputeFlag("OF") \cup ComputeFlag("ZF")
      [] jcc = "S" -> ComputeFlag("SF")
      [] jcc \in {"Z", "O"} -> ComputeFlag("OF")
      [] jcc = "P" -> ComputeFlag("PF")

ComputeJcc(jcc) == IF IsFast(jcc) THEN ComputeFastJcc(jcc) ELSE ComputeSlowJcc(jcc)

-----------------------------------------------------------------------------
(* A flag counts as symbolic exactly if a symbolic operation wrote it last. *)
ValidIsSymbolic == \A f \in Flag : f \in validSet <=> writer[f] # Concrete

(* The writer of a flag that the search comes to before it comes to an      *)
(* older operation.  The search of computeFlag goes down from start_ to 0   *)
(* and does not go on at 11: -1 as an unsigned number is 3 modulo 12.  It   *)
(* visits 3, 2, 1 and 0, then goes on down from 11.  All writers are within *)
(* reach until the twelfth operation fills the ring.                        *)
InReach(f) ==
    sets - writer[f] <= IF start \in 3..6 THEN 7 ELSE start

(* The condition of a jump is built from the flags it tests, and each from  *)
(* the operation that wrote it last (computeJcc), if the search reaches the *)
(* writers in the order of their age.                                       *)
JccFromLastWriters ==
    \A jcc \in Jcc : IsValid(jcc) /\ (\A f \in FlagsFromJcc(jcc) : InReach(f)) =>
        ComputeJcc(jcc) = {<<f, writer[f]>> : f \in FlagsFromJcc(jcc)}
=============================================================================
