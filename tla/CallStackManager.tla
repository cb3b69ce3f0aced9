-------------------------- MODULE CallStackManager --------------------------
(***************************************************************************)
(* CallStackManager (pintool/call_stack_manager.cpp): how often a block    *)
(* was run in a calling context decides whether it is interesting, that    *)
(* is, whether PruneExprBuilder keeps its expressions symbolic.            *)
(***************************************************************************)
EXTENDS Integers, Sequences, Bitwise

CONSTANTS
    Block,          \* the addresses of blocks
    Return,         \* ... and of the instructions that calls return to
    Hash(_, _),     \* the entry of a block in a calling context
    Entry,          \* 0..kBitmapSize - 1
    CounterBits,    \* bits of a counter: 16
    Stride,         \* kStride
    MaxCalls        \* bound on the calls in progress

ASSUME CallStackAssumption ==
    /\ {CounterBits, Stride, MaxCalls} \subseteq Nat \ {0}
    /\ \A b \in Block : Hash(b, <<>>) \in Entry

VARIABLES
    callStack,      \* call_stack_
    lastPc,         \* last_pc_
    pending,        \* pending_
    interesting,    \* is_interesting_
    bitmap,         \* bitmap_
    realStack,      \* the calls in progress in the program
    nested,         \* every return so far was to the last call
    visits,         \* the updates so far, by block and calls in progress
    rare            \* before the last one, there were few of its kind

csmVars == <<callStack, lastPc, pending, interesting, bitmap, realStack, nested, visits, rare>>

(* A block is run before anything else.  The memory of the bitmap is fresh   *)
(* from the system, hence zero.                                              *)
CallStackInit ==
    /\ callStack = <<>> /\ realStack = <<>> /\ nested = TRUE
    /\ lastPc \in Block /\ pending = TRUE
    /\ interesting = TRUE /\ rare = TRUE
    /\ bitmap = [n \in Entry |-> 0]
    /\ visits = [n \in Entry |-> 0]

VisitCall(pc) ==
    /\ Len(callStack) < MaxCalls
    /\ callStack' = Append(callStack, pc)
    /\ realStack' = Append(realStack, pc)
    /\ UNCHANGED <<lastPc, pending, interesting, bitmap, nested, visits, rare>>

(* Mutant: every return empties the stack. *)
UnwindAll(stack, pc) == <<>>

(* The loop compares the top of the stack in every round: if it is not the   *)
(* address returned to, all are removed.                                     *)
Unwind(stack, pc) ==
    IF stack # <<>> /\ stack[Len(stack)] = pc THEN SubSeq(stack, 1, Len(stack) - 1) ELSE <<>>

(* A return to the last call, or over several calls at once. *)
VisitRet(pc) ==
    /\ \E n \in DOMAIN realStack :
        /\ realStack[n] = pc
        /\ \A m \in DOMAIN realStack : m > n => realStack[m] # pc
        /\ realStack' = SubSeq(realStack, 1, n - 1)
        /\ nested' = (nested /\ n = Len(realStack))
    /\ callStack' = Unwind(callStack, pc)
    /\ UNCHANGED <<lastPc, pending, interesting, bitmap, visits, rare>>

VisitBasicBlock(pc) ==
    /\ lastPc' = pc
    /\ pending' = TRUE
    /\ UNCHANGED <<callStack, interesting, bitmap, realStack, nested, visits, rare>>

IsPowerOfTwo(n) == n = 0 \/ n & (n - 1) = 0

(* updateBitmap, called when a symbolic expression is made *)
UpdateBitmap ==
    LET n == Hash(lastPc, callStack)
        real == Hash(lastPc, realStack)
    IN  IF pending
        THEN /\ pending' = FALSE
             /\ interesting' = IsPowerOfTwo(bitmap[n] \div Stride)
             /\ bitmap' = [bitmap EXCEPT ![n] = (@ + 1) % 2^CounterBits]
             /\ visits' = [visits EXCEPT ![real] = @ + 1]
             /\ rare' = (visits[real] < 3 * Stride)
             /\ UNCHANGED <<callStack, lastPc, realStack, nested>>
        ELSE UNCHANGED csmVars
=============================================================================
