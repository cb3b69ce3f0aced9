---------------------------- MODULE ExprBuilder -----------------------------
(***************************************************************************)
(* A value that the program computes, and the expression that the builders *)
(* make for it: one create call after the other, the last expression being *)
(* an operand of the next.  With linearization, blocks are run in between  *)
(* and decide through the call stack manager what becomes concrete.        *)
(***************************************************************************)
EXTENDS ExprRules, CallStackManager

CONSTANTS
    Plans,      \* what may be created, by name: see Init
    MaxBits     \* the widest expression made

VARIABLES
    plan,       \* the plan that is followed
    input,      \* the input of this run
    expr,       \* the expression
    meaning,    \* what the program computes, on every input
    exact,      \* no rule was applied outside of the condition it needs
    kept,       \* every block that the expression was made in was rare
    steps,      \* expressions made in a row
    blocks      \* blocks run

exprVars == <<plan, input, expr, meaning, exact, kept, steps, blocks>>
(* The other operands, of any width and of either sort *)
Operands == Plans[plan].operands

vars == <<exprVars, csmVars>>

Means(e) == [i \in Inputs |-> Value(e, i)]

(* A plan has linearization (g_opt_linearization), the inputs to run on, the *)
(* expressions to start from, the kinds to create at each step, the other    *)
(* operands and a bound on the blocks run.                                   *)
Init ==
    /\ plan \in DOMAIN Plans
    /\ input \in Plans[plan].inputs
    /\ expr \in Plans[plan].seeds
    /\ meaning = Means(expr)
    /\ exact = TRUE /\ kept = TRUE
    /\ steps = 0 /\ blocks = 0
    /\ CallStackInit

-----------------------------------------------------------------------------
(* The rules for division by a constant that need more than they check:      *)
(* SExt(x) /s y if y fits x, but as a negative number, and (x / c) / y if    *)
(* c * y overflows.                                                          *)
RECURSIVE InexactDivision(_, _, _)
InexactDivision(kind, l, r) ==
    LET signed == kind = "SDiv"
        c == l.args[2]
        product == IF signed THEN AsSigned(c.val, c.bits) * AsSigned(r.val, r.bits) ELSE c.val * r.val
        inner == CASE signed /\ l.kind = "SExt" -> l.args[1]
                   [] ~signed /\ l.kind = "Concat" /\ IsZero(l.args[1]) -> l.args[2]
                   [] OTHER -> None
    IN  /\ kind \in {"SDiv", "UDiv"} /\ ~IsConst(l) /\ IsConst(r)
        /\ ~(signed /\ IsAllOnes(r))
        /\ IF inner # None /\ inner.bits >= ActiveBits(r)
           THEN \/ signed /\ inner.bits = ActiveBits(r)
                \/ InexactDivision(kind, inner, Const(r.val, inner.bits))
           ELSE /\ l.kind = kind /\ IsConst(c)
                /\ \/ signed /\ product \notin -(2^(l.bits - 1))..(2^(l.bits - 1) - 1)
                   \/ signed /\ product = -(2^(l.bits - 1))
                   \/ ~signed /\ product >= 2^l.bits
                   \/ InexactDivision(kind, l.args[1], Const(product, l.bits))

(* Create the expression q, of which the arguments at are expr, and compute  *)
(* the value.                                                                *)
Make(q, at) ==
    LET asks == Plans[plan].linearization /\ AsksPrune(q, input)
        of(i) == [q EXCEPT !.args = [k \in DOMAIN q.args |->
                     IF k \in at THEN Const(meaning[i], expr.bits) ELSE q.args[k]]]
    IN  /\ IF asks THEN UpdateBitmap ELSE UNCHANGED csmVars
        /\ expr' = Create(Builder(Chain(Plans[plan].linearization), IF interesting' THEN "yes" ELSE "no", input), q)
        /\ meaning' = [i \in Inputs |-> Value(of(i), i)]
        /\ exact' = (exact /\ ~InexactDivision(q.kind, q.args[1], q.args[Len(q.args)]))
        /\ kept' = (kept /\ (asks => rare'))
        /\ steps' = steps + 1
        /\ UNCHANGED <<plan, input, blocks>>

Kinds == IF steps < Len(Plans[plan].kinds) THEN Plans[plan].kinds[steps + 1] ELSE {}

Arith == {"Add", "Sub", "Mul", "UDiv", "SDiv", "URem", "SRem", "And", "Or", "Xor", "Shl", "LShr", "AShr"}
Division == {"UDiv", "SDiv", "URem", "SRem"}
Like(e) == {x \in Operands : x.bits = e.bits /\ IsBool(x.kind) = IsBool(e.kind)}

(* The arguments of a binary operation on expr, and which are expr *)
Pairs(others) ==
    {[l |-> expr, r |-> x, at |-> {1}] : x \in others} \cup {[l |-> x, r |-> expr, at |-> {2}] : x \in others}
Both == [l |-> expr, r |-> expr, at |-> {1, 2}]

(* createAdd, ..., createAShr.  A division by zero is a fault of the program. *)
CreateBinary ==
    \E kind \in Kinds \cap Arith, p \in Pairs(Like(expr)) \cup {Both} :
        /\ ~IsBool(expr.kind)
        /\ kind \in Division => Value(p.r, input) # 0 /\ (2 \in p.at => meaning[input] # 0)
        /\ Make(Two(kind, p.l, p.r), p.at)

(* createEqual and createDistinct take truth values as well. *)
CreateCompare ==
    \E kind \in Kinds \cap Comparison, p \in Pairs(Like(expr)) \cup {Both} :
        /\ IsBool(expr.kind) => kind \in {"Equal", "Distinct"}
        /\ Make(Two(kind, p.l, p.r), p.at)

CreateLogical ==
    \E kind \in Kinds \cap {"LAnd", "LOr"}, p \in Pairs(Like(expr)) \cup {Both} :
        IsBool(expr.kind) /\ Make(Two(kind, p.l, p.r), p.at)

CreateUnary ==
    \E kind \in Kinds \cap {"Neg", "Not", "LNot"} :
        IsBool(expr.kind) = (kind = "LNot") /\ Make(One(kind, expr), {1})

CreateConcat ==
    \E p \in Pairs({x \in Operands : ~IsBool(x.kind) /\ x.bits + expr.bits <= MaxBits}) :
        "Concat" \in Kinds /\ ~IsBool(expr.kind) /\ Make(Two("Concat", p.l, p.r), p.at)

CreateExtract ==
    \E index \in 0..(expr.bits - 1) : \E bits \in 1..(expr.bits - index) :
        "Extract" \in Kinds /\ ~IsBool(expr.kind) /\ Make(Cut(expr, index, bits), {1})

(* createZExt may also shrink. *)
CreateExt ==
    \E kind \in Kinds \cap {"ZExt", "SExt"} : \E bits \in {CharBit, MaxBits} :
        /\ ~IsBool(expr.kind)
        /\ kind = "SExt" => bits > expr.bits
        /\ Make(Widen(kind, expr, bits), {1})

(* createIte, boolToBit: by expr or of expr *)
CreateIte ==
    /\ "Ite" \in Kinds
    /\ IF IsBool(expr.kind)
       THEN \E t \in {x \in Operands : ~IsBool(x.kind)} : \E f \in Like(t) : Make(Choice(expr, t, f), {1})
       ELSE \E c \in {x \in Operands : IsBool(x.kind)} : \E p \in Pairs(Like(expr)) :
                Make(Choice(c, p.l, p.r), {k + 1 : k \in p.at})

-----------------------------------------------------------------------------
(* Linearization: calls, returns and blocks.  In a block the program goes on *)
(* with the value or turns to another one.                                   *)
Control == Plans[plan].linearization /\ blocks < Plans[plan].blocks

Call == \E pc \in Return : Control /\ VisitCall(pc) /\ UNCHANGED exprVars

Ret == \E pc \in Return : Control /\ VisitRet(pc) /\ UNCHANGED exprVars

Bbl ==
    /\ Control
    /\ \E pc \in Block : VisitBasicBlock(pc)
    /\ blocks' = blocks + 1
    /\ \/ UNCHANGED <<expr, meaning, exact, kept, steps>>
       \/ /\ expr' \in Plans[plan].seeds
          /\ meaning' = Means(expr')
          /\ exact' = TRUE /\ kept' = TRUE
          /\ steps' = 0
    /\ UNCHANGED <<plan, input>>

Next ==
    \/ CreateBinary \/ CreateCompare \/ CreateLogical \/ CreateUnary
    \/ CreateConcat \/ CreateExtract \/ CreateExt \/ CreateIte
    \/ Call \/ Ret \/ Bbl

Spec == Init /\ [][Next]_vars

-----------------------------------------------------------------------------
(* Without linearization the expression has the value that the program       *)
(* computes, on every input: no sequence of rewritings by the builders       *)
(* changes what an expression means.                                         *)
MeaningKept == exact /\ ~Plans[plan].linearization => Means(expr) = meaning

(* Whatever was made concrete, on the input of the run the expression has    *)
(* the value that the program computed, so that a path constraint of it is   *)
(* true of this run.                                                         *)
ConcreteKept == exact => Value(expr, input) = meaning[input]

(* An expression loses inputs only if a block it was made in had been run at *)
(* least 3 * kStride times before with the same calls in progress, as long   *)
(* as no return skipped a call.                                              *)
PrunedOnlyIfFrequent ==
    exact /\ Plans[plan].linearization /\ nested /\ kept => Means(expr) = meaning

(* The assertions in the constructors of expr.h: operands of equal width,    *)
(* extracts inside of their operand, extensions that extend.                 *)
AssertionsHold == \A e \in NodesOf(expr) : NodeOK(e)
=============================================================================
