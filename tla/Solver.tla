------------------------------- MODULE Solver -------------------------------
(***************************************************************************)
(* Solver of pintool/solver.cpp: how the path constraint is collected and  *)
(* sliced, when z3 is asked, and which new inputs are written.             *)
(*                                                                         *)
(* The data.  An expression e reads the bytes Deps[e] and has the value    *)
(* Denote[e][w] on input w; a formula <<e, W>> about e is true on the      *)
(* inputs W.  In(e, S), e's value is in S, covers every constraint of the  *)
(* path: a comparison of e with a constant (a RangeSet on e), a relational *)
(* expression or its LNot (e is boolean), e = v.  z3 is external: a check  *)
(* of the asserted formulas is sat with any model, unsat only if there is  *)
(* none, or unknown at any time (the 10 s timeout, or an exception); a     *)
(* model names the bytes of the asserted formulas and no other.            *)
(*                                                                         *)
(* The program under test runs on Input, so what it reports about an       *)
(* expression is true of Input.  The dependency forest is used through its *)
(* abstract specification, ConstraintSlices.                               *)
(***************************************************************************)
EXTENDS Integers, Sequences, FiniteSets

CONSTANTS
    Byte,      \* offsets of the input file
    Value,     \* values of a byte
    Input,     \* inputs_: the current input
    Expr,      \* symbolic expressions met on the path
    Deps,      \* Deps[e]: the bytes e reads; {} for a concrete expression
    Result,    \* values of expressions
    Denote,    \* Denote[e][w]: the value of e on input w
    Tests,     \* Tests[e]: the sets of values that branches on e single out
    MaxAdds,   \* bound on the constraints added on one expression
    None

Assignment == [Byte -> Value]

ASSUME InputAssumption == Input \in Assignment
ASSUME ExprAssumption ==
    /\ Deps \in [Expr -> SUBSET Byte]
    /\ Denote \in [Expr -> [Assignment -> Result]]
    /\ Tests \in [Expr -> SUBSET SUBSET Result]
    /\ Result \subseteq Nat
(* computeDependencies names every byte an expression reads. *)
ASSUME DependencyAssumption ==
    \A e \in Expr : \A v, w \in Assignment :
        (\A b \in Deps[e] : v[b] = w[b]) => Denote[e][v] = Denote[e][w]
ASSUME BoundAssumption == MaxAdds \in Nat
ASSUME NoneAssumption == None \notin [Assignment -> Result]

VARIABLES
    slice, added,    \* dep_forest_, see ConstraintSlices
    range,           \* range[e]: the values e's RangeSets (or polarity) allow
    lastInterested,  \* last_interested_
    frames,          \* the assertion stack of solver_: a sequence of sets
    pc,              \* where the current operation is
    op,              \* its expression and the values the path allows for it
    lo, hi,          \* min_expr and max_expr of addAddr (None: uninitialised)
    saved,           \* the input saved by the latest step, or None
    path,            \* observer: the formulas collected on the path so far
    lost,            \* observer: formulas of the path that were never added
    found,           \* observer: values of op.e seen in saved inputs of op
    unknown,         \* observer: z3 gave up during the current operation
    everUnknown      \* observer: z3 gave up during some operation

vars == <<slice, added, range, lastInterested, frames, pc, op, lo, hi, saved,
          path, lost, found, unknown, everUnknown>>

Forest == INSTANCE ConstraintSlices WITH Index <- Byte, Node <- Expr

(* A formula about e reads no byte that e does not read. *)
Formula ==
    {f \in Expr \X SUBSET Assignment : \A v, w \in Assignment :
        (\A b \in Deps[f[1]] : v[b] = w[b]) => (v \in f[2] <=> w \in f[2])}
(* A value that z3 evaluates to: a number, or a term over the input bytes.  *)
Term == [Assignment -> Result]
Operation == [e : Expr, in : SUBSET Result, kind : {"jcc", "addr", "all", "value"}]
Locations == {"run", "negate", "optimistic", "addr", "min", "max", "solve_min",
              "solve_max", "all_check", "all", "all_optimistic", "constrain",
              "aborted"}

TypeOK ==
    /\ Forest!TypeOK
    /\ range \in [Expr -> SUBSET Result]
    /\ lastInterested \in BOOLEAN
    /\ frames \in Seq(SUBSET Formula)
    /\ pc \in Locations
    /\ op \in Operation \cup {None}
    /\ lo \in Term \cup {None}
    /\ hi \in Term \cup {None}
    /\ saved \in [values : Assignment, optimistic : BOOLEAN] \cup {None}
    /\ path \in SUBSET Formula
    /\ lost \in SUBSET Formula
    /\ found \in SUBSET Result
    /\ unknown \in BOOLEAN
    /\ everUnknown \in BOOLEAN

Init ==
    /\ Forest!Init
    /\ range = [e \in Expr |-> Result]
    /\ lastInterested = FALSE
    /\ frames = <<{}>>
    /\ pc = "run"
    /\ op = None
    /\ lo = None
    /\ hi = None
    /\ saved = None
    /\ path = {}
    /\ lost = {}
    /\ found = {}
    /\ unknown = FALSE
    /\ everUnknown = FALSE

-----------------------------------------------------------------------------
(* z3 *)

In(e, S) == <<e, {w \in Assignment : Denote[e][w] \in S}>>
Ult(e, t) == <<e, {w \in Assignment : Denote[e][w] < t[w]}>>
Ugt(e, t) == <<e, {w \in Assignment : Denote[e][w] > t[w]}>>
Equal(e, t) == <<e, {w \in Assignment : Denote[e][w] = t[w]}>>

Holds(w, f) == w \in f[2]
Satisfies(w, F) == \A f \in F : Holds(w, f)

Asserted == UNION {frames[k] : k \in DOMAIN frames}

Support(F) == UNION {Deps[f[1]] : f \in F}

(* getConcreteValues: the bytes that z3's model names are taken from it,    *)
(* all others from the current input.                                       *)
Models(F) == {w \in Assignment : /\ Satisfies(w, F)
                                 /\ \A b \in Byte \ Support(F) : w[b] = Input[b]}

(* getPossibleValue: m.eval(e) without model completion.  The bytes of e    *)
(* that the model w does not name stay symbols of the result, which is a    *)
(* number only if there are none.                                           *)
GetPossibleValue(e, w) ==
    [v \in Assignment |->
        Denote[e][[b \in Byte |-> IF b \in Support(Asserted) THEN w[b] ELSE v[b]]]]

(* check() did not answer sat: unsat, or unknown. *)
NotSat ==
    \/ Models(Asserted) = {} /\ UNCHANGED <<unknown, everUnknown>>
    \/ unknown' = TRUE /\ everUnknown' = TRUE

Sat == UNCHANGED <<unknown, everUnknown>>

-----------------------------------------------------------------------------
(* The assertion stack *)

Top == frames[Len(frames)]
(* add and solver_.add; add's is_const test is for a 0-ary term, which no   *)
(* constraint on input bytes is.                                            *)
AddTop(f) == [frames EXCEPT ![Len(frames)] = @ \cup {f}]
Push == Append(frames, {})
Pop == SubSeq(frames, 1, Len(frames) - 1)

(* Mutant: only the constraints on bytes of e itself. *)
SyncConstraintsOwn(e) ==
    {In(n, range[n]) : n \in {m \in Expr : added[m] > 0 /\ Deps[m] \subseteq Deps[e]}}

(* syncConstraints: the constraints of the trees of e's bytes, each with    *)
(* the range its expression has now.                                        *)
SyncConstraints(e) ==
    {In(n, range[n]) : n \in {m \in Expr : \E b \in Deps[e] : slice[b][m] > 0}}

(* saveValues(postfix) *)
SaveValues(w, optimistic) ==
    saved' = [values |-> w, optimistic |-> optimistic]

-----------------------------------------------------------------------------
(* Operations called by the instrumentation.  Each starts at "run".  A      *)
(* concrete e is left alone: by an early return, or, for solveAll, because  *)
(* registers and memory keep no concrete expression.                        *)

Start(e, in, kind) ==
    /\ pc = "run"
    /\ added[e] < MaxAdds
    /\ Deps[e] # {}
    /\ op' = [e |-> e, in |-> in, kind |-> kind]
    /\ saved' = None
    /\ lo' = None
    /\ hi' = None
    /\ found' = {}
    /\ unknown' = FALSE
    /\ UNCHANGED <<slice, added, range, path, lost, everUnknown>>

(* addJcc(e, taken, pc): the branch tests whether e's value is in t, and    *)
(* the program takes the side its input says.  isInterestingJcc (the trace  *)
(* map) decides whether the other side is worth solving; a call with pc = 0 *)
(* uses last_interested_ instead, which is one of the two choices.          *)
Taken(e, t) == IF Denote[e][Input] \in t THEN t ELSE Result \ t

(* Mutant: no reset before the query. *)
AddJccNoReset(e, t, interesting) ==
    /\ Start(e, Taken(e, t), "jcc")
    /\ lastInterested' = interesting
    /\ frames' = IF interesting
                 THEN <<Asserted \cup SyncConstraints(e) \cup {In(e, Result \ Taken(e, t))}>>
                 ELSE frames
    /\ pc' = IF interesting THEN "negate" ELSE "constrain"

AddJcc(e, t, interesting) ==
    /\ Start(e, Taken(e, t), "jcc")
    /\ lastInterested' = interesting
    /\ IF interesting
       THEN /\ frames' = <<SyncConstraints(e) \cup {In(e, Result \ Taken(e, t))}>>
            /\ pc' = "negate"
       ELSE /\ frames' = frames
            /\ pc' = "constrain"

(* addAddr(e, addr) *)
AddAddr(e) ==
    /\ Start(e, {Denote[e][Input]}, "addr")
    /\ IF lastInterested
       THEN frames' = <<SyncConstraints(e)>> /\ pc' = "addr"
       ELSE frames' = frames /\ pc' = "constrain"
    /\ UNCHANGED lastInterested

(* solveAll(e, val), for an indirect jump *)
SolveAll(e) ==
    /\ Start(e, {Denote[e][Input]}, "all")
    /\ IF lastInterested
       THEN /\ frames' = <<SyncConstraints(e)
                            \cup {In(e, Result \ {Denote[e][Input]})}>>
            /\ pc' = "all_check"
       ELSE frames' = frames /\ pc' = "constrain"
    /\ UNCHANGED lastInterested

(* addValue(e, val), for a concretised register or memory *)
AddValue(e) ==
    /\ Start(e, {Denote[e][Input]}, "value")
    /\ pc' = "constrain"
    /\ UNCHANGED <<lastInterested, frames>>

-----------------------------------------------------------------------------
(* negatePath *)

Rest == <<slice, added, range, lastInterested, op, path, lost>>

NegateSat(w) ==
    /\ pc = "negate"
    /\ w \in Models(Asserted)
    /\ Sat
    /\ SaveValues(w, FALSE)
    /\ pc' = "constrain"
    /\ UNCHANGED <<Rest, frames, lo, hi, found>>

(* Mutant: the optimistic query asks for the side that was taken. *)
NegateFailTaken ==
    /\ pc = "negate"
    /\ NotSat
    /\ frames' = <<{In(op.e, op.in)}>>
    /\ pc' = "optimistic"
    /\ saved' = None
    /\ UNCHANGED <<Rest, lo, hi, found>>

NegateFail ==
    /\ pc = "negate"
    /\ NotSat
    /\ frames' = <<{In(op.e, Result \ op.in)}>>
    /\ pc' = "optimistic"
    /\ saved' = None
    /\ UNCHANGED <<Rest, lo, hi, found>>

OptimisticSat(w) ==
    /\ pc = "optimistic"
    /\ w \in Models(Asserted)
    /\ Sat
    /\ SaveValues(w, TRUE)
    /\ pc' = "constrain"
    /\ UNCHANGED <<Rest, frames, lo, hi, found>>

OptimisticFail ==
    /\ pc = "optimistic"
    /\ NotSat
    /\ pc' = "constrain"
    /\ saved' = None
    /\ UNCHANGED <<Rest, frames, lo, hi, found>>

-----------------------------------------------------------------------------
(* addAddr when the last branch was interesting *)

AddrSat(w) ==
    /\ pc = "addr"
    /\ w \in Models(Asserted)
    /\ Sat
    /\ frames' = Push
    /\ pc' = "min"
    /\ saved' = None
    /\ UNCHANGED <<Rest, lo, hi, found>>

(* "if (check() != z3::sat) return": the address is not concretised. *)
AddrFail ==
    /\ pc = "addr"
    /\ NotSat
    /\ lost' = lost \cup {In(op.e, op.in)}
    /\ pc' = "run"
    /\ saved' = None
    /\ UNCHANGED <<slice, added, range, lastInterested, op, path, frames, lo, hi, found>>

(* Mutants of getMinValue: it takes the first value; it does not pop. *)
MinSatOnce(w) ==
    /\ pc = "min"
    /\ w \in Models(Asserted)
    /\ Sat
    /\ SaveValues(w, FALSE)
    /\ lo' = GetPossibleValue(op.e, w)
    /\ pc' = "max"
    /\ UNCHANGED <<Rest, frames, hi, found>>

MinFailNoPop ==
    /\ pc = "min"
    /\ NotSat
    /\ frames' = Append(frames, {})
    /\ pc' = "max"
    /\ saved' = None
    /\ UNCHANGED <<Rest, lo, hi, found>>

(* getMinValue *)
MinSat(w) ==
    /\ pc = "min"
    /\ w \in Models(Asserted)
    /\ Sat
    /\ SaveValues(w, FALSE)
    /\ lo' = GetPossibleValue(op.e, w)
    /\ frames' = AddTop(Ult(op.e, GetPossibleValue(op.e, w)))
    /\ UNCHANGED <<Rest, pc, hi, found>>

MinFail ==
    /\ pc = "min"
    /\ NotSat
    /\ frames' = Append(Pop, {})
    /\ pc' = "max"
    /\ saved' = None
    /\ UNCHANGED <<Rest, lo, hi, found>>

(* getMaxValue *)
MaxSat(w) ==
    /\ pc = "max"
    /\ w \in Models(Asserted)
    /\ Sat
    /\ SaveValues(w, FALSE)
    /\ hi' = GetPossibleValue(op.e, w)
    /\ frames' = AddTop(Ugt(op.e, GetPossibleValue(op.e, w)))
    /\ UNCHANGED <<Rest, pc, lo, found>>

(* Then solveOne(e == min).  An uninitialised z3::expr (no check of         *)
(* getMinValue was sat) is an error inside z3.                              *)
MaxFail ==
    /\ pc = "max"
    /\ NotSat
    /\ IF lo = None
       THEN pc' = "aborted" /\ frames' = Pop
       ELSE pc' = "solve_min" /\ frames' = Append(Pop, {Equal(op.e, lo)})
    /\ saved' = None
    /\ UNCHANGED <<Rest, lo, hi, found>>

(* solveOne(e == min), then solveOne(e == max) *)
AfterSolveMin ==
    IF hi = None
    THEN pc' = "aborted" /\ frames' = Pop
    ELSE pc' = "solve_max" /\ frames' = Append(Pop, {Equal(op.e, hi)})

SolveMinSat(w) ==
    /\ pc = "solve_min"
    /\ w \in Models(Asserted)
    /\ Sat
    /\ SaveValues(w, FALSE)
    /\ AfterSolveMin
    /\ UNCHANGED <<Rest, lo, hi, found>>

SolveMinFail ==
    /\ pc = "solve_min"
    /\ NotSat
    /\ AfterSolveMin
    /\ saved' = None
    /\ UNCHANGED <<Rest, lo, hi, found>>

SolveMaxSat(w) ==
    /\ pc = "solve_max"
    /\ w \in Models(Asserted)
    /\ Sat
    /\ SaveValues(w, FALSE)
    /\ pc' = "constrain"
    /\ frames' = Pop
    /\ UNCHANGED <<Rest, lo, hi, found>>

SolveMaxFail ==
    /\ pc = "solve_max"
    /\ NotSat
    /\ pc' = "constrain"
    /\ frames' = Pop
    /\ saved' = None
    /\ UNCHANGED <<Rest, lo, hi, found>>

-----------------------------------------------------------------------------
(* solveAll when the last branch was interesting *)

AllCheckSat(w) ==
    /\ pc = "all_check"
    /\ w \in Models(Asserted)
    /\ Sat
    /\ pc' = "all"
    /\ saved' = None
    /\ UNCHANGED <<Rest, frames, lo, hi, found>>

AllCheckFail ==
    /\ pc = "all_check"
    /\ NotSat
    /\ frames' = <<{In(op.e, Result \ op.in)}>>
    /\ pc' = "all_optimistic"
    /\ saved' = None
    /\ UNCHANGED <<Rest, lo, hi, found>>

(* Mutants: the next target is larger; the target is not excluded. *)
AllSatLarger(w) ==
    /\ pc \in {"all", "all_optimistic"}
    /\ w \in Models(Asserted)
    /\ Sat
    /\ SaveValues(w, pc = "all_optimistic")
    /\ frames' = AddTop(In(op.e, {x \in Result : x > Denote[op.e][w]}))
    /\ found' = found \cup {Denote[op.e][w]}
    /\ UNCHANGED <<Rest, pc, lo, hi>>

AllSatAgain(w) ==
    /\ pc \in {"all", "all_optimistic"}
    /\ w \in Models(Asserted)
    /\ Sat
    /\ SaveValues(w, pc = "all_optimistic")
    /\ found' = found \cup {Denote[op.e][w]}
    /\ UNCHANGED <<Rest, frames, pc, lo, hi>>

(* The query is about e, so the model names e's bytes and the value is a    *)
(* number.                                                                  *)
AllSat(w) ==
    /\ pc \in {"all", "all_optimistic"}
    /\ w \in Models(Asserted)
    /\ Sat
    /\ SaveValues(w, pc = "all_optimistic")
    /\ frames' = AddTop(In(op.e, Result \ {Denote[op.e][w]}))
    /\ found' = found \cup {Denote[op.e][w]}
    /\ UNCHANGED <<Rest, pc, lo, hi>>

AllFail ==
    /\ pc \in {"all", "all_optimistic"}
    /\ NotSat
    /\ pc' = "constrain"
    /\ saved' = None
    /\ UNCHANGED <<Rest, frames, lo, hi, found>>

-----------------------------------------------------------------------------
(* addConstraint, addRangeConstraint and addNormalConstraint: narrow the    *)
(* values of the expression and add it to the forest.                       *)
Constrain ==
    /\ pc = "constrain"
    /\ Forest!AddNode(op.e)
    /\ range' = [range EXCEPT ![op.e] = @ \cap op.in]
    /\ path' = path \cup {In(op.e, op.in)}
    /\ pc' = "run"
    /\ saved' = None
    /\ UNCHANGED <<lastInterested, frames, op, lo, hi, lost, found, unknown, everUnknown>>

Instrumentation ==
    \E e \in Expr :
        \/ \E t \in Tests[e], interesting \in BOOLEAN : AddJcc(e, t, interesting)
        \/ AddAddr(e)
        \/ SolveAll(e)
        \/ AddValue(e)

SatStep ==
    \E w \in Assignment :
        \/ NegateSat(w) \/ OptimisticSat(w)
        \/ AddrSat(w) \/ MinSat(w) \/ MaxSat(w) \/ SolveMinSat(w) \/ SolveMaxSat(w)
        \/ AllCheckSat(w) \/ AllSat(w)

FailStep ==
    \/ NegateFail \/ OptimisticFail
    \/ AddrFail \/ MinFail \/ MaxFail \/ SolveMinFail \/ SolveMaxFail
    \/ AllCheckFail \/ AllFail

SolverStep == SatStep \/ FailStep \/ Constrain

Next == Instrumentation \/ SolverStep

Spec == Init /\ [][Next]_vars

(* A check ends (z3 has a timeout) and the rest is straight-line code. *)
FairSpec == Spec /\ WF_vars(SolverStep)

-----------------------------------------------------------------------------
(* An input saved without the postfix "optimistic" follows the path: it     *)
(* satisfies every constraint collected so far, also those of bytes that    *)
(* the sliced query never mentioned - except address concretisations that   *)
(* addAddr gave up on.                                                      *)
SavedFollowsPath ==
    saved # None => \/ saved.optimistic
                    \/ Satisfies(saved.values, path)

(* An input saved for a branch or an indirect jump leaves the path there,   *)
(* optimistic or not.                                                       *)
SavedLeavesPath ==
    saved # None /\ op.kind \in {"jcc", "all"} =>
        Denote[op.e][saved.values] \notin op.in

(* The other way round: negatePath falls back to optimistic solving only    *)
(* when no input at all follows the path and flips the branch (or z3 gave   *)
(* up): slicing the constraints loses no solution.                          *)
OptimisticOnlyIfNeeded ==
    pc = "optimistic" /\ ~unknown =>
        ~\E w \in Assignment : /\ Satisfies(w, path)
                               /\ Denote[op.e][w] \notin op.in

FeasibleValues ==
    {Denote[op.e][w] : w \in {v \in Assignment : Satisfies(v, path)}}

(* The path constrains every byte of op.e.  (The code has "TODO: add        *)
(* unbound case", solver.cpp:207, for the others.)                          *)
Bound == Deps[op.e] \subseteq Support(SyncConstraints(op.e))

IsNumber(t, x) == t = [w \in Assignment |-> x]

(* getMinValue and getMaxValue find the exact bounds of an address over all *)
(* inputs that follow the path, as numbers, unless z3 gave up or a byte of  *)
(* the address is in no constraint yet: the value of the address in a model *)
(* is then a term, "less than itself" has no solution, and the search ends. *)
BoundsExact ==
    pc = "constrain" /\ op.kind = "addr" /\ lo # None /\ ~unknown /\ Bound =>
        /\ \E x \in FeasibleValues : IsNumber(lo, x) /\ \A y \in FeasibleValues : x <= y
        /\ \E x \in FeasibleValues : IsNumber(hi, x) /\ \A y \in FeasibleValues : y <= x

(* solveAll saves an input for every target that is feasible on the path,   *)
(* unless z3 gave up.                                                       *)
SolveAllComplete ==
    pc = "constrain" /\ op.kind = "all" /\ lastInterested /\ ~unknown =>
        FeasibleValues \ op.in \subseteq found

(* The early return of addAddr, and the use of an uninitialised bound,      *)
(* happen only after z3 gave up: the constraints are never contradictory,   *)
(* because the current input satisfies them.                                *)
TroubleOnlyAfterUnknown ==
    lost # {} \/ pc = "aborted" => everUnknown

(* A call into the solver returns, if z3 does: the loops that narrow min    *)
(* and max and enumerate jump targets end.                                  *)
CallsReturn == pc # "run" ~> pc \in {"run", "aborted"}
=============================================================================
