------------------------------ MODULE RangeSet ------------------------------
(***************************************************************************)
(* RangeSet (pintool/third_party/llvm/range.h, range.cpp), as              *)
(* Expr::addConstraint (pintool/codegen/expr.cpp) uses it and              *)
(* Solver::getRangeConstraint (pintool/solver.cpp) reads it: the           *)
(* constraints on an expression of the form  expr + adjustment rel rhs,    *)
(* kept as two sets of intervals, one of signed and one of unsigned        *)
(* numbers.                                                                *)
(*                                                                         *)
(* A constraint is added when the program has taken the branch, so the     *)
(* value the expression has for the current input satisfies it.            *)
(***************************************************************************)
EXTENDS Integers

CONSTANTS
    Half,     \* 2^(bits - 1)
    Null      \* no RangeSet yet

ASSUME HalfAssumption == Half \in Nat \ {0}

BitVector == 0..2 * Half - 1

(* BitVectorFactory: GetMinValue and GetMaxValue, by is_unsigned *)
MinValue(u) == IF u THEN 0 ELSE - Half
MaxValue(u) == IF u THEN 2 * Half - 1 ELSE Half - 1

(* A number of the right width, at most one modulus away; getValue of a     *)
(* bit vector, and what the operators of APSInt do on overflow.             *)
Wrap(u, x) ==
    IF x > MaxValue(u) THEN x - 2 * Half
    ELSE IF x < MinValue(u) THEN x + 2 * Half
    ELSE x

VARIABLES
    rangeSets,  \* the two RangeSets of the expression, by is_unsigned
    allowed,    \* observer: the values that satisfy all constraints added
    input       \* observer: the value for the current input

vars == <<rangeSets, allowed, input>>

Range(u) ==
    {r \in [from : MinValue(u)..MaxValue(u), to : MinValue(u)..MaxValue(u)] :
        r.from <= r.to}

ASSUME NullAssumption ==
    \A u \in BOOLEAN : \A ranges \in SUBSET Range(u) : ranges # Null

TypeOK ==
    /\ rangeSets \in [BOOLEAN -> {Null} \cup (SUBSET Range(FALSE)) \cup (SUBSET Range(TRUE))]
    /\ \A u \in BOOLEAN : rangeSets[u] # Null => rangeSets[u] \subseteq Range(u)
    /\ allowed \subseteq BitVector
    /\ input \in BitVector

Init ==
    /\ rangeSets = [u \in BOOLEAN |-> Null]
    /\ allowed = BitVector
    /\ input \in BitVector

-----------------------------------------------------------------------------
(* The order of std::set<Range> *)
Before(s, r) == s.from < r.from \/ (s.from = r.from /\ s.to < r.to)

Includes(r, v) == r.from <= v /\ v <= r.to

(* The loop of intersectInRange leaves at this range. *)
Breaks(r, lower, upper) ==
    /\ r.to >= lower
    /\ r.from > upper \/ Includes(r, upper)

(* The loop over ranges gets to r. *)
Reaches(ranges, r, lower, upper) ==
    \A s \in ranges : Before(s, r) => ~ Breaks(s, lower, upper)

(* Mutant: the upper bound is not applied. *)
ClipLower(r, lower, upper) ==
    [from |-> IF Includes(r, lower) THEN lower ELSE r.from, to |-> r.to]

(* What intersectInRange inserts for r *)
Clip(r, lower, upper) ==
    [from |-> IF Includes(r, lower) THEN lower ELSE r.from,
     to   |-> IF Includes(r, upper) THEN upper ELSE r.to]

(* intersectInRange *)
IntersectInRange(ranges, lower, upper) ==
    {Clip(r, lower, upper) :
        r \in {s \in ranges : /\ Reaches(ranges, s, lower, upper)
                              /\ s.to >= lower
                              /\ s.from <= upper}}

(* The ranges from where the loop left on, for the next call *)
Rest(ranges, lower, upper) ==
    {r \in ranges : Breaks(r, lower, upper) \/ ~ Reaches(ranges, r, lower, upper)}

(* intersect, with the range [lower, upper] that may wrap around *)
Intersect(u, ranges, lower, upper) ==
    IF lower <= upper
    THEN IntersectInRange(ranges, lower, upper)
    ELSE IntersectInRange(ranges, MinValue(u), upper)
         \cup IntersectInRange(Rest(ranges, MinValue(u), upper), lower, MaxValue(u))

Less == {"Ult", "Slt"}
LessEq == {"Ule", "Sle"}
Greater == {"Ugt", "Sgt"}
GreaterEq == {"Uge", "Sge"}
Kind == Less \cup LessEq \cup Greater \cup GreaterEq \cup {"Equal", "Distinct"}

(* "only to the signed, it will be fine" *)
IsUnsigned(kind) == kind \in {"Ult", "Ule", "Ugt", "Uge"}

(* intersectLT, LE, GT, GE, EQ and NE: the range the set is intersected with *)
Lower(u, kind, val, adj) ==
    CASE kind \in Less \cup LessEq -> Wrap(u, MinValue(u) - adj)
      [] kind \in Greater \cup {"Distinct"} -> Wrap(u, Wrap(u, val - adj) + 1)
      [] kind \in GreaterEq \cup {"Equal"} -> Wrap(u, val - adj)

(* Mutant: intersectLT without --upper. *)
UpperLE(u, kind, val, adj) ==
    CASE kind \in Greater \cup GreaterEq -> Wrap(u, MaxValue(u) - adj)
      [] kind \in {"Distinct"} -> Wrap(u, Wrap(u, val - adj) - 1)
      [] kind \in Less \cup LessEq \cup {"Equal"} -> Wrap(u, val - adj)

Upper(u, kind, val, adj) ==
    CASE kind \in Greater \cup GreaterEq -> Wrap(u, MaxValue(u) - adj)
      [] kind \in Less \cup {"Distinct"} -> Wrap(u, Wrap(u, val - adj) - 1)
      [] kind \in LessEq \cup {"Equal"} -> Wrap(u, val - adj)

(* What the branch compared: x + adjustment rel rhs *)
Holds(kind, x, val, adj) ==
    LET u == IsUnsigned(kind)
        y == Wrap(u, Wrap(u, x) + adj)
    IN  CASE kind \in Less -> y < val
          [] kind \in LessEq -> y <= val
          [] kind \in Greater -> y > val
          [] kind \in GreaterEq -> y >= val
          [] kind = "Equal" -> y = val
          [] kind = "Distinct" -> y # val

Full(u) == {[from |-> MinValue(u), to |-> MaxValue(u)]}

(* Expr::addConstraint *)
AddConstraint(kind, rhs, adjustment) ==
    LET u == IsUnsigned(kind)
        val == Wrap(u, rhs)
        adj == Wrap(u, adjustment)
        ranges == IF rangeSets[u] = Null THEN Full(u) ELSE rangeSets[u]
    IN  /\ Holds(kind, input, val, adj)
        /\ rangeSets' = [rangeSets EXCEPT ![u] =
                            Intersect(u, ranges, Lower(u, kind, val, adj),
                                      Upper(u, kind, val, adj))]
        /\ allowed' = {x \in allowed : Holds(kind, x, val, adj)}
        /\ UNCHANGED input

Next ==
    \E kind \in Kind, rhs, adjustment \in BitVector : AddConstraint(kind, rhs, adjustment)

Spec == Init /\ [][Next]_vars

-----------------------------------------------------------------------------
(* Solver::getRangeConstraint: the disjunction of the intervals, and NULL,  *)
(* no constraint at all, if there is none.                                  *)
RangeConstraint(u) ==
    {x \in BitVector :
        \/ rangeSets[u] \in {Null, {}}
        \/ \E r \in rangeSets[u] : Includes(r, Wrap(u, x))}

(* The two range constraints together say what the branches said, no more   *)
(* and no less.                                                             *)
ConstraintExact == RangeConstraint(FALSE) \cap RangeConstraint(TRUE) = allowed

(* The intervals of a set do not overlap: intersectInRange stops at the     *)
(* first that reaches beyond the upper bound.                               *)
RangesDisjoint ==
    \A u \in BOOLEAN : rangeSets[u] # Null =>
        \A r, s \in rangeSets[u] : Before(r, s) => r.to < s.from
=============================================================================
