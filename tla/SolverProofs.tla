---------------------------- MODULE SolverProofs ----------------------------
(***************************************************************************)
(* Constraint slicing is sound, for every program path and every answer of *)
(* z3: an input that Solver saves without the postfix "optimistic"         *)
(* satisfies the whole path, although z3 was asked about a part of it only.*)
(* It is also complete: unless z3 gives up, an unsat answer to the sliced  *)
(* query means that no input at all follows the path and does what the     *)
(* query wants.  Hence optimistic solving starts only when it is needed,   *)
(* the bounds of an address whose bytes are all constrained are exact, and *)
(* solveAll misses no target of a jump.  Also, what is saved for a branch  *)
(* leaves the path there, and a query that the current input answers never *)
(* fails.                                                                  *)
(***************************************************************************)
EXTENDS Solver, SequenceTheorems, TLAPS

(* What the dependency forest guarantees (DependencyForestProofs). *)
SliceInv ==
    /\ \A n \in Expr : \A b \in Deps[n] : added[n] > 0 => slice[b][n] > 0
    /\ \A b \in Byte : \A n \in Expr : slice[b][n] > 0 =>
          /\ added[n] > 0
          /\ \A k \in Deps[n] : slice[k] = slice[b]
          /\ \E m \in Expr : slice[b][m] > 0 /\ b \in Deps[m]

(* The ranges are as tight as the collected path, and hold on the input. *)
RangeInv ==
    /\ \A e \in Expr : Denote[e][Input] \in range[e]
    /\ \A f \in path : added[f[1]] > 0 /\ In(f[1], range[f[1]])[2] \subseteq f[2]

OpInv ==
    pc # "run" => /\ op \in Operation
                  /\ Denote[op.e][Input] \in op.in

(* Where the query contains all constraints connected with op.e. *)
OneFrame == {"negate", "addr", "all_check", "all"}
TwoFrames == {"min", "max", "solve_min", "solve_max"}
Exact == OneFrame \cup TwoFrames

Related(e) == {n \in Expr : \E b \in Deps[e] : slice[b][n] > 0}

FramesInv ==
    /\ pc \in OneFrame => Len(frames) = 1
    /\ pc \in TwoFrames => Len(frames) = 2
    /\ pc = "all_optimistic" => Len(frames) = 1
    /\ pc \in Exact =>
          /\ SyncConstraints(op.e) \subseteq frames[1]
          /\ \A f \in Asserted : f[1] \in {op.e} \cup Related(op.e)

(* A term that z3 evaluated op.e to reads no other byte. *)
Local(e, t) == \A v, w \in Assignment : (\A b \in Deps[e] : v[b] = w[b]) => t[v] = t[w]
TermInv ==
    pc # "run" => /\ lo # None => Local(op.e, lo)
                  /\ hi # None => Local(op.e, hi)

IInv ==
    /\ TypeOK
    /\ TermInv
    /\ SliceInv
    /\ RangeInv
    /\ OpInv
    /\ FramesInv
    /\ SavedFollowsPath

-----------------------------------------------------------------------------
(* What the formulas say, and that they read the bytes of their expression. *)
LEMMA InFormula ==
    ASSUME NEW e \in Expr, NEW S
    PROVE  In(e, S) \in Formula /\ In(e, S)[1] = e
<1>1. \A v, w \in Assignment : (\A b \in Deps[e] : v[b] = w[b]) => Denote[e][v] = Denote[e][w]
  BY DependencyAssumption
<1> QED
  BY <1>1 DEF In, Formula

LEMMA InHolds ==
    ASSUME NEW e, NEW S, NEW v \in Assignment
    PROVE  Holds(v, In(e, S)) <=> Denote[e][v] \in S
  BY DEF Holds, In

LEMMA CompareFormula ==
    ASSUME NEW e \in Expr, NEW t, Local(e, t)
    PROVE  /\ Ult(e, t) \in Formula /\ Ult(e, t)[1] = e
           /\ Ugt(e, t) \in Formula /\ Ugt(e, t)[1] = e
           /\ Equal(e, t) \in Formula /\ Equal(e, t)[1] = e
<1>1. \A v, w \in Assignment : (\A b \in Deps[e] : v[b] = w[b]) =>
         Denote[e][v] = Denote[e][w] /\ t[v] = t[w]
  BY DependencyAssumption DEF Local
<1>2. Ult(e, t) \in Formula /\ Ult(e, t)[1] = e
  BY <1>1 DEF Ult, Formula
<1>3. Ugt(e, t) \in Formula /\ Ugt(e, t)[1] = e
  BY <1>1 DEF Ugt, Formula
<1>4. Equal(e, t) \in Formula /\ Equal(e, t)[1] = e
  BY <1>1 DEF Equal, Formula
<1> QED
  BY <1>2, <1>3, <1>4

LEMMA CompareHolds ==
    ASSUME NEW e, NEW t, NEW v \in Assignment
    PROVE  /\ Holds(v, Ult(e, t)) <=> Denote[e][v] < t[v]
           /\ Holds(v, Ugt(e, t)) <=> Denote[e][v] > t[v]
           /\ Holds(v, Equal(e, t)) <=> Denote[e][v] = t[v]
  BY DEF Holds, Ult, Ugt, Equal

(* m.eval gives a term over the bytes of e, and a number if the model names *)
(* all of them.                                                             *)
LEMMA PossibleValue ==
    ASSUME NEW e \in Expr, NEW w \in Assignment
    PROVE  /\ GetPossibleValue(e, w) \in Term /\ Local(e, GetPossibleValue(e, w))
           /\ GetPossibleValue(e, w) # None
           /\ Deps[e] \subseteq Support(Asserted) =>
                 \A v \in Assignment : GetPossibleValue(e, w)[v] = Denote[e][w]
<1> DEFINE M == Support(Asserted)
           W(v) == [b \in Byte |-> IF b \in M THEN w[b] ELSE v[b]]
<1> HIDE DEF M
<1>1. ASSUME NEW v \in Assignment PROVE W(v) \in Assignment
  BY DEF Assignment
<1>2. \A v \in Assignment : W(v) \in Assignment
  BY <1>1
<1>3. GetPossibleValue(e, w) = [v \in Assignment |-> Denote[e][W(v)]]
  BY DEF GetPossibleValue, M
<1>4. Deps[e] \subseteq Byte /\ Denote[e] \in [Assignment -> Result]
  BY ExprAssumption
<1>5. GetPossibleValue(e, w) \in Term
  <2> HIDE DEF W
  <2> QED
    BY <1>2, <1>3, <1>4 DEF Term
<1>6. ASSUME NEW u \in Assignment, NEW v \in Assignment, \A b \in Deps[e] : u[b] = v[b]
      PROVE  Denote[e][W(u)] = Denote[e][W(v)]
  <2>1. \A b \in Deps[e] : W(u)[b] = W(v)[b]
    BY <1>4, <1>6
  <2> HIDE DEF W
  <2> QED
    BY <1>2, <2>1, DependencyAssumption
<1>7. ASSUME NEW v \in Assignment, Deps[e] \subseteq M
      PROVE  Denote[e][W(v)] = Denote[e][w]
  <2>1. \A b \in Deps[e] : W(v)[b] = w[b]
    BY <1>4, <1>7
  <2> HIDE DEF W
  <2> QED
    BY <1>2, <2>1, DependencyAssumption
<1>8. GetPossibleValue(e, w) # None
  BY <1>5, NoneAssumption DEF Term
<1> HIDE DEF W
<1>9. Local(e, GetPossibleValue(e, w))
  BY <1>3, <1>6 DEF Local
<1> QED
  BY <1>3, <1>5, <1>7, <1>8, <1>9 DEF M

-----------------------------------------------------------------------------
(* Adding a constraint keeps the slices complete and closed. *)
LEMMA AddNodeSlices ==
    ASSUME Forest!TypeOK, SliceInv, NEW n \in Expr, Forest!AddNode(n)
    PROVE  Forest!TypeOK' /\ SliceInv'
<1> DEFINE R == Forest!Reached(n)
           M == Forest!Merged(n)
<1>1. /\ added' = [added EXCEPT ![n] = @ + 1]
      /\ slice' = [i \in Byte |-> IF i \in R THEN M ELSE slice[i]]
      /\ slice \in [Byte -> [Expr -> Nat]] /\ added \in [Expr -> Nat]
      /\ \A m \in Expr : Deps[m] \subseteq Byte
  BY ExprAssumption DEF Forest!AddNode, Forest!TypeOK, Forest!Occurrences
<1>2. \A i \in Byte : i \in R <=> \/ i \in Deps[n]
                                 \/ \E k \in Deps[n] : \E m \in Expr :
                                       slice[k][m] > 0 /\ i \in Deps[m]
  BY DEF Forest!Reached
<1>3. /\ M \in [Expr -> Nat]
      /\ M[n] = added[n] + 1
      /\ \A m \in Expr : m # n => M[m] = IF \E k \in Deps[n] : slice[k][m] > 0
                                         THEN added[m] ELSE 0
  BY <1>1 DEF Forest!Merged
<1> HIDE DEF R, M
<1>4. Forest!TypeOK'
  BY <1>1, <1>3 DEF Forest!TypeOK, Forest!Occurrences
<1>5. /\ added'[n] = added[n] + 1 /\ added[n] \in Nat
      /\ \A m \in Expr : m # n => added'[m] = added[m]
      /\ \A m \in Expr : added[m] \in Nat
      /\ \A i \in Byte : slice'[i] = IF i \in R THEN M ELSE slice[i]
  BY <1>1
<1>6. ASSUME NEW m \in Expr, NEW k \in Byte, slice[k][m] > 0
      PROVE  /\ added[m] > 0
             /\ \A j \in Deps[m] : j \in Byte /\ slice[j] = slice[k]
             /\ \E q \in Expr : slice[k][q] > 0 /\ k \in Deps[q]
  BY <1>1, <1>6 DEF SliceInv
<1>7. (* a byte outside R shares no slice with a byte of n *)
      ASSUME NEW i \in Byte, i \notin R, NEW m \in Expr, slice[i][m] > 0, NEW k \in Deps[n]
      PROVE  slice[k] # slice[i]
  <2>1. PICK q \in Expr : slice[i][q] > 0 /\ i \in Deps[q]
    BY <1>6, <1>7
  <2> QED
    BY <1>2, <1>7, <2>1
<1>8. ASSUME NEW i \in R, i \in Byte, NEW m \in Expr, slice[i][m] > 0
      PROVE  \E k \in Deps[n] : slice[k] = slice[i]
  <2>1. CASE i \in Deps[n]
    BY <2>1
  <2>2. CASE i \notin Deps[n]
    <3>1. PICK k \in Deps[n], q \in Expr : slice[k][q] > 0 /\ i \in Deps[q]
      BY <1>2, <1>8, <2>2
    <3> QED
      BY <1>1, <1>6, <3>1
  <2> QED
    BY <2>1, <2>2
<1>9. ASSUME NEW m \in Expr, NEW b \in Deps[m], added'[m] > 0
      PROVE  slice'[b][m] > 0
  <2>1. b \in Byte
    BY <1>1
  <2>2. CASE m = n
    BY <1>2, <1>3, <1>5, <2>1, <2>2
  <2>3. CASE m # n
    <3>1. slice[b][m] > 0 /\ added[m] > 0
      BY <1>5, <1>9, <2>3 DEF SliceInv
    <3>2. CASE b \in R
      <4>1. PICK k \in Deps[n] : slice[k] = slice[b]
        BY <1>8, <2>1, <3>1, <3>2
      <4> QED
        BY <1>3, <1>5, <2>1, <2>3, <3>1, <3>2, <4>1
    <3> QED
      BY <1>5, <2>1, <3>1, <3>2
  <2> QED
    BY <2>2, <2>3
<1>10. ASSUME NEW i \in Byte, NEW m \in Expr, slice'[i][m] > 0
       PROVE  /\ added'[m] > 0
              /\ \A k \in Deps[m] : slice'[k] = slice'[i]
              /\ \E q \in Expr : slice'[i][q] > 0 /\ i \in Deps[q]
  <2>1. CASE i \in R
    <3>1. M[m] > 0 /\ slice'[i] = M
      BY <1>5, <1>10, <2>1
    <3>2. m = n \/ \E k \in Deps[n] : slice[k][m] > 0
      BY <1>3, <3>1
    <3>3. added'[m] > 0
      BY <1>1, <1>5, <1>6, <3>2
    <3>4. \A k \in Deps[m] : k \in R /\ k \in Byte
      BY <1>1, <1>2, <3>2
    <3>5. \A k \in Deps[m] : slice'[k] = slice'[i]
      BY <1>5, <3>1, <3>4
    <3>6. \E q \in Expr : M[q] > 0 /\ i \in Deps[q]
      <4>1. CASE i \in Deps[n]
        BY <1>3, <1>5, <4>1
      <4>2. CASE i \notin Deps[n]
        <5>1. PICK k \in Deps[n], q \in Expr : slice[k][q] > 0 /\ i \in Deps[q]
          BY <1>2, <2>1, <4>2
        <5>2. added[q] > 0 /\ q # n
          BY <1>1, <1>6, <4>2, <5>1
        <5> QED
          BY <1>3, <5>1, <5>2
      <4> QED
        BY <4>1, <4>2
    <3> QED
      BY <3>1, <3>3, <3>5, <3>6
  <2>2. CASE i \notin R
    <3>1. slice'[i] = slice[i] /\ slice[i][m] > 0
      BY <1>5, <1>10, <2>2
    <3>2. added'[m] > 0
      BY <1>5, <1>6, <3>1
    <3>3. ASSUME NEW k \in Deps[m]
          PROVE  slice'[k] = slice'[i]
      <4>1. k \in Byte /\ slice[k] = slice[i]
        BY <1>6, <3>1, <3>3
      <4>2. k \notin R
        BY <1>7, <1>8, <2>2, <3>1, <4>1
      <4> QED
        BY <1>5, <3>1, <4>1, <4>2
    <3> QED
      BY <1>6, <3>1, <3>2, <3>3
  <2> QED
    BY <2>1, <2>2
<1> QED
  BY <1>4, <1>9, <1>10 DEF SliceInv

(* The heart of the argument: a model of the sliced query satisfies the     *)
(* whole path.  A constraint that shares no byte with the query keeps the   *)
(* value it has on the current input; any other one is in the query.        *)
LEMMA SliceSound ==
    ASSUME IInv, pc \in Exact, NEW w \in Models(Asserted)
    PROVE  Satisfies(w, path)
<1>1. SUFFICES ASSUME NEW f \in path
               PROVE  w \in f[2]
  BY DEF Satisfies, Holds
<1> DEFINE e == f[1]
<1>2. /\ e \in Expr /\ Deps[e] \subseteq Byte
      /\ added[e] > 0 /\ In(e, range[e])[2] \subseteq f[2]
      /\ Denote[e][Input] \in range[e]
  BY ExprAssumption DEF IInv, TypeOK, RangeInv, Formula
<1>3. op \in Operation /\ op.e \in Expr /\ Deps[op.e] \subseteq Byte
  BY ExprAssumption DEF IInv, OpInv, Operation, Exact, OneFrame, TwoFrames
<1>4. /\ w \in Assignment /\ Satisfies(w, Asserted)
      /\ \A b \in Byte \ Support(Asserted) : w[b] = Input[b]
  BY DEF Models
<1>5. SyncConstraints(op.e) \subseteq Asserted
  <2>1. frames[1] \subseteq Asserted
    BY DEF IInv, TypeOK, FramesInv, Exact, Asserted
  <2> QED
    BY <2>1 DEF IInv, FramesInv
<1> HIDE DEF e
<1>6. CASE e \in Related(op.e)
  <2>1. In(e, range[e]) \in Asserted
    BY <1>5, <1>6 DEF SyncConstraints, Related
  <2>2. w \in In(e, range[e])[2]
    BY <1>4, <2>1 DEF Satisfies, Holds
  <2> QED
    BY <1>2, <2>2
<1>7. CASE e \notin Related(op.e)
  <2>1. \A b \in Deps[e] : b \notin Deps[op.e]
    BY <1>2, <1>7 DEF IInv, SliceInv, Related
  <2>2. ASSUME NEW b \in Deps[e], NEW n \in Related(op.e)
        PROVE  b \notin Deps[n]
    <3>1. SUFFICES ASSUME b \in Deps[n] PROVE FALSE
      OBVIOUS
    <3>2. PICK k \in Deps[op.e] : slice[k][n] > 0
      BY <2>2 DEF Related
    <3>3. slice[b] = slice[k]
      BY <1>3, <2>2, <3>1, <3>2 DEF IInv, SliceInv, Related
    <3>4. slice[b][e] > 0
      BY <1>2 DEF IInv, SliceInv
    <3> QED
      BY <1>2, <1>7, <3>2, <3>3, <3>4 DEF Related
  <2>3. \A b \in Deps[e] : b \notin Support(Asserted)
    BY <2>1, <2>2 DEF Support, IInv, FramesInv
  <2>4. Denote[e][w] = Denote[e][Input]
    BY <1>2, <1>4, <2>3, DependencyAssumption, InputAssumption
  <2>5. w \in In(e, range[e])[2]
    BY <1>2, <1>4, <2>4 DEF In
  <2> QED
    BY <1>2, <2>5
<1> QED
  BY <1>6, <1>7
(* A step that leaves the forest, the ranges and the path alone keeps what  *)
(* the invariant says of them.                                              *)
LEMMA QuietStep ==
    ASSUME IInv, UNCHANGED <<slice, added, range, path>>
    PROVE  Forest!TypeOK' /\ SliceInv' /\ RangeInv'
  BY DEF IInv, TypeOK, Forest!TypeOK, SliceInv, RangeInv

(* push, pop and assertion on a stack of one or two frames. *)
LEMMA StackFacts ==
    ASSUME NEW T, NEW s \in Seq(T), Len(s) \in {1, 2}, NEW x \in T
    PROVE  /\ Len(s) = 1 => /\ Append(s, x) \in Seq(T)
                            /\ Len(Append(s, x)) = 2
                            /\ Append(s, x)[1] = s[1]
                            /\ Append(s, x)[2] = x
           /\ Len(s) = 2 => /\ SubSeq(s, 1, Len(s) - 1) \in Seq(T)
                            /\ Len(SubSeq(s, 1, Len(s) - 1)) = 1
                            /\ SubSeq(s, 1, Len(s) - 1)[1] = s[1]
           /\ [s EXCEPT ![Len(s)] = x] \in Seq(T)
           /\ Len([s EXCEPT ![Len(s)] = x]) = Len(s)
           /\ \A k \in 1..Len(s) :
                 [s EXCEPT ![Len(s)] = x][k] = IF k = Len(s) THEN x ELSE s[k]
<1>1. s \in [1..Len(s) -> T] /\ DOMAIN s = 1..Len(s)
  OBVIOUS
<1>2. [s EXCEPT ![Len(s)] = x] \in [1..Len(s) -> T]
  BY <1>1
<1> QED
  BY <1>1, <1>2, AppendProperties, SubSeqProperties, ExceptSeq

LEMMA TopFormulas ==
    ASSUME NEW T, NEW s \in Seq(T), Len(s) \in {1, 2}
    PROVE  s[Len(s)] \in T
<1>1. Len(s) \in 1..Len(s)
  OBVIOUS
<1> QED
  BY <1>1, ElementOfSeq

(* Asserting more formulas on op.e in the top frame keeps FramesInv. *)
LEMMA AddTopFrames ==
    ASSUME IInv, pc \in Exact, NEW g \in Formula, g[1] = op.e,
           frames' = AddTop(g),
           UNCHANGED <<slice, range, op, pc>>
    PROVE  frames' \in Seq(SUBSET Formula) /\ FramesInv'
<1>1. /\ frames \in Seq(SUBSET Formula) /\ Len(frames) \in {1, 2}
      /\ op.e \in Expr
  BY DEF IInv, TypeOK, FramesInv, OpInv, Operation, Exact, OneFrame, TwoFrames
<1>2. /\ frames' \in Seq(SUBSET Formula) /\ Len(frames') = Len(frames)
      /\ \A k \in 1..Len(frames) : frames'[k] =
            IF k = Len(frames) THEN frames[k] \cup {g} ELSE frames[k]
  <2> DEFINE x == Top \cup {g}
  <2>1. x \in SUBSET Formula /\ frames' = [frames EXCEPT ![Len(frames)] = x]
    BY <1>1, TopFormulas DEF AddTop, Top
  <2> HIDE DEF x
  <2>2. /\ frames' \in Seq(SUBSET Formula) /\ Len(frames') = Len(frames)
        /\ \A k \in 1..Len(frames) : frames'[k] = IF k = Len(frames) THEN x ELSE frames[k]
    BY <1>1, <2>1, StackFacts
  <2> QED
    BY <2>2 DEF x, Top
<1>3. frames[1] \subseteq frames'[1]
  <2>1. Len(frames) = 1 \/ Len(frames) = 2
    BY <1>1
  <2>2. 1 \in 1..Len(frames)
    <3>1. 1 \in 1..1 /\ 1 \in 1..2
      OBVIOUS
    <3> QED
      BY <2>1, <3>1, Zenon
  <2> QED
    BY <1>2, <2>2
<1>4. \A f \in Asserted' : f \in Asserted \/ f = g
  <2>1. DOMAIN frames = 1..Len(frames) /\ DOMAIN frames' = 1..Len(frames)
    BY <1>1, <1>2, LenProperties
  <2>2. SUFFICES ASSUME NEW f \in Asserted' PROVE f \in Asserted \/ f = g
    OBVIOUS
  <2>3. PICK k \in 1..Len(frames) : f \in frames'[k]
    BY <2>1, <2>2 DEF Asserted
  <2>4. f \in frames[k] \/ f = g
    BY <1>2, <2>3
  <2> QED
    BY <2>1, <2>4 DEF Asserted
<1>5. SyncConstraints(op.e)' = SyncConstraints(op.e) /\ Related(op.e)' = Related(op.e)
  BY DEF SyncConstraints, Related
<1>6. \A f \in Asserted' : f[1] \in {op.e} \cup Related(op.e)
  BY <1>4 DEF IInv, FramesInv
<1>7. SyncConstraints(op.e) \subseteq frames[1]
  BY DEF IInv, FramesInv
<1>8. pc # "all_optimistic"
  BY DEF Exact, OneFrame, TwoFrames
<1> QED
  BY <1>2, <1>3, <1>5, <1>6, <1>7, <1>8 DEF IInv, FramesInv

(* A query of one frame that holds the slice of e and formulas on e. *)
LEMMA NewQueryFrames ==
    ASSUME IInv, NEW e \in Expr, NEW F \in SUBSET Formula,
           \A f \in F : f[1] = e,
           frames' = <<SyncConstraints(e) \cup F>>,
           op'.e = e, pc' \in OneFrame,
           UNCHANGED <<slice, range>>
    PROVE  frames' \in Seq(SUBSET Formula) /\ FramesInv'
<1>1. SyncConstraints(e) \subseteq Formula
  BY InFormula DEF SyncConstraints
<1>3. /\ frames' \in Seq(SUBSET Formula) /\ Len(frames') = 1
      /\ frames'[1] = SyncConstraints(e) \cup F
  BY <1>1
<1>4. Asserted' = frames'[1]
  BY <1>3 DEF Asserted
<1>5. SyncConstraints(op.e)' = SyncConstraints(e) /\ Related(op.e)' = Related(e)
  BY DEF SyncConstraints, Related
<1>6. \A f \in SyncConstraints(e) : f[1] \in Related(e)
  BY InFormula DEF SyncConstraints, Related
<1>7. \A f \in Asserted' : f[1] \in {e} \cup Related(e)
  BY <1>3, <1>4, <1>6
<1> QED
  BY <1>3, <1>5, <1>7 DEF FramesInv, OneFrame, TwoFrames

(* pop() and a push() with a formula on op.e: back to the slice. *)
LEMMA SecondFrame ==
    ASSUME IInv, pc \in Exact, NEW F \in SUBSET Formula, \A f \in F : f[1] = op.e,
           \/ pc = "addr" /\ frames' = Append(frames, F)
           \/ pc \in TwoFrames /\ frames' = Append(Pop, F),
           pc' \in TwoFrames,
           UNCHANGED <<slice, range, op>>
    PROVE  frames' \in Seq(SUBSET Formula) /\ FramesInv'
<1>1. frames \in Seq(SUBSET Formula) /\ op.e \in Expr
  BY DEF IInv, TypeOK, OpInv, Operation, Exact, OneFrame, TwoFrames
<1>2. /\ frames' \in Seq(SUBSET Formula) /\ Len(frames') = 2
      /\ frames'[1] = frames[1] /\ frames'[2] = F
  <2>1. CASE pc = "addr"
    <3>1. Len(frames) = 1
      BY <2>1 DEF IInv, FramesInv, OneFrame
    <3>2. frames' = Append(frames, F)
      BY <2>1 DEF TwoFrames
    <3> QED
      BY <1>1, <3>1, <3>2, StackFacts
  <2>2. CASE pc \in TwoFrames
    <3>1. Len(frames) = 2
      BY <2>2 DEF IInv, FramesInv
    <3>2. frames' = Append(Pop, F)
      BY <2>2 DEF TwoFrames
    <3>3. Pop \in Seq(SUBSET Formula) /\ Len(Pop) = 1 /\ Pop[1] = frames[1]
      BY <1>1, <3>1, StackFacts DEF Pop
    <3> QED
      BY <1>1, <3>2, <3>3, StackFacts
  <2> QED
    BY <2>1, <2>2
<1>3. Asserted' = frames[1] \cup F
  BY <1>2 DEF Asserted
<1>4. frames[1] \subseteq Asserted
  BY <1>1 DEF Asserted, IInv, FramesInv, Exact
<1>5. SyncConstraints(op.e)' = SyncConstraints(op.e) /\ Related(op.e)' = Related(op.e)
  BY DEF SyncConstraints, Related
<1>6. \A f \in Asserted' : f[1] \in {op.e} \cup Related(op.e)
  BY <1>3, <1>4 DEF IInv, FramesInv
<1>7. SyncConstraints(op.e) \subseteq frames'[1]
  BY <1>2 DEF IInv, FramesInv
<1> QED
  BY <1>2, <1>5, <1>6, <1>7 DEF FramesInv, OneFrame, TwoFrames
(* What an operation of the instrumentation starts with. *)
LEMMA StartFacts ==
    ASSUME IInv, NEW e \in Expr, NEW in \in SUBSET Result,
           NEW kind \in {"jcc", "addr", "all", "value"}, Start(e, in, kind),
           Denote[e][Input] \in in,
           lastInterested' \in BOOLEAN, pc' \in Locations,
           frames' \in Seq(SUBSET Formula), FramesInv'
    PROVE  IInv'
<1>1. Forest!TypeOK' /\ SliceInv' /\ RangeInv'
  BY QuietStep DEF Start
<1>2. op' = [e |-> e, in |-> in, kind |-> kind] /\ op' \in Operation
  BY DEF Start, Operation
<1>3. TypeOK'
  BY <1>1, <1>2 DEF IInv, TypeOK, Start
<1>4. OpInv'
  BY <1>2 DEF OpInv
<1>5. SavedFollowsPath' /\ TermInv'
  BY DEF Start, SavedFollowsPath, TermInv
<1> QED
  BY <1>1, <1>3, <1>4, <1>5 DEF IInv

(* Not asking z3 leaves nothing to prove about the query. *)
LEMMA ConstrainFrames ==
    ASSUME pc' \in {"constrain", "run", "optimistic", "aborted"}
    PROVE  FramesInv'
  BY DEF FramesInv, OneFrame, TwoFrames, Exact

(* addJcc preserves the invariant.                                          *)
LEMMA AddJccIInv ==
    ASSUME IInv, NEW e \in Expr, NEW t \in Tests[e], NEW b \in BOOLEAN, AddJcc(e, t, b)
    PROVE  IInv'
<1>1. /\ Taken(e, t) \in SUBSET Result /\ Denote[e][Input] \in Taken(e, t)
      /\ Result \ Taken(e, t) \in SUBSET Result
  BY ExprAssumption, InputAssumption DEF Taken
<1>2. Start(e, Taken(e, t), "jcc") /\ lastInterested' \in BOOLEAN
  BY DEF AddJcc
<1>3. frames' \in Seq(SUBSET Formula) /\ FramesInv' /\ pc' \in Locations
  <2>1. CASE b
    <3> DEFINE F == {In(e, Result \ Taken(e, t))}
    <3>1. pc' = "negate" /\ op'.e = e /\ UNCHANGED <<slice, range>>
      BY <2>1 DEF AddJcc, Start
    <3>2. frames' = <<SyncConstraints(e) \cup F>>
      BY <2>1 DEF AddJcc
    <3>3. F \in SUBSET Formula /\ \A f \in F : f[1] = e
      BY InFormula
    <3> HIDE DEF F
    <3> QED
      BY <3>1, <3>2, <3>3, NewQueryFrames DEF OneFrame, Locations
  <2>2. CASE ~b
    BY <2>2, ConstrainFrames DEF AddJcc, IInv, TypeOK, Locations
  <2> QED
    BY <2>1, <2>2
<1> QED
  BY <1>1, <1>2, <1>3, StartFacts

(* addAddr, up to its first check, preserves the invariant.                 *)
LEMMA AddAddrIInv ==
    ASSUME IInv, NEW e \in Expr, AddAddr(e)
    PROVE  IInv'
<1>1. {Denote[e][Input]} \in SUBSET Result
  BY ExprAssumption, InputAssumption
<1>2. Start(e, {Denote[e][Input]}, "addr") /\ lastInterested' \in BOOLEAN
  BY DEF AddAddr, IInv, TypeOK
<1>3. frames' \in Seq(SUBSET Formula) /\ FramesInv' /\ pc' \in Locations
  <2>1. CASE lastInterested
    <3> DEFINE F == {f \in Formula : FALSE}
    <3>1. pc' = "addr" /\ op'.e = e /\ UNCHANGED <<slice, range>>
      BY <2>1 DEF AddAddr, Start
    <3>2. frames' = <<SyncConstraints(e) \cup F>>
      BY <2>1 DEF AddAddr
    <3>3. F \in SUBSET Formula /\ \A f \in F : f[1] = e
      BY InFormula
    <3> HIDE DEF F
    <3> QED
      BY <3>1, <3>2, <3>3, NewQueryFrames DEF OneFrame, Locations
  <2>2. CASE ~lastInterested
    BY <2>2, ConstrainFrames DEF AddAddr, IInv, TypeOK, Locations
  <2> QED
    BY <2>1, <2>2
<1> QED
  BY <1>1, <1>2, <1>3, StartFacts

(* solveAll, up to its first check, preserves the invariant.                *)
LEMMA SolveAllIInv ==
    ASSUME IInv, NEW e \in Expr, SolveAll(e)
    PROVE  IInv'
<1>1. {Denote[e][Input]} \in SUBSET Result
  BY ExprAssumption, InputAssumption
<1>2. Start(e, {Denote[e][Input]}, "all") /\ lastInterested' \in BOOLEAN
  BY DEF SolveAll, IInv, TypeOK
<1>3. frames' \in Seq(SUBSET Formula) /\ FramesInv' /\ pc' \in Locations
  <2>1. CASE lastInterested
    <3> DEFINE F == {In(e, Result \ {Denote[e][Input]})}
    <3>1. pc' = "all_check" /\ op'.e = e /\ UNCHANGED <<slice, range>>
      BY <2>1 DEF SolveAll, Start
    <3>2. frames' = <<SyncConstraints(e) \cup F>>
      BY <2>1 DEF SolveAll
    <3>3. F \in SUBSET Formula /\ \A f \in F : f[1] = e
      BY InFormula
    <3> HIDE DEF F
    <3> QED
      BY <3>1, <3>2, <3>3, NewQueryFrames DEF OneFrame, Locations
  <2>2. CASE ~lastInterested
    BY <2>2, ConstrainFrames DEF SolveAll, IInv, TypeOK, Locations
  <2> QED
    BY <2>1, <2>2
<1> QED
  BY <1>1, <1>2, <1>3, StartFacts

(* addValue preserves the invariant.                                        *)
LEMMA AddValueIInv ==
    ASSUME IInv, NEW e \in Expr, AddValue(e)
    PROVE  IInv'
<1>1. {Denote[e][Input]} \in SUBSET Result
  BY ExprAssumption, InputAssumption
<1>2. Start(e, {Denote[e][Input]}, "value") /\ lastInterested' \in BOOLEAN
  BY DEF AddValue, IInv, TypeOK
<1>3. frames' \in Seq(SUBSET Formula) /\ FramesInv' /\ pc' \in Locations
  BY ConstrainFrames DEF AddValue, IInv, TypeOK, Locations
<1> QED
  BY <1>1, <1>2, <1>3, StartFacts

-----------------------------------------------------------------------------
(* What all steps of a pending operation have in common: they leave the     *)
(* forest, the ranges, the path and the operation alone, and what they save *)
(* is a model of the query, if it is not optimistic.                        *)
LEMMA PendingStep ==
    ASSUME IInv, pc # "run", UNCHANGED Rest,
           (lo' = lo) \/ (lo' \in Term /\ Local(op.e, lo')),
           (hi' = hi) \/ (hi' \in Term /\ Local(op.e, hi')),
           found' \subseteq Result, unknown' \in BOOLEAN, everUnknown' \in BOOLEAN,
           pc' \in Locations, frames' \in Seq(SUBSET Formula), FramesInv',
           \/ saved' = None
           \/ \E w \in Models(Asserted), opt \in BOOLEAN :
                 /\ saved' = [values |-> w, optimistic |-> opt]
                 /\ opt \/ pc \in Exact
    PROVE  IInv'
<1>1. Forest!TypeOK' /\ SliceInv' /\ RangeInv' /\ op' = op
  BY QuietStep DEF Rest
<1>2. OpInv'
  BY <1>1 DEF IInv, OpInv
<1>3. /\ saved' \in [values : Assignment, optimistic : BOOLEAN] \cup {None}
      /\ SavedFollowsPath'
  <2>1. CASE saved' = None
    BY <2>1 DEF SavedFollowsPath
  <2>2. ASSUME NEW w \in Models(Asserted), NEW opt \in BOOLEAN,
               saved' = [values |-> w, optimistic |-> opt],
               opt \/ pc \in Exact
        PROVE  /\ saved' \in [values : Assignment, optimistic : BOOLEAN]
               /\ SavedFollowsPath'
    <3>1. w \in Assignment
      BY DEF Models
    <3>2. opt \/ Satisfies(w, path)
      BY <2>2, SliceSound
    <3>3. Satisfies(w, path') <=> Satisfies(w, path)
      BY DEF Rest
    <3> QED
      BY <2>2, <3>1, <3>2, <3>3 DEF SavedFollowsPath, Satisfies, Holds
  <2> QED
    BY <2>1, <2>2
<1>4. TypeOK'
  BY <1>1, <1>3 DEF IInv, TypeOK, Rest
<1>5. TermInv'
  BY <1>1 DEF IInv, TermInv, Local
<1> QED
  BY <1>1, <1>2, <1>3, <1>4, <1>5 DEF IInv
(* The answer of z3 changes only what the observers note about it. *)
LEMMA Answers ==
    ASSUME IInv, Sat \/ NotSat
    PROVE  unknown' \in BOOLEAN /\ everUnknown' \in BOOLEAN
  BY DEF Sat, NotSat, IInv, TypeOK

(* The values z3's models give to op.e. *)
LEMMA ModelValue ==
    ASSUME IInv, pc # "run", NEW w \in Models(Asserted)
    PROVE  /\ op.e \in Expr /\ op.in \subseteq Result
           /\ w \in Assignment /\ Denote[op.e][w] \in Result
  BY ExprAssumption DEF IInv, OpInv, Operation, Models

(* Popping the only pushed frame keeps a stack of sets of formulas. *)
LEMMA PopTyped ==
    ASSUME IInv, pc \in TwoFrames
    PROVE  Pop \in Seq(SUBSET Formula)
<1>1. frames \in Seq(SUBSET Formula) /\ Len(frames) = 2
  BY DEF IInv, TypeOK, FramesInv
<1> QED
  BY <1>1, StackFacts DEF Pop

(* negatePath *)
LEMMA NegateSatIInv ==
    ASSUME IInv, NEW w \in Assignment, NegateSat(w)
    PROVE  IInv'
<1>1. /\ pc # "run" /\ UNCHANGED Rest /\ UNCHANGED <<lo, hi, found>>
      /\ pc' = "constrain" /\ frames' = frames
  BY DEF NegateSat
<1>2. \/ saved' = None
      \/ \E v \in Models(Asserted), opt \in BOOLEAN :
            /\ saved' = [values |-> v, optimistic |-> opt]
            /\ opt \/ pc \in Exact
  BY DEF NegateSat, SaveValues, Exact, OneFrame
<1>3. unknown' \in BOOLEAN /\ everUnknown' \in BOOLEAN
  BY Answers DEF NegateSat
<1>4. frames' \in Seq(SUBSET Formula) /\ FramesInv' /\ pc' \in Locations
  BY <1>1, ConstrainFrames DEF IInv, TypeOK, Locations
<1> QED
  BY <1>1, <1>2, <1>3, <1>4, PendingStep DEF IInv, TypeOK

(* negatePath: reset, and assert the negated branch alone.                  *)
LEMMA NegateFailIInv ==
    ASSUME IInv, NegateFail
    PROVE  IInv'
<1>1. /\ pc # "run" /\ UNCHANGED Rest /\ UNCHANGED <<lo, hi, found>>
      /\ pc' = "optimistic" /\ saved' = None
      /\ frames' = <<{In(op.e, Result \ op.in)}>>
  BY DEF NegateFail
<1>2. unknown' \in BOOLEAN /\ everUnknown' \in BOOLEAN
  BY Answers DEF NegateFail
<1>3. frames' \in Seq(SUBSET Formula) /\ Len(frames') = 1
  <2>1. op.e \in Expr
    BY <1>1 DEF IInv, OpInv, Operation
  <2>2. In(op.e, Result \ op.in) \in Formula
    BY <2>1, InFormula
  <2> QED
    BY <1>1, <2>2
<1>4. FramesInv' /\ pc' \in Locations
  BY <1>1, <1>3 DEF FramesInv, Locations, OneFrame, TwoFrames, Exact
<1> QED
  BY <1>1, <1>2, <1>3, <1>4, PendingStep DEF IInv, TypeOK

(* negatePath: the optimistic query is sat.                                 *)
LEMMA OptimisticSatIInv ==
    ASSUME IInv, NEW w \in Assignment, OptimisticSat(w)
    PROVE  IInv'
<1>1. /\ pc # "run" /\ UNCHANGED Rest /\ UNCHANGED <<lo, hi, found>>
      /\ pc' = "constrain" /\ frames' = frames
  BY DEF OptimisticSat
<1>2. \/ saved' = None
      \/ \E v \in Models(Asserted), opt \in BOOLEAN :
            /\ saved' = [values |-> v, optimistic |-> opt]
            /\ opt \/ pc \in Exact
  BY DEF OptimisticSat, SaveValues, Exact, OneFrame
<1>3. unknown' \in BOOLEAN /\ everUnknown' \in BOOLEAN
  BY Answers DEF OptimisticSat
<1>4. frames' \in Seq(SUBSET Formula) /\ FramesInv' /\ pc' \in Locations
  BY <1>1, ConstrainFrames DEF IInv, TypeOK, Locations
<1> QED
  BY <1>1, <1>2, <1>3, <1>4, PendingStep DEF IInv, TypeOK

(* negatePath: the optimistic query is not sat.                             *)
LEMMA OptimisticFailIInv ==
    ASSUME IInv, OptimisticFail
    PROVE  IInv'
<1>1. /\ pc # "run" /\ UNCHANGED Rest /\ UNCHANGED <<lo, hi, found>>
      /\ pc' = "constrain" /\ frames' = frames
  BY DEF OptimisticFail
<1>2. \/ saved' = None
      \/ \E v \in Models(Asserted), opt \in BOOLEAN :
            /\ saved' = [values |-> v, optimistic |-> opt]
            /\ opt \/ pc \in Exact
  BY DEF OptimisticFail, SaveValues, Exact, OneFrame
<1>3. unknown' \in BOOLEAN /\ everUnknown' \in BOOLEAN
  BY Answers DEF OptimisticFail
<1>4. frames' \in Seq(SUBSET Formula) /\ FramesInv' /\ pc' \in Locations
  BY <1>1, ConstrainFrames DEF IInv, TypeOK, Locations
<1> QED
  BY <1>1, <1>2, <1>3, <1>4, PendingStep DEF IInv, TypeOK

(* addAddr *)
LEMMA AddrSatIInv ==
    ASSUME IInv, NEW w \in Assignment, AddrSat(w)
    PROVE  IInv'
<1>1. /\ pc # "run" /\ pc \in Exact /\ UNCHANGED Rest /\ UNCHANGED <<lo, hi, found>>
      /\ pc' = "min" /\ saved' = None
      /\ frames' = Append(frames, {})
  BY DEF AddrSat, Exact, OneFrame, TwoFrames, Push
<1>2. unknown' \in BOOLEAN /\ everUnknown' \in BOOLEAN
  BY Answers DEF AddrSat
<1>3. frames' \in Seq(SUBSET Formula) /\ FramesInv' /\ pc' \in Locations
  <2> DEFINE F == {f \in Formula : FALSE}
  <2>1. F \in SUBSET Formula /\ F = {} /\ \A f \in F : f[1] = op.e
    OBVIOUS
  <2> HIDE DEF F
  <2>2. \/ pc = "addr" /\ frames' = Append(frames, F)
        \/ pc \in TwoFrames /\ frames' = Append(Pop, F)
    BY <1>1, <2>1 DEF AddrSat, TwoFrames
  <2>3. UNCHANGED <<slice, range, op>> /\ pc' \in TwoFrames
    BY <1>1 DEF Rest, TwoFrames
  <2> QED
    BY <1>1, <2>1, <2>2, <2>3, SecondFrame DEF Locations
<1> QED
  BY <1>1, <1>2, <1>3, PendingStep DEF IInv, TypeOK

(* addAddr: the early return.                                               *)
LEMMA AddrFailIInv ==
    ASSUME IInv, AddrFail
    PROVE  IInv'
<1>1. /\ pc = "addr" /\ pc' = "run" /\ saved' = None /\ op' = op
      /\ op \in Operation
  BY DEF AddrFail, IInv, OpInv
<1>2. Forest!TypeOK' /\ SliceInv' /\ RangeInv'
  BY QuietStep DEF AddrFail
<1>3. unknown' \in BOOLEAN /\ everUnknown' \in BOOLEAN
  BY Answers DEF AddrFail
<1>4. In(op.e, op.in) \in Formula
  BY <1>1, InFormula DEF Operation
<1>5. TypeOK'
  BY <1>1, <1>2, <1>3, <1>4 DEF AddrFail, IInv, TypeOK, Locations
<1>6. OpInv' /\ FramesInv' /\ SavedFollowsPath' /\ TermInv'
  BY <1>1, ConstrainFrames DEF OpInv, SavedFollowsPath, TermInv
<1> QED
  BY <1>2, <1>5, <1>6 DEF IInv

(* getMinValue: one turn of the loop saves an input and asks for a smaller  *)
(* value.                                                                   *)
LEMMA MinSatIInv ==
    ASSUME IInv, NEW w \in Assignment, MinSat(w)
    PROVE  IInv'
<1>1. /\ pc # "run" /\ pc \in Exact /\ pc' = pc /\ w \in Models(Asserted)
      /\ UNCHANGED Rest /\ UNCHANGED <<hi, found>> /\ lo' = GetPossibleValue(op.e, w)
      /\ saved' = [values |-> w, optimistic |-> FALSE]
      /\ frames' = AddTop(Ult(op.e, GetPossibleValue(op.e, w)))
  BY DEF MinSat, SaveValues, Exact, TwoFrames
<1>2. unknown' \in BOOLEAN /\ everUnknown' \in BOOLEAN
  BY Answers DEF MinSat
<1>3. frames' \in Seq(SUBSET Formula) /\ FramesInv' /\ pc' \in Locations
  <2> DEFINE g == Ult(op.e, GetPossibleValue(op.e, w))
  <2>1. g \in Formula /\ g[1] = op.e /\ frames' = AddTop(g)
    BY <1>1, ModelValue, PossibleValue, CompareFormula
  <2> HIDE DEF g
  <2> QED
    BY <1>1, <2>1, AddTopFrames DEF Rest, IInv, TypeOK
<1>4. lo' \in Term /\ Local(op.e, lo')
  BY <1>1, ModelValue, PossibleValue
<1> QED
  BY <1>1, <1>2, <1>3, <1>4, PendingStep DEF IInv, TypeOK

(* getMinValue: the loop ends, pop, and getMaxValue pushes.                 *)
LEMMA MinFailIInv ==
    ASSUME IInv, MinFail
    PROVE  IInv'
<1>1. /\ pc # "run" /\ pc \in Exact /\ UNCHANGED Rest /\ UNCHANGED <<lo, hi, found>>
      /\ pc' = "max" /\ saved' = None
      /\ frames' = Append(Pop, {})
  BY DEF MinFail, Exact, OneFrame, TwoFrames
<1>2. unknown' \in BOOLEAN /\ everUnknown' \in BOOLEAN
  BY Answers DEF MinFail
<1>3. frames' \in Seq(SUBSET Formula) /\ FramesInv' /\ pc' \in Locations
  <2> DEFINE F == {f \in Formula : FALSE}
  <2>1. F \in SUBSET Formula /\ F = {} /\ \A f \in F : f[1] = op.e
    OBVIOUS
  <2> HIDE DEF F
  <2>2. \/ pc = "addr" /\ frames' = Append(frames, F)
        \/ pc \in TwoFrames /\ frames' = Append(Pop, F)
    BY <1>1, <2>1 DEF MinFail, TwoFrames
  <2>3. UNCHANGED <<slice, range, op>> /\ pc' \in TwoFrames
    BY <1>1 DEF Rest, TwoFrames
  <2> QED
    BY <1>1, <2>1, <2>2, <2>3, SecondFrame DEF Locations
<1> QED
  BY <1>1, <1>2, <1>3, PendingStep DEF IInv, TypeOK

(* getMaxValue: one turn of the loop.                                       *)
LEMMA MaxSatIInv ==
    ASSUME IInv, NEW w \in Assignment, MaxSat(w)
    PROVE  IInv'
<1>1. /\ pc # "run" /\ pc \in Exact /\ pc' = pc /\ w \in Models(Asserted)
      /\ UNCHANGED Rest /\ UNCHANGED <<lo, found>> /\ hi' = GetPossibleValue(op.e, w)
      /\ saved' = [values |-> w, optimistic |-> FALSE]
      /\ frames' = AddTop(Ugt(op.e, GetPossibleValue(op.e, w)))
  BY DEF MaxSat, SaveValues, Exact, TwoFrames
<1>2. unknown' \in BOOLEAN /\ everUnknown' \in BOOLEAN
  BY Answers DEF MaxSat
<1>3. frames' \in Seq(SUBSET Formula) /\ FramesInv' /\ pc' \in Locations
  <2> DEFINE g == Ugt(op.e, GetPossibleValue(op.e, w))
  <2>1. g \in Formula /\ g[1] = op.e /\ frames' = AddTop(g)
    BY <1>1, ModelValue, PossibleValue, CompareFormula
  <2> HIDE DEF g
  <2> QED
    BY <1>1, <2>1, AddTopFrames DEF Rest, IInv, TypeOK
<1>4. hi' \in Term /\ Local(op.e, hi')
  BY <1>1, ModelValue, PossibleValue
<1> QED
  BY <1>1, <1>2, <1>3, <1>4, PendingStep DEF IInv, TypeOK

(* getMaxValue: the loop ends, pop, and solveOne pushes e == min.           *)
LEMMA MaxFailIInv ==
    ASSUME IInv, MaxFail
    PROVE  IInv'
<1>1. /\ pc # "run" /\ pc \in TwoFrames /\ UNCHANGED Rest /\ UNCHANGED <<lo, hi, found>>
      /\ \/ pc' = "aborted" /\ frames' = Pop
         \/ /\ lo # None /\ pc' = "solve_min"
            /\ frames' = Append(Pop, {Equal(op.e, lo)})
  BY DEF MaxFail, TwoFrames, IInv, TypeOK
<1>2. \/ saved' = None
      \/ \E v \in Models(Asserted), opt \in BOOLEAN :
            /\ saved' = [values |-> v, optimistic |-> opt]
            /\ opt \/ pc \in Exact
  BY DEF MaxFail, SaveValues, Exact, TwoFrames
<1>3. unknown' \in BOOLEAN /\ everUnknown' \in BOOLEAN
  BY Answers DEF MaxFail
<1>4. frames' \in Seq(SUBSET Formula) /\ FramesInv' /\ pc' \in Locations
  <2>1. CASE pc' = "aborted" /\ frames' = Pop
    BY <1>1, <2>1, PopTyped, ConstrainFrames DEF Locations
  <2>2. CASE /\ lo # None /\ pc' = "solve_min"
             /\ frames' = Append(Pop, {Equal(op.e, lo)})
    <3> DEFINE F == {Equal(op.e, lo)}
    <3>1. F \in SUBSET Formula /\ \A f \in F : f[1] = op.e
      BY <1>1, <2>2, CompareFormula DEF IInv, TermInv, OpInv, Operation, TwoFrames
    <3>2. frames' = Append(Pop, F) /\ pc \in Exact /\ pc' \in TwoFrames
      BY <1>1, <2>2 DEF Exact, TwoFrames
    <3>3. UNCHANGED <<slice, range, op>>
      BY <1>1 DEF Rest
    <3> HIDE DEF F
    <3> QED
      BY <1>1, <2>2, <3>1, <3>2, <3>3, SecondFrame DEF Locations
  <2> QED
    BY <1>1, <2>1, <2>2
<1> QED
  BY <1>1, <1>2, <1>3, <1>4, PendingStep DEF IInv, TypeOK, TwoFrames

(* solveOne(e == min) saves an input.                                       *)
LEMMA SolveMinSatIInv ==
    ASSUME IInv, NEW w \in Assignment, SolveMinSat(w)
    PROVE  IInv'
<1>1. /\ pc # "run" /\ pc \in TwoFrames /\ UNCHANGED Rest /\ UNCHANGED <<lo, hi, found>>
      /\ \/ pc' = "aborted" /\ frames' = Pop
         \/ /\ hi # None /\ pc' = "solve_max"
            /\ frames' = Append(Pop, {Equal(op.e, hi)})
  BY DEF SolveMinSat, TwoFrames, IInv, TypeOK, AfterSolveMin
<1>2. \/ saved' = None
      \/ \E v \in Models(Asserted), opt \in BOOLEAN :
            /\ saved' = [values |-> v, optimistic |-> opt]
            /\ opt \/ pc \in Exact
  BY DEF SolveMinSat, SaveValues, Exact, TwoFrames
<1>3. unknown' \in BOOLEAN /\ everUnknown' \in BOOLEAN
  BY Answers DEF SolveMinSat
<1>4. frames' \in Seq(SUBSET Formula) /\ FramesInv' /\ pc' \in Locations
  <2>1. CASE pc' = "aborted" /\ frames' = Pop
    BY <1>1, <2>1, PopTyped, ConstrainFrames DEF Locations
  <2>2. CASE /\ hi # None /\ pc' = "solve_max"
             /\ frames' = Append(Pop, {Equal(op.e, hi)})
    <3> DEFINE F == {Equal(op.e, hi)}
    <3>1. F \in SUBSET Formula /\ \A f \in F : f[1] = op.e
      BY <1>1, <2>2, CompareFormula DEF IInv, TermInv, OpInv, Operation, TwoFrames
    <3>2. frames' = Append(Pop, F) /\ pc \in Exact /\ pc' \in TwoFrames
      BY <1>1, <2>2 DEF Exact, TwoFrames
    <3>3. UNCHANGED <<slice, range, op>>
      BY <1>1 DEF Rest
    <3> HIDE DEF F
    <3> QED
      BY <1>1, <2>2, <3>1, <3>2, <3>3, SecondFrame DEF Locations
  <2> QED
    BY <1>1, <2>1, <2>2
<1> QED
  BY <1>1, <1>2, <1>3, <1>4, PendingStep DEF IInv, TypeOK, TwoFrames

(* solveOne(e == min) saves none.                                           *)
LEMMA SolveMinFailIInv ==
    ASSUME IInv, SolveMinFail
    PROVE  IInv'
<1>1. /\ pc # "run" /\ pc \in TwoFrames /\ UNCHANGED Rest /\ UNCHANGED <<lo, hi, found>>
      /\ \/ pc' = "aborted" /\ frames' = Pop
         \/ /\ hi # None /\ pc' = "solve_max"
            /\ frames' = Append(Pop, {Equal(op.e, hi)})
  BY DEF SolveMinFail, TwoFrames, IInv, TypeOK, AfterSolveMin
<1>2. \/ saved' = None
      \/ \E v \in Models(Asserted), opt \in BOOLEAN :
            /\ saved' = [values |-> v, optimistic |-> opt]
            /\ opt \/ pc \in Exact
  BY DEF SolveMinFail, SaveValues, Exact, TwoFrames
<1>3. unknown' \in BOOLEAN /\ everUnknown' \in BOOLEAN
  BY Answers DEF SolveMinFail
<1>4. frames' \in Seq(SUBSET Formula) /\ FramesInv' /\ pc' \in Locations
  <2>1. CASE pc' = "aborted" /\ frames' = Pop
    BY <1>1, <2>1, PopTyped, ConstrainFrames DEF Locations
  <2>2. CASE /\ hi # None /\ pc' = "solve_max"
             /\ frames' = Append(Pop, {Equal(op.e, hi)})
    <3> DEFINE F == {Equal(op.e, hi)}
    <3>1. F \in SUBSET Formula /\ \A f \in F : f[1] = op.e
      BY <1>1, <2>2, CompareFormula DEF IInv, TermInv, OpInv, Operation, TwoFrames
    <3>2. frames' = Append(Pop, F) /\ pc \in Exact /\ pc' \in TwoFrames
      BY <1>1, <2>2 DEF Exact, TwoFrames
    <3>3. UNCHANGED <<slice, range, op>>
      BY <1>1 DEF Rest
    <3> HIDE DEF F
    <3> QED
      BY <1>1, <2>2, <3>1, <3>2, <3>3, SecondFrame DEF Locations
  <2> QED
    BY <1>1, <2>1, <2>2
<1> QED
  BY <1>1, <1>2, <1>3, <1>4, PendingStep DEF IInv, TypeOK, TwoFrames

(* solveOne(e == max) saves an input.                                       *)
LEMMA SolveMaxSatIInv ==
    ASSUME IInv, NEW w \in Assignment, SolveMaxSat(w)
    PROVE  IInv'
<1>1. /\ pc # "run" /\ pc \in TwoFrames /\ UNCHANGED Rest /\ UNCHANGED <<lo, hi, found>>
      /\ pc' = "constrain" /\ frames' = Pop
  BY DEF SolveMaxSat, TwoFrames
<1>2. \/ saved' = None
      \/ \E v \in Models(Asserted), opt \in BOOLEAN :
            /\ saved' = [values |-> v, optimistic |-> opt]
            /\ opt \/ pc \in Exact
  BY DEF SolveMaxSat, SaveValues, Exact, TwoFrames
<1>3. unknown' \in BOOLEAN /\ everUnknown' \in BOOLEAN
  BY Answers DEF SolveMaxSat
<1>4. frames' \in Seq(SUBSET Formula) /\ FramesInv' /\ pc' \in Locations
  BY <1>1, PopTyped, ConstrainFrames DEF Locations
<1> QED
  BY <1>1, <1>2, <1>3, <1>4, PendingStep DEF IInv, TypeOK

(* solveOne(e == max) saves none.                                           *)
LEMMA SolveMaxFailIInv ==
    ASSUME IInv, SolveMaxFail
    PROVE  IInv'
<1>1. /\ pc # "run" /\ pc \in TwoFrames /\ UNCHANGED Rest /\ UNCHANGED <<lo, hi, found>>
      /\ pc' = "constrain" /\ frames' = Pop
  BY DEF SolveMaxFail, TwoFrames
<1>2. \/ saved' = None
      \/ \E v \in Models(Asserted), opt \in BOOLEAN :
            /\ saved' = [values |-> v, optimistic |-> opt]
            /\ opt \/ pc \in Exact
  BY DEF SolveMaxFail, SaveValues, Exact, TwoFrames
<1>3. unknown' \in BOOLEAN /\ everUnknown' \in BOOLEAN
  BY Answers DEF SolveMaxFail
<1>4. frames' \in Seq(SUBSET Formula) /\ FramesInv' /\ pc' \in Locations
  BY <1>1, PopTyped, ConstrainFrames DEF Locations
<1> QED
  BY <1>1, <1>2, <1>3, <1>4, PendingStep DEF IInv, TypeOK

(* solveAll *)
LEMMA AllCheckSatIInv ==
    ASSUME IInv, NEW w \in Assignment, AllCheckSat(w)
    PROVE  IInv'
<1>1. /\ pc = "all_check" /\ UNCHANGED Rest /\ UNCHANGED <<lo, hi, found>>
      /\ pc' = "all" /\ frames' = frames /\ saved' = None
  BY DEF AllCheckSat
<1>2. unknown' \in BOOLEAN /\ everUnknown' \in BOOLEAN
  BY Answers DEF AllCheckSat
<1>3. Asserted' = Asserted /\ SyncConstraints(op.e)' = SyncConstraints(op.e)
      /\ Related(op.e)' = Related(op.e)
  BY <1>1 DEF Asserted, SyncConstraints, Related, Rest
<1>4. FramesInv'
  BY <1>1, <1>3 DEF IInv, FramesInv, OneFrame, TwoFrames, Exact, Rest
<1> QED
  BY <1>1, <1>2, <1>4, PendingStep DEF IInv, TypeOK, Locations

(* solveAll: reset, and assert the negated target alone.                    *)
LEMMA AllCheckFailIInv ==
    ASSUME IInv, AllCheckFail
    PROVE  IInv'
<1>1. /\ pc # "run" /\ UNCHANGED Rest /\ UNCHANGED <<lo, hi, found>>
      /\ pc' = "all_optimistic" /\ saved' = None
      /\ frames' = <<{In(op.e, Result \ op.in)}>>
  BY DEF AllCheckFail
<1>2. unknown' \in BOOLEAN /\ everUnknown' \in BOOLEAN
  BY Answers DEF AllCheckFail
<1>3. frames' \in Seq(SUBSET Formula) /\ Len(frames') = 1
  <2>1. op.e \in Expr
    BY <1>1 DEF IInv, OpInv, Operation
  <2>2. In(op.e, Result \ op.in) \in Formula
    BY <2>1, InFormula
  <2> QED
    BY <1>1, <2>2
<1>4. FramesInv' /\ pc' \in Locations
  BY <1>1, <1>3 DEF FramesInv, Locations, OneFrame, TwoFrames, Exact
<1> QED
  BY <1>1, <1>2, <1>3, <1>4, PendingStep DEF IInv, TypeOK

(* solveAll: one turn of the loop saves an input and excludes its target.   *)
LEMMA AllSatIInv ==
    ASSUME IInv, NEW w \in Assignment, AllSat(w)
    PROVE  IInv'
<1>1. /\ pc \in {"all", "all_optimistic"} /\ pc' = pc /\ w \in Models(Asserted)
      /\ UNCHANGED Rest /\ UNCHANGED <<lo, hi>>
      /\ found' = found \cup {Denote[op.e][w]}
      /\ saved' = [values |-> w, optimistic |-> (pc = "all_optimistic")]
      /\ frames' = AddTop(In(op.e, Result \ {Denote[op.e][w]}))
  BY DEF AllSat, SaveValues
<1>2. unknown' \in BOOLEAN /\ everUnknown' \in BOOLEAN
  BY Answers DEF AllSat
<1>3. op.e \in Expr /\ Denote[op.e][w] \in Result
  BY <1>1, ModelValue
<1>4. frames' \in Seq(SUBSET Formula) /\ FramesInv'
  <2>1. CASE pc = "all"
    <3> DEFINE g == In(op.e, Result \ {Denote[op.e][w]})
    <3>1. pc \in Exact /\ g \in Formula /\ g[1] = op.e /\ frames' = AddTop(g)
      BY <1>1, <1>3, <2>1, InFormula DEF Exact, OneFrame
    <3> HIDE DEF g
    <3> QED
      BY <1>1, <3>1, AddTopFrames DEF Rest
  <2>2. CASE pc = "all_optimistic"
    <3> DEFINE x == Top \cup {In(op.e, Result \ {Denote[op.e][w]})}
    <3>1. frames \in Seq(SUBSET Formula) /\ Len(frames) = 1
      BY <2>2 DEF IInv, TypeOK, FramesInv
    <3>2. Top \in SUBSET Formula
      BY <3>1, TopFormulas DEF Top
    <3>3. x \in SUBSET Formula /\ frames' = [frames EXCEPT ![Len(frames)] = x]
      BY <1>1, <1>3, <3>2, InFormula DEF AddTop, Top
    <3> HIDE DEF x
    <3>4. frames' \in Seq(SUBSET Formula) /\ Len(frames') = 1
      BY <3>1, <3>3, StackFacts
    <3> QED
      BY <1>1, <2>2, <3>4 DEF FramesInv, OneFrame, TwoFrames, Exact
  <2> QED
    BY <1>1, <2>1, <2>2
<1>5. \E v \in Models(Asserted), opt \in BOOLEAN :
            /\ saved' = [values |-> v, optimistic |-> opt]
            /\ opt \/ pc \in Exact
  BY <1>1 DEF Exact, OneFrame
<1> QED
  BY <1>1, <1>2, <1>3, <1>4, <1>5, PendingStep DEF IInv, TypeOK, Locations

(* solveAll: the loop ends.                                                 *)
LEMMA AllFailIInv ==
    ASSUME IInv, AllFail
    PROVE  IInv'
<1>1. /\ pc # "run" /\ UNCHANGED Rest /\ UNCHANGED <<lo, hi, found>>
      /\ pc' = "constrain" /\ frames' = frames
  BY DEF AllFail
<1>2. \/ saved' = None
      \/ \E v \in Models(Asserted), opt \in BOOLEAN :
            /\ saved' = [values |-> v, optimistic |-> opt]
            /\ opt \/ pc \in Exact
  BY DEF AllFail, SaveValues, Exact, OneFrame
<1>3. unknown' \in BOOLEAN /\ everUnknown' \in BOOLEAN
  BY Answers DEF AllFail
<1>4. frames' \in Seq(SUBSET Formula) /\ FramesInv' /\ pc' \in Locations
  BY <1>1, ConstrainFrames DEF IInv, TypeOK, Locations
<1> QED
  BY <1>1, <1>2, <1>3, <1>4, PendingStep DEF IInv, TypeOK

(* addConstraint *)
LEMMA ConstrainIInv ==
    ASSUME IInv, Constrain
    PROVE  IInv'
<1>1. /\ op.e \in Expr /\ op.in \subseteq Result
      /\ Denote[op.e][Input] \in op.in
      /\ pc' = "run" /\ saved' = None /\ op' = op
      /\ range' = [range EXCEPT ![op.e] = range[op.e] \cap op.in]
      /\ path' = path \cup {In(op.e, op.in)}
  BY DEF Constrain, IInv, OpInv, Operation
<1>2. Forest!TypeOK' /\ SliceInv'
  BY <1>1, AddNodeSlices DEF Constrain, IInv, TypeOK
<1>3. /\ \A e \in Expr : range'[e] \subseteq range[e] /\ added'[e] >= added[e]
      /\ range'[op.e] \subseteq op.in /\ added'[op.e] > 0
      /\ range' \in [Expr -> SUBSET Result]
  <2>1. added \in [Expr -> Nat] /\ added' = [added EXCEPT ![op.e] = @ + 1]
    BY DEF IInv, TypeOK, Forest!TypeOK, Forest!Occurrences, Constrain, Forest!AddNode
  <2>2. \A e \in Expr : added'[e] >= added[e]
    BY <1>1, <2>1
  <2>3. added'[op.e] > 0
    BY <1>1, <2>1
  <2> QED
    BY <1>1, <2>2, <2>3 DEF IInv, TypeOK
<1>4. RangeInv'
  <2>1. \A e \in Expr : Denote[e][Input] \in range'[e]
    BY <1>1 DEF IInv, TypeOK, RangeInv
  <2>2. ASSUME NEW f \in path'
        PROVE  added'[f[1]] > 0 /\ In(f[1], range'[f[1]])[2] \subseteq f[2]
    <3>1. CASE f = In(op.e, op.in)
      BY <1>1, <1>3, <3>1 DEF In
    <3>2. CASE f \in path
      <4>1. f[1] \in Expr /\ added[f[1]] > 0 /\ In(f[1], range[f[1]])[2] \subseteq f[2]
        BY <3>2 DEF IInv, TypeOK, RangeInv, Formula
      <4>3. In(f[1], range'[f[1]])[2] \subseteq In(f[1], range[f[1]])[2]
        BY <1>3, <4>1 DEF In
      <4>2. added[f[1]] \in Nat /\ added'[f[1]] \in Nat
        BY <1>2, <4>1 DEF IInv, TypeOK, Forest!TypeOK, Forest!Occurrences
      <4> QED
        BY <1>3, <4>1, <4>2, <4>3
    <3> QED
      BY <1>1, <2>2, <3>1, <3>2
  <2> QED
    BY <2>1, <2>2 DEF RangeInv, In
<1>5. TypeOK'
  <2>1. In(op.e, op.in) \in Formula
    BY <1>1, InFormula
  <2> QED
    BY <1>1, <1>2, <1>3, <2>1 DEF IInv, TypeOK, Constrain, Locations
<1>6. OpInv' /\ FramesInv' /\ SavedFollowsPath' /\ TermInv'
  BY <1>1, ConstrainFrames DEF OpInv, SavedFollowsPath, TermInv
<1> QED
  BY <1>2, <1>4, <1>5, <1>6 DEF IInv

-----------------------------------------------------------------------------
(* The invariant holds initially: nothing is asserted and nothing saved.    *)
LEMMA InitIInv == Init => IInv
<1> SUFFICES ASSUME Init PROVE IInv
  OBVIOUS
<1>1. TypeOK
  <2>1. <<{}>> \in Seq(SUBSET Formula)
    BY {} \in SUBSET Formula
  <2>2. Forest!TypeOK
    BY DEF Init, Forest!Init, Forest!TypeOK, Forest!Occurrences
  <2> QED
    BY <2>1, <2>2 DEF Init, TypeOK, Locations
<1>2. SliceInv
  BY ExprAssumption DEF Init, Forest!Init, SliceInv
<1>3. RangeInv
  BY ExprAssumption, InputAssumption DEF Init, RangeInv
<1>4. OpInv /\ FramesInv /\ SavedFollowsPath /\ TermInv
  BY DEF Init, OpInv, FramesInv, OneFrame, TwoFrames, Exact, SavedFollowsPath, TermInv
<1> QED
  BY <1>1, <1>2, <1>3, <1>4 DEF IInv

(* Every step of the solver preserves the invariant.                        *)
LEMMA NextIInv == IInv /\ [Next]_vars => IInv'
<1> SUFFICES ASSUME IInv, [Next]_vars PROVE IInv'
  OBVIOUS
<1>1. CASE Instrumentation
  BY <1>1, AddJccIInv, AddAddrIInv, SolveAllIInv, AddValueIInv DEF Instrumentation
<1>2. CASE SatStep
  BY <1>2, NegateSatIInv, OptimisticSatIInv, AddrSatIInv, MinSatIInv, MaxSatIInv,
     SolveMinSatIInv, SolveMaxSatIInv, AllCheckSatIInv, AllSatIInv DEF SatStep
<1>3. CASE FailStep
  BY <1>3, NegateFailIInv, OptimisticFailIInv, AddrFailIInv, MinFailIInv, MaxFailIInv,
     SolveMinFailIInv, SolveMaxFailIInv, AllCheckFailIInv, AllFailIInv DEF FailStep
<1>4. CASE Constrain
  BY <1>4, ConstrainIInv
<1>5. CASE UNCHANGED vars
  <2>1. Forest!TypeOK' /\ SliceInv' /\ RangeInv'
    BY <1>5, QuietStep DEF vars
  <2>2. TypeOK'
    BY <1>5, <2>1 DEF IInv, TypeOK, vars
  <2>3. Asserted' = Asserted
    BY <1>5 DEF Asserted, vars
  <2>4. OpInv' /\ FramesInv' /\ SavedFollowsPath' /\ TermInv'
    BY <1>5, <2>3
    DEF IInv, OpInv, FramesInv, SavedFollowsPath, SyncConstraints, Related,
        Satisfies, Holds, TermInv, Local, vars
  <2> QED
    BY <2>1, <2>2, <2>4 DEF IInv
<1> QED
  BY <1>1, <1>2, <1>3, <1>4, <1>5 DEF Next, SolverStep

(* The inductive invariant holds in every reachable state.                  *)
LEMMA InductiveInvariant == Spec => []IInv
  BY InitIInv, NextIInv, PTL DEF Spec

(* Every variable keeps its type. *)
THEOREM TypeCorrect == Spec => []TypeOK
<1>1. IInv => TypeOK
  BY DEF IInv
<1> QED
  BY <1>1, InductiveInvariant, PTL

(* Solving a slice of the path constraint is sound: a saved input that is   *)
(* not optimistic satisfies every constraint collected on the path.         *)
THEOREM SlicingSound == Spec => []SavedFollowsPath
<1>1. IInv => SavedFollowsPath
  BY DEF IInv
<1> QED
  BY <1>1, InductiveInvariant, PTL

-----------------------------------------------------------------------------
(* Completeness *)

(* The calls that make each query, and the queries that must leave the path. *)
Leaving == {"negate", "optimistic", "all_check", "all", "all_optimistic"}
Asking == Exact \cup {"optimistic", "all_optimistic"}

KindInv ==
    /\ pc \in {"negate", "optimistic"} => op.kind = "jcc"
    /\ pc \in {"addr", "aborted"} \cup TwoFrames => op.kind = "addr"
    /\ pc \in {"all_check", "all", "all_optimistic"} => op.kind = "all"

(* The ranges are no tighter than the collected path. *)
TightInv ==
    \A v \in Assignment : Satisfies(v, path) =>
        \A e \in Expr : Denote[e][v] \in range[e]

(* Nothing is found before the first check of its loop. *)
FreshInv ==
    /\ pc \in {"addr", "all_check"} => lo = None /\ hi = None /\ found = {}
    /\ pc = "min" => hi = None

(* The values of op.e that the query asks for; a bound that is a number has *)
(* that value on every input, so on the current one.                        *)
Wanted ==
    {x \in Result : /\ pc \in Leaving => x \notin op.in
                    /\ pc \in {"all", "all_optimistic"} => x \notin found
                    /\ pc = "min" /\ lo # None => x < lo[Input]
                    /\ pc = "max" /\ hi # None => x > hi[Input]
                    /\ pc = "solve_min" => x = lo[Input]
                    /\ pc = "solve_max" => x = hi[Input]}

(* Where the query asks for values: not while getMinValue, getMaxValue or   *)
(* solveOne compares op.e with a term.                                      *)
Plain ==
    pc \in TwoFrames => \/ Bound
                        \/ pc = "min" /\ lo = None
                        \/ pc = "max" /\ hi = None

(* The query is the slice of op.e (or nothing, when optimistic), and that   *)
(* op.e has a wanted value.                                                 *)
QueryInv ==
    /\ pc \in {"addr"} \cup TwoFrames => frames[1] = SyncConstraints(op.e)
    /\ pc \in Asking /\ Plain => \A v \in Assignment :
          Satisfies(v, Asserted) <=>
              /\ pc \in Exact => Satisfies(v, SyncConstraints(op.e))
              /\ Denote[op.e][v] \in Wanted

(* Where addAddr has its bounds. *)
Bounded == pc = "constrain" /\ op.kind = "addr" /\ lo # None

Feasible(t) == t[Input] \in FeasibleValues /\ IsNumber(t, t[Input])
Least == lo # None /\ (Bound => \A x \in FeasibleValues : lo[Input] <= x)
Greatest == hi # None /\ (Bound => \A x \in FeasibleValues : x <= hi[Input])

BoundsInv ==
    /\ (pc \in TwoFrames \/ Bounded) /\ Bound =>
          /\ lo # None => Feasible(lo)
          /\ hi # None => Feasible(hi)
    /\ pc \in {"max", "solve_min", "solve_max"} \/ Bounded => unknown \/ Least
    /\ pc \in {"solve_min", "solve_max"} \/ Bounded => unknown \/ Greatest

UnknownInv == unknown => everUnknown

JInv ==
    /\ KindInv
    /\ TightInv
    /\ FreshInv
    /\ QueryInv
    /\ BoundsInv
    /\ UnknownInv
    /\ SavedLeavesPath
    /\ OptimisticOnlyIfNeeded
    /\ SolveAllComplete
    /\ TroubleOnlyAfterUnknown

-----------------------------------------------------------------------------
(* What it means for one more formula to be asserted. *)
LEMMA SatisfiesMore ==
    ASSUME NEW v, NEW F, NEW g
    PROVE  Satisfies(v, F \cup {g}) <=> Satisfies(v, F) /\ Holds(v, g)
<1>1. \A f : f \in F \cup {g} <=> f \in F \/ f = g
  OBVIOUS
<1> QED
  BY <1>1 DEF Satisfies

(* If any input satisfies the query, z3 has a model: the one that takes the *)
(* bytes of the query from that input and all others from the current one.  *)
LEMMA ModelExists ==
    ASSUME NEW F \in SUBSET Formula, NEW v \in Assignment, Satisfies(v, F)
    PROVE  Models(F) # {}
<1> DEFINE w == [b \in Byte |-> IF b \in Support(F) THEN v[b] ELSE Input[b]]
<1>1. w \in Assignment /\ \A b \in Byte \ Support(F) : w[b] = Input[b]
  BY InputAssumption DEF Assignment
<1>2. ASSUME NEW f \in F
      PROVE  Holds(w, f)
  <2>1. f[1] \in Expr /\ Deps[f[1]] \subseteq Byte
    BY ExprAssumption DEF Formula
  <2>2. \A b \in Deps[f[1]] : w[b] = v[b]
    BY <2>1 DEF Support
  <2>3. w \in f[2] <=> v \in f[2]
    BY <1>1, <2>1, <2>2 DEF Formula
  <2> QED
    BY <2>3 DEF Satisfies, Holds
<1>3. w \in Models(F)
  BY <1>1, <1>2 DEF Models, Satisfies
<1> QED
  BY <1>3

(* The values that op.e can take on the path; the input's is one of them.   *)
LEMMA FeasibleIs ==
    ASSUME NEW x
    PROVE  x \in FeasibleValues <=>
              \E v \in Assignment : Satisfies(v, path) /\ x = Denote[op.e][v]
  BY DEF FeasibleValues

LEMMA InputFeasible ==
    ASSUME IInv
    PROVE  Satisfies(Input, path) /\ Denote[op.e][Input] \in FeasibleValues
<1>1. \A f \in path : f[1] \in Expr
  BY DEF IInv, TypeOK, Formula
<1>2. Satisfies(Input, path)
  BY <1>1, InputAssumption DEF Satisfies, Holds, IInv, RangeInv, In
<1> QED
  BY <1>2, InputAssumption DEF FeasibleValues

LEMMA AskingTyped ==
    ASSUME IInv, pc # "run"
    PROVE  /\ op \in Operation /\ op.e \in Expr /\ op.in \subseteq Result
           /\ FeasibleValues \subseteq Result
           /\ \A v \in Assignment : Denote[op.e][v] \in Result
           /\ Asserted \subseteq Formula
           /\ Denote[op.e][Input] \in op.in
<1>1. op \in Operation /\ op.e \in Expr /\ op.in \subseteq Result /\ Denote[op.e][Input] \in op.in
  BY DEF IInv, OpInv, Operation
<1>2. \A v \in Assignment : Denote[op.e][v] \in Result
  BY <1>1, ExprAssumption
<1>3. FeasibleValues \subseteq Result
  BY <1>2 DEF FeasibleValues
<1>4. Asserted \subseteq Formula
  BY DEF Asserted, IInv, TypeOK
<1> QED
  BY <1>1, <1>2, <1>3, <1>4

(* Soundness, for one query: a model gives op.e a value that is wanted and, *)
(* if the query is exact, possible on the path.                             *)
LEMMA ModelWanted ==
    ASSUME IInv, JInv, pc \in Asking, NEW w \in Models(Asserted)
    PROVE  /\ Plain => Denote[op.e][w] \in Wanted
           /\ Denote[op.e][w] \in Result
           /\ pc \in Exact => Denote[op.e][w] \in FeasibleValues
<1>1. w \in Assignment /\ Satisfies(w, Asserted)
  BY DEF Models
<1>2. Plain => Denote[op.e][w] \in Wanted
  BY <1>1 DEF JInv, QueryInv
<1>3. pc \in Exact => Denote[op.e][w] \in FeasibleValues
  BY <1>1, SliceSound, FeasibleIs
<1>4. Denote[op.e][w] \in Result
  BY <1>1, AskingTyped DEF Asking, Exact, OneFrame, TwoFrames
<1> QED
  BY <1>2, <1>3, <1>4

(* Completeness, for one query: without a model, no input that follows the  *)
(* path gives op.e a wanted value.                                          *)
LEMMA NoModel ==
    ASSUME IInv, JInv, pc \in Asking, Plain, Models(Asserted) = {}
    PROVE  \A x \in FeasibleValues : x \notin Wanted
<1>1. SUFFICES ASSUME NEW v \in Assignment, Satisfies(v, path), Denote[op.e][v] \in Wanted
               PROVE  FALSE
  BY FeasibleIs
<1>2. pc # "run" /\ Asserted \in SUBSET Formula
  BY AskingTyped DEF Asking, Exact, OneFrame, TwoFrames
<1>3. Satisfies(v, SyncConstraints(op.e))
  BY <1>1 DEF JInv, TightInv, SyncConstraints, Satisfies, Holds, In
<1>4. Satisfies(v, Asserted)
  BY <1>1, <1>3 DEF JInv, QueryInv
<1> QED
  BY <1>1, <1>2, <1>4, ModelExists

-----------------------------------------------------------------------------
(* The assertion stack: what is asserted after each way of changing it. *)
LEMMA OneFrameAsserted ==
    ASSUME NEW F, frames' = <<F>>
    PROVE  Asserted' = F
  BY DEF Asserted

LEMMA AddTopAsserted ==
    ASSUME IInv, pc \in Exact \cup {"all_optimistic"}, NEW f, frames' = AddTop(f)
    PROVE  /\ Asserted' = Asserted \cup {f}
           /\ pc \in TwoFrames => frames'[1] = frames[1]
<1>1. frames \in Seq(SUBSET Formula) /\ Len(frames) \in {1, 2}
  BY DEF IInv, TypeOK, FramesInv, Exact, OneFrame, TwoFrames
<1>2. /\ DOMAIN frames' = DOMAIN frames /\ DOMAIN frames = 1..Len(frames)
      /\ \A k \in DOMAIN frames : frames'[k] =
            IF k = Len(frames) THEN frames[k] \cup {f} ELSE frames[k]
  <2> DEFINE n == Len(frames)
  <2>1. frames' = [frames EXCEPT ![n] = frames[n] \cup {f}] /\ DOMAIN frames = 1..n
    BY <1>1 DEF AddTop
  <2> HIDE DEF n
  <2>2. DOMAIN frames' = DOMAIN frames
    BY <2>1
  <2>3. \A k \in DOMAIN frames : frames'[k] = IF k = n THEN frames[k] \cup {f} ELSE frames[k]
    BY <2>1
  <2> QED
    BY <2>1, <2>2, <2>3 DEF n
<1>3. Len(frames) \in DOMAIN frames
  BY <1>1, <1>2
<1>4. \A g : g \in Asserted' <=> \E k \in DOMAIN frames : g \in frames'[k]
  BY <1>2 DEF Asserted
<1>5. \A g : g \in Asserted <=> \E k \in DOMAIN frames : g \in frames[k]
  BY DEF Asserted
<1>6. \A g : g \in Asserted' <=> g \in Asserted \/ g = f
  BY <1>2, <1>3, <1>4, <1>5
<1>7. pc \in TwoFrames => frames'[1] = frames[1]
  BY <1>1, <1>2 DEF IInv, FramesInv
<1> QED
  BY <1>6, <1>7

LEMMA PushAsserted ==
    ASSUME IInv, NEW F \in SUBSET Formula,
           \/ pc = "addr" /\ frames' = Append(frames, F)
           \/ pc \in TwoFrames /\ frames' = Append(Pop, F)
    PROVE  Asserted' = frames[1] \cup F /\ frames'[1] = frames[1]
<1>1. frames \in Seq(SUBSET Formula)
  BY DEF IInv, TypeOK
<1>2. Len(frames') = 2 /\ frames'[1] = frames[1] /\ frames'[2] = F /\ DOMAIN frames' = 1..2
  <2>1. CASE pc = "addr" /\ frames' = Append(frames, F)
    <3>1. Len(frames) = 1
      BY <2>1 DEF IInv, FramesInv, OneFrame
    <3> QED
      BY <1>1, <2>1, <3>1, StackFacts
  <2>2. CASE pc \in TwoFrames /\ frames' = Append(Pop, F)
    <3>1. Len(frames) = 2
      BY <2>2 DEF IInv, FramesInv
    <3>2. Pop \in Seq(SUBSET Formula) /\ Len(Pop) = 1 /\ Pop[1] = frames[1]
      BY <1>1, <3>1, StackFacts DEF Pop
    <3> QED
      BY <1>1, <2>2, <3>2, StackFacts
  <2> QED
    BY <2>1, <2>2
<1>3. \A g : g \in Asserted' <=> g \in frames[1] \/ g \in F
  <2>1. 1 \in 1..2 /\ 2 \in 1..2 /\ \A k \in 1..2 : k = 1 \/ k = 2
    OBVIOUS
  <2> QED
    BY <1>2, <2>1 DEF Asserted
<1> QED
  BY <1>2, <1>3

(* A step that leaves the operation and the path alone. *)
LEMMA RestSame ==
    ASSUME JInv, UNCHANGED Rest
    PROVE  /\ TightInv' /\ FeasibleValues' = FeasibleValues
           /\ SyncConstraints(op.e)' = SyncConstraints(op.e)
           /\ op' = op /\ lost' = lost /\ lastInterested' = lastInterested
           /\ path' = path /\ Bound' = Bound
  BY DEF JInv, TightInv, FeasibleValues, SyncConstraints, Satisfies, Holds, Rest, Bound,
         Support

(* What is known of the bounds lasts while they and the path do. *)
LEMMA BoundsKept ==
    ASSUME JInv, UNCHANGED Rest, UNCHANGED <<lo, hi>>
    PROVE  /\ Feasible(lo)' <=> Feasible(lo)
           /\ Feasible(hi)' <=> Feasible(hi)
           /\ Least' <=> Least
           /\ Greatest' <=> Greatest
<1>1. FeasibleValues' = FeasibleValues /\ Bound' = Bound
  BY RestSame
<1> QED
  BY <1>1 DEF Feasible, IsNumber, Least, Greatest

(* z3 giving up is remembered. *)
LEMMA UnknownKept ==
    ASSUME IInv, JInv, NotSat \/ Sat
    PROVE  /\ UnknownInv' /\ unknown' \in BOOLEAN
           /\ unknown => unknown'
           /\ everUnknown => everUnknown'
           /\ NotSat /\ ~unknown' => Models(Asserted) = {}
<1>1. unknown \in BOOLEAN /\ everUnknown \in BOOLEAN /\ UnknownInv
  BY DEF IInv, TypeOK, JInv
<1>2. CASE Models(Asserted) = {} /\ UNCHANGED <<unknown, everUnknown>>
  BY <1>1, <1>2 DEF UnknownInv
<1>3. CASE unknown' = TRUE /\ everUnknown' = TRUE
  BY <1>3 DEF UnknownInv
<1>4. CASE Sat
  BY <1>1, <1>4 DEF Sat, UnknownInv, NotSat
<1> QED
  BY <1>2, <1>3, <1>4 DEF NotSat

-----------------------------------------------------------------------------
(* Facts that the steps share. *)

(* What is saved for a branch or a jump leaves the path. *)
LEMMA SavedLeaves ==
    ASSUME IInv, JInv, pc \in Asking, op' = op,
           \/ saved' = None
           \/ \E w \in Models(Asserted), opt \in BOOLEAN :
                 saved' = [values |-> w, optimistic |-> opt]
    PROVE  SavedLeavesPath'
<1>1. SUFFICES ASSUME saved' # None, op.kind \in {"jcc", "all"}
               PROVE  Denote[op.e][saved'.values] \notin op.in
  BY DEF SavedLeavesPath
<1>2. PICK w \in Models(Asserted) : saved'.values = w
  BY <1>1
<1>4. pc \in Leaving /\ Plain
  BY <1>1 DEF JInv, KindInv, Asking, Exact, OneFrame, TwoFrames, Leaving, Plain
<1>3. Denote[op.e][w] \in Wanted
  BY <1>4, ModelWanted
<1> QED
  BY <1>2, <1>3, <1>4 DEF Wanted

(* Where no query is open, nothing is said about one. *)
LEMMA NoQuery ==
    ASSUME pc' \in {"constrain", "run"}
    PROVE  KindInv' /\ FreshInv' /\ QueryInv' /\ OptimisticOnlyIfNeeded'
  BY DEF KindInv, FreshInv, QueryInv, OptimisticOnlyIfNeeded, TwoFrames, OneFrame,
         Exact, Asking

(* Nothing is lost and nothing aborts in this step. *)
LEMMA NoTrouble ==
    ASSUME JInv, lost' = lost, everUnknown => everUnknown', pc' # "aborted"
    PROVE  TroubleOnlyAfterUnknown'
  BY DEF JInv, TroubleOnlyAfterUnknown

(* The steps of negatePath and solveAll leave the bounds alone. *)
LEMMA NoBounds ==
    ASSUME pc' \notin TwoFrames, op'.kind # "addr"
    PROVE  BoundsInv'
  BY DEF BoundsInv, Bounded, TwoFrames

-----------------------------------------------------------------------------
(* negatePath *)

(* negatePath saves an input of the other side. *)
LEMMA NegateSatJInv ==
    ASSUME IInv, JInv, NEW w \in Assignment, NegateSat(w)
    PROVE  JInv'
<1>1. /\ pc = "negate" /\ pc' = "constrain" /\ UNCHANGED Rest /\ Sat
      /\ w \in Models(Asserted) /\ saved' = [values |-> w, optimistic |-> FALSE]
  BY DEF NegateSat, SaveValues
<1>2. pc \in Asking /\ op.kind = "jcc"
  BY <1>1 DEF Asking, Exact, OneFrame, JInv, KindInv
<1>3. TightInv' /\ op' = op /\ lost' = lost
  BY <1>1, RestSame
<1>4. UnknownInv' /\ (everUnknown => everUnknown')
  BY <1>1, UnknownKept
<1>5. SavedLeavesPath'
  BY <1>1, <1>2, <1>3, SavedLeaves
<1>6. BoundsInv' /\ SolveAllComplete'
  BY <1>1, <1>2, <1>3, NoBounds DEF SolveAllComplete, TwoFrames
<1> QED
  BY <1>1, <1>3, <1>4, <1>5, <1>6, NoQuery, NoTrouble DEF JInv

(* negatePath falls back to the branch alone: no input takes the other side *)
(* after this path.                                                         *)
LEMMA NegateFailJInv ==
    ASSUME IInv, JInv, NegateFail
    PROVE  JInv'
<1>1. /\ pc = "negate" /\ pc' = "optimistic" /\ UNCHANGED Rest /\ NotSat
      /\ saved' = None /\ frames' = <<{In(op.e, Result \ op.in)}>>
  BY DEF NegateFail
<1>2. pc \in Asking /\ pc # "run" /\ op.kind = "jcc"
  BY <1>1 DEF Asking, Exact, OneFrame, JInv, KindInv
<1>3. TightInv' /\ op' = op /\ lost' = lost /\ path' = path /\ FeasibleValues' = FeasibleValues
  BY <1>1, RestSame
<1>4. UnknownInv' /\ (everUnknown => everUnknown') /\ (~unknown' => Models(Asserted) = {})
  BY <1>1, UnknownKept
<1>5. KindInv' /\ FreshInv' /\ SavedLeavesPath' /\ SolveAllComplete'
  BY <1>1, <1>2, <1>3
  DEF KindInv, FreshInv, SavedLeavesPath, SolveAllComplete, TwoFrames
<1>6. BoundsInv'
  BY <1>1, <1>2, <1>3, NoBounds DEF TwoFrames
<1>7. QueryInv'
  <2>1. \A v \in Assignment : Satisfies(v, Asserted') <=> Denote[op.e][v] \in Result \ op.in
    <3>1. Asserted' = {} \cup {In(op.e, Result \ op.in)}
      BY <1>1, OneFrameAsserted
    <3>2. \A v : Satisfies(v, {})
      BY DEF Satisfies
    <3> QED
      BY <3>1, <3>2, SatisfiesMore, InHolds
  <2>2. Wanted' = Result \ op.in
    BY <1>1, <1>3 DEF Wanted, Leaving
  <2>3. pc' \notin Exact /\ pc' \notin TwoFrames /\ pc' # "addr"
    BY <1>1 DEF Exact, OneFrame, TwoFrames
  <2>4. \A v : Satisfies(v, Asserted)' <=> Satisfies(v, Asserted')
    BY DEF Satisfies, Holds
  <2> QED
    BY <1>3, <2>1, <2>2, <2>3, <2>4 DEF QueryInv
<1>8. OptimisticOnlyIfNeeded'
  <2>1. SUFFICES ASSUME ~unknown', NEW v \in Assignment, Satisfies(v, path),
                        Denote[op.e][v] \notin op.in
                 PROVE  FALSE
    BY <1>3 DEF OptimisticOnlyIfNeeded, Satisfies, Holds
  <2>2. Denote[op.e][v] \in FeasibleValues /\ Denote[op.e][v] \in Result
    BY <1>2, <2>1, FeasibleIs, AskingTyped
  <2>3. Denote[op.e][v] \notin Wanted
    BY <1>1, <1>2, <1>4, <2>1, <2>2, NoModel DEF Plain, TwoFrames
  <2> QED
    BY <1>1, <2>1, <2>2, <2>3 DEF Wanted
<1> QED
  BY <1>1, <1>3, <1>4, <1>5, <1>6, <1>7, <1>8, NoTrouble DEF JInv

(* Optimistic solving saves an input of the other side. *)
LEMMA OptimisticSatJInv ==
    ASSUME IInv, JInv, NEW w \in Assignment, OptimisticSat(w)
    PROVE  JInv'
<1>1. /\ pc = "optimistic" /\ pc' = "constrain" /\ UNCHANGED Rest /\ Sat
      /\ w \in Models(Asserted) /\ saved' = [values |-> w, optimistic |-> TRUE]
  BY DEF OptimisticSat, SaveValues
<1>2. pc \in Asking /\ op.kind = "jcc"
  BY <1>1 DEF Asking, JInv, KindInv
<1>3. TightInv' /\ op' = op /\ lost' = lost
  BY <1>1, RestSame
<1>4. UnknownInv' /\ (everUnknown => everUnknown')
  BY <1>1, UnknownKept
<1>5. SavedLeavesPath'
  BY <1>1, <1>2, <1>3, SavedLeaves
<1>6. BoundsInv' /\ SolveAllComplete'
  BY <1>1, <1>2, <1>3, NoBounds DEF SolveAllComplete, TwoFrames
<1> QED
  BY <1>1, <1>3, <1>4, <1>5, <1>6, NoQuery, NoTrouble DEF JInv

(* Optimistic solving saves none. *)
LEMMA OptimisticFailJInv ==
    ASSUME IInv, JInv, OptimisticFail
    PROVE  JInv'
<1>1. pc = "optimistic" /\ pc' = "constrain" /\ UNCHANGED Rest /\ NotSat /\ saved' = None
  BY DEF OptimisticFail
<1>2. op.kind = "jcc"
  BY <1>1 DEF JInv, KindInv
<1>3. TightInv' /\ op' = op /\ lost' = lost
  BY <1>1, RestSame
<1>4. UnknownInv' /\ (everUnknown => everUnknown')
  BY <1>1, UnknownKept
<1>5. SavedLeavesPath' /\ SolveAllComplete'
  BY <1>1, <1>2, <1>3 DEF SavedLeavesPath, SolveAllComplete
<1>6. BoundsInv'
  BY <1>1, <1>2, <1>3, NoBounds DEF TwoFrames
<1> QED
  BY <1>1, <1>3, <1>4, <1>5, <1>6, NoQuery, NoTrouble DEF JInv

-----------------------------------------------------------------------------
(* addAddr *)

(* A new exact query: the slice of op.e and one formula on op.e, or none. *)
LEMMA SliceQuery ==
    ASSUME NEW e, NEW S, op'.e = e, pc' \in Exact, NEW g,
           SyncConstraints(op.e)' = SyncConstraints(e),
           \/ /\ Asserted' = SyncConstraints(e) \cup {g}
              /\ \A v \in Assignment : Holds(v, g) <=> Denote[e][v] \in S
           \/ Asserted' = SyncConstraints(e) /\ \A v \in Assignment : Denote[e][v] \in S,
           Wanted' = S,
           pc' \in {"addr"} \cup TwoFrames => frames'[1] = SyncConstraints(e)
    PROVE  QueryInv'
<1>1. \A v \in Assignment :
        Satisfies(v, Asserted') <=> Satisfies(v, SyncConstraints(e)) /\ Denote[e][v] \in S
  BY SatisfiesMore
<1>2. \A v : Satisfies(v, Asserted)' <=> Satisfies(v, Asserted')
  BY DEF Satisfies, Holds
<1>3. \A v : Satisfies(v, SyncConstraints(op.e))' <=> Satisfies(v, SyncConstraints(e))
  BY DEF Satisfies, Holds
<1> QED
  BY <1>1, <1>2, <1>3 DEF QueryInv

(* The first check of addAddr is sat: open the frame of getMinValue. *)
LEMMA AddrSatJInv ==
    ASSUME IInv, JInv, NEW w \in Assignment, AddrSat(w)
    PROVE  JInv'
<1>1. /\ pc = "addr" /\ pc' = "min" /\ UNCHANGED Rest /\ Sat
      /\ saved' = None /\ frames' = Append(frames, {}) /\ UNCHANGED <<lo, hi, found>>
  BY DEF AddrSat, Push
<1>2. lo = None /\ hi = None /\ op.kind = "addr" /\ frames[1] = SyncConstraints(op.e)
  BY <1>1 DEF JInv, FreshInv, KindInv, QueryInv
<1>3. /\ TightInv' /\ op' = op /\ lost' = lost
      /\ SyncConstraints(op.e)' = SyncConstraints(op.e) /\ Bound' = Bound
  BY <1>1, RestSame
<1>4. UnknownInv' /\ (everUnknown => everUnknown')
  BY <1>1, UnknownKept
<1>5. /\ KindInv' /\ FreshInv' /\ SavedLeavesPath' /\ SolveAllComplete' /\ BoundsInv'
      /\ OptimisticOnlyIfNeeded'
  BY <1>1, <1>2, <1>3
  DEF KindInv, FreshInv, SavedLeavesPath, SolveAllComplete, TwoFrames, BoundsInv, Bounded,
      OptimisticOnlyIfNeeded
<1>6. Asserted' = SyncConstraints(op.e) /\ frames'[1] = SyncConstraints(op.e)
  <2>1. {} \in SUBSET Formula
    OBVIOUS
  <2> QED
    BY <1>1, <1>2, <2>1, PushAsserted
<1>7. Wanted' = Result
  BY <1>1, <1>2 DEF Wanted, Leaving
<1>8. QueryInv'
  BY <1>1, <1>3, <1>6, <1>7, SliceQuery, AskingTyped DEF Exact, TwoFrames
<1> QED
  BY <1>1, <1>3, <1>4, <1>5, <1>8, NoTrouble DEF JInv

(* addAddr returns early only because z3 gave up: the input itself is a     *)
(* solution of the slice.                                                   *)
LEMMA AddrFailJInv ==
    ASSUME IInv, JInv, AddrFail
    PROVE  JInv'
<1>1. /\ pc = "addr" /\ pc' = "run" /\ NotSat /\ saved' = None
      /\ UNCHANGED <<range, path>>
  BY DEF AddrFail
<1>2. pc \in Asking /\ pc # "run"
  BY <1>1 DEF Asking, Exact, OneFrame
<1>3. TightInv'
  BY <1>1 DEF JInv, TightInv, Satisfies, Holds
<1>4. /\ UnknownInv' /\ unknown' \in BOOLEAN
      /\ ~unknown' => Models(Asserted) = {}
  BY <1>1, UnknownKept
<1>5. unknown'
  <2>1. SUFFICES ASSUME Models(Asserted) = {} PROVE FALSE
    BY <1>4
  <2>2. Denote[op.e][Input] \in FeasibleValues /\ Denote[op.e][Input] \in Result
    BY <1>2, InputFeasible, AskingTyped
  <2>3. Denote[op.e][Input] \notin Wanted
    BY <1>1, <1>2, <2>1, <2>2, NoModel DEF Plain, TwoFrames
  <2> QED
    BY <1>1, <2>2, <2>3 DEF Wanted, Leaving
<1>6. BoundsInv' /\ SavedLeavesPath' /\ SolveAllComplete' /\ TroubleOnlyAfterUnknown'
  BY <1>1, <1>4, <1>5
  DEF BoundsInv, Bounded, TwoFrames, SavedLeavesPath, SolveAllComplete,
      TroubleOnlyAfterUnknown, UnknownInv
<1> QED
  BY <1>1, <1>3, <1>4, <1>6, NoQuery DEF JInv

(* One more formula on op.e narrows what the query wants. *)
LEMMA NarrowQuery ==
    ASSUME IInv, JInv, pc \in Asking, NEW S, NEW g, Plain,
           UNCHANGED <<Rest, pc>>, Asserted' = Asserted \cup {g},
           \A v \in Assignment : Holds(v, g) <=> Denote[op.e][v] \in S,
           Wanted' = Wanted \cap S,
           pc \in {"addr"} \cup TwoFrames => frames'[1] = frames[1]
    PROVE  QueryInv'
<1>1. op' = op /\ SyncConstraints(op.e)' = SyncConstraints(op.e)
  BY RestSame
<1>2. \A v \in Assignment :
        Satisfies(v, Asserted') <=> Satisfies(v, Asserted) /\ Denote[op.e][v] \in S
  BY SatisfiesMore
<1>3. \A v : Satisfies(v, Asserted)' <=> Satisfies(v, Asserted')
  BY DEF Satisfies, Holds
<1>4. \A v : Satisfies(v, SyncConstraints(op.e))' <=> Satisfies(v, SyncConstraints(op.e))
  BY <1>1 DEF Satisfies, Holds
<1> QED
  BY <1>1, <1>2, <1>3, <1>4 DEF JInv, QueryInv

(* getMinValue finds a smaller value. *)
LEMMA MinSatJInv ==
    ASSUME IInv, JInv, NEW w \in Assignment, MinSat(w)
    PROVE  JInv'
<1> DEFINE x == Denote[op.e][w]
           t == GetPossibleValue(op.e, w)
           g == Ult(op.e, t)
           S == {y \in Result : y < x}
<1>1. /\ pc = "min" /\ pc' = pc /\ UNCHANGED Rest /\ Sat /\ w \in Models(Asserted)
      /\ saved' = [values |-> w, optimistic |-> FALSE]
      /\ lo' = t /\ hi' = hi /\ frames' = AddTop(g)
  BY DEF MinSat, SaveValues
<1>2. pc \in Asking /\ pc \in Exact /\ pc \in TwoFrames /\ op.kind = "addr" /\ hi = None
  BY <1>1 DEF Asking, Exact, TwoFrames, JInv, KindInv, FreshInv
<1>3. /\ TightInv' /\ op' = op /\ lost' = lost /\ FeasibleValues' = FeasibleValues
      /\ Bound' = Bound
  BY <1>1, RestSame
<1>4. UnknownInv' /\ (everUnknown => everUnknown')
  BY <1>1, UnknownKept
<1>5. (Plain => x \in Wanted) /\ x \in Result /\ x \in FeasibleValues
  BY <1>1, <1>2, ModelWanted
<1>10. t \in Term /\ t # None /\ (Bound => \A v \in Assignment : t[v] = x)
  <2>1. op.e \in Expr
    BY <1>1, ModelValue
  <2>2. SyncConstraints(op.e) \subseteq Asserted
    <3>1. SyncConstraints(op.e) \subseteq frames[1]
      BY <1>2 DEF IInv, FramesInv
    <3>2. 1 \in DOMAIN frames
      BY <1>2 DEF IInv, TypeOK, FramesInv
    <3> QED
      BY <3>1, <3>2 DEF Asserted
  <2>3. Bound => Deps[op.e] \subseteq Support(Asserted)
    BY <2>2 DEF Bound, Support
  <2> QED
    BY <2>1, <2>3, PossibleValue
<1> HIDE DEF t
<1>6. SavedLeavesPath'
  BY <1>1, <1>2, <1>3, SavedLeaves
<1>7. QueryInv'
  <2>1. /\ Asserted' = Asserted \cup {g} /\ frames'[1] = frames[1]
        /\ SyncConstraints(op.e)' = SyncConstraints(op.e)
    BY <1>1, <1>2, AddTopAsserted, RestSame
  <2>2. CASE ~Bound
    <3>1. ~Plain'
      BY <1>1, <1>2, <1>3, <1>10, <2>2 DEF Plain
    <3>2. frames[1] = SyncConstraints(op.e)
      BY <1>2 DEF JInv, QueryInv
    <3> QED
      BY <2>1, <3>1, <3>2 DEF QueryInv
  <2>3. CASE Bound
    <3>1. \A v \in Assignment : Holds(v, g) <=> Denote[op.e][v] \in S
      <4>1. \A v \in Assignment : Denote[op.e][v] \in Result
        BY <1>2, AskingTyped DEF Asking, TwoFrames
      <4> QED
        BY <1>10, <2>3, <4>1, CompareHolds
    <3>2. lo'[Input] = x /\ Plain /\ x \in Wanted
      BY <1>1, <1>5, <1>10, <2>3, InputAssumption DEF Plain
    <3>3. Wanted' = Wanted \cap S
      <4>1. Wanted = {y \in Result : lo # None => y < lo[Input]}
        BY <1>1 DEF Wanted, Leaving
      <4>2. Wanted' = {y \in Result : y < x}
        BY <1>1, <1>10, <3>2 DEF Wanted, Leaving
      <4>3. Result \subseteq Nat /\ (lo # None => lo[Input] \in Nat)
        BY ExprAssumption, InputAssumption DEF IInv, TypeOK, Term
      <4> HIDE DEF x
      <4>4. lo # None => \A y \in Result : y < x => y < lo[Input]
        BY <1>5, <3>2, <4>1, <4>3
      <4> QED
        BY <4>1, <4>2, <4>4
    <3> HIDE DEF S, g
    <3> QED
      BY <1>1, <1>2, <2>1, <3>1, <3>2, <3>3, NarrowQuery
  <2> QED
    BY <2>2, <2>3
<1>8. KindInv' /\ FreshInv' /\ SolveAllComplete' /\ OptimisticOnlyIfNeeded'
  BY <1>1, <1>2, <1>3
  DEF KindInv, FreshInv, SolveAllComplete, OptimisticOnlyIfNeeded, TwoFrames
<1>9. BoundsInv'
  <2>1. Bound => Feasible(lo)'
    BY <1>1, <1>3, <1>5, <1>10, InputAssumption DEF Feasible, IsNumber, Term
  <2> QED
    BY <1>1, <1>2, <1>3, <2>1 DEF BoundsInv, Bounded
<1> QED
  BY <1>1, <1>3, <1>4, <1>6, <1>7, <1>8, <1>9, NoTrouble DEF JInv

(* getMaxValue finds a larger value. *)
LEMMA MaxSatJInv ==
    ASSUME IInv, JInv, NEW w \in Assignment, MaxSat(w)
    PROVE  JInv'
<1> DEFINE x == Denote[op.e][w]
           t == GetPossibleValue(op.e, w)
           g == Ugt(op.e, t)
           S == {y \in Result : y > x}
<1>1. /\ pc = "max" /\ pc' = pc /\ UNCHANGED Rest /\ Sat /\ w \in Models(Asserted)
      /\ saved' = [values |-> w, optimistic |-> FALSE]
      /\ hi' = t /\ lo' = lo /\ frames' = AddTop(g)
  BY DEF MaxSat, SaveValues
<1>2. pc \in Asking /\ pc \in Exact /\ pc \in TwoFrames /\ op.kind = "addr"
  BY <1>1 DEF Asking, Exact, TwoFrames, JInv, KindInv
<1>3. /\ TightInv' /\ op' = op /\ lost' = lost /\ FeasibleValues' = FeasibleValues
      /\ Bound' = Bound
  BY <1>1, RestSame
<1>4. UnknownInv' /\ (everUnknown => everUnknown') /\ (unknown => unknown')
  BY <1>1, UnknownKept
<1>5. (Plain => x \in Wanted) /\ x \in Result /\ x \in FeasibleValues
  BY <1>1, <1>2, ModelWanted
<1>10. t \in Term /\ t # None /\ (Bound => \A v \in Assignment : t[v] = x)
  <2>1. op.e \in Expr
    BY <1>1, ModelValue
  <2>2. SyncConstraints(op.e) \subseteq Asserted
    <3>1. SyncConstraints(op.e) \subseteq frames[1]
      BY <1>2 DEF IInv, FramesInv
    <3>2. 1 \in DOMAIN frames
      BY <1>2 DEF IInv, TypeOK, FramesInv
    <3> QED
      BY <3>1, <3>2 DEF Asserted
  <2>3. Bound => Deps[op.e] \subseteq Support(Asserted)
    BY <2>2 DEF Bound, Support
  <2> QED
    BY <2>1, <2>3, PossibleValue
<1> HIDE DEF t
<1>6. SavedLeavesPath'
  BY <1>1, <1>2, <1>3, SavedLeaves
<1>7. QueryInv'
  <2>1. /\ Asserted' = Asserted \cup {g} /\ frames'[1] = frames[1]
        /\ SyncConstraints(op.e)' = SyncConstraints(op.e)
    BY <1>1, <1>2, AddTopAsserted, RestSame
  <2>2. CASE ~Bound
    <3>1. ~Plain'
      BY <1>1, <1>2, <1>3, <1>10, <2>2 DEF Plain
    <3>2. frames[1] = SyncConstraints(op.e)
      BY <1>2 DEF JInv, QueryInv
    <3> QED
      BY <2>1, <3>1, <3>2 DEF QueryInv
  <2>3. CASE Bound
    <3>1. \A v \in Assignment : Holds(v, g) <=> Denote[op.e][v] \in S
      <4>1. \A v \in Assignment : Denote[op.e][v] \in Result
        BY <1>2, AskingTyped DEF Asking, TwoFrames
      <4> QED
        BY <1>10, <2>3, <4>1, CompareHolds
    <3>2. hi'[Input] = x /\ Plain /\ x \in Wanted
      BY <1>1, <1>5, <1>10, <2>3, InputAssumption DEF Plain
    <3>3. Wanted' = Wanted \cap S
      <4>1. Wanted = {y \in Result : hi # None => y > hi[Input]}
        BY <1>1 DEF Wanted, Leaving
      <4>2. Wanted' = {y \in Result : y > x}
        BY <1>1, <1>10, <3>2 DEF Wanted, Leaving
      <4>3. Result \subseteq Nat /\ (hi # None => hi[Input] \in Nat)
        BY ExprAssumption, InputAssumption DEF IInv, TypeOK, Term
      <4> HIDE DEF x
      <4>4. hi # None => \A y \in Result : y > x => y > hi[Input]
        BY <1>5, <3>2, <4>1, <4>3
      <4> QED
        BY <4>1, <4>2, <4>4
    <3> HIDE DEF S, g
    <3> QED
      BY <1>1, <1>2, <2>1, <3>1, <3>2, <3>3, NarrowQuery
  <2> QED
    BY <2>2, <2>3
<1>8. KindInv' /\ FreshInv' /\ SolveAllComplete' /\ OptimisticOnlyIfNeeded'
  BY <1>1, <1>2, <1>3
  DEF KindInv, FreshInv, SolveAllComplete, OptimisticOnlyIfNeeded, TwoFrames
<1>9. BoundsInv'
  <2>1. Bound => Feasible(hi)'
    BY <1>1, <1>3, <1>5, <1>10, InputAssumption DEF Feasible, IsNumber, Term
  <2>2. (Feasible(lo)' <=> Feasible(lo)) /\ (Least' <=> Least)
    BY <1>1, <1>3 DEF Feasible, IsNumber, Least
  <2> QED
    BY <1>1, <1>2, <1>3, <1>4, <2>1, <2>2 DEF JInv, BoundsInv, Bounded
<1> QED
  BY <1>1, <1>3, <1>4, <1>6, <1>7, <1>8, <1>9, NoTrouble DEF JInv

(* Without a smaller value, getMinValue has the minimum. *)
LEMMA MinFailJInv ==
    ASSUME IInv, JInv, MinFail
    PROVE  JInv'
<1>1. /\ pc = "min" /\ pc' = "max" /\ UNCHANGED Rest /\ NotSat /\ saved' = None
      /\ frames' = Append(Pop, {}) /\ UNCHANGED <<lo, hi, found>>
  BY DEF MinFail
<1>2. /\ pc \in Asking /\ pc # "run" /\ pc \in TwoFrames /\ op.kind = "addr" /\ hi = None
      /\ frames[1] = SyncConstraints(op.e)
  BY <1>1 DEF Asking, Exact, TwoFrames, JInv, KindInv, FreshInv, QueryInv
<1>3. /\ TightInv' /\ op' = op /\ lost' = lost /\ FeasibleValues' = FeasibleValues
      /\ SyncConstraints(op.e)' = SyncConstraints(op.e) /\ Bound' = Bound
  BY <1>1, RestSame
<1>4. /\ UnknownInv' /\ (everUnknown => everUnknown') /\ unknown' \in BOOLEAN
      /\ ~unknown' => Models(Asserted) = {}
  BY <1>1, UnknownKept
<1>5. KindInv' /\ FreshInv' /\ SavedLeavesPath' /\ SolveAllComplete' /\ OptimisticOnlyIfNeeded'
  BY <1>1, <1>2, <1>3
  DEF KindInv, FreshInv, SavedLeavesPath, SolveAllComplete, TwoFrames, OptimisticOnlyIfNeeded
<1>6. QueryInv'
  <2>1. {} \in SUBSET Formula
    OBVIOUS
  <2>2. Asserted' = SyncConstraints(op.e) /\ frames'[1] = SyncConstraints(op.e)
    BY <1>1, <1>2, <2>1, PushAsserted
  <2>3. Wanted' = Result
    BY <1>1, <1>2 DEF Wanted, Leaving
  <2>4. pc' \in Exact
    BY <1>1 DEF Exact, TwoFrames
  <2> QED
    BY <1>2, <1>3, <2>2, <2>3, <2>4, SliceQuery, AskingTyped
<1>7. unknown' \/ Least
  <2>1. SUFFICES ASSUME Models(Asserted) = {} PROVE Least
    BY <1>4
  <2>2. Plain => \A x \in FeasibleValues : x \in Result /\ x \notin Wanted
    BY <1>2, <2>1, NoModel, AskingTyped
  <2>3. Plain => \A x \in FeasibleValues : lo # None /\ ~(x < lo[Input])
    BY <1>1, <2>2 DEF Wanted, Leaving
  <2>4. lo # None
    BY <1>1, <2>3, InputFeasible DEF Plain
  <2>5. Result \subseteq Nat /\ lo[Input] \in Nat
    BY <2>4, ExprAssumption, InputAssumption DEF IInv, TypeOK, Term
  <2>6. \A x \in Result : ~(x < lo[Input]) => lo[Input] <= x
    BY <2>5
  <2> QED
    BY <2>2, <2>3, <2>4, <2>6 DEF Least, Plain
<1>8. BoundsInv'
  BY <1>1, <1>2, <1>3, <1>7, BoundsKept DEF JInv, BoundsInv, Bounded
<1> QED
  BY <1>1, <1>3, <1>4, <1>5, <1>6, <1>8, NoTrouble DEF JInv

(* Without a larger value, getMaxValue has the maximum; a missing minimum   *)
(* means that z3 gave up before.                                            *)
LEMMA MaxFailJInv ==
    ASSUME IInv, JInv, MaxFail
    PROVE  JInv'
<1>1. /\ pc = "max" /\ UNCHANGED Rest /\ NotSat /\ saved' = None
      /\ \/ lo = None /\ pc' = "aborted"
         \/ /\ lo # None /\ pc' = "solve_min"
            /\ frames' = Append(Pop, {Equal(op.e, lo)})
      /\ UNCHANGED <<lo, hi, found>>
  BY DEF MaxFail
<1>2. /\ pc \in Asking /\ pc # "run" /\ pc \in TwoFrames /\ op.kind = "addr"
      /\ frames[1] = SyncConstraints(op.e)
      /\ unknown \/ Least
      /\ Bound => (lo # None => Feasible(lo)) /\ (hi # None => Feasible(hi))
  BY <1>1 DEF Asking, Exact, TwoFrames, JInv, KindInv, QueryInv, BoundsInv
<1>3. /\ TightInv' /\ op' = op /\ lost' = lost /\ FeasibleValues' = FeasibleValues
      /\ SyncConstraints(op.e)' = SyncConstraints(op.e) /\ Bound' = Bound
  BY <1>1, RestSame
<1>4. /\ UnknownInv' /\ (everUnknown => everUnknown') /\ unknown' \in BOOLEAN
      /\ unknown => unknown'
      /\ ~unknown' => Models(Asserted) = {}
  BY <1>1, UnknownKept
<1>5. KindInv' /\ FreshInv' /\ SavedLeavesPath' /\ SolveAllComplete' /\ OptimisticOnlyIfNeeded'
  BY <1>1, <1>2, <1>3
  DEF KindInv, FreshInv, SavedLeavesPath, SolveAllComplete, TwoFrames, OptimisticOnlyIfNeeded
<1>6. unknown' \/ Greatest
  <2>1. SUFFICES ASSUME Models(Asserted) = {} PROVE Greatest
    BY <1>4
  <2>2. Plain => \A x \in FeasibleValues : x \in Result /\ x \notin Wanted
    BY <1>2, <2>1, NoModel, AskingTyped
  <2>3. Plain => \A x \in FeasibleValues : hi # None /\ ~(x > hi[Input])
    BY <1>1, <2>2 DEF Wanted, Leaving
  <2>4. hi # None
    BY <1>1, <2>3, InputFeasible DEF Plain
  <2>5. Result \subseteq Nat /\ hi[Input] \in Nat
    BY <2>4, ExprAssumption, InputAssumption DEF IInv, TypeOK, Term
  <2>6. \A x \in Result : ~(x > hi[Input]) => x <= hi[Input]
    BY <2>5
  <2> QED
    BY <2>2, <2>3, <2>4, <2>6 DEF Greatest, Plain
<1>7. BoundsInv'
  BY <1>1, <1>2, <1>3, <1>4, <1>6, BoundsKept DEF BoundsInv, Bounded, TwoFrames
<1>8. TroubleOnlyAfterUnknown'
  BY <1>1, <1>2, <1>3, <1>4 DEF JInv, TroubleOnlyAfterUnknown, UnknownInv, Least,
         Greatest
<1>9. QueryInv'
  <2>1. CASE pc' = "aborted"
    BY <2>1 DEF QueryInv, Asking, Exact, OneFrame, TwoFrames
  <2>2. CASE /\ lo # None /\ pc' = "solve_min"
             /\ frames' = Append(Pop, {Equal(op.e, lo)})
    <3>1. op.e \in Expr /\ lo \in Term /\ Local(op.e, lo)
      BY <1>2, <2>2, AskingTyped DEF IInv, TypeOK, TermInv
    <3>2. {Equal(op.e, lo)} \in SUBSET Formula
      BY <3>1, CompareFormula
    <3>3. /\ Asserted' = SyncConstraints(op.e) \cup {Equal(op.e, lo)}
          /\ frames'[1] = SyncConstraints(op.e)
      BY <1>2, <2>2, <3>2, PushAsserted
    <3>4. CASE Bound
      <4>1. Wanted' = {lo[Input]} /\ pc' \in Exact
        BY <1>1, <2>2, <3>1, InputAssumption DEF Wanted, Leaving, Exact, TwoFrames, Term
      <4>2. \A v \in Assignment : lo[v] = lo[Input]
        <5>1. lo = [v \in Assignment |-> lo[Input]]
          BY <1>2, <2>2, <3>4 DEF Feasible, IsNumber
        <5> QED
          BY <5>1
      <4>3. \A v \in Assignment :
               Holds(v, Equal(op.e, lo)) <=> Denote[op.e][v] \in {lo[Input]}
        BY <4>2, CompareHolds
      <4> QED
        BY <1>3, <3>3, <4>1, <4>3, SliceQuery
    <3>5. CASE ~Bound
      BY <1>3, <2>2, <3>3, <3>5 DEF QueryInv, Plain, TwoFrames
    <3> QED
      BY <3>4, <3>5
  <2> QED
    BY <1>1, <2>1, <2>2
<1> QED
  BY <1>3, <1>4, <1>5, <1>7, <1>8, <1>9 DEF JInv

(* After solveOne(e == min), whatever it answered. *)
LEMMA SolveMinStep ==
    ASSUME IInv, JInv, pc = "solve_min", Sat \/ NotSat, AfterSolveMin,
           UNCHANGED <<Rest, lo, hi, found>>, SavedLeavesPath'
    PROVE  JInv'
<1>1. /\ UNCHANGED Rest /\ UNCHANGED <<lo, hi, found>>
      /\ \/ hi = None /\ pc' = "aborted"
         \/ /\ hi # None /\ pc' = "solve_max"
            /\ frames' = Append(Pop, {Equal(op.e, hi)})
  BY DEF AfterSolveMin
<1>2. /\ pc \in Asking /\ pc # "run" /\ pc \in TwoFrames /\ op.kind = "addr"
      /\ frames[1] = SyncConstraints(op.e)
      /\ unknown \/ Least
      /\ unknown \/ Greatest
      /\ Bound => (lo # None => Feasible(lo)) /\ (hi # None => Feasible(hi))
  BY DEF Asking, Exact, TwoFrames, JInv, KindInv, QueryInv, BoundsInv
<1>3. /\ TightInv' /\ op' = op /\ lost' = lost /\ FeasibleValues' = FeasibleValues
      /\ SyncConstraints(op.e)' = SyncConstraints(op.e) /\ Bound' = Bound
  BY <1>1, RestSame
<1>4. UnknownInv' /\ (everUnknown => everUnknown') /\ (unknown => unknown')
  BY UnknownKept
<1>5. KindInv' /\ FreshInv' /\ SolveAllComplete' /\ OptimisticOnlyIfNeeded'
  BY <1>1, <1>2, <1>3
  DEF KindInv, FreshInv, SolveAllComplete, TwoFrames, OptimisticOnlyIfNeeded
<1>6. BoundsInv'
  BY <1>1, <1>2, <1>3, <1>4, BoundsKept DEF BoundsInv, Bounded, TwoFrames
<1>7. TroubleOnlyAfterUnknown'
  BY <1>1, <1>2, <1>3, <1>4 DEF JInv, TroubleOnlyAfterUnknown, UnknownInv, Least,
         Greatest
<1>8. QueryInv'
  <2>1. CASE pc' = "aborted"
    BY <2>1 DEF QueryInv, Asking, Exact, OneFrame, TwoFrames
  <2>2. CASE /\ hi # None /\ pc' = "solve_max"
             /\ frames' = Append(Pop, {Equal(op.e, hi)})
    <3>1. op.e \in Expr /\ hi \in Term /\ Local(op.e, hi)
      BY <1>2, <2>2, AskingTyped DEF IInv, TypeOK, TermInv
    <3>2. {Equal(op.e, hi)} \in SUBSET Formula
      BY <3>1, CompareFormula
    <3>3. /\ Asserted' = SyncConstraints(op.e) \cup {Equal(op.e, hi)}
          /\ frames'[1] = SyncConstraints(op.e)
      BY <1>2, <2>2, <3>2, PushAsserted
    <3>4. CASE Bound
      <4>1. Wanted' = {hi[Input]} /\ pc' \in Exact
        BY <1>1, <2>2, <3>1, InputAssumption DEF Wanted, Leaving, Exact, TwoFrames, Term
      <4>2. \A v \in Assignment : hi[v] = hi[Input]
        <5>1. hi = [v \in Assignment |-> hi[Input]]
          BY <1>2, <2>2, <3>4 DEF Feasible, IsNumber
        <5> QED
          BY <5>1
      <4>3. \A v \in Assignment :
               Holds(v, Equal(op.e, hi)) <=> Denote[op.e][v] \in {hi[Input]}
        BY <4>2, CompareHolds
      <4> QED
        BY <1>3, <3>3, <4>1, <4>3, SliceQuery
    <3>5. CASE ~Bound
      BY <1>3, <2>2, <3>3, <3>5 DEF QueryInv, Plain, TwoFrames
    <3> QED
      BY <3>4, <3>5
  <2> QED
    BY <1>1, <2>1, <2>2
<1> QED
  BY <1>3, <1>4, <1>5, <1>6, <1>7, <1>8 DEF JInv

LEMMA SolveMinJInv ==
    ASSUME IInv, JInv, SolveMinFail \/ \E w \in Assignment : SolveMinSat(w)
    PROVE  JInv'
<1>1. /\ pc = "solve_min" /\ AfterSolveMin /\ UNCHANGED <<Rest, lo, hi, found>>
      /\ Sat \/ NotSat
      /\ \/ saved' = None
         \/ \E w \in Models(Asserted), opt \in BOOLEAN :
               saved' = [values |-> w, optimistic |-> opt]
  BY DEF SolveMinFail, SolveMinSat, SaveValues
<1>2. pc \in Asking /\ op' = op
  BY <1>1 DEF Asking, Exact, TwoFrames, Rest
<1> QED
  BY <1>1, <1>2, SavedLeaves, SolveMinStep

(* After solveOne(e == max), whatever it answered: both bounds are kept. *)
LEMMA SolveMaxJInv ==
    ASSUME IInv, JInv, SolveMaxFail \/ \E w \in Assignment : SolveMaxSat(w)
    PROVE  JInv'
<1>1. /\ pc = "solve_max" /\ pc' = "constrain" /\ UNCHANGED Rest /\ UNCHANGED <<lo, hi>>
      /\ Sat \/ NotSat
      /\ \/ saved' = None
         \/ \E w \in Models(Asserted), opt \in BOOLEAN :
               saved' = [values |-> w, optimistic |-> opt]
  BY DEF SolveMaxFail, SolveMaxSat, SaveValues
<1>2. pc \in Asking /\ pc \in TwoFrames /\ op.kind = "addr"
  BY <1>1 DEF Asking, Exact, TwoFrames, JInv, KindInv
<1>3. /\ TightInv' /\ op' = op /\ lost' = lost /\ FeasibleValues' = FeasibleValues
      /\ Bound' = Bound
  BY <1>1, RestSame
<1>4. UnknownInv' /\ (everUnknown => everUnknown') /\ (unknown => unknown')
  BY <1>1, UnknownKept
<1>5. SavedLeavesPath'
  BY <1>1, <1>2, <1>3, SavedLeaves
<1>6. SolveAllComplete'
  BY <1>2, <1>3 DEF SolveAllComplete
<1>7. BoundsInv'
  BY <1>1, <1>2, <1>3, <1>4, BoundsKept DEF JInv, BoundsInv, TwoFrames
<1> QED
  BY <1>1, <1>3, <1>4, <1>5, <1>6, <1>7, NoQuery, NoTrouble DEF JInv

-----------------------------------------------------------------------------
(* solveAll *)

(* Some other target is possible: enumerate them. *)
LEMMA AllCheckSatJInv ==
    ASSUME IInv, JInv, NEW w \in Assignment, AllCheckSat(w)
    PROVE  JInv'
<1>1. /\ pc = "all_check" /\ pc' = "all" /\ UNCHANGED Rest /\ Sat /\ saved' = None
      /\ frames' = frames /\ UNCHANGED <<lo, hi, found>>
  BY DEF AllCheckSat
<1>2. found = {} /\ op.kind = "all"
  BY <1>1 DEF JInv, FreshInv, KindInv
<1>3. /\ TightInv' /\ op' = op /\ lost' = lost
      /\ SyncConstraints(op.e)' = SyncConstraints(op.e) /\ Bound' = Bound
  BY <1>1, RestSame
<1>4. UnknownInv' /\ (everUnknown => everUnknown')
  BY <1>1, UnknownKept
<1>5. /\ KindInv' /\ FreshInv' /\ SavedLeavesPath' /\ SolveAllComplete'
      /\ OptimisticOnlyIfNeeded'
  BY <1>1, <1>2, <1>3
  DEF KindInv, FreshInv, SavedLeavesPath, SolveAllComplete, TwoFrames, OptimisticOnlyIfNeeded
<1>6. BoundsInv'
  BY <1>1, <1>2, <1>3, NoBounds DEF TwoFrames
<1>7. QueryInv'
  <2>1. Asserted' = Asserted
    BY <1>1 DEF Asserted
  <2>2. Wanted' = Wanted
    BY <1>1, <1>2, <1>3 DEF Wanted, Leaving
  <2>3. pc \in Exact /\ pc' \in Exact /\ pc \in Asking /\ pc' \notin {"addr"} \cup TwoFrames
    BY <1>1 DEF Exact, OneFrame, TwoFrames, Asking
  <2>4. \A v : /\ Satisfies(v, Asserted)' <=> Satisfies(v, Asserted)
               /\ Satisfies(v, SyncConstraints(op.e))' <=> Satisfies(v, SyncConstraints(op.e))
    BY <1>3, <2>1 DEF Satisfies, Holds
  <2>5. Plain
    BY <1>1 DEF Plain, TwoFrames
  <2> QED
    BY <1>3, <2>2, <2>3, <2>4, <2>5 DEF JInv, QueryInv
<1> QED
  BY <1>1, <1>3, <1>4, <1>5, <1>6, <1>7, NoTrouble DEF JInv

(* No other target is possible after this path: ask for the jump alone. *)
LEMMA AllCheckFailJInv ==
    ASSUME IInv, JInv, AllCheckFail
    PROVE  JInv'
<1>1. /\ pc = "all_check" /\ pc' = "all_optimistic" /\ UNCHANGED Rest /\ NotSat
      /\ saved' = None /\ frames' = <<{In(op.e, Result \ op.in)}>>
      /\ UNCHANGED <<lo, hi, found>>
  BY DEF AllCheckFail
<1>2. found = {} /\ op.kind = "all"
  BY <1>1 DEF JInv, FreshInv, KindInv
<1>3. TightInv' /\ op' = op /\ lost' = lost
  BY <1>1, RestSame
<1>4. UnknownInv' /\ (everUnknown => everUnknown')
  BY <1>1, UnknownKept
<1>5. /\ KindInv' /\ FreshInv' /\ SavedLeavesPath' /\ SolveAllComplete'
      /\ OptimisticOnlyIfNeeded'
  BY <1>1, <1>2, <1>3
  DEF KindInv, FreshInv, SavedLeavesPath, SolveAllComplete, TwoFrames, OptimisticOnlyIfNeeded
<1>6. BoundsInv'
  BY <1>1, <1>2, <1>3, NoBounds DEF TwoFrames
<1>7. QueryInv'
  <2>1. \A v \in Assignment : Satisfies(v, Asserted') <=> Denote[op.e][v] \in Result \ op.in
    <3>1. Asserted' = {} \cup {In(op.e, Result \ op.in)}
      BY <1>1, OneFrameAsserted
    <3>2. \A v : Satisfies(v, {})
      BY DEF Satisfies
    <3> QED
      BY <3>1, <3>2, SatisfiesMore, InHolds
  <2>2. Wanted' = Result \ op.in
    BY <1>1, <1>2, <1>3 DEF Wanted, Leaving
  <2>3. pc' \notin Exact /\ pc' \notin TwoFrames /\ pc' # "addr"
    BY <1>1 DEF Exact, OneFrame, TwoFrames
  <2>4. \A v : Satisfies(v, Asserted)' <=> Satisfies(v, Asserted')
    BY DEF Satisfies, Holds
  <2> QED
    BY <1>3, <2>1, <2>2, <2>3, <2>4 DEF QueryInv
<1> QED
  BY <1>1, <1>3, <1>4, <1>5, <1>6, <1>7, NoTrouble DEF JInv

(* One more target is found, saved and excluded. *)
LEMMA AllSatJInv ==
    ASSUME IInv, JInv, NEW w \in Assignment, AllSat(w)
    PROVE  JInv'
<1> DEFINE x == Denote[op.e][w]
           S == Result \ {x}
           g == In(op.e, S)
<1>1. /\ pc \in {"all", "all_optimistic"} /\ pc' = pc /\ UNCHANGED Rest /\ Sat
      /\ w \in Models(Asserted)
      /\ saved' = [values |-> w, optimistic |-> (pc = "all_optimistic")]
      /\ frames' = AddTop(g) /\ found' = found \cup {x} /\ UNCHANGED <<lo, hi>>
  BY DEF AllSat, SaveValues
<1>2. /\ pc \in Asking /\ pc \in Exact \cup {"all_optimistic"} /\ op.kind = "all"
      /\ pc \notin {"addr"} \cup TwoFrames
  BY <1>1 DEF Asking, Exact, OneFrame, TwoFrames, JInv, KindInv
<1>3. TightInv' /\ op' = op /\ lost' = lost
  BY <1>1, RestSame
<1>4. UnknownInv' /\ (everUnknown => everUnknown')
  BY <1>1, UnknownKept
<1>5. SavedLeavesPath'
  BY <1>1, <1>2, <1>3, SavedLeaves
<1>6. QueryInv'
  <2>3. \A v \in Assignment : Holds(v, g) <=> Denote[op.e][v] \in S
    BY InHolds
  <2>1. Asserted' = Asserted \cup {g} /\ Plain
    <3> HIDE DEF g
    <3> QED
      BY <1>1, <1>2, AddTopAsserted DEF Plain
  <2>2. Wanted' = Wanted \cap S
    <3> HIDE DEF x
    <3> QED
      BY <1>1, <1>3 DEF Wanted, Leaving
  <2> HIDE DEF S, g
  <2> QED
    BY <1>1, <1>2, <2>1, <2>2, <2>3, NarrowQuery
<1>7. KindInv' /\ FreshInv' /\ SolveAllComplete' /\ OptimisticOnlyIfNeeded'
  BY <1>1, <1>2, <1>3
  DEF KindInv, FreshInv, SolveAllComplete, OptimisticOnlyIfNeeded, TwoFrames
<1>8. BoundsInv'
  BY <1>1, <1>2, <1>3, NoBounds
<1> QED
  BY <1>1, <1>3, <1>4, <1>5, <1>6, <1>7, <1>8, NoTrouble DEF JInv

(* The enumeration ends: no target that is possible on the path is missing. *)
LEMMA AllFailJInv ==
    ASSUME IInv, JInv, AllFail
    PROVE  JInv'
<1>1. /\ pc \in {"all", "all_optimistic"} /\ pc' = "constrain" /\ UNCHANGED Rest /\ NotSat
      /\ saved' = None /\ UNCHANGED <<lo, hi, found>>
  BY DEF AllFail
<1>2. pc \in Asking /\ pc # "run" /\ op.kind = "all"
  BY <1>1 DEF Asking, Exact, OneFrame, JInv, KindInv
<1>3. /\ TightInv' /\ op' = op /\ lost' = lost /\ FeasibleValues' = FeasibleValues
      /\ Bound' = Bound
  BY <1>1, RestSame
<1>4. /\ UnknownInv' /\ (everUnknown => everUnknown')
      /\ ~unknown' => Models(Asserted) = {}
  BY <1>1, UnknownKept
<1>5. SolveAllComplete'
  <2>1. SUFFICES ASSUME Models(Asserted) = {}, NEW x \in FeasibleValues, x \notin op.in
                 PROVE  x \in found
    BY <1>1, <1>3, <1>4 DEF SolveAllComplete
  <2>2. x \in Result /\ x \notin Wanted
    BY <1>1, <1>2, <2>1, NoModel, AskingTyped DEF Plain, TwoFrames
  <2> QED
    BY <1>1, <2>1, <2>2 DEF Wanted, Leaving
<1>6. SavedLeavesPath' /\ BoundsInv'
  BY <1>1, <1>2, <1>3, NoBounds DEF SavedLeavesPath, TwoFrames
<1> QED
  BY <1>1, <1>3, <1>4, <1>5, <1>6, NoQuery, NoTrouble DEF JInv

-----------------------------------------------------------------------------
(* The start and the end of an operation *)

(* What holds when an operation starts, and what is left to show. *)
LEMMA StartJInv ==
    ASSUME IInv, JInv, NEW e \in Expr, NEW in, NEW kind, Start(e, in, kind),
           \/ pc' = "constrain" /\ (kind = "all" => ~lastInterested')
           \/ /\ \/ pc' = "negate" /\ kind = "jcc"
                 \/ pc' = "all_check" /\ kind = "all"
              /\ frames' = <<SyncConstraints(e) \cup {In(e, Result \ in)}>>
           \/ pc' = "addr" /\ kind = "addr" /\ frames' = <<SyncConstraints(e)>>
    PROVE  JInv'
<1>1. /\ op' = [e |-> e, in |-> in, kind |-> kind] /\ saved' = None
      /\ lo' = None /\ hi' = None /\ found' = {} /\ unknown' = FALSE
      /\ UNCHANGED <<slice, range, path, lost, everUnknown>>
  BY DEF Start
<1>2. op'.e = e /\ op'.in = in /\ op'.kind = kind
  BY <1>1
<1>3. pc' \in {"constrain", "negate", "all_check", "addr"}
  OBVIOUS
<1>4. TightInv'
  BY <1>1 DEF JInv, TightInv, Satisfies, Holds
<1>5. UnknownInv' /\ SavedLeavesPath' /\ OptimisticOnlyIfNeeded'
  BY <1>1, <1>3 DEF UnknownInv, SavedLeavesPath, OptimisticOnlyIfNeeded
<1>6. KindInv' /\ FreshInv' /\ BoundsInv'
  BY <1>1, <1>2, <1>3 DEF KindInv, FreshInv, BoundsInv, Bounded, TwoFrames
<1>7. SolveAllComplete'
  BY <1>2 DEF SolveAllComplete
<1>8. TroubleOnlyAfterUnknown'
  BY <1>1, <1>3, NoTrouble
<1>9. QueryInv'
  <2>1. SyncConstraints(op.e)' = SyncConstraints(e)
    BY <1>1, <1>2 DEF SyncConstraints
  <2>2. CASE pc' = "constrain"
    BY <2>2, NoQuery
  <2>3. CASE /\ pc' \in {"negate", "all_check"}
             /\ frames' = <<SyncConstraints(e) \cup {In(e, Result \ in)}>>
    <3>1. Asserted' = SyncConstraints(e) \cup {In(e, Result \ in)}
      BY <2>3, OneFrameAsserted
    <3>2. Wanted' = Result \ in
      BY <1>1, <1>2, <2>3 DEF Wanted, Leaving
    <3>3. pc' \in Exact /\ pc' \notin {"addr"} \cup TwoFrames
      BY <2>3 DEF Exact, OneFrame, TwoFrames
    <3> QED
      <4> DEFINE g == In(e, Result \ in)
      <4>1. \A v \in Assignment : Holds(v, g) <=> Denote[e][v] \in Result \ in
        BY InHolds
      <4>2. Asserted' = SyncConstraints(e) \cup {g}
        BY <3>1
      <4> HIDE DEF g
      <4> QED
        BY <1>2, <2>1, <3>2, <3>3, <4>1, <4>2, SliceQuery
  <2>4. CASE pc' = "addr" /\ frames' = <<SyncConstraints(e)>>
    <3>1. Asserted' = SyncConstraints(e) /\ frames'[1] = SyncConstraints(e)
      BY <2>4, OneFrameAsserted
    <3>2. Wanted' = Result
      BY <1>1, <2>4 DEF Wanted, Leaving
    <3>3. pc' \in Exact /\ \A v \in Assignment : Denote[e][v] \in Result
      BY <2>4, ExprAssumption DEF Exact, OneFrame
    <3> QED
      BY <1>2, <2>1, <3>1, <3>2, <3>3, SliceQuery
  <2> QED
    BY <2>2, <2>3, <2>4
<1> QED
  BY <1>4, <1>5, <1>6, <1>7, <1>8, <1>9 DEF JInv

(* The calls of the instrumentation. *)
LEMMA InstrumentationJInv ==
    ASSUME IInv, JInv, Instrumentation
    PROVE  JInv'
<1>1. PICK e \in Expr : \/ \E t \in Tests[e], b \in BOOLEAN : AddJcc(e, t, b)
                        \/ AddAddr(e) \/ SolveAll(e) \/ AddValue(e)
  BY DEF Instrumentation
<1>2. ASSUME NEW t, NEW b, AddJcc(e, t, b)
      PROVE  JInv'
  <2>1. /\ Start(e, Taken(e, t), "jcc")
        /\ \/ pc' = "constrain"
           \/ /\ pc' = "negate"
              /\ frames' = <<SyncConstraints(e) \cup {In(e, Result \ Taken(e, t))}>>
    BY <1>2 DEF AddJcc
  <2> QED
    BY <2>1, StartJInv
<1>3. CASE AddAddr(e)
  <2>1. /\ Start(e, {Denote[e][Input]}, "addr")
        /\ \/ pc' = "constrain"
           \/ pc' = "addr" /\ frames' = <<SyncConstraints(e)>>
    BY <1>3 DEF AddAddr
  <2> QED
    BY <2>1, StartJInv
<1>4. CASE SolveAll(e)
  <2>1. /\ Start(e, {Denote[e][Input]}, "all")
        /\ \/ pc' = "constrain" /\ ~lastInterested'
           \/ /\ pc' = "all_check"
              /\ frames' = <<SyncConstraints(e) \cup {In(e, Result \ {Denote[e][Input]})}>>
    BY <1>4 DEF SolveAll
  <2> QED
    BY <2>1, StartJInv
<1>5. CASE AddValue(e)
  <2>1. Start(e, {Denote[e][Input]}, "value") /\ pc' = "constrain"
    BY <1>5 DEF AddValue
  <2> QED
    BY <2>1, StartJInv
<1> QED
  BY <1>1, <1>2, <1>3, <1>4, <1>5

(* addConstraint narrows the ranges and the path together. *)
LEMMA ConstrainJInv ==
    ASSUME IInv, JInv, Constrain
    PROVE  JInv'
<1>1. /\ op.e \in Expr /\ range \in [Expr -> SUBSET Result]
      /\ range' = [range EXCEPT ![op.e] = range[op.e] \cap op.in]
      /\ path' = path \cup {In(op.e, op.in)}
      /\ pc' = "run" /\ saved' = None /\ UNCHANGED <<op, lost, unknown, everUnknown>>
  BY DEF Constrain, IInv, TypeOK, OpInv, Operation
<1>2. TightInv'
  <2>1. SUFFICES ASSUME NEW v \in Assignment, Satisfies(v, path'), NEW e \in Expr
                 PROVE  Denote[e][v] \in range'[e]
    BY DEF TightInv, Satisfies, Holds
  <2>2. Satisfies(v, path) /\ Denote[op.e][v] \in op.in
    BY <1>1, <2>1, SatisfiesMore, InHolds
  <2>3. Denote[e][v] \in range[e]
    BY <2>2 DEF JInv, TightInv
  <2> QED
    BY <1>1, <2>2, <2>3
<1>3. UnknownInv' /\ SavedLeavesPath' /\ SolveAllComplete' /\ BoundsInv'
  BY <1>1
  DEF JInv, UnknownInv, SavedLeavesPath, SolveAllComplete, BoundsInv, Bounded, TwoFrames
<1>4. TroubleOnlyAfterUnknown'
  BY <1>1, NoTrouble
<1> QED
  BY <1>1, <1>2, <1>3, <1>4, NoQuery DEF JInv

-----------------------------------------------------------------------------
LEMMA InitJInv == Init => JInv
<1> SUFFICES ASSUME Init PROVE JInv
  OBVIOUS
<1>1. TightInv
  BY ExprAssumption DEF Init, TightInv
<1>2. KindInv /\ FreshInv /\ QueryInv /\ BoundsInv
  BY DEF Init, KindInv, FreshInv, QueryInv, BoundsInv, Bounded, TwoFrames, OneFrame,
     Exact,
         Asking
<1>3. /\ UnknownInv /\ SavedLeavesPath /\ OptimisticOnlyIfNeeded /\ SolveAllComplete
      /\ TroubleOnlyAfterUnknown
  BY DEF Init, UnknownInv, SavedLeavesPath, OptimisticOnlyIfNeeded, SolveAllComplete,
         TroubleOnlyAfterUnknown
<1> QED
  BY <1>1, <1>2, <1>3 DEF JInv

LEMMA NextJInv == IInv /\ JInv /\ [Next]_vars => JInv'
<1> SUFFICES ASSUME IInv, JInv, [Next]_vars PROVE JInv'
  OBVIOUS
<1>1. CASE SatStep
  BY <1>1, NegateSatJInv, OptimisticSatJInv, AddrSatJInv, MinSatJInv, MaxSatJInv,
     SolveMinJInv, SolveMaxJInv, AllCheckSatJInv, AllSatJInv DEF SatStep
<1>2. CASE FailStep
  BY <1>2, NegateFailJInv, OptimisticFailJInv, AddrFailJInv, MinFailJInv, MaxFailJInv,
     SolveMinJInv, SolveMaxJInv, AllCheckFailJInv, AllFailJInv DEF FailStep
<1>3. CASE UNCHANGED vars
  BY <1>3
  DEF vars, JInv, KindInv, TightInv, FreshInv, Wanted, QueryInv, Bounded, BoundsInv,
      UnknownInv, SavedLeavesPath, OptimisticOnlyIfNeeded, SolveAllComplete,
      TroubleOnlyAfterUnknown, FeasibleValues, Satisfies, Holds, Asserted, SyncConstraints,
      Plain, Bound, Support, Feasible, IsNumber, Least, Greatest
<1> QED
  BY <1>1, <1>2, <1>3, InstrumentationJInv, ConstrainJInv DEF Next, SolverStep

(* The two invariants together are inductive. *)
THEOREM Inductive == Spec => [](IInv /\ JInv)
<1>1. Init => IInv /\ JInv
  BY InitIInv, InitJInv
<1>2. (IInv /\ JInv) /\ [Next]_vars => (IInv /\ JInv)'
  BY NextIInv, NextJInv
<1> QED
  BY <1>1, <1>2, PTL DEF Spec

(* Whatever is saved for a branch or an indirect jump takes another way     *)
(* there than the current input, optimistic or not (negatePath, solveAll).  *)
THEOREM SavedLeavesPathHolds == Spec => []SavedLeavesPath
<1>1. IInv /\ JInv => SavedLeavesPath
  BY DEF JInv
<1> QED
  BY <1>1, Inductive, PTL

(* negatePath asks optimistically only when no input at all follows the     *)
(* path and flips the branch, or z3 gave up: slicing loses no solution.     *)
THEOREM OptimisticOnlyIfNeededHolds == Spec => []OptimisticOnlyIfNeeded
<1>1. IInv /\ JInv => OptimisticOnlyIfNeeded
  BY DEF JInv
<1> QED
  BY <1>1, Inductive, PTL

(* getMinValue and getMaxValue end with the exact bounds of the address     *)
(* over all inputs that follow the path, unless z3 gave up or a byte of the *)
(* address is in no constraint.                                             *)
THEOREM BoundsExactHolds == Spec => []BoundsExact
<1>1. ASSUME IInv, JInv PROVE BoundsExact
  <2>1. unknown \in BOOLEAN /\ BoundsInv
    BY <1>1 DEF IInv, TypeOK, JInv
  <2> QED
    BY <2>1 DEF BoundsExact, BoundsInv, Bounded, Feasible, Least, Greatest
<1>2. IInv /\ JInv => BoundsExact
  BY <1>1
<1> QED
  BY <1>2, Inductive, PTL

(* solveAll saves an input for every target of an indirect jump that is     *)
(* feasible on the path, unless z3 gave up.                                 *)
THEOREM SolveAllCompleteHolds == Spec => []SolveAllComplete
<1>1. IInv /\ JInv => SolveAllComplete
  BY DEF JInv
<1> QED
  BY <1>1, Inductive, PTL

(* addAddr drops its constraint, or uses an uninitialised bound, only after *)
(* z3 gave up: the collected constraints are never contradictory.           *)
THEOREM TroubleOnlyAfterUnknownHolds == Spec => []TroubleOnlyAfterUnknown
<1>1. IInv /\ JInv => TroubleOnlyAfterUnknown
  BY DEF JInv
<1> QED
  BY <1>1, Inductive, PTL
=============================================================================
