-------------------------- MODULE ConstraintSlices --------------------------
(***************************************************************************)
(* What DependencyForest promises to Solver (pintool/dependency.h): after  *)
(* any number of addNode calls, find(i) yields exactly the constraints     *)
(* that input byte i depends on, directly or through other bytes - the     *)
(* SLICE of i.  It is the abstract specification: it says nothing of trees *)
(* or pointers, and a whole addNode is one step.                           *)
(***************************************************************************)
EXTENDS Naturals

CONSTANTS
    Index,    \* offsets of the input bytes: a constraint's dependencies
    Node,     \* the constraints (Expr objects) that may be added
    Deps,     \* Deps[n]: the bytes constraint n reads (getDependencies)
    MaxAdds   \* bound on addNode calls, for model checking

VARIABLES
    slice,    \* slice[i][n]: how often n occurs in the slice of byte i
    added     \* added[n]: how often n has been added

vars == <<slice, added>>

Occurrences == [Node -> Nat]

TypeOK ==
    /\ slice \in [Index -> Occurrences]
    /\ added \in Occurrences

Init ==
    /\ slice = [i \in Index |-> [n \in Node |-> 0]]
    /\ added = [n \in Node |-> 0]

(* Bytes that share a constraint, directly or not, with constraint n. *)
Reached(n) ==
    {i \in Index : \/ i \in Deps[n]
                   \/ \E k \in Deps[n] : \E m \in Node :
                         slice[k][m] > 0 /\ i \in Deps[m]}

(* The constraints of the merged slice, each as often as it was added. *)
Merged(n) ==
    [m \in Node |->
        IF m = n THEN added[n] + 1
        ELSE IF \E k \in Deps[n] : slice[k][m] > 0 THEN added[m] ELSE 0]

(* The promise of DependencyForest::addNode. *)
AddNode(n) ==
    /\ added[n] < MaxAdds
    /\ Deps[n] # {}
    /\ added' = [added EXCEPT ![n] = @ + 1]
    /\ slice' = [i \in Index |->
                    IF i \in Reached(n) THEN Merged(n) ELSE slice[i]]

Next == \E n \in Node : AddNode(n)

Spec == Init /\ [][Next]_vars
=============================================================================
