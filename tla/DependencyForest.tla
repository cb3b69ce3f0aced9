-------------------------- MODULE DependencyForest --------------------------
(***************************************************************************)
(* DependencyTree and DependencyForest of pintool/dependency.h, one step   *)
(* per iteration of addNode's loop over the dependencies.                  *)
(*                                                                         *)
(* forest_ is a vector of shared_ptr<DependencyTree>.  find(i) creates a   *)
(* tree at most once for each i, so a tree object is named by the index    *)
(* that created it, and the heap of trees is a function on Index.  nodes_  *)
(* is a vector whose order nobody reads: it is kept as the number of       *)
(* occurrences of each node.                                               *)
(***************************************************************************)
EXTENDS Naturals, FiniteSets

CONSTANTS
    Index,    \* offsets of the input bytes
    Node,     \* the constraints that may be added
    Deps,     \* Deps[n]: node->getDependencies(), iterated in increasing order
    MaxAdds,  \* bound on addNode calls for one node, for model checking
    None      \* the NULL pointer

ASSUME IndexAssumption == Index \subseteq Nat
ASSUME DepsAssumption == Deps \in [Node -> SUBSET Index]
ASSUME MaxAddsAssumption == MaxAdds \in Nat
ASSUME NoneAssumption == None \notin Index /\ None \notin Node

VARIABLES
    forest,   \* forest_: index -> tree, or None (NULL, or beyond size())
    nodes,    \* nodes[t][n]: occurrences of n in tree t's nodes_
    deps,     \* deps[t]: tree t's deps_
    cur,      \* the node addNode is adding, or None between calls
    todo,     \* the dependencies its loop has not visited yet
    tree,     \* addNode's local variable tree
    added     \* observer: how often each node was added

vars == <<forest, nodes, deps, cur, todo, tree, added>>

Tree == Index
Occurrences == [Node -> Nat]

TypeOK ==
    /\ forest \in [Index -> Tree \cup {None}]
    /\ nodes \in [Tree -> Occurrences]
    /\ deps \in [Tree -> SUBSET Index]
    /\ cur \in Node \cup {None}
    /\ todo \in SUBSET Index
    /\ tree \in Tree \cup {None}
    /\ added \in Occurrences

Init ==
    /\ forest = [i \in Index |-> None]
    /\ nodes = [t \in Tree |-> [n \in Node |-> 0]]
    /\ deps = [t \in Tree |-> {}]
    /\ cur = None
    /\ todo = {}
    /\ tree = None
    /\ added = [n \in Node |-> 0]

(* DependencyForest::find: the tree of index i, made on first use (and then *)
(* named i).                                                                *)
Find(i) == IF forest[i] = None THEN i ELSE forest[i]

(* Mutant of merge: the nodes are not appended. *)
MergeNodesNot(t, other) == nodes

(* DependencyTree::merge(other): append its nodes, insert its dependencies. *)
MergeNodes(t, other) ==
    [nodes EXCEPT ![t] = [n \in Node |-> nodes[t][n] + nodes[other][n]]]
MergeDeps(t, other) == [deps EXCEPT ![t] = @ \cup deps[other]]

(* Mutant: only the visited index is redirected. *)
RedirectVisited(t, other, i) == [forest EXCEPT ![i] = t]

(* "Update existing reference": every dependency of the merged tree, and    *)
(* the visited index itself, now point to t.                                *)
Redirect(t, other, i) ==
    [k \in Index |-> IF k = i \/ k \in deps[other] THEN t ELSE forest[k]]

(* A lookup by Solver::syncConstraints: it may create an empty tree. *)
Lookup(i) ==
    /\ cur = None
    /\ forest' = [forest EXCEPT ![i] = Find(i)]
    /\ UNCHANGED <<nodes, deps, cur, todo, tree, added>>

(* Mutant: addNode is also called without dependencies. *)
BeginAddNodeAny(n) ==
    /\ cur = None
    /\ added[n] < MaxAdds
    /\ cur' = n
    /\ todo' = Deps[n]
    /\ tree' = None
    /\ added' = [added EXCEPT ![n] = @ + 1]
    /\ UNCHANGED <<forest, nodes, deps>>

(* Solver::addConstraint(e) returns early for a concrete e, the only        *)
(* expressions without dependencies; otherwise it calls addNode(e).         *)
BeginAddNode(n) ==
    /\ cur = None
    /\ added[n] < MaxAdds
    /\ Deps[n] # {}
    /\ cur' = n
    /\ todo' = Deps[n]
    /\ tree' = None
    /\ added' = [added EXCEPT ![n] = @ + 1]
    /\ UNCHANGED <<forest, nodes, deps>>

(* std::set iterates in increasing order. *)
IsNext(i) == i \in todo /\ \A k \in todo : i <= k

(* One iteration of the loop.  The three cases: tree is NULL; tree and      *)
(* other_tree differ; they are the same object.                             *)
VisitFirst(i) ==
    /\ IsNext(i)
    /\ tree = None
    /\ tree' = Find(i)
    /\ forest' = [forest EXCEPT ![i] = Find(i)]
    /\ todo' = todo \ {i}
    /\ UNCHANGED <<nodes, deps, cur, added>>

VisitMerge(i) ==
    /\ IsNext(i)
    /\ tree # None
    /\ tree # Find(i)
    /\ nodes' = MergeNodes(tree, Find(i))
    /\ deps' = MergeDeps(tree, Find(i))
    /\ forest' = Redirect(tree, Find(i), i)
    /\ todo' = todo \ {i}
    /\ UNCHANGED <<cur, tree, added>>

VisitSame(i) ==
    /\ IsNext(i)
    /\ tree # None
    /\ tree = Find(i)
    /\ forest' = [forest EXCEPT ![i] = tree]
    /\ todo' = todo \ {i}
    /\ UNCHANGED <<nodes, deps, cur, tree, added>>

(* Mutant: the tree does not learn the node's dependencies. *)
EndAddNodeNoDeps ==
    /\ cur # None
    /\ todo = {}
    /\ nodes' = [nodes EXCEPT ![tree][cur] = @ + 1]
    /\ cur' = None
    /\ tree' = None
    /\ UNCHANGED <<forest, deps, todo, added>>

(* tree->addNode(node), after the loop. *)
EndAddNode ==
    /\ cur # None
    /\ todo = {}
    /\ nodes' = [nodes EXCEPT ![tree][cur] = @ + 1]
    /\ deps' = [deps EXCEPT ![tree] = @ \cup Deps[cur]]
    /\ cur' = None
    /\ tree' = None
    /\ UNCHANGED <<forest, todo, added>>

Next ==
    \/ \E i \in Index : Lookup(i)
    \/ \E n \in Node : BeginAddNode(n)
    \/ \E i \in Index : VisitFirst(i) \/ VisitMerge(i) \/ VisitSame(i)
    \/ EndAddNode

Spec == Init /\ [][Next]_vars

-----------------------------------------------------------------------------
(* Nodes reachable through the forest: what find(i)->getNodes() returns.    *)
Slice(i) == nodes[Find(i)]

(* Completeness: between calls, every byte of an added constraint finds it, *)
(* exactly as many times as it was added - merging two trees neither loses  *)
(* nor duplicates a constraint, whatever the order of the additions.        *)
SliceComplete ==
    cur = None =>
        \A n \in Node : \A i \in Deps[n] : Slice(i)[n] = added[n]

(* Closure: a tree that holds a constraint is the tree of each of that      *)
(* constraint's bytes, so no constraint related to byte i is outside its    *)
(* tree: the redirection of forest_ entries misses none.                    *)
SliceClosed ==
    cur = None =>
        \A i \in Index : \A n \in Node :
            Slice(i)[n] > 0 => \A k \in Deps[n] : forest[k] = Find(i)

(* addNode dereferences tree after its loop: it must not be NULL then (the  *)
(* regression test null-deref-DependencyForest-addNode).                    *)
NoNullTree == cur # None /\ todo = {} => tree # None

(***************************************************************************)
(* The refinement mapping.  From the first step of addNode on, the bytes   *)
(* of the trees it touches have the merged slice; the steps of its loop    *)
(* change nothing of that.                                                 *)
(***************************************************************************)
Touched ==
    {Find(i) : i \in todo} \cup (IF tree = None THEN {} ELSE {tree})

AbstractSlice ==
    [i \in Index |->
        IF cur # None /\ (Find(i) \in Touched \/ i \in Deps[cur])
        THEN [n \in Node |->
                 IF n = cur \/ \E t \in Touched : nodes[t][n] > 0
                 THEN added[n] ELSE 0]
        ELSE Slice(i)]

Abstract == INSTANCE ConstraintSlices WITH slice <- AbstractSlice

(* The forest implements the slices: no step of it shows Solver a slice     *)
(* that is not the one ConstraintSlices gives.                              *)
ImplementsSlices == Abstract!Spec
=============================================================================
