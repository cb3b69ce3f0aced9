----------------------- MODULE DependencyForestProofs -----------------------
(***************************************************************************)
(* Proofs about DependencyForest for every set of input bytes, every set   *)
(* of constraints and every order in which they are added.                 *)
(***************************************************************************)
EXTENDS DependencyForest, TLAPS

Visited == IF cur = None THEN {} ELSE Deps[cur] \ todo

(* The number of complete addNode(n) calls. *)
Settled(n) == IF n = cur THEN added[n] - 1 ELSE added[n]

(* The state of the loop of addNode. *)
LoopState ==
    /\ cur = None => todo = {} /\ tree = None
    /\ cur # None => /\ Deps[cur] # {}
                     /\ todo \subseteq Deps[cur]
                     /\ added[cur] > 0
    /\ tree = None /\ cur # None => todo = Deps[cur]
    /\ tree # None => /\ todo # Deps[cur]
                      /\ \A i \in Visited : forest[i] = tree
                      /\ deps[tree] = {} => tree \in Visited

(* A tree that no index has created yet is empty and unreferenced. *)
Uncreated ==
    \A t \in Tree : forest[t] = None =>
        /\ deps[t] = {}
        /\ \A n \in Node : nodes[t][n] = 0
        /\ \A i \in Index : forest[i] # t

(* deps_ of a referenced tree: all of them point back to it. *)
DepsPointBack ==
    \A i \in Index : forest[i] # None =>
        \A k \in deps[forest[i]] : forest[k] = forest[i]

(* Who may refer to a tree: its dependencies, the creator of a tree that is *)
(* still empty, and the indices addNode has just redirected.                *)
Referrers ==
    \A i \in Index : forest[i] # None =>
        \/ i \in deps[forest[i]]
        \/ forest[i] = i /\ deps[i] = {}
        \/ i \in Visited

(* deps_ is the union of the dependencies of nodes_. *)
DepsOfNodes ==
    \A t \in Tree :
        /\ \A n \in Node : nodes[t][n] > 0 => Deps[n] # {} /\ Deps[n] \subseteq deps[t]
        /\ \A i \in deps[t] : \E n \in Node : nodes[t][n] > 0 /\ i \in Deps[n]

(* Every byte of a constraint finds it as often as it was added. *)
Counts == \A n \in Node : \A i \in Deps[n] : nodes[Find(i)][n] = Settled(n)

IInv ==
    /\ TypeOK
    /\ LoopState
    /\ Uncreated
    /\ DepsPointBack
    /\ Referrers
    /\ DepsOfNodes
    /\ Counts

-----------------------------------------------------------------------------
(* An empty forest satisfies the invariant. *)
LEMMA InitIInv == Init => IInv
  BY DepsAssumption, NoneAssumption
  DEF Init, IInv, TypeOK, LoopState, Uncreated, DepsPointBack, Referrers,
      DepsOfNodes, Counts, Visited, Settled, Find, Tree, Occurrences

(* find() preserves the invariant. *)
LEMMA LookupIInv ==
    ASSUME IInv, NEW i \in Index, Lookup(i)
    PROVE  IInv'
<1> USE DEF Tree, Occurrences
<1>1. TypeOK'
  BY DEF IInv, TypeOK, Find, Lookup
<1>2. LoopState'
  BY DEF IInv, LoopState, Lookup
<1>3. Uncreated'
  BY NoneAssumption DEF IInv, TypeOK, Uncreated, Find, Lookup
<1>4. DepsPointBack'
  BY NoneAssumption DEF IInv, TypeOK, Uncreated, DepsPointBack, Find, Lookup
<1>5. Referrers'
  BY NoneAssumption DEF IInv, TypeOK, LoopState, Uncreated, Referrers, Visited, Find, Lookup
<1>6. DepsOfNodes'
  BY DEF IInv, DepsOfNodes, Lookup
<1>7. Counts'
  BY DepsAssumption, NoneAssumption DEF IInv, TypeOK, Counts, Settled, Find, Lookup
<1> QED
  BY <1>1, <1>2, <1>3, <1>4, <1>5, <1>6, <1>7 DEF IInv

(* Entering addNode preserves the invariant. *)
LEMMA BeginIInv ==
    ASSUME IInv, NEW n \in Node, BeginAddNode(n)
    PROVE  IInv'
<1> USE DEF Tree, Occurrences
<1>1. TypeOK'
  <2>1. added' \in Occurrences
    BY DEF IInv, TypeOK, BeginAddNode
  <2> QED
    BY <2>1, DepsAssumption DEF IInv, TypeOK, BeginAddNode
<1>2. LoopState'
  BY NoneAssumption DEF IInv, TypeOK, LoopState, BeginAddNode
<1>3. Uncreated'
  BY DEF IInv, Uncreated, BeginAddNode
<1>4. DepsPointBack'
  BY DEF IInv, DepsPointBack, BeginAddNode
<1>5. Referrers'
  BY NoneAssumption DEF IInv, TypeOK, LoopState, Uncreated, Referrers, Visited, Find, BeginAddNode
<1>6. DepsOfNodes'
  BY DEF IInv, DepsOfNodes, BeginAddNode
<1>7. Counts'
  BY DepsAssumption, NoneAssumption DEF IInv, TypeOK, Counts, Settled, Find, BeginAddNode
<1> QED
  BY <1>1, <1>2, <1>3, <1>4, <1>5, <1>6, <1>7 DEF IInv

(* The first iteration of addNode preserves the invariant. *)
LEMMA VisitFirstIInv ==
    ASSUME IInv, NEW i \in Index, VisitFirst(i)
    PROVE  IInv'
<1> USE DEF Tree, Occurrences
<1>1. TypeOK'
  BY NoneAssumption, DepsAssumption DEF IInv, TypeOK, LoopState, Find, VisitFirst, IsNext
<1>2. LoopState'
  BY DepsAssumption, NoneAssumption DEF IInv, TypeOK, LoopState, Uncreated, Referrers, Visited, Find, VisitFirst, IsNext
<1>3. Uncreated'
  BY NoneAssumption DEF IInv, TypeOK, Uncreated, Find, VisitFirst, IsNext
<1>4. DepsPointBack'
  BY NoneAssumption DEF IInv, TypeOK, Uncreated, DepsPointBack, Find, VisitFirst, IsNext
<1>5. Referrers'
  BY NoneAssumption DEF IInv, TypeOK, LoopState, Uncreated, Referrers, Visited, Find, VisitFirst, IsNext
<1>6. DepsOfNodes'
  BY DEF IInv, DepsOfNodes, VisitFirst, IsNext
<1>7. Counts'
  BY DepsAssumption, NoneAssumption DEF IInv, TypeOK, Counts, Settled, Find, VisitFirst, IsNext
<1> QED
  BY <1>1, <1>2, <1>3, <1>4, <1>5, <1>6, <1>7 DEF IInv

(* An iteration that merges two trees preserves the invariant. *)
LEMMA VisitMergeIInv ==
    ASSUME IInv, NEW i \in Index, VisitMerge(i)
    PROVE  IInv'
<1> USE DEF Tree, Occurrences
<1> DEFINE other == Find(i)
<1>1. /\ i \in todo /\ cur \in Node /\ i \in Deps[cur] /\ i \notin Visited
      /\ tree \in Tree /\ other \in Tree /\ tree # other
      /\ \E k \in Index : forest[k] = tree
  BY DepsAssumption, NoneAssumption
  DEF IInv, TypeOK, LoopState, Visited, Find, VisitMerge, IsNext
<1>2. /\ nodes' = [nodes EXCEPT ![tree] = [n \in Node |-> nodes[tree][n] + nodes[other][n]]]
      /\ deps' = [deps EXCEPT ![tree] = deps[tree] \cup deps[other]]
      /\ forest' = [k \in Index |-> IF k = i \/ k \in deps[other] THEN tree ELSE forest[k]]
      /\ todo' = todo \ {i}
      /\ UNCHANGED <<cur, tree, added>>
  BY DEF IInv, TypeOK, VisitMerge, MergeNodes, MergeDeps, Redirect
<1>3. Visited' = Visited \cup {i}
  BY <1>1, <1>2, NoneAssumption DEF Visited
<1>4. \A k \in Index : forest[k] = other => k = i \/ k \in deps[other]
  (* A tree other than tree is referred to by its dependencies or by its creator. *)
  BY <1>1, NoneAssumption DEF IInv, TypeOK, LoopState, Referrers, Uncreated, Find
<1>5. \A k \in deps[other] : forest[k] = other
  BY <1>1 DEF IInv, TypeOK, DepsPointBack, Uncreated, Find
<1>6. \A k \in deps[tree] : forest[k] = tree
  BY <1>1, NoneAssumption DEF IInv, TypeOK, DepsPointBack
<1>7. forest[tree] # None
  BY <1>1 DEF IInv, Uncreated, TypeOK
<1> HIDE DEF other
<1>8. TypeOK'
  BY <1>1, <1>2 DEF IInv, TypeOK
<1>9. LoopState'
  <2>1. todo' # Deps[cur]
    BY <1>1, <1>2
  <2>2. \A k \in Visited' : forest'[k] = tree
    BY <1>1, <1>2, <1>3, DepsAssumption, NoneAssumption DEF IInv, LoopState, Visited
  <2>3. deps'[tree] = {} => tree \in Visited'
    BY <1>1, <1>2, <1>3, NoneAssumption DEF IInv, TypeOK, LoopState
  <2> QED
    BY <1>1, <1>2, <2>1, <2>2, <2>3, NoneAssumption DEF IInv, LoopState
<1>10. Uncreated'
  <2>1. SUFFICES ASSUME NEW t \in Tree, forest'[t] = None
                 PROVE  /\ deps'[t] = {}
                        /\ \A n \in Node : nodes'[t][n] = 0
                        /\ \A k \in Index : forest'[k] # t
    BY DEF Uncreated
  <2>2. forest[t] = None /\ t # tree
    BY <1>1, <1>2, <1>7, <2>1, NoneAssumption
  <2> QED
    BY <1>1, <1>2, <2>2 DEF IInv, TypeOK, Uncreated
<1>11. DepsPointBack'
  <2>1. SUFFICES ASSUME NEW k \in Index, forest'[k] # None, NEW j \in deps'[forest'[k]]
                 PROVE  forest'[j] = forest'[k]
    BY DEF DepsPointBack
  <2>2. CASE forest'[k] = tree
    <3>1. j \in Index /\ (j \in deps[tree] \/ j \in deps[other])
      BY <1>1, <1>2, <2>1, <2>2 DEF IInv, TypeOK
    <3> QED
      BY <1>2, <1>6, <2>2, <3>1
  <2>3. CASE forest'[k] # tree
    <3>1. forest'[k] = forest[k] /\ forest[k] # other /\ forest[k] \in Tree
      BY <1>1, <1>2, <1>4, <2>1, <2>3 DEF IInv, TypeOK
    <3>2. j \in deps[forest[k]] /\ j \in Index
      BY <1>1, <1>2, <2>1, <2>3, <3>1 DEF IInv, TypeOK
    <3>3. forest[j] = forest[k]
      BY <2>1, <3>1, <3>2 DEF IInv, DepsPointBack
    <3>4. j # i /\ j \notin deps[other]
      BY <1>5, <2>3, <3>1, <3>3, NoneAssumption DEF other, Find
    <3> QED
      BY <1>2, <3>1, <3>2, <3>3, <3>4
  <2> QED
    BY <2>2, <2>3
<1>12. Referrers'
  <2>1. SUFFICES ASSUME NEW k \in Index, forest'[k] # None
                 PROVE  \/ k \in deps'[forest'[k]]
                        \/ forest'[k] = k /\ deps'[k] = {}
                        \/ k \in Visited'
    BY DEF Referrers
  <2>2. CASE k = i
    BY <1>3, <2>2
  <2>3. CASE k # i /\ k \in deps[other]
    BY <1>1, <1>2, <2>3 DEF IInv, TypeOK
  <2>4. CASE k # i /\ k \notin deps[other]
    <3>1. forest'[k] = forest[k] /\ forest[k] # other /\ forest[k] \in Tree
      BY <1>2, <1>4, <2>1, <2>4, <1>1 DEF IInv, TypeOK
    <3>2. \/ k \in deps[forest[k]]
          \/ forest[k] = k /\ deps[k] = {}
          \/ k \in Visited
      BY <2>1, <3>1 DEF IInv, Referrers
    <3>3. tree = k /\ deps[k] = {} => k \in Visited
      BY <1>1, NoneAssumption DEF IInv, LoopState
    <3> QED
      BY <1>1, <1>2, <1>3, <3>1, <3>2, <3>3 DEF IInv, TypeOK
  <2> QED
    BY <2>2, <2>3, <2>4
<1>13. DepsOfNodes'
  BY <1>1, <1>2, <1>8 DEF IInv, TypeOK, DepsOfNodes
<1>14. Counts'
  <2>1. SUFFICES ASSUME NEW n \in Node, NEW k \in Deps[n]
                 PROVE  nodes'[Find(k)'][n] = Settled(n)
    BY <1>2 DEF Counts, Settled
  <2>2. k \in Index /\ nodes[Find(k)][n] = Settled(n)
    BY DepsAssumption DEF IInv, Counts
  <2>4. CASE k = i \/ k \in deps[other]
    <3>1. Find(k) = other
      BY <1>1, <1>5, <2>4, NoneAssumption DEF other, Find
    <3>2. Find(k)' = tree
      BY <1>1, <1>2, <2>2, <2>4, NoneAssumption DEF Find
    <3>3. nodes'[tree][n] = nodes[tree][n] + nodes[other][n]
      BY <1>1, <1>2 DEF IInv, TypeOK
    <3>4. nodes[tree][n] > 0 => k \in deps[tree]
      BY <1>1 DEF IInv, DepsOfNodes
    <3>5. nodes[tree][n] = 0
      BY <1>1, <1>6, <3>1, <3>4, NoneAssumption DEF IInv, TypeOK, Find
    <3> QED
      BY <1>1, <2>2, <3>1, <3>2, <3>3, <3>5 DEF IInv, TypeOK
  <2>5. CASE k # i /\ k \notin deps[other]
    <3>1. Find(k)' = Find(k)
      BY <1>2, <2>2, <2>5 DEF Find
    <3>2. nodes[other][n] = 0
      BY <1>1, <2>5 DEF IInv, TypeOK, DepsOfNodes
    <3>3. nodes'[Find(k)][n] = nodes[Find(k)][n]
      BY <1>1, <1>2, <2>2, <3>2 DEF IInv, TypeOK, Find
    <3> QED
      BY <2>2, <3>1, <3>3
  <2> QED
    BY <2>4, <2>5
<1> QED
  BY <1>8, <1>9, <1>10, <1>11, <1>12, <1>13, <1>14 DEF IInv

(* An iteration that meets the same tree again preserves the invariant. *)
LEMMA VisitSameIInv ==
    ASSUME IInv, NEW i \in Index, VisitSame(i)
    PROVE  IInv'
<1> USE DEF Tree, Occurrences
<1>1. TypeOK'
  BY NoneAssumption, DepsAssumption DEF IInv, TypeOK, LoopState, Find, VisitSame, IsNext
<1>2. LoopState'
  BY DepsAssumption, NoneAssumption DEF IInv, TypeOK, LoopState, Visited, Find, VisitSame, IsNext
<1>3. Uncreated'
  BY NoneAssumption DEF IInv, TypeOK, Uncreated, Find, VisitSame, IsNext
<1>4. DepsPointBack'
  BY NoneAssumption DEF IInv, TypeOK, Uncreated, DepsPointBack, Find, VisitSame, IsNext
<1>5. Referrers'
  BY NoneAssumption DEF IInv, TypeOK, LoopState, Uncreated, Referrers, Visited, Find, VisitSame, IsNext
<1>6. DepsOfNodes'
  BY DEF IInv, DepsOfNodes, VisitSame, IsNext
<1>7. Counts'
  BY DepsAssumption, NoneAssumption DEF IInv, TypeOK, Counts, Settled, Find, VisitSame, IsNext
<1> QED
  BY <1>1, <1>2, <1>3, <1>4, <1>5, <1>6, <1>7 DEF IInv

(* Leaving addNode preserves the invariant. *)
LEMMA EndIInv ==
    ASSUME IInv, EndAddNode
    PROVE  IInv'
<1> USE DEF Tree, Occurrences
<1>1. /\ cur \in Node /\ tree \in Tree /\ Deps[cur] # {}
      /\ Deps[cur] \subseteq Index
      /\ \A i \in Deps[cur] : forest[i] = tree
      /\ deps[tree] = {} => tree \in Deps[cur]
      /\ \A i \in deps[tree] : forest[i] = tree
  BY DepsAssumption, NoneAssumption
  DEF IInv, TypeOK, LoopState, Visited, DepsPointBack, EndAddNode
<1>2. /\ nodes' = [nodes EXCEPT ![tree][cur] = nodes[tree][cur] + 1]
      /\ deps' = [deps EXCEPT ![tree] = deps[tree] \cup Deps[cur]]
      /\ cur' = None /\ tree' = None
      /\ UNCHANGED <<forest, added, todo>>
      /\ todo = {}
  BY DEF EndAddNode
<1>3. \A n \in Node : nodes'[tree][n] = IF n = cur THEN nodes[tree][n] + 1 ELSE nodes[tree][n]
  BY <1>1, <1>2 DEF IInv, TypeOK
<1>4. \A t \in Tree : t # tree => nodes'[t] = nodes[t] /\ deps'[t] = deps[t]
  BY <1>1, <1>2 DEF IInv, TypeOK
<1>5. deps'[tree] = deps[tree] \cup Deps[cur]
  BY <1>1, <1>2 DEF IInv, TypeOK
<1>6. TypeOK'
  BY <1>1, <1>2 DEF IInv, TypeOK
<1>7. LoopState'
  BY <1>2 DEF LoopState
<1>8. Uncreated'
  BY <1>1, <1>2, <1>4 DEF IInv, Uncreated
<1>9. DepsPointBack'
  BY <1>1, <1>2, <1>4, <1>5 DEF IInv, TypeOK, DepsPointBack
<1>10. Referrers'
  BY <1>1, <1>2, <1>4, <1>5, NoneAssumption
  DEF IInv, TypeOK, LoopState, Referrers, Visited
<1>11. DepsOfNodes'
  <2>1. SUFFICES ASSUME NEW t \in Tree
                 PROVE  /\ \A n \in Node : nodes'[t][n] > 0 => Deps[n] # {} /\ Deps[n] \subseteq deps'[t]
                        /\ \A i \in deps'[t] : \E n \in Node : nodes'[t][n] > 0 /\ i \in Deps[n]
    BY DEF DepsOfNodes
  <2>2. CASE t # tree
    BY <1>4, <2>2 DEF IInv, DepsOfNodes
  <2>3. CASE t = tree
    <3>1. \A n \in Node : nodes[tree][n] \in Nat
      BY <1>1 DEF IInv, TypeOK
    <3>2. ASSUME NEW n \in Node, nodes'[tree][n] > 0
          PROVE  Deps[n] # {} /\ Deps[n] \subseteq deps'[tree]
      BY <1>1, <1>3, <1>5, <3>1, <3>2 DEF IInv, DepsOfNodes
    <3>3. ASSUME NEW i \in deps'[tree]
          PROVE  \E n \in Node : nodes'[tree][n] > 0 /\ i \in Deps[n]
      <4>1. CASE i \in Deps[cur]
        BY <1>1, <1>3, <3>1, <4>1
      <4>2. CASE i \in deps[tree]
        <5>1. PICK n \in Node : nodes[tree][n] > 0 /\ i \in Deps[n]
          BY <1>1, <4>2 DEF IInv, DepsOfNodes
        <5>2. nodes'[tree][n] > 0
          BY <1>3, <3>1, <5>1
        <5> QED
          BY <5>1, <5>2
      <4> QED
        BY <1>5, <3>3, <4>1, <4>2
    <3> QED
      BY <2>3, <3>2, <3>3
  <2> QED
    BY <2>2, <2>3
<1>12. Counts'
  <2>1. SUFFICES ASSUME NEW n \in Node, NEW i \in Deps[n]
                 PROVE  nodes'[Find(i)][n] = added[n]
    BY <1>2, NoneAssumption DEF Counts, Settled, Find
  <2>2. Find(i) \in Tree /\ nodes[Find(i)][n] = Settled(n)
    BY DepsAssumption DEF IInv, TypeOK, Counts, Find
  <2>3. CASE n = cur
    <3>1. Find(i) = tree
      BY <1>1, <2>3, NoneAssumption DEF Find
    <3> QED
      BY <1>3, <2>2, <2>3, <3>1 DEF IInv, TypeOK, Settled
  <2>4. CASE n # cur
    BY <1>3, <1>4, <2>2, <2>4 DEF Settled
  <2> QED
    BY <2>3, <2>4
<1> QED
  BY <1>6, <1>7, <1>8, <1>9, <1>10, <1>11, <1>12 DEF IInv

(* The invariant is inductive. *)
LEMMA InductiveInvariant == Spec => []IInv
<1>1. IInv /\ [Next]_vars => IInv'
  <2> SUFFICES ASSUME IInv, [Next]_vars PROVE IInv'
    OBVIOUS
  <2>1. ASSUME NEW i \in Index, Lookup(i) PROVE IInv'
    BY <2>1, LookupIInv
  <2>2. ASSUME NEW n \in Node, BeginAddNode(n) PROVE IInv'
    BY <2>2, BeginIInv
  <2>3. ASSUME NEW i \in Index, VisitFirst(i) PROVE IInv'
    BY <2>3, VisitFirstIInv
  <2>4. ASSUME NEW i \in Index, VisitMerge(i) PROVE IInv'
    BY <2>4, VisitMergeIInv
  <2>5. ASSUME NEW i \in Index, VisitSame(i) PROVE IInv'
    BY <2>5, VisitSameIInv
  <2>6. CASE EndAddNode
    BY <2>6, EndIInv
  <2>7. CASE UNCHANGED vars
    BY <2>7
    DEF vars, IInv, TypeOK, LoopState, Uncreated, DepsPointBack, Referrers,
        DepsOfNodes, Counts, Visited, Settled, Find, Tree, Occurrences
  <2> QED
    BY <2>1, <2>2, <2>3, <2>4, <2>5, <2>6, <2>7 DEF Next
<1> QED
  BY <1>1, InitIInv, PTL DEF Spec

-----------------------------------------------------------------------------
(* Every variable keeps its type. *)
THEOREM TypeCorrect == Spec => []TypeOK
<1>1. IInv => TypeOK
  BY DEF IInv
<1> QED
  BY <1>1, InductiveInvariant, PTL

(* A byte of a constraint always finds that constraint, as often as it was  *)
(* added: merging trees loses and duplicates nothing.                       *)
THEOREM Completeness == Spec => []SliceComplete
<1>1. IInv => SliceComplete
  BY NoneAssumption DEF IInv, Counts, Settled, SliceComplete, Slice
<1> QED
  BY <1>1, InductiveInvariant, PTL

(* All bytes connected by constraints share one tree. *)
THEOREM Closure == Spec => []SliceClosed
<1>1. IInv => SliceClosed
  BY DepsAssumption
  DEF IInv, TypeOK, Uncreated, DepsPointBack, DepsOfNodes, SliceClosed, Slice,
      Find, Tree, Occurrences
<1> QED
  BY <1>1, InductiveInvariant, PTL

(* addNode never dereferences a NULL tree. *)
THEOREM NullSafety == Spec => []NoNullTree
<1>1. IInv => NoNullTree
  BY DEF IInv, LoopState, NoNullTree
<1> QED
  BY <1>1, InductiveInvariant, PTL

-----------------------------------------------------------------------------
(* An iteration of addNode's loop shows Solver nothing: the refinement     *)
(* mapping already counts every tree that the loop is going to merge.      *)
LEMMA LookupStutters ==
    ASSUME IInv, NEW i \in Index, Lookup(i)
    PROVE  UNCHANGED Abstract!vars
<1>1. \A k \in Index : Find(k)' = Find(k)
  BY NoneAssumption DEF IInv, TypeOK, Lookup, Find, Tree
<1>2. cur = None /\ cur' = None /\ nodes' = nodes /\ added' = added
  BY DEF Lookup
<1>3. AbstractSlice' = AbstractSlice
  BY <1>1, <1>2 DEF AbstractSlice, Slice
<1> QED
  BY <1>2, <1>3 DEF Abstract!vars

(* addNode taking its first tree changes no slice.                          *)
LEMMA VisitFirstStutters ==
    ASSUME IInv, NEW i \in Index, VisitFirst(i)
    PROVE  UNCHANGED Abstract!vars
<1>1. \A k \in Index : Find(k)' = Find(k)
  BY NoneAssumption DEF IInv, TypeOK, VisitFirst, Find, Tree
<1>2. /\ nodes' = nodes /\ added' = added /\ cur' = cur
      /\ tree = None /\ tree' = Find(i) /\ tree' # None
      /\ i \in todo /\ todo' = todo \ {i} /\ todo \subseteq Index
  BY NoneAssumption DEF IInv, TypeOK, VisitFirst, IsNext, Find, Tree
<1>3. Touched' = Touched
  BY <1>1, <1>2 DEF Touched
<1>4. AbstractSlice' = AbstractSlice
  BY <1>1, <1>2, <1>3 DEF AbstractSlice, Slice
<1> QED
  BY <1>2, <1>4 DEF Abstract!vars

(* addNode meeting the tree it has already changes no slice.                *)
LEMMA VisitSameStutters ==
    ASSUME IInv, NEW i \in Index, VisitSame(i)
    PROVE  UNCHANGED Abstract!vars
<1>1. \A k \in Index : Find(k)' = Find(k)
  BY NoneAssumption DEF IInv, TypeOK, VisitSame, Find, Tree
<1>2. /\ nodes' = nodes /\ added' = added /\ cur' = cur
      /\ tree # None /\ tree = Find(i) /\ tree' = tree
      /\ i \in todo /\ todo' = todo \ {i} /\ todo \subseteq Index
  BY DEF IInv, TypeOK, VisitSame, IsNext
<1>3. Touched' = Touched
  BY <1>1, <1>2 DEF Touched
<1>4. AbstractSlice' = AbstractSlice
  BY <1>1, <1>2, <1>3 DEF AbstractSlice, Slice
<1> QED
  BY <1>2, <1>4 DEF Abstract!vars

(* addNode merging another tree changes no slice: the bytes of both trees   *)
(* have had the merged slice since the call began.                          *)
LEMMA VisitMergeStutters ==
    ASSUME IInv, NEW i \in Index, VisitMerge(i)
    PROVE  UNCHANGED Abstract!vars
<1> USE DEF Tree, Occurrences
<1> DEFINE other == Find(i)
<1>1. /\ i \in todo /\ cur \in Node /\ cur # None /\ todo \subseteq Index
      /\ tree \in Tree /\ tree # None /\ other \in Tree /\ tree # other
  BY NoneAssumption DEF IInv, TypeOK, LoopState, Find, VisitMerge, IsNext
<1>2. /\ \A n \in Node : nodes'[tree][n] = nodes[tree][n] + nodes[other][n]
      /\ \A t \in Tree : t # tree => nodes'[t] = nodes[t]
      /\ \A k \in Index : forest'[k] = IF k = i \/ k \in deps[other] THEN tree ELSE forest[k]
      /\ todo' = todo \ {i}
      /\ UNCHANGED <<cur, tree, added>>
  BY <1>1 DEF IInv, TypeOK, VisitMerge, MergeNodes, MergeDeps, Redirect
<1>3. \A k \in Index : Find(k)' = IF Find(k) = other THEN tree ELSE Find(k)
  <2>1. \A k \in Index : forest[k] = other => k = i \/ k \in deps[other]
    BY <1>1, NoneAssumption DEF IInv, TypeOK, LoopState, Referrers, Uncreated, Find
  <2>2. \A k \in deps[other] : forest[k] = other
    BY <1>1 DEF IInv, TypeOK, DepsPointBack, Uncreated, Find
  <2>3. \A k \in Index : forest[k] = None /\ k = other => k = i
    BY <1>1 DEF IInv, Uncreated, Find
  <2> QED
    BY <1>1, <1>2, <2>1, <2>2, <2>3, NoneAssumption DEF Find
<1> HIDE DEF other
<1>4. /\ other \in Touched /\ tree \in Touched
      /\ Touched \subseteq Tree
      /\ Touched' = Touched \ {other}
  <2>1. other \in Touched /\ tree \in Touched
    BY <1>1 DEF Touched, other
  <2>2. Touched \subseteq Tree
    BY <1>1 DEF Touched, Find, IInv, TypeOK
  <2>3. Touched' = {Find(k)' : k \in todo \ {i}} \cup {tree}
    BY <1>1, <1>2 DEF Touched
  <2>4. Touched = {Find(k) : k \in todo} \cup {tree}
    BY <1>1 DEF Touched
  <2>5. Touched' \subseteq Touched \ {other}
    BY <1>1, <1>3, <2>3, <2>4
  <2>6. Touched \ {other} \subseteq Touched'
    BY <1>1, <1>3, <2>3, <2>4 DEF other
  <2> QED
    BY <2>1, <2>2, <2>5, <2>6
<1>5. \A n \in Node : (\E t \in Touched' : nodes'[t][n] > 0) <=> (\E t \in Touched : nodes[t][n] > 0)
  <2> TAKE n \in Node
  <2>1. nodes'[tree][n] > 0 <=> nodes[tree][n] > 0 \/ nodes[other][n] > 0
    BY <1>1, <1>2 DEF IInv, TypeOK
  <2> QED
    BY <1>1, <1>2, <1>4, <2>1
<1>6. \A k \in Index : Find(k)' \in Touched' <=> Find(k) \in Touched
  BY <1>1, <1>3, <1>4
<1>7. \A k \in Index : Find(k) \notin Touched => Slice(k)' = Slice(k)
  BY <1>2, <1>3, <1>4 DEF Slice, Find, IInv, TypeOK
<1>8. AbstractSlice' = AbstractSlice
  BY <1>1, <1>2, <1>5, <1>6, <1>7 DEF AbstractSlice
<1> QED
  BY <1>2, <1>8 DEF Abstract!vars

(* tree->addNode(node) at the end changes no slice: the bytes of the tree   *)
(* have counted the node since the call began.                              *)
LEMMA EndStutters ==
    ASSUME IInv, EndAddNode
    PROVE  UNCHANGED Abstract!vars
<1> USE DEF Tree, Occurrences
<1>1. /\ cur \in Node /\ cur # None /\ tree \in Tree /\ tree # None /\ todo = {}
      /\ \A i \in Deps[cur] : i \in Index /\ forest[i] = tree
      /\ Deps[cur] # {}
      /\ \A i \in deps[tree] : i \in Index /\ forest[i] = tree
  BY DepsAssumption, NoneAssumption
  DEF IInv, TypeOK, LoopState, Visited, DepsPointBack, EndAddNode
<1>2. /\ \A n \in Node : nodes'[tree][n] = IF n = cur THEN nodes[tree][n] + 1 ELSE nodes[tree][n]
      /\ \A t \in Tree : t # tree => nodes'[t] = nodes[t]
      /\ nodes' \in [Tree -> [Node -> Nat]]
      /\ cur' = None /\ forest' = forest /\ added' = added
  BY <1>1 DEF IInv, TypeOK, EndAddNode
<1>3. Touched = {tree}
  BY <1>1 DEF Touched
<1>4. ASSUME NEW k \in Index
      PROVE  AbstractSlice[k] = nodes'[Find(k)]
  <2>1. Find(k) \in Tree
    BY DEF Find, IInv, TypeOK
  <2>2. CASE Find(k) = tree
    <3>1. AbstractSlice[k] = [n \in Node |-> IF n = cur \/ nodes[tree][n] > 0 THEN added[n] ELSE 0]
      BY <1>1, <1>3, <2>2 DEF AbstractSlice
    <3>2. ASSUME NEW n \in Node
          PROVE  nodes'[tree][n] = IF n = cur \/ nodes[tree][n] > 0 THEN added[n] ELSE 0
      <4>1. nodes[tree][n] \in Nat /\ added[n] \in Nat
        BY <1>1 DEF IInv, TypeOK
      <4>2. CASE n = cur
        <5>1. PICK i \in Deps[cur] : Find(i) = tree
          BY <1>1 DEF Find
        <5>2. nodes[tree][n] = added[n] - 1
          BY <4>2, <5>1 DEF IInv, Counts, Settled
        <5>3. nodes'[tree][n] = nodes[tree][n] + 1
          BY <1>2, <4>2
        <5>4. nodes'[tree][n] = added[n]
          BY <4>1, <5>2, <5>3
        <5> QED
          BY <4>2, <5>4
      <4>3. CASE n # cur /\ nodes[tree][n] > 0
        <5>1. PICK i \in Deps[n] : Find(i) = tree
          BY <1>1, <4>3 DEF IInv, DepsOfNodes, Find
        <5>2. nodes[tree][n] = added[n]
          BY <4>3, <5>1 DEF IInv, Counts, Settled
        <5> QED
          BY <1>2, <4>3, <5>2
      <4> QED
        BY <1>2, <4>1, <4>2, <4>3
    <3>3. nodes'[tree] = [n \in Node |-> nodes'[tree][n]]
      BY <1>1, <1>2
    <3> QED
      BY <2>2, <3>1, <3>2, <3>3
  <2>3. CASE Find(k) # tree
    <3>1. k \notin Deps[cur]
      BY <1>1, <2>3, NoneAssumption DEF Find
    <3>2. AbstractSlice[k] = Slice(k)
      BY <1>3, <2>3, <3>1 DEF AbstractSlice
    <3> QED
      BY <1>2, <2>1, <2>3, <3>2 DEF Slice
  <2> QED
    BY <2>2, <2>3
<1>5. AbstractSlice' = [k \in Index |-> nodes'[Find(k)]]
  BY <1>2 DEF AbstractSlice, Slice, Find
<1>6. AbstractSlice = [k \in Index |-> AbstractSlice[k]]
  BY DEF AbstractSlice
<1> QED
  BY <1>2, <1>4, <1>5, <1>6 DEF Abstract!vars

(* Calling addNode(n) is the abstract AddNode(n). *)
LEMMA BeginRefines ==
    ASSUME IInv, NEW n \in Node, BeginAddNode(n)
    PROVE  Abstract!AddNode(n)
<1> USE DEF Tree, Occurrences
<1>1. /\ cur = None /\ cur' = n /\ n # None
      /\ forest' = forest /\ nodes' = nodes
      /\ todo' = Deps[n] /\ tree' = None /\ Deps[n] \subseteq Index
      /\ added[n] < MaxAdds /\ Deps[n] # {}
      /\ added' = [added EXCEPT ![n] = @ + 1]
  BY DepsAssumption, NoneAssumption DEF BeginAddNode
<1>2. AbstractSlice = [k \in Index |-> Slice(k)]
  BY <1>1 DEF AbstractSlice
<1>3. Touched' = {Find(k) : k \in Deps[n]}
  BY <1>1 DEF Touched, Find
<1>4. \A k \in Index : Find(k) \in Tree
  BY DEF Find, IInv, TypeOK
<1>5. \A k \in Index : Find(k) \in Touched' \/ k \in Deps[n] <=> k \in Abstract!Reached(n)
  <2> TAKE k \in Index
  <2>1. ASSUME NEW j \in Deps[n], Find(k) = Find(j), k # j
        PROVE  \E m \in Node : Slice(j)[m] > 0 /\ k \in Deps[m]
    <3>1. k \in deps[Find(j)]
      BY <1>1, <2>1, NoneAssumption
      DEF IInv, TypeOK, Referrers, Uncreated, Visited, Find
    <3> QED
      BY <1>1, <1>4, <3>1 DEF IInv, DepsOfNodes, Slice
  <2>2. ASSUME NEW j \in Deps[n], NEW m \in Node, Slice(j)[m] > 0, k \in Deps[m]
        PROVE  Find(k) = Find(j)
    <3>1. k \in deps[Find(j)]
      BY <1>1, <1>4, <2>2 DEF IInv, DepsOfNodes, Slice
    <3> QED
      BY <1>1, <3>1, NoneAssumption DEF IInv, TypeOK, DepsPointBack, Uncreated, Find
  <2> QED
    BY <1>1, <1>2, <1>3, <2>1, <2>2 DEF Abstract!Reached
<1>6. Abstract!Merged(n) =
        [m \in Node |-> IF m = n \/ \E t \in Touched' : nodes[t][m] > 0 THEN added'[m] ELSE 0]
  BY <1>1, <1>2, <1>3 DEF Abstract!Merged, Slice, IInv, TypeOK
<1>7. AbstractSlice' = [k \in Index |-> IF k \in Abstract!Reached(n)
                                       THEN Abstract!Merged(n) ELSE AbstractSlice[k]]
  BY <1>1, <1>2, <1>5, <1>6 DEF AbstractSlice, Slice, Find
<1> QED
  BY <1>1, <1>7 DEF Abstract!AddNode

(* The forest of trees, merged and redirected step by step, implements the *)
(* abstract slices: Solver may reason with ConstraintSlices.               *)
THEOREM Refinement == Spec => ImplementsSlices
<1>1. Init => Abstract!Init
  BY DEF Init, Abstract!Init, AbstractSlice, Slice, Find, Tree
<1>2. IInv /\ [Next]_vars => [Abstract!Next]_(Abstract!vars)
  <2> SUFFICES ASSUME IInv, [Next]_vars PROVE [Abstract!Next]_(Abstract!vars)
    OBVIOUS
  <2>1. ASSUME NEW i \in Index, Lookup(i) PROVE UNCHANGED Abstract!vars
    BY <2>1, LookupStutters
  <2>2. ASSUME NEW n \in Node, BeginAddNode(n) PROVE Abstract!Next
    BY <2>2, BeginRefines DEF Abstract!Next
  <2>3. ASSUME NEW i \in Index, VisitFirst(i) PROVE UNCHANGED Abstract!vars
    BY <2>3, VisitFirstStutters
  <2>4. ASSUME NEW i \in Index, VisitMerge(i) PROVE UNCHANGED Abstract!vars
    BY <2>4, VisitMergeStutters
  <2>5. ASSUME NEW i \in Index, VisitSame(i) PROVE UNCHANGED Abstract!vars
    BY <2>5, VisitSameStutters
  <2>6. CASE EndAddNode
    BY <2>6, EndStutters
  <2>7. CASE UNCHANGED vars
    BY <2>7 DEF vars, Abstract!vars, AbstractSlice, Slice, Find, Touched
  <2> QED
    BY <2>1, <2>2, <2>3, <2>4, <2>5, <2>6, <2>7 DEF Next
<1> QED
  BY <1>1, <1>2, InductiveInvariant, PTL DEF Spec, ImplementsSlices, Abstract!Spec
=============================================================================
