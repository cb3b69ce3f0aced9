-------------------------- MODULE ExprCacheProofs ---------------------------
(***************************************************************************)
(* The expression cache, for every cache size, every sweep factor and any  *)
(* number of expressions: set_ and queue_ stay in step although shrink     *)
(* erases by equality and expired references can neither be found nor be   *)
(* erased one by one.                                                      *)
(***************************************************************************)
EXTENDS ExprCache, FiniteSetTheorems, TLAPS

(* The queue has the expressions created last, oldest first, and as many of *)
(* them as fit.                                                             *)
QueueInv ==
    /\ Len(queue) <= CacheSize
    /\ Len(queue) = CacheSize \/ Len(queue) = Len(exprs)
    /\ Len(queue) <= Len(exprs)
    /\ \A k \in 1..Len(queue) : queue[k] = Len(exprs) - Len(queue) + k

(* Live expressions of one form are CacheSize apart. *)
Apart == \A i, j \in Live : i < j /\ exprs[i] = exprs[j] => j - i >= CacheSize

SetBounded == IsFiniteSet(set) /\ Cardinality(set) <= CacheSize * SweepFactor

IInv == TypeOK /\ QueueInv /\ SetIsQueue /\ OneLivePerForm /\ Apart /\ SetBounded

-----------------------------------------------------------------------------
(* What is in a queue that is in order, by number *)
LEMMA QueueRange ==
    ASSUME NEW S, NEW q \in Seq(S), NEW n \in Nat,
           \A k \in 1..Len(q) : q[k] = n - Len(q) + k
    PROVE  Range(q) = (n - Len(q) + 1)..n
<1>1. Len(q) \in Nat /\ DOMAIN q = 1..Len(q)
  OBVIOUS
<1>2. ASSUME NEW m \in (n - Len(q) + 1)..n
      PROVE  m \in Range(q)
  <2>1. m - (n - Len(q)) \in 1..Len(q)
    BY <1>1
  <2>2. q[m - (n - Len(q))] = m
    BY <1>1, <2>1
  <2> QED
    BY <1>1, <2>1, <2>2 DEF Range
<1>3. ASSUME NEW k \in 1..Len(q)
      PROVE  q[k] \in (n - Len(q) + 1)..n
  BY <1>1
<1> QED
  BY <1>1, <1>2, <1>3 DEF Range

(* The expressions, when one is created *)
LEMMA Appended ==
    ASSUME TypeOK, NEW e \in Expr, exprs' = Append(exprs, e), Len(exprs) + 1 \in Id
    PROVE  LET id == Len(exprs) + 1
           IN  /\ exprs' \in Seq(Expr \cup {Expired}) /\ Len(exprs') = id
               /\ Created = 1..Len(exprs) /\ Created' = 1..id
               /\ Created' = Created \cup {id} /\ id \notin Created
               /\ exprs'[id] = e /\ \A i \in Created : exprs'[i] = exprs[i]
               /\ Live' = Live \cup {id}
<1> DEFINE id == Len(exprs) + 1
<1>1. /\ exprs' \in Seq(Expr \cup {Expired}) /\ Len(exprs') = id
      /\ exprs'[id] = e /\ \A i \in 1..Len(exprs) : exprs'[i] = exprs[i]
      /\ Len(exprs) \in Nat
  BY DEF TypeOK
<1>2. Created = 1..Len(exprs) /\ Created' = 1..id
  BY <1>1 DEF Created, TypeOK
<1>3. Created' = Created \cup {id} /\ id \notin Created
  BY <1>1, <1>2
<1>4. Live' = Live \cup {id}
  BY <1>1, <1>2, <1>3, ExpiredAssumption DEF Live, IsLive
<1> QED
  BY <1>1, <1>2, <1>3, <1>4

(* The operand of a new expression makes it an expression. *)
LEMMA NewExpr ==
    ASSUME TypeOK, NEW op \in Op, NEW child \in Live \cup {Leaf}
    PROVE  [op |-> op, child |-> child] \in Expr
<1>1. Live \subseteq Id
  BY BoundsAssumption DEF Live, Created, TypeOK, Id
<1> QED
  BY <1>1 DEF Expr

(* shrink keeps the queue in order, and erases of the live entries of the   *)
(* set the one of the front of the queue and no other.                      *)
LEMMA InsertStep ==
    ASSUME IInv, NEW e \in Expr, Insert(e)
    PROVE  IInv'
<1> DEFINE id == Len(exprs) + 1
           N == Len(exprs)
           q == Append(queue, id)
           s == set \cup {id}
           full == Len(q) > CacheSize
           live == {i \in DOMAIN exprs' : exprs'[i] # Expired}
           rest == IF full THEN s \ FrontEntry(s, q, exprs', live) ELSE s
<1>1. /\ Find(e) = {} /\ id \in Id /\ exprs' = Append(exprs, e)
      /\ roots' = roots \cup {id}
      /\ set' = IF Cardinality(rest) > CacheSize * SweepFactor THEN Cleanup(rest, live) ELSE rest
      /\ queue' = IF full THEN Tail(q) ELSE q
  BY DEF Insert, Shrunk
<1>2. /\ exprs' \in Seq(Expr \cup {Expired}) /\ Len(exprs') = id
      /\ Created = 1..N /\ Created' = 1..id
      /\ Created' = Created \cup {id} /\ id \notin Created
      /\ exprs'[id] = e /\ \A i \in Created : exprs'[i] = exprs[i]
      /\ Live' = Live \cup {id}
  BY <1>1, Appended DEF IInv
<1>3. live = Live'
  BY DEF Live, IsLive, Created
<1>4. /\ N \in Nat /\ Len(queue) \in Nat /\ CacheSize \in Nat \ {0} /\ SweepFactor \in Nat \ {0}
      /\ queue \in Seq(Created) /\ set \subseteq Created /\ roots \subseteq Created
      /\ QueueInv /\ id <= MaxExprs /\ MaxExprs \in Nat
  BY <1>1, BoundsAssumption DEF IInv, TypeOK, Id
<1>5. /\ q \in Seq(Created') /\ Len(q) = Len(queue) + 1
      /\ \A k \in 1..Len(q) : q[k] = id - Len(q) + k
  <2>1. queue \in Seq(Created') /\ id \in Created'
    BY <1>2, <1>4
  <2>2. q \in Seq(Created') /\ Len(q) = Len(queue) + 1 /\ q[Len(queue) + 1] = id
        /\ \A k \in 1..Len(queue) : q[k] = queue[k]
    BY <2>1
  <2> QED
    BY <1>4, <2>2 DEF QueueInv
<1>6. /\ Tail(q) \in Seq(Created') /\ Len(Tail(q)) = Len(queue)
      /\ \A k \in 1..Len(queue) : Tail(q)[k] = id - Len(queue) + k
      /\ Head(q) = id - Len(queue)
  BY <1>4, <1>5
<1> HIDE DEF q
<1>7. queue' \in Seq(Created') /\ QueueInv'
  <2>1. CASE full
    <3>1. queue' = Tail(q) /\ Len(queue) = CacheSize
      BY <1>1, <1>4, <1>5, <2>1 DEF QueueInv
    <3> QED
      <4>1. /\ Len(queue') = CacheSize /\ CacheSize <= id
            /\ \A k \in 1..CacheSize : queue'[k] = id - CacheSize + k
        BY <1>4, <1>6, <3>1 DEF QueueInv
      <4>2. queue' \in Seq(Created')
        BY <1>6, <3>1
      <4>3. Len(exprs') = id /\ id \in Nat /\ CacheSize \in Nat
        BY <1>2, <1>4
      <4>4. QueueInv'
        <5> HIDE DEF id
        <5> QED
          BY <4>1, <4>3 DEF QueueInv
      <4> QED
        BY <4>2, <4>4
  <2>2. CASE ~full
    <3>1. queue' = q /\ Len(queue) = N
      BY <1>1, <1>4, <1>5, <2>2 DEF QueueInv
    <3> QED
      <4>1. /\ Len(queue') = id /\ id <= CacheSize
            /\ \A k \in 1..id : queue'[k] = id - id + k
        BY <1>4, <1>5, <2>2, <3>1
      <4>2. queue' \in Seq(Created')
        BY <1>5, <3>1
      <4>3. Len(exprs') = id /\ id \in Nat /\ CacheSize \in Nat
        BY <1>2, <1>4
      <4>4. QueueInv'
        <5> HIDE DEF id
        <5> QED
          BY <4>1, <4>3 DEF QueueInv
      <4> QED
        BY <4>2, <4>4
  <2> QED
    BY <2>1, <2>2
<1>8. s \subseteq Created' /\ rest \subseteq s /\ set' \subseteq rest
  BY <1>1, <1>2, <1>4 DEF Cleanup
<1>9. TypeOK'
  BY <1>1, <1>2, <1>4, <1>7, <1>8 DEF TypeOK
<1>10. Range(queue) = (N - Len(queue) + 1)..N /\ Range(queue') = (id - Len(queue') + 1)..id
  <2>1. Range(queue) = (N - Len(queue) + 1)..N
    BY <1>4, QueueRange DEF QueueInv
  <2>2. \A k \in 1..Len(queue') : queue'[k] = id - Len(queue') + k
    BY <1>2, <1>7 DEF QueueInv
  <2> QED
    BY <1>4, <1>7, <2>1, <2>2, QueueRange
<1>11. (* the entries are of different forms, the new one included *)
       \A i, j \in s \cap live : exprs'[i] = exprs'[j] => i = j
  <2>1. \A i \in set \cap live : i \in set \cap Live /\ exprs'[i] = exprs[i] /\ exprs[i] # e
    <3>1. \A i \in set \cap live : i \in set \cap Live /\ exprs'[i] = exprs[i]
      BY <1>2, <1>3, <1>4
    <3>2. \A i \in set \cap Live : exprs[i] # e
      BY <1>1 DEF Find, Live
    <3> QED
      BY <3>1, <3>2
  <2> QED
    BY <1>2, <2>1 DEF IInv, OneLivePerForm
<1>12. s \cap live = ((N - Len(queue) + 1)..id) \cap live
  <2>1. set \cap live = ((N - Len(queue) + 1)..N) \cap live
    BY <1>2, <1>3, <1>4, <1>10 DEF IInv, SetIsQueue
  <2>2. (N - Len(queue) + 1)..id = ((N - Len(queue) + 1)..N) \cup {id}
    BY <1>4
  <2> QED
    BY <1>2, <1>3, <2>1, <2>2
<1>13. rest \cap live = Range(queue') \cap live
  <2>1. CASE full
    <3>1. Len(queue) = CacheSize /\ Len(queue') = Len(queue) /\ Head(q) = id - Len(queue)
      BY <1>1, <1>4, <1>5, <1>6, <2>1 DEF QueueInv
    <3>2. FrontEntry(s, q, exprs', live) = {Head(q)} \cap live
      <4>1. Head(q) \in live => Head(q) \in s \cap live
        BY <1>4, <1>12, <3>1
      <4> QED
        BY <1>11, <4>1 DEF FrontEntry
    <3>3. rest \cap live = (((N - Len(queue) + 1)..id) \ {id - Len(queue)}) \cap live
      BY <1>12, <2>1, <3>1, <3>2
    <3>4. ((N - Len(queue) + 1)..id) \ {id - Len(queue)} = (id - Len(queue) + 1)..id
      BY <1>4
    <3> QED
      BY <1>10, <3>1, <3>3, <3>4
  <2>2. CASE ~full
    <3>1. Len(queue') = Len(queue) + 1
      BY <1>1, <1>5, <2>2
    <3> QED
      BY <1>4, <1>10, <1>12, <2>2, <3>1
  <2> QED
    BY <2>1, <2>2
<1>14. set' \cap live = rest \cap live
  BY <1>1 DEF Cleanup
<1>15. SetIsQueue' /\ OneLivePerForm'
  <2>1. SetIsQueue'
    BY <1>3, <1>13, <1>14 DEF SetIsQueue
  <2>2. OneLivePerForm'
    BY <1>3, <1>8, <1>11 DEF OneLivePerForm
  <2> QED
    BY <2>1, <2>2
<1>16. Apart'
  <2> SUFFICES ASSUME NEW i \in Live', NEW j \in Live', i < j, exprs'[i] = exprs'[j]
               PROVE  j - i >= CacheSize
    BY DEF Apart
  <2>1. i \in Created' /\ j \in Created'
    BY DEF Live
  <2>2. CASE j \in Live
    <3>1. i # id /\ j \in Created
      BY <1>2, <1>4, <2>1, <2>2 DEF Live
    <3> QED
      BY <1>2, <2>2, <3>1 DEF IInv, Apart, Live
  <2>3. CASE j = id
    <3>1. i \in Live /\ exprs[i] = e
      BY <1>2, <1>4, <2>3 DEF Live
    <3>2. i \notin set
      BY <1>1, <3>1 DEF Find, Live
    <3>3. i \notin Range(queue) /\ i \in 1..N
      BY <1>2, <3>1, <3>2 DEF IInv, SetIsQueue, Live
    <3> QED
      BY <1>4, <1>10, <2>3, <3>3 DEF QueueInv
  <2> QED
    BY <1>2, <2>2, <2>3
<1>17. SetBounded'
  <2>1. IsFiniteSet(Created')
    BY <1>2, <1>4, FS_Interval
  <2>2. IsFiniteSet(rest) /\ IsFiniteSet(set')
    BY <1>8, <2>1, FS_Subset
  <2>3. Cardinality(rest) \in Nat /\ CacheSize * SweepFactor \in Nat /\ CacheSize <= CacheSize * SweepFactor
    BY <1>4, <2>2, FS_CardinalityType
  <2>4. CASE Cardinality(rest) > CacheSize * SweepFactor
    <3>1. set' \subseteq Range(queue')
      BY <1>1, <1>13, <2>4 DEF Cleanup
    <3>2. IsFiniteSet(Range(queue')) /\ Cardinality(Range(queue')) <= CacheSize
      <4>1. Len(queue') \in Nat /\ Len(queue') <= CacheSize
        BY <1>7 DEF QueueInv
      <4>2. id - Len(queue') + 1 \in Int /\ id \in Int
        BY <1>4, <4>1
      <4>3. /\ IsFiniteSet((id - Len(queue') + 1)..id)
            /\ Cardinality((id - Len(queue') + 1)..id) =
                  IF id - Len(queue') + 1 > id THEN 0 ELSE id - (id - Len(queue') + 1) + 1
        BY <4>2, FS_Interval
      <4> QED
        BY <1>4, <1>10, <4>1, <4>3
    <3>3. Cardinality(set') <= Cardinality(Range(queue')) /\ Cardinality(set') \in Nat
          /\ Cardinality(Range(queue')) \in Nat
      BY <2>2, <3>1, <3>2, FS_Subset, FS_CardinalityType
    <3> QED
      BY <1>4, <2>2, <2>3, <3>2, <3>3 DEF SetBounded
  <2>5. CASE ~ (Cardinality(rest) > CacheSize * SweepFactor)
    <3>1. set' = rest
      BY <1>1, <2>5
    <3> HIDE DEF rest
    <3> QED
      BY <2>2, <2>3, <2>5, <3>1 DEF SetBounded
  <2> QED
    BY <2>4, <2>5
<1> QED
  BY <1>7, <1>9, <1>15, <1>16, <1>17 DEF IInv

(* Destroying expressions only takes live ones away. *)
LEMMA ReleaseStep ==
    ASSUME IInv, NEW i \in roots, Release(i)
    PROVE  IInv'
<1>1. /\ roots' = roots \ {i} /\ UNCHANGED <<set, queue>>
      /\ exprs' = [j \in Created |-> IF j \in Owned(roots') THEN exprs[j] ELSE Expired]
  BY DEF Release
<1>2. Created = 1..Len(exprs) /\ Len(exprs) \in Nat /\ \A j \in Created : exprs[j] \in Expr \cup {Expired}
  BY DEF IInv, TypeOK, Created
<1>3. exprs' \in [1..Len(exprs) -> Expr \cup {Expired}] /\ \A j \in Created : exprs'[j] \in {exprs[j], Expired}
  BY <1>1, <1>2
<1>4. exprs' \in Seq(Expr \cup {Expired}) /\ Len(exprs') = Len(exprs) /\ Created' = Created
  BY <1>2, <1>3 DEF Created
<1>5. Live' \subseteq Live /\ \A j \in Live' : exprs'[j] = exprs[j]
  BY <1>3, <1>4 DEF Live, IsLive
<1>6. TypeOK' /\ QueueInv' /\ SetBounded'
  BY <1>1, <1>4 DEF IInv, TypeOK, QueueInv, SetBounded
<1>7. SetIsQueue' /\ OneLivePerForm' /\ Apart'
  BY <1>1, <1>5 DEF IInv, SetIsQueue, OneLivePerForm, Apart
<1> QED
  BY <1>6, <1>7 DEF IInv

-----------------------------------------------------------------------------
(* All of it holds at the start and after every step. *)
THEOREM Inductive == Spec => []IInv
<1>1. Init => IInv
  <2> SUFFICES ASSUME Init PROVE IInv
    OBVIOUS
  <2>1. Created = {} /\ Range(queue) = {} /\ Len(exprs) = 0 /\ Len(queue) = 0
    BY DEF Init, Created, Range
  <2>2. TypeOK /\ QueueInv
    BY <2>1, BoundsAssumption DEF Init, TypeOK, QueueInv
  <2>3. SetIsQueue /\ OneLivePerForm /\ Apart
    BY <2>1 DEF Init, SetIsQueue, OneLivePerForm, Apart, Live
  <2>4. SetBounded
    BY FS_EmptySet, BoundsAssumption DEF Init, SetBounded
  <2> QED
    BY <2>2, <2>3, <2>4 DEF IInv
<1>2. IInv /\ [Next]_vars => IInv'
  <2> SUFFICES ASSUME IInv, [Next]_vars PROVE IInv'
    OBVIOUS
  <2>1. ASSUME NEW op \in Op, NEW child \in Live \cup {Leaf},
               Reuse([op |-> op, child |-> child])
        PROVE  IInv'
    <3>1. roots' \subseteq Created /\ UNCHANGED <<exprs, set, queue>>
      BY <2>1 DEF Reuse, Find, IInv, TypeOK
    <3> QED
      BY <3>1 DEF IInv, TypeOK, Created, QueueInv, SetIsQueue, OneLivePerForm, Apart,
                  SetBounded, Live, IsLive
  <2>2. ASSUME NEW op \in Op, NEW child \in Live \cup {Leaf},
               Insert([op |-> op, child |-> child])
        PROVE  IInv'
    BY <2>2, NewExpr, InsertStep DEF IInv
  <2>3. ASSUME NEW i \in roots, Release(i) PROVE IInv'
    BY <2>3, ReleaseStep
  <2>4. CASE UNCHANGED vars
    BY <2>4 DEF vars, IInv, TypeOK, Created, QueueInv, SetIsQueue, OneLivePerForm,
           Apart,
                SetBounded, Live, IsLive
  <2> QED
    BY <2>1, <2>2, <2>3, <2>4 DEF Next
<1> QED
  BY <1>1, <1>2, PTL DEF Spec

(* Expressions, roots, set_ and queue_ keep their types. *)
THEOREM TypeCorrect == Spec => []TypeOK
<1>1. IInv => TypeOK
  BY DEF IInv
<1> QED
  BY Inductive, <1>1, PTL

(* find has at most one answer, and shrink at most one entry to erase,      *)
(* whatever the order of the hash table.                                    *)
THEOREM OneLivePerFormHolds == Spec => []OneLivePerForm
<1>1. IInv => OneLivePerForm
  BY DEF IInv
<1> QED
  BY Inductive, <1>1, PTL

(* set_ and queue_ hold the same live expressions: shrink, which erases by  *)
(* equality, erases the front of the queue and nothing else.                *)
THEOREM SetIsQueueHolds == Spec => []SetIsQueue
<1>1. IInv => SetIsQueue
  BY DEF IInv
<1> QED
  BY Inductive, <1>1, PTL

(* The expired references that can only be swept stay few: set_ never       *)
(* outgrows the threshold at which shrink sweeps it.                        *)
THEOREM BoundedHolds == Spec => []Bounded
<1>1. IInv => Bounded
  BY DEF IInv, QueueInv, SetBounded, Bounded
<1> QED
  BY Inductive, <1>1, PTL

(* A live expression is built a second time only after CacheSize others     *)
(* pushed it out of the cache.                                              *)
THEOREM SharedUnlessEvictedHolds == Spec => []SharedUnlessEvicted
<1>1. IInv => SharedUnlessEvicted
  <2> SUFFICES ASSUME IInv, NEW i \in Live, NEW j \in Live, i < j, exprs[i] = exprs[j]
               PROVE  i \notin Range(queue) /\ j - i >= CacheSize
    BY DEF SharedUnlessEvicted
  <2>1. j - i >= CacheSize
    BY DEF IInv, Apart
  <2>2. /\ i \in 1..Len(exprs) /\ j \in 1..Len(exprs) /\ Len(exprs) \in Nat
        /\ Range(queue) = (Len(exprs) - Len(queue) + 1)..Len(exprs) /\ Len(queue) \in Nat
    BY QueueRange DEF IInv, TypeOK, QueueInv, Live, Created
  <2>3. ASSUME i \in Range(queue) PROVE FALSE
    <3>1. j \in Range(queue)
      BY <2>2, <2>3
    <3>2. i \in set \cap Live /\ j \in set \cap Live
      BY <2>3, <3>1 DEF IInv, SetIsQueue
    <3> QED
      BY <2>2, <3>2 DEF IInv, OneLivePerForm
  <2> QED
    BY <2>1, <2>3
<1> QED
  BY Inductive, <1>1, PTL
=============================================================================
