---------------------------- MODULE EflagsProofs ----------------------------
(***************************************************************************)
(* The lazy EFLAGS register, for every set of instructions: which flags    *)
(* are symbolic and where the condition of a jump comes from, however      *)
(* often the ring of operations has gone round.                            *)
(***************************************************************************)
EXTENDS Eflags, TLAPS

(* The last twelve operations are in the ring, each in the slot of its      *)
(* number, and what is recorded for a kind is its last operation.           *)
InRing(n) == n > sets - CcOpLast

RingInv ==
    /\ start = sets % CcOpLast
    /\ \A n \in 1..sets : InRing(n) =>
          opKinds[n % CcOpLast] \in OpKind /\ operations[opKinds[n % CcOpLast]] >= n
    /\ \A k \in OpKind :
          /\ operations[k] <= sets
          /\ operations[k] # 0 /\ InRing(operations[k]) => opKinds[operations[k] % CcOpLast] = k

(* A symbolic flag was written by the operation noted, and no later one in  *)
(* the ring writes it or leaves it undefined.                               *)
WriterInv ==
    \A f \in Flag : writer[f] # Concrete =>
        /\ writer[f] <= sets
        /\ InRing(writer[f]) => f \in FlagsOf(opKinds[writer[f] % CcOpLast])
        /\ \A n \in 1..sets : InRing(n) /\ n > writer[f] =>
              f \notin FlagsOf(opKinds[n % CcOpLast])

IInv == TypeOK /\ ValidIsSymbolic /\ RingInv /\ WriterInv

-----------------------------------------------------------------------------
(* No operation writes a flag and leaves it undefined. *)
LEMMA KindFlags ==
    ASSUME NEW kind \in OpKind
    PROVE  /\ Affected(kind) \subseteq Flag /\ Undefined(kind) \subseteq Flag
           /\ Affected(kind) \cap Undefined(kind) = {}
           /\ FlagsOf(kind) = Affected(kind) \cup Undefined(kind)
BY DEF Affected, Undefined, FlagsOf, Flag, OpKind

(* The slot after start_ is that of the next operation, which pushes out    *)
(* the oldest of the ring and no other.                                     *)
LEMMA RingSlots ==
    ASSUME NEW s \in Nat
    PROVE  /\ ((s % CcOpLast) + 1) % CcOpLast = (s + 1) % CcOpLast
           /\ s % CcOpLast \in Slot /\ (s + 1) % CcOpLast \in Slot
           /\ \A k \in 1..s : k > s + 1 - CcOpLast =>
                 k % CcOpLast \in Slot /\ k % CcOpLast # (s + 1) % CcOpLast
BY DEF Slot, CcOpLast

(* set keeps the register in order. *)
LEMMA SetStep ==
    ASSUME IInv, NEW kind \in OpKind, Set(kind)
    PROVE  IInv'
<1> DEFINE n == sets + 1
           next == (start + 1) % CcOpLast
<1>1. /\ sets < MaxSets /\ sets' = n /\ start' = next
      /\ validSet' = (validSet \ Undefined(kind)) \cup Affected(kind)
      /\ operations' = [operations EXCEPT ![kind] = n]
      /\ opKinds' = [opKinds EXCEPT ![next] = kind]
      /\ writer' = [f \in Flag |-> IF f \in Affected(kind) THEN n
                                   ELSE IF f \in Undefined(kind) THEN Concrete
                                   ELSE writer[f]]
  BY DEF Set
<1>2. /\ sets \in 0..MaxSets /\ MaxSets \in Nat /\ n \in 1..MaxSets /\ start \in Slot /\ next \in Slot
      /\ operations \in [OpKind -> 0..MaxSets] /\ opKinds \in [Slot -> OpKind \cup {NoKind}]
      /\ writer \in [Flag -> 0..MaxSets]
  BY <1>1, EflagsAssumption DEF IInv, TypeOK, Slot, CcOpLast
<1>3. TypeOK'
  BY <1>1, <1>2, KindFlags DEF IInv, TypeOK, Concrete
<1>4. ValidIsSymbolic'
  BY <1>1, <1>2, KindFlags DEF IInv, ValidIsSymbolic, Concrete
<1> DEFINE slot == n % CcOpLast
<1>5. /\ next = slot /\ slot \in Slot
      /\ \A k \in 1..sets : InRing(k)' => InRing(k) /\ k % CcOpLast \in Slot /\ k % CcOpLast # slot
  <2>1. sets \in Nat /\ start = sets % CcOpLast
    BY <1>2 DEF IInv, RingInv
  <2>2. /\ ((sets % CcOpLast) + 1) % CcOpLast = (sets + 1) % CcOpLast
        /\ (sets + 1) % CcOpLast \in Slot
        /\ \A k \in 1..sets : k > sets + 1 - CcOpLast =>
              k % CcOpLast \in Slot /\ k % CcOpLast # (sets + 1) % CcOpLast
    BY <2>1, RingSlots
  <2>3. \A k \in 1..sets : InRing(k)' => k > sets + 1 - CcOpLast /\ InRing(k)
    BY <1>1, <2>1 DEF InRing, CcOpLast
  <2> QED
    BY <2>1, <2>2, <2>3
<1> HIDE DEF n, next, slot
<1>6. /\ opKinds'[slot] = kind /\ operations'[kind] = n
      /\ \A k \in 1..sets : InRing(k)' => opKinds'[k % CcOpLast] = opKinds[k % CcOpLast]
      /\ \A k \in OpKind : k # kind => operations'[k] = operations[k]
  BY <1>1, <1>2, <1>5
<1>7. RingInv'
  <2>1. start' = sets' % CcOpLast
    BY <1>1, <1>5 DEF slot
  <2>2. ASSUME NEW k \in 1..sets', InRing(k)'
        PROVE  opKinds'[k % CcOpLast] \in OpKind /\ operations'[opKinds'[k % CcOpLast]] >= k
    <3>1. CASE k = n
      BY <1>2, <1>6, <3>1 DEF slot
    <3>2. CASE k \in 1..sets
      <4>1. /\ opKinds'[k % CcOpLast] = opKinds[k % CcOpLast]
            /\ opKinds[k % CcOpLast] \in OpKind /\ operations[opKinds[k % CcOpLast]] >= k
        BY <1>5, <1>6, <2>2, <3>2 DEF IInv, RingInv
      <4>2. operations'[opKinds[k % CcOpLast]] \in {operations[opKinds[k % CcOpLast]], n}
        BY <1>6, <4>1
      <4> QED
        BY <1>2, <3>2, <4>1, <4>2 DEF n
    <3> QED
      BY <1>1, <1>2, <3>1, <3>2 DEF n
  <2>3. ASSUME NEW k \in OpKind
        PROVE  /\ operations'[k] <= sets'
               /\ operations'[k] # 0 /\ InRing(operations[k])' =>
                     opKinds'[operations'[k] % CcOpLast] = k
    <3>1. CASE k = kind
      BY <1>1, <1>2, <1>6, <3>1 DEF slot
    <3>2. CASE k # kind
      <4>1. operations'[k] = operations[k] /\ operations[k] \in 0..sets
        BY <1>2, <1>6, <3>2 DEF IInv, RingInv
      <4>2. operations'[k] <= sets'
        BY <1>1, <1>2, <4>1 DEF n
      <4>3. ASSUME operations'[k] # 0, InRing(operations[k])'
            PROVE  opKinds'[operations'[k] % CcOpLast] = k
        <5>1. operations[k] \in 1..sets
          BY <4>1, <4>3
        <5>2. \A m \in 1..sets : m = operations'[k] => (InRing(m)' <=> InRing(operations[k])')
          BY DEF InRing
        <5>3. /\ opKinds'[operations[k] % CcOpLast] = opKinds[operations[k] % CcOpLast]
              /\ InRing(operations[k])
          BY <1>5, <1>6, <4>1, <4>3, <5>1, <5>2
        <5> QED
          BY <4>1, <5>1, <5>3 DEF IInv, RingInv
      <4> QED
        BY <4>2, <4>3
    <3> QED
      BY <3>1, <3>2
  <2> QED
    BY <2>1, <2>2, <2>3 DEF RingInv
<1>8. WriterInv'
  <2> SUFFICES ASSUME NEW f \in Flag, writer'[f] # Concrete
               PROVE  /\ writer'[f] <= sets'
                      /\ InRing(writer[f])' => f \in FlagsOf(opKinds'[writer'[f] % CcOpLast])
                      /\ \A k \in 1..sets' : InRing(k)' /\ k > writer'[f] =>
                            f \notin FlagsOf(opKinds'[k % CcOpLast])
    BY DEF WriterInv
  <2>1. CASE f \in Affected(kind)
    <3>1. writer'[f] = n
      BY <1>1, <2>1
    <3> QED
      BY <1>1, <1>2, <1>6, <2>1, <3>1, KindFlags DEF n, slot
  <2>2. CASE f \notin Affected(kind)
    <3>1. /\ f \notin FlagsOf(kind) /\ writer'[f] = writer[f] /\ writer[f] # Concrete
          /\ writer[f] \in 1..sets
          /\ InRing(writer[f]) => f \in FlagsOf(opKinds[writer[f] % CcOpLast])
          /\ \A k \in 1..sets : InRing(k) /\ k > writer[f] => f \notin FlagsOf(opKinds[k % CcOpLast])
      BY <1>1, <1>2, <2>2, KindFlags DEF IInv, WriterInv, Concrete
    <3>2. ASSUME InRing(writer[f])'
          PROVE  f \in FlagsOf(opKinds'[writer[f] % CcOpLast])
      <4>1. \A m \in 1..sets : m = writer[f] => InRing(m)'
        BY <3>1, <3>2 DEF InRing
      <4> QED
        BY <1>5, <1>6, <3>1, <4>1
    <3>3. ASSUME NEW k \in 1..sets', InRing(k)', k > writer[f]
          PROVE  f \notin FlagsOf(opKinds'[k % CcOpLast])
      <4>1. k = n \/ k \in 1..sets
        BY <1>1, <1>2 DEF n
      <4>2. CASE k = n
        BY <1>6, <3>1, <4>2 DEF slot
      <4>3. CASE k \in 1..sets
        BY <1>5, <1>6, <3>1, <3>3, <4>3
      <4> QED
        BY <4>1, <4>2, <4>3
    <3>4. writer'[f] <= sets'
      BY <1>1, <1>2, <3>1 DEF n
    <3> QED
      BY <3>1, <3>2, <3>3, <3>4
  <2> QED
    BY <2>1, <2>2
<1> QED
  BY <1>3, <1>4, <1>7, <1>8 DEF IInv

(* invalidate forgets writers and nothing else. *)
LEMMA InvalidateStep ==
    ASSUME IInv, NEW kind \in OpKind, Invalidate(kind)
    PROVE  IInv'
<1>1. TypeOK'
  BY EflagsAssumption DEF IInv, TypeOK, Invalidate, Concrete
<1>2. ValidIsSymbolic'
  BY KindFlags DEF IInv, ValidIsSymbolic, Invalidate, Concrete
<1>3. RingInv' /\ WriterInv'
  BY DEF IInv, RingInv, WriterInv, InRing, Invalidate, Concrete
<1> QED
  BY <1>1, <1>2, <1>3 DEF IInv

(* All of it holds at the start and after every step. *)
THEOREM Inductive == Spec => []IInv
<1>1. Init => IInv
  <2> SUFFICES ASSUME Init PROVE IInv
    OBVIOUS
  <2>1. TypeOK
    BY EflagsAssumption DEF Init, TypeOK, Slot, CcOpLast, Concrete
  <2>2. ValidIsSymbolic /\ WriterInv
    BY DEF Init, ValidIsSymbolic, WriterInv
  <2>3. RingInv
    BY DEF Init, RingInv, InRing, Slot, CcOpLast
  <2> QED
    BY <2>1, <2>2, <2>3 DEF IInv
<1>2. IInv /\ [Next]_vars => IInv'
  <2> SUFFICES ASSUME IInv, [Next]_vars PROVE IInv'
    OBVIOUS
  <2>1. ASSUME NEW kind \in SetKinds, Set(kind) PROVE IInv'
    BY <2>1, SetStep, EflagsAssumption
  <2>2. ASSUME NEW kind \in SetKinds, Invalidate(kind) PROVE IInv'
    BY <2>2, InvalidateStep, EflagsAssumption
  <2>3. CASE UNCHANGED vars
    BY <2>3 DEF vars, IInv, TypeOK, ValidIsSymbolic, RingInv, WriterInv, InRing
  <2> QED
    BY <2>1, <2>2, <2>3 DEF Next
<1> QED
  BY <1>1, <1>2, PTL DEF Spec

-----------------------------------------------------------------------------
(* The slots of the search: down to 0, then from 3 to 0, then down from 11. *)
LEMMA SearchGoesDown ==
    ASSUME start \in Slot, NEW i \in Slot
    PROVE  SearchSlot(i) = IF i <= start THEN start - i
                           ELSE IF i <= start + 4 THEN start + 4 - i
                           ELSE start + 16 - i
<1>1. 2^16 = 65536
  OBVIOUS
<1>2. start - i \in Int /\ start - i <= 11 /\ start - i >= -11
  BY DEF Slot, CcOpLast
<1> QED
  BY <1>1, <1>2 DEF SearchSlot, Slot, CcOpLast

(* The search of computeFlag ends at the last writer of a valid flag. *)
LEMMA ComputeFlagFinds ==
    ASSUME IInv, NEW f \in validSet, InReach(f)
    PROVE  ComputeFlag(f) = {<<f, writer[f]>>}
<1> DEFINE t == writer[f]
           d == sets - t
           stop == IF d <= start THEN d ELSE d + 4
           behind(i) == IF i <= start THEN i ELSE i - 4
<1>1. /\ f \in Flag /\ t # Concrete /\ t \in 1..sets /\ sets \in Nat
      /\ start = sets % CcOpLast /\ start \in Slot
      /\ operations \in [OpKind -> 0..MaxSets] /\ MaxSets \in Nat
  BY EflagsAssumption DEF IInv, TypeOK, ValidIsSymbolic, RingInv, WriterInv, Concrete
<1>2. d \in 0..11 /\ stop \in Slot /\ (d <= start \/ (start \in 3..6 /\ d <= 7))
  BY <1>1 DEF InReach, Slot, CcOpLast
<1>3. ASSUME NEW i \in Slot, i <= stop
      PROVE  /\ behind(i) \in 0..d /\ (behind(i) = d <=> i = stop)
             /\ SearchSlot(i) = (sets - behind(i)) % CcOpLast
  <2>1. behind(i) \in 0..d /\ (behind(i) = d <=> i = stop)
    BY <1>1, <1>2, <1>3 DEF Slot, CcOpLast
  <2>2. SearchSlot(i) = IF i <= start THEN start - i
                        ELSE IF i <= start + 4 THEN start + 4 - i ELSE start + 16 - i
    BY <1>1, SearchGoesDown
  <2> QED
    BY <1>1, <1>2, <1>3, <2>1, <2>2 DEF Slot, CcOpLast
<1>4. \A m \in t..sets : m \in 1..sets /\ InRing(m)
  BY <1>1, <1>2 DEF InRing, CcOpLast
<1>5. /\ f \in FlagsOf(opKinds[t % CcOpLast])
      /\ \A m \in t..sets : m # t => f \notin FlagsOf(opKinds[m % CcOpLast])
      /\ \A m \in t..sets : opKinds[m % CcOpLast] \in OpKind
  BY <1>1, <1>4 DEF IInv, WriterInv, RingInv
<1>6. operations[opKinds[t % CcOpLast]] = t
  <2> DEFINE o == operations[opKinds[t % CcOpLast]]
  <2>1. opKinds[t % CcOpLast] \in OpKind /\ o >= t /\ o <= sets /\ o \in Nat
    BY <1>1, <1>4, <1>5 DEF IInv, RingInv
  <2>2. o \in t..sets /\ o # 0
    BY <1>1, <2>1
  <2>3. opKinds[o % CcOpLast] = opKinds[t % CcOpLast]
    BY <1>4, <2>1, <2>2 DEF IInv, RingInv
  <2> QED
    BY <1>5, <2>2, <2>3
<1>7. NoKind \notin OpKind
  BY DEF NoKind, OpKind
<1>8. SearchSlot(stop) = t % CcOpLast
  <2>1. stop <= stop /\ sets - d = t
    BY <1>1, <1>2
  <2>2. behind(stop) = d /\ SearchSlot(stop) = (sets - behind(stop)) % CcOpLast
    BY <1>2, <1>3, <2>1
  <2> QED
    BY <2>1, <2>2
<1>9. Hit(f, stop)
  BY <1>1, <1>5, <1>6, <1>8 DEF Hit, SlotFlags, Concrete
<1>10. ASSUME NEW i \in Slot, Hit(f, i) PROVE stop <= i
  <2> SUFFICES ASSUME i < stop PROVE FALSE
    BY <1>2 DEF Slot, CcOpLast
  <2> DEFINE m == sets - behind(i)
  <2>1. behind(i) \in 0..d /\ behind(i) # d /\ SearchSlot(i) = m % CcOpLast
    BY <1>2, <1>3 DEF Slot, CcOpLast
  <2>2. m \in t..sets /\ m # t
    BY <1>1, <2>1
  <2> HIDE DEF m
  <2>3. opKinds[m % CcOpLast] \in OpKind /\ f \notin FlagsOf(opKinds[m % CcOpLast])
    BY <1>5, <2>2
  <2> QED
    BY <1>7, <1>10, <2>1, <2>3 DEF Hit, SlotFlags
<1> HIDE DEF t, d, stop, behind
<1>11. {j \in {i \in Slot : Hit(f, i)} : \A k \in {i \in Slot : Hit(f, i)} : j <= k} = {stop}
  <2>1. \A j \in Slot : Hit(f, j) /\ j <= stop => j = stop
    BY <1>2, <1>10 DEF Slot
  <2> QED
    BY <1>2, <1>9, <1>10, <2>1
<1>12. ComputeFlag(f) = {<<f, IF opKinds[SearchSlot(stop)] = NoKind THEN Garbage
                              ELSE operations[opKinds[SearchSlot(stop)]]>>}
  BY <1>11 DEF ComputeFlag
<1>13. opKinds[t % CcOpLast] \in OpKind
  <2>1. t \in t..sets
    BY <1>1
  <2> QED
    BY <1>5, <2>1
<1> QED
  BY <1>6, <1>7, <1>8, <1>12, <1>13 DEF t

(* A flag the last operation of the ring wrote, if valid, is its. *)
LEMMA FastIsLast ==
    ASSUME IInv, NEW f \in validSet, f \in FlagsOf(opKinds[start])
    PROVE  writer[f] = operations[opKinds[start]]
<1>1. /\ f \in Flag /\ writer[f] # Concrete /\ writer[f] \in 1..sets /\ sets \in Nat
      /\ start = sets % CcOpLast
  BY DEF IInv, TypeOK, ValidIsSymbolic, RingInv, WriterInv, Concrete
<1>2. sets \in 1..sets /\ InRing(sets)
  BY <1>1 DEF InRing, CcOpLast
<1>3. writer[f] = sets
  BY <1>1, <1>2 DEF IInv, WriterInv
<1>4. /\ opKinds[start] \in OpKind /\ operations[opKinds[start]] >= sets
      /\ operations[opKinds[start]] <= sets /\ operations[opKinds[start]] \in Nat
  BY <1>1, <1>2, EflagsAssumption DEF IInv, TypeOK, RingInv
<1> QED
  BY <1>1, <1>3, <1>4

(* The variables of Eflags keep their types; the slots stay inside the ring. *)
THEOREM TypeCorrect == Spec => []TypeOK
<1>1. IInv => TypeOK
  BY DEF IInv
<1> QED
  BY Inductive, <1>1, PTL

(* valid_set_ has a flag exactly if an operation with a symbolic operand    *)
(* wrote it last, for any number of instructions.                           *)
THEOREM ValidIsSymbolicHolds == Spec => []ValidIsSymbolic
<1>1. IInv => ValidIsSymbolic
  BY DEF IInv
<1> QED
  BY Inductive, <1>1, PTL

(* computeJcc builds a condition, other than that of JZ, from the           *)
(* operations that wrote the tested flags last, fast or slow, if they are   *)
(* within reach of the search, for any number of operations.                *)
THEOREM JccFromLastWritersHolds == "Z" \notin Jcc => (Spec => []JccFromLastWriters)
<1> SUFFICES ASSUME "Z" \notin Jcc PROVE Spec => []JccFromLastWriters
  OBVIOUS
<1>1. IInv => JccFromLastWriters
  <2> SUFFICES ASSUME IInv, NEW jcc \in Jcc, IsValid(jcc),
                      \A f \in FlagsFromJcc(jcc) : InReach(f)
               PROVE  ComputeJcc(jcc) = {<<f, writer[f]>> : f \in FlagsFromJcc(jcc)}
    BY DEF JccFromLastWriters
  <2>1. jcc \in JccKind \ {"Z"} /\ FlagsFromJcc(jcc) \subseteq validSet
    BY EflagsAssumption DEF IsValid
  <2>2. CASE IsFast(jcc)
    <3>1. FlagsFromJcc(jcc) \subseteq FlagsOf(opKinds[start])
      BY <2>1, <2>2 DEF IsFast, FlagsFromJcc, FlagsOf, Affected, JccKind, Flag
    <3>2. \A f \in FlagsFromJcc(jcc) : writer[f] = operations[opKinds[start]]
      BY <2>1, <3>1, FastIsLast
    <3> QED
      BY <2>2, <3>2 DEF ComputeJcc, ComputeFastJcc
  <2>3. CASE ~ IsFast(jcc)
    <3>1. \A f \in FlagsFromJcc(jcc) : ComputeFlag(f) = {<<f, writer[f]>>}
      BY <2>1, ComputeFlagFinds
    <3>2. ComputeSlowJcc(jcc) = {<<f, writer[f]>> : f \in FlagsFromJcc(jcc)}
      BY <2>1, <3>1 DEF ComputeSlowJcc, FlagsFromJcc, JccKind
    <3> QED
      BY <2>3, <3>2 DEF ComputeJcc
  <2> QED
    BY <2>2, <2>3
<1> QED
  BY Inductive, <1>1, PTL
=============================================================================
