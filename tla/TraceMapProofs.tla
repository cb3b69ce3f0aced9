--------------------------- MODULE TraceMapProofs ---------------------------
(***************************************************************************)
(* The coverage map of the pintool, for every map size and every hash: the *)
(* counters are those of this run, the file is never behind the memory     *)
(* outside commit, and a path that went through the map once is never      *)
(* solved again.                                                           *)
(***************************************************************************)
EXTENDS TraceMap, FiniteSetTheorems, SequenceTheorems, TLAPS

(* The counters without the inverse branch that is counted during commit *)
Virgin ==
    IF at = "commit" /\ newEdge
    THEN [virginMap EXCEPT ![Idx(InverseBranch(branch))] = Decr(@)]
    ELSE virginMap

(* What the branches of path p leave in virgin_map_, visited_ and prev_loc_ *)
Count(p, i) == Hits(p, Len(p), i) % 2^CharBit
Visited(p) ==
    {HashPc[p[n]] : n \in {k \in 1..Len(p) : Hits(p, k - 1, IndexAt(p, k)) % 2^CharBit = 0}}
LastLoc(p) == PrevLoc(p, Len(p) + 1)

(* The memory of a run is a function of the branches it went through. *)
RunInv ==
    at # "down" =>
        /\ \A i \in Index : Virgin[i] = Count(path, i)
        /\ visited = Visited(path)
        /\ at \in {"run", "solve"} => prevLoc = LastLoc(path)
        /\ at = "commit" =>
              \E p \in Seq(Branch) : path = Append(p, branch) /\ prevLoc = LastLoc(p)

(* The maps in memory are those the next run will find. *)
DiskInv ==
    /\ at \in {"run", "solve"} => [trace |-> traceMap, context |-> contextMap] = Import(file)
    /\ at = "commit" => file = Torn

(* A run that went through p finds nothing new at branch b. *)
Known(p, b, maps) ==
    LET i == Xor(LastLoc(p) \div 2, HashPc[b])
    IN  /\ Bits(Incr(Count(p, i))) \subseteq maps.trace[i]
        /\ Cardinality(Bits(Count(p, i))) <= 1 =>
              \A v \in Visited(p) : ContextHash[<<v, HashPc[b]>>] \in maps.context

AllKnown(paths, maps) ==
    \A p \in Seq(Branch), b \in Branch : Append(p, b) \in paths => Known(p, b, maps)

(* The maps know all paths seen, and the one being committed. *)
SeenInv ==
    /\ IF at = "down"
       THEN Import(file) # Default => AllKnown(seen, Import(file))
       ELSE AllKnown(seen, [trace |-> traceMap, context |-> contextMap])
    /\ at = "commit" =>
          AllKnown({path}, [trace |-> traceMap, context |-> contextMap])

IInv == TypeOK /\ RunInv /\ DiskInv /\ SeenInv /\ RerunQuiet

-----------------------------------------------------------------------------
(* Arithmetic of a byte that overflows *)
LEMMA ModRest ==
    ASSUME NEW m \in Nat \ {0}, NEW q \in Nat, NEW a \in 0..m - 1
    PROVE  (m * q + a) % m = a
OBVIOUS

LEMMA DivMod ==
    ASSUME NEW m \in Int, NEW h \in Int, m > 0
    PROVE  h = m * (h \div m) + (h % m)
OBVIOUS

LEMMA ModIncr ==
    ASSUME NEW m \in Nat \ {0}, NEW h \in Nat
    PROVE  ((h % m) + 1) % m = (h + 1) % m
<1>1. PICK q \in Nat, r \in 0..m - 1 : h = m * q + r /\ h % m = r
  <2>1. h \div m \in Nat /\ h % m \in 0..m - 1
    OBVIOUS
  <2>2. m \in Int /\ h \in Int /\ m > 0
    OBVIOUS
  <2>3. h = m * (h \div m) + (h % m)
    BY <2>2, DivMod
  <2> QED
    BY <2>1, <2>3
<1>2. CASE r + 1 < m
  <2>1. r + 1 \in 0..m - 1 /\ h + 1 = m * q + (r + 1) /\ r + 1 = m * 0 + (r + 1)
    BY <1>1, <1>2
  <2>2. (m * q + (r + 1)) % m = r + 1 /\ (m * 0 + (r + 1)) % m = r + 1
    BY <2>1, ModRest
  <2> QED
    BY <1>1, <2>1, <2>2
<1>3. CASE r + 1 = m
  <2>1. h + 1 = m * (q + 1) + 0 /\ r + 1 = m * 1 + 0 /\ 0 \in 0..m - 1 /\ q + 1 \in Nat
    BY <1>1, <1>3
  <2>2. (m * (q + 1) + 0) % m = 0 /\ (m * 1 + 0) % m = 0
    BY <2>1, ModRest
  <2> QED
    BY <1>1, <2>1, <2>2
<1> QED
  BY <1>2, <1>3

LEMMA ModStep ==
    ASSUME NEW m \in Nat \ {0}, NEW x \in 0..m - 1
    PROVE  /\ (x + 1) % m \in 0..m - 1
           /\ (x + m - 1) % m \in 0..m - 1
           /\ (((x + 1) % m) + m - 1) % m = x
OBVIOUS

(* Counting down takes a count back, whether it overflowed or not. *)
LEMMA CounterFacts ==
    ASSUME NEW x \in Counter
    PROVE  Incr(x) \in Counter /\ Decr(x) \in Counter /\ Decr(Incr(x)) = x
<1> DEFINE m == 2^CharBit
<1>1. m \in Nat \ {0} /\ x \in 0..m - 1
  BY CharAssumption DEF Counter
<1>2. Incr(x) = (x + 1) % m /\ \A y : Decr(y) = (y + m - 1) % m
  BY DEF Incr, Decr
<1>3. Counter = 0..m - 1
  BY DEF Counter
<1> HIDE DEF m
<1> QED
  BY <1>1, <1>2, <1>3, ModStep

(* Indexes stay inside the map. *)
LEMMA IndexFacts ==
    ASSUME NEW a \in Index, NEW b \in Branch
    PROVE  /\ HashPc[b] \in Index
           /\ InverseBranch(b) \in Branch
           /\ Xor(a \div 2, HashPc[b]) \in Index
<1>1. HashPc[b] \in Index /\ InverseBranch(b) \in Branch
  BY HashAssumption DEF Branch, InverseBranch
<1>2. a \div 2 \in Index
  BY BoundsAssumption DEF Index
<1>3. \E c \in Index : IsXor(a \div 2, HashPc[b], c)
  BY <1>1, <1>2, XorAssumption
<1> QED
  BY <1>1, <1>3 DEF Xor

(* Counts of branches are numbers. *)
LEMMA HitsNat ==
    ASSUME NEW p \in Seq(Branch), NEW n \in Nat, NEW i
    PROVE  Hits(p, n, i) \in Nat
<1>1. IsFiniteSet(1..n)
  BY FS_Interval
<1>2. IsFiniteSet({k \in 1..n : IndexAt(p, k) = i})
  BY <1>1, FS_Subset
<1> QED
  BY <1>2, FS_CardinalityType DEF Hits

(* One branch more *)
LEMMA AppendPath ==
    ASSUME NEW p \in Seq(Branch), NEW b \in Branch
    PROVE  LET i == Xor(LastLoc(p) \div 2, HashPc[b])
           IN  /\ \A j : Count(Append(p, b), j) = IF j = i THEN Incr(Count(p, j)) ELSE Count(p, j)
               /\ Visited(Append(p, b)) = IF Count(p, i) = 0 THEN Visited(p) \cup {HashPc[b]}
                                                             ELSE Visited(p)
               /\ LastLoc(Append(p, b)) = HashPc[b]
<1> DEFINE r == Append(p, b)
           i == Xor(LastLoc(p) \div 2, HashPc[b])
           N == Len(p)
           m == 2^CharBit
<1>1. N \in Nat /\ r \in Seq(Branch) /\ Len(r) = N + 1 /\ r[N + 1] = b
      /\ \A n \in 1..N : r[n] = p[n]
  BY AppendProperties
<1>2. \A n \in 1..N : IndexAt(r, n) = IndexAt(p, n)
  BY <1>1 DEF IndexAt, PrevLoc
<1>3. IndexAt(r, N + 1) = i /\ LastLoc(r) = HashPc[b]
  BY <1>1 DEF IndexAt, PrevLoc, LastLoc
<1> HIDE DEF i, r, N
<1>4. ASSUME NEW n \in 0..N, NEW j PROVE Hits(r, n, j) = Hits(p, n, j)
  <2>1. {k \in 1..n : IndexAt(r, k) = j} = {k \in 1..n : IndexAt(p, k) = j}
    BY <1>1, <1>2
  <2> QED
    BY <2>1 DEF Hits
<1>5. ASSUME NEW j
      PROVE  Hits(r, N + 1, j) = IF j = i THEN Hits(p, N, j) + 1 ELSE Hits(p, N, j)
  <2> DEFINE S == {k \in 1..N : IndexAt(p, k) = j}
  <2>1. IsFiniteSet(S) /\ N + 1 \notin S
    <3>1. IsFiniteSet(1..N)
      BY <1>1, FS_Interval
    <3> QED
      BY <1>1, <3>1, FS_Subset
  <2>2. {k \in 1..N + 1 : IndexAt(r, k) = j} = IF j = i THEN S \cup {N + 1} ELSE S
    <3>1. \A k : k \in 1..N + 1 <=> k \in 1..N \/ k = N + 1
      BY <1>1
    <3> QED
      BY <1>2, <1>3, <3>1
  <2>3. Cardinality(S \cup {N + 1}) = Cardinality(S) + 1
    BY <2>1, FS_AddElement
  <2> QED
    BY <2>2, <2>3 DEF Hits
<1>6. ASSUME NEW j
      PROVE  Count(r, j) = IF j = i THEN Incr(Count(p, j)) ELSE Count(p, j)
  <2>1. Hits(p, N, j) \in Nat /\ m \in Nat \ {0}
    BY <1>1, HitsNat, CharAssumption
  <2>2. Count(p, j) = Hits(p, N, j) % m /\ Count(r, j) = Hits(r, N + 1, j) % m
    BY <1>1 DEF Count, N
  <2>3. Incr(Count(p, j)) = ((Hits(p, N, j) % m) + 1) % m
    BY <2>2 DEF Incr
  <2> HIDE DEF m
  <2> QED
    BY <1>5, <2>1, <2>2, <2>3, ModIncr
<1>7. Visited(r) = IF Count(p, i) = 0 THEN Visited(p) \cup {HashPc[b]} ELSE Visited(p)
  <2> DEFINE Old == {k \in 1..N : Hits(p, k - 1, IndexAt(p, k)) % m = 0}
             New == {k \in 1..N + 1 : Hits(r, k - 1, IndexAt(r, k)) % m = 0}
  <2>1. \A k \in 1..N : Hits(r, k - 1, IndexAt(r, k)) = Hits(p, k - 1, IndexAt(p, k))
    BY <1>1, <1>2, <1>4
  <2>2. Hits(r, N, IndexAt(r, N + 1)) % m = Count(p, i)
    <3>1. Hits(r, N, i) = Hits(p, N, i)
      BY <1>1, <1>4
    <3> QED
      BY <1>3, <3>1 DEF Count, N
  <2>3. \A k : k \in 1..N + 1 <=> k \in 1..N \/ k = N + 1
    BY <1>1
  <2>4. New = IF Count(p, i) = 0 THEN Old \cup {N + 1} ELSE Old
    <3>1. (N + 1) - 1 = N
      BY <1>1
    <3> QED
      BY <2>1, <2>2, <2>3, <3>1
  <2>5. Visited(p) = {HashPc[p[n]] : n \in Old} /\ Visited(r) = {HashPc[r[n]] : n \in New}
    BY <1>1 DEF Visited, N
  <2>6. \A n \in Old : r[n] = p[n]
    BY <1>1
  <2> HIDE DEF Old, New
  <2> QED
    BY <1>1, <2>4, <2>5, <2>6
<1> QED
  BY <1>3, <1>6, <1>7 DEF i, r

-----------------------------------------------------------------------------
(* A step keeps the types. *)
LEMMA TypeStep ==
    ASSUME TypeOK, [Next]_vars
    PROVE  TypeOK'
<1>1. ASSUME Start PROVE TypeOK'
  <2>1. Import(file) \in Maps
    BY BoundsAssumption DEF TypeOK, Import, Default, EmptyTrace, Maps
  <2>2. 0 \in Index /\ 0 \in Counter
    BY BoundsAssumption, CharAssumption DEF TypeOK, Index, Counter
  <2>3. runs' \in 0..MaxRuns
    BY <1>1, BoundsAssumption DEF TypeOK, Start
  <2>4. seen' \subseteq Seq(Branch) /\ path' \in Seq(Branch)
    BY <1>1 DEF TypeOK, Start
  <2> QED
    BY <1>1, <2>1, <2>2, <2>3, <2>4 DEF TypeOK, Start, Maps
<1>2. ASSUME NEW b \in Branch, IsInterestingBranch(b) PROVE TypeOK'
  <2> DEFINE i == Idx(b)
             inv == Idx(InverseBranch(b))
             virgin == [virginMap EXCEPT ![i] = Incr(@)]
  <2>1. HashPc[b] \in Index /\ i \in Index /\ inv \in Index
    BY IndexFacts DEF TypeOK, Idx, GetIndex
  <2>2. virgin \in [Index -> Counter] /\ [virgin EXCEPT ![inv] = Incr(@)] \in [Index -> Counter]
    BY <2>1, CounterFacts DEF TypeOK
  <2>3. virginMap' \in [Index -> Counter]
    BY <1>2, <2>2 DEF IsInterestingBranch
  <2>4. Mark(i, inv, virgin) \in [Index -> SUBSET (0..CharBit - 1)]
    BY DEF Mark, TypeOK, Bits
  <2>5. traceMap' \in [Index -> SUBSET (0..CharBit - 1)]
    BY <1>2, <2>4 DEF IsInterestingBranch, TypeOK
  <2>6. Contexts(HashPc[b], virginMap[i]) \subseteq ContextBit
    BY <2>1, HashAssumption DEF Contexts, TypeOK
  <2>7. path' \in Seq(Branch)
    BY <1>2, AppendProperties DEF IsInterestingBranch, TypeOK
  <2>8. /\ contextMap' = contextMap \cup Contexts(HashPc[b], virginMap[i])
        /\ visited' \subseteq visited \cup {HashPc[b]}
        /\ prevLoc' \in {prevLoc, HashPc[b]}
        /\ file' \in {file, Torn}
        /\ at' \in {at, "commit"}
        /\ branch' = b
        /\ newEdge' \in BOOLEAN
        /\ seen' \subseteq seen \cup {path'}
        /\ runs' = runs
    BY <1>2 DEF IsInterestingBranch
  <2> QED
    BY <2>1, <2>3, <2>5, <2>6, <2>7, <2>8 DEF TypeOK
<1>3. ASSUME Commit PROVE TypeOK'
  <2>1. HashPc[branch] \in Index /\ Idx(InverseBranch(branch)) \in Index
    BY IndexFacts DEF TypeOK, Idx, GetIndex
  <2>2. virginMap' \in [Index -> Counter]
    BY <1>3, <2>1, CounterFacts DEF Commit, TypeOK
  <2>3. Saved \in Maps
    BY DEF Saved, Maps, TypeOK
  <2> QED
    BY <1>3, <2>1, <2>2, <2>3 DEF Commit, TypeOK
<1>4. ASSUME Solved PROVE TypeOK'
  BY <1>4 DEF Solved, memory, TypeOK
<1>5. ASSUME Stop PROVE TypeOK'
  BY <1>5 DEF Stop, memory, TypeOK
<1>6. CASE UNCHANGED vars
  BY <1>6 DEF vars, TypeOK
<1> QED
  BY <1>1, <1>2, <1>3, <1>4, <1>5, <1>6 DEF Next

(* What isInterestingBranch does, in terms of the path: the branch is       *)
(* worth solving unless the path with it is known.                          *)
LEMMA BranchStep ==
    ASSUME TypeOK, RunInv, NEW b \in Branch, IsInterestingBranch(b)
    PROVE  /\ path' = Append(path, b) /\ at = "run" /\ branch' = b
           /\ prevLoc = LastLoc(path)
           /\ \A j \in Index : Virgin'[j] = Count(path', j)
           /\ visited' = Visited(path')
           /\ Known(path, b, [trace |-> traceMap', context |-> contextMap'])
           /\ \A j \in Index : traceMap[j] \subseteq traceMap'[j]
           /\ contextMap \subseteq contextMap'
           /\ \/ at' = "commit" /\ file' = Torn /\ seen' = seen /\ prevLoc' = prevLoc
                 /\ ~ Known(path, b, [trace |-> traceMap, context |-> contextMap])
              \/ at' = "run" /\ file' = file /\ seen' = seen \cup {path'}
                 /\ traceMap' = traceMap /\ contextMap' = contextMap /\ prevLoc' = HashPc[b]
<1> DEFINE h == HashPc[b]
           i == Idx(b)
           inv == Idx(InverseBranch(b))
           virgin == [virginMap EXCEPT ![i] = Incr(@)]
           edge == ~ (Bits(virgin[i]) \subseteq traceMap[i])
           contexts == Contexts(h, virginMap[i])
<1>1. /\ at = "run" /\ path' = Append(path, b) /\ branch' = b /\ newEdge' = edge
      /\ contextMap' = contextMap \cup contexts
      /\ visited' = IF virginMap[i] = 0 THEN visited \cup {h} ELSE visited
      /\ edge => traceMap' = Mark(i, inv, virgin) /\ virginMap' = [virgin EXCEPT ![inv] = Incr(@)]
      /\ ~edge => virginMap' = virgin /\ traceMap' = traceMap
      /\ edge \/ ~ (contexts \subseteq contextMap) =>
            at' = "commit" /\ file' = Torn /\ prevLoc' = prevLoc /\ seen' = seen
      /\ ~ (edge \/ ~ (contexts \subseteq contextMap)) =>
            prevLoc' = h /\ seen' = seen \cup {path'} /\ at' = at /\ file' = file
  BY DEF IsInterestingBranch
<1>2. /\ h \in Index /\ i \in Index /\ inv \in Index /\ prevLoc \in Index
      /\ virginMap \in [Index -> Counter]
      /\ traceMap \in [Index -> SUBSET (0..CharBit - 1)]
      /\ path \in Seq(Branch)
  BY IndexFacts DEF TypeOK, Idx, GetIndex
<1>3. /\ prevLoc = LastLoc(path) /\ i = Xor(LastLoc(path) \div 2, h)
      /\ \A j \in Index : virginMap[j] = Count(path, j)
      /\ visited = Visited(path)
  BY <1>1 DEF RunInv, Virgin, Idx, GetIndex
<1>4. virgin \in [Index -> Counter] /\ virgin[i] = Incr(Count(path, i))
      /\ \A j \in Index : virgin[j] = Count(Append(path, b), j)
  <2>1. \A j : Count(Append(path, b), j) = IF j = i THEN Incr(Count(path, j)) ELSE Count(path, j)
    BY <1>2, <1>3, AppendPath
  <2> QED
    BY <1>2, <1>3, <2>1, CounterFacts
<1>5. Virgin' = virgin
  <2>1. CASE edge
    <3>1. edge => at' = "commit" /\ newEdge' = TRUE /\ prevLoc' = prevLoc
      BY <1>1
    <3>2. Idx(InverseBranch(branch))' = inv
      BY <1>1, <2>1, <3>1 DEF Idx, GetIndex
    <3>3. Virgin' = [virginMap' EXCEPT ![inv] = Decr(@)]
      BY <2>1, <3>1, <3>2 DEF Virgin
    <3>4. virginMap' = [virgin EXCEPT ![inv] = Incr(@)]
      BY <1>1, <2>1
    <3> HIDE DEF virgin, inv, edge
    <3> QED
      BY <1>2, <1>4, <3>3, <3>4, CounterFacts
  <2>2. CASE ~edge
    BY <1>1, <2>2 DEF Virgin
  <2> QED
    BY <2>1, <2>2
<1>6. visited' = Visited(path')
  <2>1. Visited(Append(path, b)) = IF Count(path, i) = 0 THEN Visited(path) \cup {h} ELSE Visited(path)
    BY <1>2, <1>3, AppendPath
  <2> QED
    BY <1>1, <1>2, <1>3, <2>1
<1>7. Known(path, b, [trace |-> traceMap, context |-> contextMap])
        <=> ~edge /\ contexts \subseteq contextMap
  <2>1. contexts = IF Cardinality(Bits(Count(path, i))) <= 1
                   THEN {ContextHash[<<v, h>>] : v \in Visited(path)} ELSE {}
    BY <1>2, <1>3 DEF Contexts
  <2>2. contexts \subseteq contextMap <=>
          (Cardinality(Bits(Count(path, i))) <= 1 =>
              \A v \in Visited(path) : ContextHash[<<v, h>>] \in contextMap)
    BY <2>1
  <2> HIDE DEF contexts, i
  <2> QED
    BY <1>3, <1>4, <2>2 DEF Known
<1>8. /\ \A j \in Index : traceMap[j] \subseteq traceMap'[j]
      /\ Bits(virgin[i]) \subseteq traceMap'[i]
  BY <1>1, <1>2 DEF Mark
<1>9. Known(path, b, [trace |-> traceMap', context |-> contextMap'])
  BY <1>1, <1>2, <1>3, <1>4, <1>8 DEF Known, Contexts
<1> QED
  BY <1>1, <1>3, <1>4, <1>5, <1>6, <1>7, <1>8, <1>9

(* The memory of a run stays a function of its path. *)
LEMMA RunStep ==
    ASSUME TypeOK, RunInv, [Next]_vars
    PROVE  RunInv'
<1>1. ASSUME Start PROVE RunInv'
  <2>1. path' = <<>> /\ Len(path') = 0
    BY <1>1 DEF Start
  <2>2. \A i : Count(path', i) = 0
    <3>1. \A i : Hits(path', 0, i) = 0
      BY FS_EmptySet DEF Hits
    <3>2. 0 % 2^CharBit = 0
      BY CharAssumption
    <3> QED
      BY <2>1, <3>1, <3>2 DEF Count
  <2>3. Visited(path') = {} /\ LastLoc(path') = 0
    BY <2>1 DEF Visited, LastLoc, PrevLoc
  <2>4. at' = "run" /\ virginMap' = [i \in Index |-> 0] /\ visited' = {} /\ prevLoc' = 0
    BY <1>1 DEF Start
  <2> QED
    BY <2>2, <2>3, <2>4 DEF RunInv, Virgin
<1>2. ASSUME NEW b \in Branch, IsInterestingBranch(b) PROVE RunInv'
  <2>1. path \in Seq(Branch) /\ LastLoc(path') = HashPc[b]
    <3>1. path \in Seq(Branch) /\ path' = Append(path, b)
      BY <1>2, BranchStep DEF TypeOK
    <3> QED
      BY <3>1, AppendPath
  <2> QED
    BY <1>2, <2>1, BranchStep DEF RunInv
<1>3. ASSUME Commit PROVE RunInv'
  <2>1. Virgin' = Virgin
    BY <1>3 DEF Commit, Virgin
  <2>2. PICK p \in Seq(Branch) : path = Append(p, branch) /\ prevLoc = LastLoc(p)
    BY <1>3 DEF RunInv, Commit
  <2>3. LastLoc(path) = HashPc[branch]
    BY <2>2, AppendPath DEF TypeOK
  <2> QED
    BY <1>3, <2>1, <2>3 DEF Commit, RunInv
<1>4. ASSUME Solved PROVE RunInv'
  BY <1>4 DEF Solved, memory, RunInv, Virgin
<1>5. ASSUME Stop PROVE RunInv'
  BY <1>5 DEF Stop, RunInv
<1>6. CASE UNCHANGED vars
  <2>1. Virgin' = Virgin
    BY <1>6 DEF vars, Virgin, Idx, GetIndex
  <2> QED
    BY <1>6, <2>1 DEF vars, RunInv
<1> QED
  BY <1>1, <1>2, <1>3, <1>4, <1>5, <1>6 DEF Next

(* The file stays level with the maps. *)
LEMMA DiskStep ==
    ASSUME TypeOK, RunInv, DiskInv, [Next]_vars
    PROVE  DiskInv'
<1>1. ASSUME Start PROVE DiskInv'
  <2>1. Import(file) \in Maps
    BY DEF TypeOK, Import, Default, EmptyTrace, Maps
  <2>2. [trace |-> Import(file).trace, context |-> Import(file).context] = Import(file)
    BY <2>1 DEF Maps
  <2> QED
    BY <1>1, <2>2 DEF Start, DiskInv, Import
<1>2. ASSUME NEW b \in Branch, IsInterestingBranch(b) PROVE DiskInv'
  BY <1>2, BranchStep DEF DiskInv, Import
<1>3. ASSUME Commit PROVE DiskInv'
  <2>1. Saved \notin {NoFile, Torn}
    BY FileAssumption DEF Saved, Maps, TypeOK
  <2>2. file' = Saved /\ Saved' = Saved /\ at' = "solve"
    BY <1>3 DEF Commit, Saved
  <2> QED
    BY <2>1, <2>2 DEF DiskInv, Import, Saved
<1>4. ASSUME Solved PROVE DiskInv'
  BY <1>4 DEF Solved, memory, DiskInv, Import
<1>5. ASSUME Stop PROVE DiskInv'
  BY <1>5 DEF Stop, DiskInv
<1>6. CASE UNCHANGED vars
  BY <1>6 DEF vars, DiskInv, Import
<1> QED
  BY <1>1, <1>2, <1>3, <1>4, <1>5, <1>6 DEF Next

(* Larger maps know no less. *)
LEMMA KnownGrows ==
    ASSUME NEW p \in Seq(Branch), NEW b \in Branch, NEW old \in Maps, NEW new \in Maps,
           Known(p, b, old), \A j \in Index : old.trace[j] \subseteq new.trace[j],
           old.context \subseteq new.context
    PROVE  Known(p, b, new)
<1>1. LastLoc(p) \in Index
  <2>1. p = <<>> \/ Len(p) \in 1..Len(p)
    OBVIOUS
  <2>2. CASE p = <<>>
    <3>1. HashPc[b] \in Index
      BY HashAssumption DEF Branch
    <3>2. 0 \in Index
      BY <3>1, BoundsAssumption DEF Index
    <3> QED
      BY <2>2, <3>2 DEF LastLoc, PrevLoc
  <2>3. CASE Len(p) \in 1..Len(p)
    <3>1. LastLoc(p) = HashPc[p[Len(p)]] /\ p[Len(p)] \in Branch
      BY <2>3 DEF LastLoc, PrevLoc
    <3> QED
      BY <3>1, HashAssumption DEF Branch
  <2> QED
    BY <2>1, <2>2, <2>3
<1>2. Xor(LastLoc(p) \div 2, HashPc[b]) \in Index
  BY <1>1, IndexFacts
<1> QED
  BY <1>2 DEF Known

(* The maps keep knowing all paths seen. *)
LEMMA SeenStep ==
    ASSUME TypeOK, TypeOK', RunInv, DiskInv, SeenInv, RerunQuiet, [Next]_vars
    PROVE  SeenInv' /\ RerunQuiet'
<1> DEFINE maps == [trace |-> traceMap, context |-> contextMap]
<1>0. maps \in Maps /\ maps' \in Maps
  BY DEF TypeOK, Maps
<1>1. ASSUME Start PROVE SeenInv' /\ RerunQuiet'
  <2>1. Import(file) \in Maps
    BY DEF TypeOK, Import, Default, EmptyTrace, Maps
  <2>2. maps' = Import(file)
    BY <1>1, <2>1 DEF Start, Maps
  <2>3. at = "down" /\ at' = "run" /\ seen' = IF Import(file) = Default THEN {} ELSE seen
    BY <1>1 DEF Start
  <2>4. AllKnown(seen', maps')
    BY <2>2, <2>3 DEF SeenInv, AllKnown
  <2> QED
    BY <2>3, <2>4 DEF SeenInv, RerunQuiet
<1>2. ASSUME NEW b \in Branch, IsInterestingBranch(b) PROVE SeenInv' /\ RerunQuiet'
  <2>1. /\ path \in Seq(Branch) /\ seen \subseteq Seq(Branch)
        /\ path' = Append(path, b) /\ at = "run" /\ at' # "down"
        /\ Known(path, b, maps')
        /\ \A j \in Index : traceMap[j] \subseteq traceMap'[j]
        /\ contextMap \subseteq contextMap'
    BY <1>2, BranchStep DEF TypeOK
  <2>2. AllKnown(seen, maps)
    BY <2>1 DEF SeenInv
  <2>3. AllKnown(seen, maps')
    BY <1>0, <2>1, <2>2, KnownGrows DEF AllKnown
  <2>4. AllKnown({path'}, maps')
    <3>1. ASSUME NEW q \in Seq(Branch), NEW c \in Branch, Append(q, c) = path'
          PROVE  Known(q, c, maps')
      <4>1. q = path /\ c = b
        BY <2>1, <3>1, AppendInjective
      <4> QED
        BY <2>1, <4>1
    <3> QED
      BY <3>1 DEF AllKnown
  <2>5. seen' \subseteq seen \cup {path'}
    BY <1>2, BranchStep
  <2>6. SeenInv'
    BY <2>1, <2>3, <2>4, <2>5 DEF SeenInv, AllKnown
  <2>7. ASSUME at' = "commit" PROVE path' \notin seen'
    <3>1. seen' = seen /\ ~ Known(path, b, maps)
      BY <1>2, <2>7, BranchStep
    <3> QED
      BY <2>1, <2>2, <3>1 DEF AllKnown
  <2> QED
    BY <2>6, <2>7 DEF RerunQuiet
<1>3. ASSUME Commit PROVE SeenInv' /\ RerunQuiet'
  BY <1>3 DEF Commit, SeenInv, RerunQuiet, AllKnown
<1>4. ASSUME Solved PROVE SeenInv' /\ RerunQuiet'
  BY <1>4 DEF Solved, memory, SeenInv, RerunQuiet
<1>5. ASSUME Stop PROVE SeenInv' /\ RerunQuiet'
  <2>1. /\ at' = "down" /\ UNCHANGED <<file, seen, traceMap, contextMap>>
        /\ at \in {"run", "commit", "solve"}
    BY <1>5 DEF Stop, memory, TypeOK
  <2>2. CASE at = "commit"
    BY <2>1, <2>2 DEF DiskInv, SeenInv, RerunQuiet, Import
  <2>3. CASE at \in {"run", "solve"}
    BY <2>1, <2>3 DEF DiskInv, SeenInv, RerunQuiet, Import
  <2> QED
    BY <2>1, <2>2, <2>3
<1>6. CASE UNCHANGED vars
  BY <1>6 DEF vars, SeenInv, RerunQuiet, Import
<1> QED
  BY <1>1, <1>2, <1>3, <1>4, <1>5, <1>6 DEF Next

-----------------------------------------------------------------------------
(* All of it holds at the start and after every step. *)
THEOREM Inductive == Spec => []IInv
<1>1. Init => IInv
  <2> SUFFICES ASSUME Init PROVE IInv
    OBVIOUS
  <2>1. 0 \in Index /\ 0 \in Counter
    <3>1. HashPc[branch] \in Index
      BY HashAssumption DEF Init, Branch
    <3> QED
      BY <3>1, BoundsAssumption, CharAssumption DEF Index, Counter
  <2>2. TypeOK
    BY <2>1, BoundsAssumption DEF Init, TypeOK, EmptyTrace
  <2>3. RunInv /\ DiskInv /\ RerunQuiet
    BY DEF Init, RunInv, DiskInv, RerunQuiet
  <2>4. SeenInv
    BY DEF Init, SeenInv, AllKnown
  <2> QED
    BY <2>2, <2>3, <2>4 DEF IInv
<1>2. IInv /\ [Next]_vars => IInv'
  BY TypeStep, RunStep, DiskStep, SeenStep DEF IInv
<1> QED
  BY <1>1, <1>2, PTL DEF Spec

(* The maps, counters and the file keep their types; in particular no index *)
(* and no counter leaves its range.                                         *)
THEOREM TypeCorrect == Spec => []TypeOK
<1>1. IInv => TypeOK
  BY DEF IInv
<1> QED
  BY Inductive, <1>1, PTL

(* virgin_map_ counts the branches of this run modulo 2^CharBit: the        *)
(* inverse branch that isInterestingBranch counts for the time of commit is *)
(* taken back, whichever hashes collide.                                    *)
THEOREM VirginCountsHitsHolds == Spec => []VirginCountsHits
<1>1. IInv => VirginCountsHits
  BY DEF IInv, RunInv, Virgin, Count, VirginCountsHits
<1> QED
  BY Inductive, <1>1, PTL

(* Outside commit, a kill loses nothing that isInterestingBranch has        *)
(* learnt: the file has it, or there is nothing to lose.                    *)
THEOREM DiskCurrentHolds == Spec => []DiskCurrent
<1>1. IInv => DiskCurrent
  BY DEF IInv, DiskInv, Import, DiskCurrent
<1> QED
  BY Inductive, <1>1, PTL

(* A path that went through the map, in this run or an earlier one that     *)
(* left its file, has no branch solved again.                               *)
THEOREM RerunQuietHolds == Spec => []RerunQuiet
<1>1. IInv => RerunQuiet
  BY DEF IInv
<1> QED
  BY Inductive, <1>1, PTL
=============================================================================
