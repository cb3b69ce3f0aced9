------------------------------ MODULE TraceMap ------------------------------
(***************************************************************************)
(* AflTraceMap (pintool/afl_trace_map.cpp): decides at every symbolic      *)
(* branch whether it is worth solving, and keeps what it has seen in a     *)
(* file that the next run of the pintool starts from.                      *)
(*                                                                         *)
(* The pintool runs under timeout -k, so it may be killed at any time: in  *)
(* the middle of commit, which truncates the file before it writes it, or  *)
(* between commit and the solving of the branch it committed.              *)
(*                                                                         *)
(* A byte of trace_map_ is the set of its bits that are 1, and so is       *)
(* context_map_; the counters of virgin_map_ are numbers that wrap at      *)
(* 2^CharBit.                                                              *)
(***************************************************************************)
EXTENDS Naturals, Sequences, FiniteSets

CONSTANTS
    Pc,          \* addresses of branches
    MapSize,     \* kMapSize, a power of two
    CharBit,     \* bits in a byte
    HashPc,      \* hashPc: <<pc, taken>> -> hash below kMapSize
    ContextHash, \* hash(prev_h || h): <<prev_h, h>> -> bit of context_map_
    MaxBranches, \* bound on the branches of one run
    MaxRuns,     \* bound on the runs of the pintool
    NoFile,      \* the bitmap file does not exist
    Torn         \* the bitmap file was not written to its end

Index == 0..MapSize - 1
Counter == 0..2^CharBit - 1
ContextBit == 0..MapSize * CharBit - 1

ASSUME BoundsAssumption == {MapSize, CharBit, MaxBranches, MaxRuns} \subseteq Nat
ASSUME HashAssumption ==
    /\ HashPc \in [Pc \X BOOLEAN -> Index]
    /\ ContextHash \in [Index \X Index -> ContextBit]
ASSUME CharAssumption == 2^CharBit \in Nat \ {0}

VARIABLES
    traceMap,   \* trace_map_
    virginMap,  \* virgin_map_
    contextMap, \* context_map_
    visited,    \* visited_
    prevLoc,    \* prev_loc_
    file,       \* the file at path_
    at,         \* where the run is: run, commit, solve or down
    branch,     \* the branch isInterestingBranch is called for
    newEdge,    \* the branch is interesting for its edge
    path,       \* observer: the branches of this run
    seen,       \* observer: the paths that went through the map since it was empty
    runs        \* observer: number of runs

memory == <<traceMap, virginMap, contextMap, visited, prevLoc>>
vars == <<traceMap, virginMap, contextMap, visited, prevLoc, file, at, branch,
          newEdge, path, seen, runs>>

Branch == Pc \X BOOLEAN
Maps == [trace : [Index -> SUBSET (0..CharBit - 1)], context : SUBSET ContextBit]
ASSUME FileAssumption == {NoFile, Torn} \cap Maps = {}
EmptyTrace == [i \in Index |-> {}]

TypeOK ==
    /\ traceMap \in [Index -> SUBSET (0..CharBit - 1)]
    /\ virginMap \in [Index -> Counter]
    /\ contextMap \subseteq ContextBit
    /\ visited \subseteq Index
    /\ prevLoc \in Index
    /\ file \in Maps \cup {NoFile, Torn}
    /\ at \in {"run", "commit", "solve", "down"}
    /\ branch \in Branch
    /\ newEdge \in BOOLEAN
    /\ path \in Seq(Branch)
    /\ seen \subseteq Seq(Branch)
    /\ runs \in 0..MaxRuns

-----------------------------------------------------------------------------
Bits(n) == {k \in 0..CharBit - 1 : (n \div 2^k) % 2 = 1}
Incr(n) == (n + 1) % 2^CharBit
Decr(n) == (n + 2^CharBit - 1) % 2^CharBit

(* Bitwise xor of two indexes: one again, as MapSize is a power of two *)
IsXor(a, b, c) ==
    \A k \in 0..MapSize : (c \div 2^k) % 2 = ((a \div 2^k) + (b \div 2^k)) % 2
Xor(a, b) == CHOOSE c \in Index : IsXor(a, b, c)

ASSUME XorAssumption == \A a, b \in Index : \E c \in Index : IsXor(a, b, c)

GetIndex(h) == Xor(prevLoc \div 2, h)

InverseBranch(b) == <<b[1], ~ b[2]>>
Idx(b) == GetIndex(HashPc[b])

(* isInterestingContext: the context bits it looks at, "only power of two" *)
Contexts(h, bits) ==
    IF Cardinality(Bits(bits)) <= 1 THEN {ContextHash[<<p, h>>] : p \in visited} ELSE {}

Default == [trace |-> EmptyTrace, context |-> {}]

(* Mutant: the context map is not read. *)
ImportTrace(f) ==
    IF f \in {NoFile, Torn} THEN Default ELSE [trace |-> f.trace, context |-> {}]

(* import, of a file that another run left *)
Import(f) == IF f \in {NoFile, Torn} THEN Default ELSE f

Init ==
    /\ traceMap = EmptyTrace
    /\ contextMap = {}
    /\ virginMap = [i \in Index |-> 0]
    /\ visited = {}
    /\ prevLoc = 0
    /\ file = NoFile
    /\ at = "down"
    /\ branch \in Branch
    /\ newEdge = FALSE
    /\ path = <<>>
    /\ seen = {}
    /\ runs = 0

(* A run starts: the constructor *)
Start ==
    /\ at = "down"
    /\ runs < MaxRuns
    /\ runs' = runs + 1
    /\ traceMap' = Import(file).trace
    /\ contextMap' = Import(file).context
    /\ virginMap' = [i \in Index |-> 0]
    /\ visited' = {}
    /\ prevLoc' = 0
    /\ path' = <<>>
    /\ seen' = IF Import(file) = Default THEN {} ELSE seen
    /\ at' = "run"
    /\ UNCHANGED <<file, branch, newEdge>>

(* The edge at i is new: mark it, and the inverse, "because it's already    *)
(* covered by current testcase".                                            *)
Mark(i, inv, virgin) ==
    [j \in Index |-> traceMap[j] \cup (IF j = i THEN Bits(virgin[i]) ELSE {})
                                \cup (IF j = inv THEN Bits(Incr(virgin[inv])) ELSE {})]

(* isInterestingBranch, up to the point where commit has opened the file.   *)
(* commit sees virgin_map_ with the inverse branch counted.                 *)
IsInterestingBranch(b) ==
    LET h == HashPc[b]
        i == Idx(b)
        inv == Idx(InverseBranch(b))
        contexts == Contexts(h, virginMap[i])
        virgin == [virginMap EXCEPT ![i] = Incr(@)]
        edge == ~ (Bits(virgin[i]) \subseteq traceMap[i])
    IN  /\ at = "run"
        /\ Len(path) < MaxBranches
        /\ branch' = b
        /\ newEdge' = edge
        /\ path' = Append(path, b)
        /\ contextMap' = contextMap \cup contexts
        /\ visited' = IF virginMap[i] = 0 THEN visited \cup {h} ELSE visited
        /\ IF edge
           THEN /\ traceMap' = Mark(i, inv, virgin)
                /\ virginMap' = [virgin EXCEPT ![inv] = Incr(@)]
           ELSE /\ virginMap' = virgin
                /\ UNCHANGED traceMap
        /\ IF edge \/ ~ (contexts \subseteq contextMap)
           THEN /\ at' = "commit"
                /\ file' = Torn
                /\ UNCHANGED <<prevLoc, seen>>
           ELSE /\ prevLoc' = h
                /\ seen' = seen \cup {path'}
                /\ UNCHANGED <<at, file>>
        /\ UNCHANGED runs

(* What commit writes; the mutant leaves out the context map. *)
SavedTrace == [trace |-> traceMap, context |-> {}]
Saved == [trace |-> traceMap, context |-> contextMap]

(* Mutant: the inverse stays counted. *)
CommitCounted ==
    /\ at = "commit"
    /\ file' = Saved
    /\ prevLoc' = HashPc[branch]
    /\ seen' = seen \cup {path}
    /\ at' = "solve"
    /\ UNCHANGED <<traceMap, virginMap, contextMap, visited, branch, newEdge, path, runs>>

(* commit has written the file, and isInterestingBranch returns true. *)
Commit ==
    /\ at = "commit"
    /\ file' = Saved
    /\ virginMap' = IF newEdge
                    THEN [virginMap EXCEPT ![Idx(InverseBranch(branch))] = Decr(@)]
                    ELSE virginMap
    /\ prevLoc' = HashPc[branch]
    /\ seen' = seen \cup {path}
    /\ at' = "solve"
    /\ UNCHANGED <<traceMap, contextMap, visited, branch, newEdge, path, runs>>

(* Solver::negatePath returns *)
Solved ==
    /\ at = "solve"
    /\ at' = "run"
    /\ UNCHANGED <<memory, file, branch, newEdge, path, seen, runs>>

(* The target ends, or the pintool is killed. *)
Stop ==
    /\ at # "down"
    /\ at' = "down"
    /\ UNCHANGED <<memory, file, branch, newEdge, path, seen, runs>>

Next ==
    \/ Start \/ Commit \/ Solved \/ Stop
    \/ \E b \in Branch : IsInterestingBranch(b)

Spec == Init /\ [][Next]_vars

-----------------------------------------------------------------------------
(* The index that branch n of path p goes through, and how often the first  *)
(* n branches went through index i                                          *)
PrevLoc(p, n) == IF n = 1 THEN 0 ELSE HashPc[p[n - 1]]
IndexAt(p, n) == Xor(PrevLoc(p, n) \div 2, HashPc[p[n]])
Hits(p, n, i) == Cardinality({k \in 1..n : IndexAt(p, k) = i})

(* virgin_map_ counts the branches of this run and no others, with the      *)
(* overflow of a byte: the count of the inverse branch that                 *)
(* isInterestingBranch adds while it commits is taken back.                 *)
VirginCountsHits ==
    at \in {"run", "solve"} =>
        \A i \in Index : virginMap[i] = Hits(path, Len(path), i) % 2^CharBit

(* Nothing the map has learnt is in memory only: the file has it, except    *)
(* when the maps are empty, so a kill outside commit forgets nothing.       *)
DiskCurrent ==
    at \in {"run", "solve"} =>
        [trace |-> traceMap, context |-> contextMap] \in {file, Default}

(* A run that repeats the path of an earlier one, killed or not, has no     *)
(* branch solved again as long as it stays on that path.                    *)
RerunQuiet == at = "commit" => path \notin seen
=============================================================================
