----------------------------- MODULE ExprCache ------------------------------
(***************************************************************************)
(* ExprCache (pintool/expr_cache.h, expr_cache.cpp) under CacheExprBuilder *)
(* (pintool/codegen/expr_builder.cpp): hash-consing of expressions through *)
(* weak references.  A new expression that equals a cached one in its      *)
(* operator and (by address) in its operand is replaced by the cached one. *)
(*                                                                         *)
(* The cache is a set and a queue of weak references.  A reference expires *)
(* when the last owner of its expression goes, whether it is in the cache  *)
(* or not; an expired one is equal to nothing, not even to itself, and can *)
(* only be removed by a sweep.                                             *)
(***************************************************************************)
EXTENDS Naturals, Sequences, FiniteSets, SequencesExt

CONSTANTS
    Op,            \* operators
    CacheSize,     \* kCacheSize
    SweepFactor,   \* shrink sweeps a set larger than CacheSize * SweepFactor
    MaxExprs,      \* bound on the expressions ever created
    Leaf,          \* an operand that is not cached: a constant, an input byte
    Expired        \* an expression that was destroyed

ASSUME BoundsAssumption ==
    /\ {CacheSize, SweepFactor, MaxExprs} \subseteq Nat \ {0}
ASSUME LeafAssumption == Leaf \notin Nat

Id == 1..MaxExprs

VARIABLES
    exprs,   \* the expressions created, in the order of their creation
    roots,   \* those the program holds: in registers, memory, constraints
    set,     \* set_
    queue    \* queue_

vars == <<exprs, roots, set, queue>>

Expr == [op : Op, child : Id \cup {Leaf}]
Created == DOMAIN exprs

ASSUME ExpiredAssumption == Expired \notin Expr

TypeOK ==
    /\ exprs \in Seq(Expr \cup {Expired})
    /\ Len(exprs) <= MaxExprs
    /\ roots \subseteq Created
    /\ set \subseteq Created
    /\ queue \in Seq(Created)

Init == exprs = <<>> /\ roots = {} /\ set = {} /\ queue = <<>>

-----------------------------------------------------------------------------
(* The expressions that live while the program holds those in held: an      *)
(* expression owns its operand.                                             *)
Owned(held) ==
    LET owned[i \in Created] ==
            \/ i \in held
            \/ \E p \in Created : p > i /\ exprs[p] # Expired
                                        /\ exprs[p].child = i /\ owned[p]
    IN  {i \in Created : owned[i]}

IsLive(i) == exprs[i] # Expired

(* Mutant: only expressions without operand are found. *)
FindLeaf(e) == {i \in set : IsLive(i) /\ exprs[i] = e /\ e.child = Leaf}

(* find: WeakExprRefEqual, with equalShallowly *)
Find(e) == {i \in set : IsLive(i) /\ exprs[i] = e}

(* cleanup: erase what has expired.  The mutant skips it. *)
CleanupNot(s, live) == s
Cleanup(s, live) == s \cap live

(* The set's entries for the front of the queue, which shrink erases.  The  *)
(* mutant erases none.                                                      *)
FrontEntryNot(s, q, es, live) == {}
FrontEntry(s, q, es, live) ==
    {i \in s \cap live : Head(q) \in live /\ es[i] = es[Head(q)]}

(* shrink, of the set s and the queue q with the expressions es: drop the   *)
(* entry of the front of the queue if it has not expired, pop the queue,    *)
(* and sweep the set if it is too large.                                    *)
Shrunk(s, q, es) ==
    LET live == {i \in DOMAIN es : es[i] # Expired}
        full == Len(q) > CacheSize
        rest == IF full THEN s \ FrontEntry(s, q, es, live) ELSE s
    IN  [set |-> IF Cardinality(rest) > CacheSize * SweepFactor
                 THEN Cleanup(rest, live) ELSE rest,
         queue |-> IF full THEN Tail(q) ELSE q]

(* findOrInsert finds the expression. *)
Reuse(e) ==
    /\ \E i \in Find(e) : roots' = roots \cup {i}
    /\ UNCHANGED <<exprs, set, queue>>

(* Mutant: without find. *)
InsertAlways(e) ==
    LET id == Len(exprs) + 1
        es == Append(exprs, e)
        shrunk == Shrunk(set \cup {id}, Append(queue, id), es)
    IN  /\ id \in Id
        /\ exprs' = es
        /\ roots' = roots \cup {id}
        /\ set' = shrunk.set
        /\ queue' = shrunk.queue

(* findOrInsert inserts the new expression. *)
Insert(e) ==
    LET id == Len(exprs) + 1
        es == Append(exprs, e)
        shrunk == Shrunk(set \cup {id}, Append(queue, id), es)
    IN  /\ Find(e) = {}
        /\ id \in Id
        /\ exprs' = es
        /\ roots' = roots \cup {id}
        /\ set' = shrunk.set
        /\ queue' = shrunk.queue

(* The program lets go of an expression; it and what it alone owned are     *)
(* destroyed unless something else owns them.                               *)
Release(i) ==
    /\ i \in roots
    /\ roots' = roots \ {i}
    /\ exprs' = [j \in Created |-> IF j \in Owned(roots') THEN exprs[j] ELSE Expired]
    /\ UNCHANGED <<set, queue>>

Live == {i \in Created : IsLive(i)}

Next ==
    \/ \E op \in Op, child \in Live \cup {Leaf} :
          LET e == [op |-> op, child |-> child] IN Reuse(e) \/ Insert(e)
    \/ \E i \in roots : Release(i)

Spec == Init /\ [][Next]_vars

-----------------------------------------------------------------------------
(* The cache has at most one live expression of each form: what find        *)
(* returns, and what shrink erases, does not depend on the order of a hash  *)
(* table.                                                                   *)
OneLivePerForm ==
    \A i, j \in set \cap Live : exprs[i] = exprs[j] => i = j

(* Set and queue agree on what is cached, as far as it is alive: shrink     *)
(* never erases the entry of another expression, and never pops one whose   *)
(* entry stays behind alive.                                                *)
SetIsQueue == set \cap Live = Range(queue) \cap Live

(* The expired entries that shrink leaves in the set stay bounded.          *)
Bounded ==
    /\ Len(queue) <= CacheSize
    /\ Cardinality(set) <= CacheSize * SweepFactor

(* Two live expressions of one form exist only if the older one has been    *)
(* pushed out of the cache by CacheSize newer ones.                         *)
SharedUnlessEvicted ==
    \A i, j \in Live : i < j /\ exprs[i] = exprs[j] =>
        /\ i \notin Range(queue)
        /\ j - i >= CacheSize
=============================================================================
