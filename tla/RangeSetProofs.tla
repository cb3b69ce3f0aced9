--------------------------- MODULE RangeSetProofs ---------------------------
(***************************************************************************)
(* Proofs about RangeSet, for bit vectors of every width.                  *)
(***************************************************************************)
EXTENDS RangeSet, TLAPS

(* A set of intervals as intersect expects it *)
Sorted(ranges) == \A r, s \in ranges : Before(r, s) => r.to < s.from

Member(ranges, v) == \E r \in ranges : Includes(r, v)

Number(u) == MinValue(u)..MaxValue(u)

(* v is in the range [lower, upper], which may wrap around. *)
InModular(v, lower, upper) ==
    IF lower <= upper THEN lower <= v /\ v <= upper ELSE v <= upper \/ v >= lower

-----------------------------------------------------------------------------
(* Two different intervals are ordered one way or the other. *)
LEMMA Ordered ==
    ASSUME NEW u \in BOOLEAN, NEW r \in Range(u), NEW s \in Range(u), r # s
    PROVE  Before(r, s) \/ Before(s, r)
<1>1. /\ r = [from |-> r.from, to |-> r.to]
      /\ s = [from |-> s.from, to |-> s.to]
  BY DEF Range
<1>2. r.from # s.from \/ r.to # s.to
  BY <1>1
<1>3. r.from \in Int /\ s.from \in Int /\ r.to \in Int /\ s.to \in Int
  BY HalfAssumption DEF Range, MinValue, MaxValue
<1>. QED  BY <1>2, <1>3 DEF Before

(* The fields of an interval *)
LEMMA Fields ==
    ASSUME NEW u \in BOOLEAN, NEW r \in Range(u)
    PROVE  /\ r.from \in Int /\ r.to \in Int
           /\ MinValue(u) <= r.from /\ r.from <= r.to /\ r.to <= MaxValue(u)
           /\ MinValue(u) \in Int /\ MaxValue(u) \in Int
  BY HalfAssumption DEF Range, MinValue, MaxValue

(* intersectInRange reaches every interval that overlaps [lower, upper]. *)
LEMMA ReachesOverlaps ==
    ASSUME NEW u \in BOOLEAN, NEW ranges \in SUBSET Range(u), Sorted(ranges),
           NEW lower \in Number(u), NEW upper \in Number(u),
           NEW r \in ranges, r.from <= upper
    PROVE  Reaches(ranges, r, lower, upper)
<1>. SUFFICES ASSUME NEW s \in ranges, Before(s, r), Breaks(s, lower, upper)
              PROVE  FALSE
  BY DEF Reaches
<1>1. s.to < r.from
  BY DEF Sorted
<1>2. s.from > upper \/ Includes(s, upper)
  BY DEF Breaks
<1>3. upper \in Int
  BY HalfAssumption DEF Number, MinValue, MaxValue
<1>. QED  BY <1>1, <1>2, <1>3, Fields DEF Includes

(* The interval that is inserted for r is its intersection with [lower, upper]. *)
LEMMA ClipIntersects ==
    ASSUME NEW u \in BOOLEAN, NEW r \in Range(u),
           NEW lower \in Number(u), NEW upper \in Number(u), lower <= upper,
           r.to >= lower, r.from <= upper
    PROVE  LET c == Clip(r, lower, upper)
           IN  /\ c \in Range(u)
               /\ c.from >= lower /\ c.from >= r.from
               /\ c.to <= upper /\ c.to <= r.to
               /\ \A v \in Int : Includes(c, v) <=>
                                    Includes(r, v) /\ lower <= v /\ v <= upper
<1>. DEFINE c == Clip(r, lower, upper)
<1>1. /\ r.from \in Int /\ r.to \in Int /\ lower \in Int /\ upper \in Int
      /\ MinValue(u) \in Int /\ MaxValue(u) \in Int
      /\ MinValue(u) <= r.from /\ r.from <= r.to /\ r.to <= MaxValue(u)
      /\ MinValue(u) <= lower /\ upper <= MaxValue(u)
  BY Fields, HalfAssumption DEF Number, MinValue, MaxValue
<1>2. c.from = (IF Includes(r, lower) THEN lower ELSE r.from)
  BY DEF Clip
<1>3. c.to = (IF Includes(r, upper) THEN upper ELSE r.to)
  BY DEF Clip
<1>4. c.from >= lower /\ c.from >= r.from /\ c.from \in Int
  BY <1>1, <1>2 DEF Includes
<1>5. c.to <= upper /\ c.to <= r.to /\ c.to \in Int
  BY <1>1, <1>3 DEF Includes
<1>6. c.from <= c.to
  BY <1>1, <1>2, <1>3 DEF Includes
<1>7. c \in [from : MinValue(u)..MaxValue(u), to : MinValue(u)..MaxValue(u)]
  <2>1. c = [from |-> c.from, to |-> c.to]
    BY DEF Clip
  <2>2. c.from \in MinValue(u)..MaxValue(u) /\ c.to \in MinValue(u)..MaxValue(u)
    BY <1>1, <1>4, <1>5, <1>6
  <2>. QED  BY <2>1, <2>2
<1>8. c \in Range(u)
  BY <1>6, <1>7 DEF Range
<1>9. ASSUME NEW v \in Int
      PROVE  Includes(c, v) <=> Includes(r, v) /\ lower <= v /\ v <= upper
  BY <1>1, <1>2, <1>3, <1>4, <1>5 DEF Includes
<1>. QED  BY <1>4, <1>5, <1>8, <1>9

(* intersectInRange: the values of the set that are in [lower, upper], in   *)
(* intervals that do not overlap.                                           *)
LEMMA IntersectInRangeExact ==
    ASSUME NEW u \in BOOLEAN, NEW ranges \in SUBSET Range(u), Sorted(ranges),
           NEW lower \in Number(u), NEW upper \in Number(u), lower <= upper
    PROVE  LET res == IntersectInRange(ranges, lower, upper)
           IN  /\ res \subseteq Range(u)
               /\ Sorted(res)
               /\ \A c \in res : c.from >= lower /\ c.to <= upper
               /\ \A v \in Int : Member(res, v) <=>
                                    Member(ranges, v) /\ lower <= v /\ v <= upper
<1>. DEFINE overlap == {s \in ranges : s.to >= lower /\ s.from <= upper}
            res == IntersectInRange(ranges, lower, upper)
<1>1. res = {Clip(r, lower, upper) : r \in overlap}
  <2>1. \A r \in overlap : Reaches(ranges, r, lower, upper)
    BY ReachesOverlaps
  <2>. QED  BY <2>1 DEF IntersectInRange
<1>2. ASSUME NEW c \in res
      PROVE  \E r \in overlap : c = Clip(r, lower, upper)
  BY <1>1
<1>. HIDE DEF res
<1>3. res \subseteq Range(u) /\ \A c \in res : c.from >= lower /\ c.to <= upper
  BY <1>2, ClipIntersects
<1>4. Sorted(res)
  <2>. SUFFICES ASSUME NEW c \in res, NEW d \in res, Before(c, d)
                PROVE  c.to < d.from
    BY DEF Sorted
  <2>1. PICK r \in overlap : c = Clip(r, lower, upper)
    BY <1>2
  <2>2. PICK s \in overlap : d = Clip(s, lower, upper)
    BY <1>2
  <2>3. /\ c.from >= r.from /\ c.to <= r.to /\ d.from >= s.from /\ d.to <= s.to
    BY <2>1, <2>2, ClipIntersects
  <2>4. /\ c.from \in Int /\ c.to \in Int /\ d.from \in Int /\ d.to \in Int
        /\ c.from <= c.to /\ d.from <= d.to
        /\ r.from \in Int /\ r.to \in Int /\ s.from \in Int /\ s.to \in Int
    BY <1>3, Fields
  <2>5. CASE r = s
    <3>1. c = d
      BY <2>1, <2>2, <2>5
    <3>. QED  BY <3>1, <2>4 DEF Before
  <2>6. CASE Before(r, s)
    <3>1. r.to < s.from
      BY <2>6 DEF Sorted
    <3>. QED  BY <3>1, <2>3, <2>4
  <2>7. CASE Before(s, r)
    <3>1. s.to < r.from
      BY <2>7 DEF Sorted
    <3>. QED  BY <3>1, <2>3, <2>4 DEF Before
  <2>. QED  BY <2>5, <2>6, <2>7, Ordered
<1>5. ASSUME NEW v \in Int
      PROVE  Member(res, v) <=> Member(ranges, v) /\ lower <= v /\ v <= upper
  <2>1. ASSUME Member(res, v)
        PROVE  Member(ranges, v) /\ lower <= v /\ v <= upper
    <3>1. PICK c \in res : Includes(c, v)
      BY <2>1 DEF Member
    <3>2. PICK r \in overlap : c = Clip(r, lower, upper)
      BY <1>2
    <3>3. Includes(r, v) /\ lower <= v /\ v <= upper
      BY <3>1, <3>2, ClipIntersects
    <3>. QED  BY <3>3 DEF Member
  <2>2. ASSUME Member(ranges, v), lower <= v, v <= upper
        PROVE  Member(res, v)
    <3>1. PICK r \in ranges : Includes(r, v)
      BY <2>2 DEF Member
    <3>2. r \in overlap
      <4>1. lower \in Int /\ upper \in Int
        BY HalfAssumption DEF Number, MinValue, MaxValue
      <4>. QED  BY <4>1, <2>2, <3>1, Fields DEF Includes
    <3>3. Includes(Clip(r, lower, upper), v)
      BY <3>1, <3>2, <2>2, ClipIntersects
    <3>. QED  BY <3>2, <3>3, <1>1 DEF Member
  <2>. QED  BY <2>1, <2>2
<1>. QED  BY <1>3, <1>4, <1>5 DEF res

(* The second call of intersectInRange, from where the first one stopped,   *)
(* finds what it would find from the start.                                 *)
LEMMA RestMembers ==
    ASSUME NEW u \in BOOLEAN, NEW ranges \in SUBSET Range(u), Sorted(ranges),
           NEW upper \in Number(u)
    PROVE  LET rest == Rest(ranges, MinValue(u), upper)
           IN  /\ rest \in SUBSET Range(u)
               /\ Sorted(rest)
               /\ \A v \in Int : v > upper => (Member(rest, v) <=> Member(ranges, v))
<1>. DEFINE rest == Rest(ranges, MinValue(u), upper)
<1>1. rest \subseteq ranges
  BY DEF Rest
<1>2. Sorted(rest)
  BY <1>1 DEF Sorted
<1>3. ASSUME NEW v \in Int, v > upper, NEW r \in ranges, Includes(r, v)
      PROVE  r \in rest
  <2>1. upper \in Int
    BY HalfAssumption DEF Number, MinValue, MaxValue
  <2>2. Breaks(r, MinValue(u), upper)
    BY <2>1, <1>3, Fields DEF Breaks, Includes
  <2>. QED  BY <2>2 DEF Rest
<1>. HIDE DEF rest
<1>4. ASSUME NEW v \in Int, v > upper
      PROVE  Member(rest, v) <=> Member(ranges, v)
  BY <1>1, <1>3, <1>4 DEF Member
<1>. QED  BY <1>1, <1>2, <1>4 DEF rest

(* intersect: the values of the set that are in the range, which may wrap   *)
(* around, in intervals that do not overlap.                                *)
LEMMA IntersectExact ==
    ASSUME NEW u \in BOOLEAN, NEW ranges \in SUBSET Range(u), Sorted(ranges),
           NEW lower \in Number(u), NEW upper \in Number(u)
    PROVE  LET res == Intersect(u, ranges, lower, upper)
           IN  /\ res \subseteq Range(u)
               /\ Sorted(res)
               /\ \A v \in Number(u) : Member(res, v) <=>
                      Member(ranges, v) /\ InModular(v, lower, upper)
<1>0. /\ lower \in Int /\ upper \in Int /\ Number(u) \subseteq Int
      /\ MinValue(u) \in Number(u) /\ MaxValue(u) \in Number(u)
      /\ \A v \in Number(u) : MinValue(u) <= v /\ v <= MaxValue(u)
  BY HalfAssumption DEF Number, MinValue, MaxValue
<1>1. CASE lower <= upper
  <2>1. Intersect(u, ranges, lower, upper) = IntersectInRange(ranges, lower, upper)
    BY <1>1 DEF Intersect
  <2>2. \A v \in Number(u) : InModular(v, lower, upper) <=> lower <= v /\ v <= upper
    BY <1>1 DEF InModular
  <2>. QED  BY <2>1, <2>2, <1>0, <1>1, IntersectInRangeExact
<1>2. CASE ~ (lower <= upper)
  <2>. DEFINE rest == Rest(ranges, MinValue(u), upper)
              low == IntersectInRange(ranges, MinValue(u), upper)
              high == IntersectInRange(rest, lower, MaxValue(u))
              res == Intersect(u, ranges, lower, upper)
  <2>1. res = low \cup high
    BY <1>2 DEF Intersect
  <2>2. /\ rest \in SUBSET Range(u)
        /\ Sorted(rest)
        /\ \A v \in Int : v > upper => (Member(rest, v) <=> Member(ranges, v))
    BY RestMembers
  <2>. HIDE DEF rest
  <2>3. /\ low \subseteq Range(u)
        /\ Sorted(low)
        /\ \A c \in low : c.to <= upper
        /\ \A v \in Int : Member(low, v) <=>
               Member(ranges, v) /\ MinValue(u) <= v /\ v <= upper
    BY <1>0, IntersectInRangeExact
  <2>4. /\ high \subseteq Range(u)
        /\ Sorted(high)
        /\ \A c \in high : c.from >= lower
        /\ \A v \in Int : Member(high, v) <=>
               Member(rest, v) /\ lower <= v /\ v <= MaxValue(u)
    BY <1>0, <2>2, IntersectInRangeExact
  <2>. HIDE DEF low, high, res
  <2>5. Sorted(res)
    <3>. SUFFICES ASSUME NEW c \in low \cup high, NEW d \in low \cup high, Before(c, d)
                  PROVE  c.to < d.from
      BY <2>1 DEF Sorted
    <3>1. /\ c.from \in Int /\ c.to \in Int /\ d.from \in Int /\ d.to \in Int
          /\ c.from <= c.to /\ d.from <= d.to
      BY <2>3, <2>4, Fields
    <3>2. CASE c \in low /\ d \in low
      BY <3>2, <2>3 DEF Sorted
    <3>3. CASE c \in high /\ d \in high
      BY <3>3, <2>4 DEF Sorted
    <3>4. CASE c \in low /\ d \in high
      BY <3>4, <3>1, <2>3, <2>4, <1>0, <1>2
    <3>5. CASE c \in high /\ d \in low
      BY <3>5, <3>1, <2>3, <2>4, <1>0, <1>2 DEF Before
    <3>. QED  BY <3>2, <3>3, <3>4, <3>5
  <2>6. ASSUME NEW v \in Number(u)
        PROVE  Member(res, v) <=> Member(ranges, v) /\ InModular(v, lower, upper)
    <3>1. Member(res, v) <=> Member(low, v) \/ Member(high, v)
      BY <2>1 DEF Member
    <3>2. v \in Int /\ MinValue(u) <= v /\ v <= MaxValue(u)
      BY <1>0
    <3>3. InModular(v, lower, upper) <=> v <= upper \/ v >= lower
      BY <1>2 DEF InModular
    <3>. QED  BY <3>1, <3>2, <3>3, <2>2, <2>3, <2>4, <1>0, <1>2
  <2>. QED  BY <2>1, <2>3, <2>4, <2>5, <2>6 DEF res
<1>. QED  BY <1>1, <1>2

-----------------------------------------------------------------------------
(* Wrap gives a number of the right width. *)
LEMMA WrapNumber ==
    ASSUME NEW u \in BOOLEAN, NEW x \in Int,
           x >= MinValue(u) - 2 * Half, x <= MaxValue(u) + 2 * Half
    PROVE  Wrap(u, x) \in Number(u)
  BY HalfAssumption DEF Wrap, Number, MinValue, MaxValue

(* The range a constraint intersects with has the numbers that satisfy the  *)
(* constraint, if there are any.  (If there are none, the range that        *)
(* intersectLT or intersectGT computes is everything.)                      *)
LEMMA BoundsExact ==
    ASSUME NEW kind \in Kind, NEW u \in BOOLEAN, u = IsUnsigned(kind),
           NEW val \in Number(u), NEW adj \in Number(u),
           NEW witness \in BitVector, Holds(kind, witness, val, adj),
           NEW x \in BitVector
    PROVE  /\ Lower(u, kind, val, adj) \in Number(u)
           /\ Upper(u, kind, val, adj) \in Number(u)
           /\ Wrap(u, x) \in Number(u)
           /\ Holds(kind, x, val, adj) <=>
                 InModular(Wrap(u, x), Lower(u, kind, val, adj), Upper(u, kind, val, adj))
<1>. DEFINE lower == Lower(u, kind, val, adj)
            upper == Upper(u, kind, val, adj)
            goal == /\ lower \in Number(u)
                    /\ upper \in Number(u)
                    /\ Wrap(u, x) \in Number(u)
                    /\ Holds(kind, x, val, adj) <=> InModular(Wrap(u, x), lower, upper)
<1>1. CASE kind \in Less
  <2>1. /\ lower = Wrap(u, MinValue(u) - adj)
        /\ upper = Wrap(u, Wrap(u, val - adj) - 1)
        /\ Holds(kind, x, val, adj) <=> Wrap(u, Wrap(u, x) + adj) < val
        /\ Wrap(u, Wrap(u, witness) + adj) < val
    BY <1>1 DEF Lower, Upper, Holds, Less, LessEq, Greater, GreaterEq
  <2>. QED
    BY <2>1, HalfAssumption DEF Wrap, Number, MinValue, MaxValue, InModular, BitVector
<1>2. CASE kind \in LessEq
  <2>1. /\ lower = Wrap(u, MinValue(u) - adj)
        /\ upper = Wrap(u, val - adj)
        /\ Holds(kind, x, val, adj) <=> Wrap(u, Wrap(u, x) + adj) <= val
    BY <1>2 DEF Lower, Upper, Holds, Less, LessEq, Greater, GreaterEq
  <2>. QED
    BY <2>1, HalfAssumption DEF Wrap, Number, MinValue, MaxValue, InModular, BitVector
<1>3. CASE kind \in Greater
  <2>1. /\ lower = Wrap(u, Wrap(u, val - adj) + 1)
        /\ upper = Wrap(u, MaxValue(u) - adj)
        /\ Holds(kind, x, val, adj) <=> Wrap(u, Wrap(u, x) + adj) > val
        /\ Wrap(u, Wrap(u, witness) + adj) > val
    BY <1>3 DEF Lower, Upper, Holds, Less, LessEq, Greater, GreaterEq
  <2>. QED
    BY <2>1, HalfAssumption DEF Wrap, Number, MinValue, MaxValue, InModular, BitVector
<1>4. CASE kind \in GreaterEq
  <2>1. /\ lower = Wrap(u, val - adj)
        /\ upper = Wrap(u, MaxValue(u) - adj)
        /\ Holds(kind, x, val, adj) <=> Wrap(u, Wrap(u, x) + adj) >= val
    BY <1>4 DEF Lower, Upper, Holds, Less, LessEq, Greater, GreaterEq
  <2>. QED
    BY <2>1, HalfAssumption DEF Wrap, Number, MinValue, MaxValue, InModular, BitVector
<1>5. CASE kind = "Equal"
  <2>1. /\ lower = Wrap(u, val - adj)
        /\ upper = Wrap(u, val - adj)
        /\ Holds(kind, x, val, adj) <=> Wrap(u, Wrap(u, x) + adj) = val
    BY <1>5 DEF Lower, Upper, Holds, Less, LessEq, Greater, GreaterEq
  <2>. QED
    BY <2>1, HalfAssumption DEF Wrap, Number, MinValue, MaxValue, InModular, BitVector
<1>6. CASE kind = "Distinct"
  <2>1. /\ lower = Wrap(u, Wrap(u, val - adj) + 1)
        /\ upper = Wrap(u, Wrap(u, val - adj) - 1)
        /\ Holds(kind, x, val, adj) <=> Wrap(u, Wrap(u, x) + adj) # val
    BY <1>6 DEF Lower, Upper, Holds, Less, LessEq, Greater, GreaterEq
  <2>. QED
    BY <2>1, HalfAssumption DEF Wrap, Number, MinValue, MaxValue, InModular, BitVector
<1>. QED  BY <1>1, <1>2, <1>3, <1>4, <1>5, <1>6 DEF Kind

-----------------------------------------------------------------------------
(* The current input satisfies the intervals: a set is never empty, and so  *)
(* getRangeConstraint never takes "no value" for "no constraint".           *)
HasInput ==
    \A u \in BOOLEAN : rangeSets[u] # Null => Member(rangeSets[u], Wrap(u, input))

IInv == TypeOK /\ RangesDisjoint /\ HasInput /\ ConstraintExact

(* Before the first constraint, no value is excluded. *)
LEMMA InitIInv == Init => IInv
<1>. SUFFICES ASSUME Init PROVE IInv
  OBVIOUS
<1>1. TypeOK /\ RangesDisjoint /\ HasInput
  BY DEF Init, TypeOK, RangesDisjoint, HasInput
<1>2. ConstraintExact
  BY DEF Init, ConstraintExact, RangeConstraint
<1>. QED  BY <1>1, <1>2 DEF IInv

(* The set of intervals a constraint leaves *)
LEMMA AddedRanges ==
    ASSUME IInv, NEW kind \in Kind, NEW rhs \in BitVector, NEW adjustment \in BitVector,
           AddConstraint(kind, rhs, adjustment)
    PROVE  LET u == IsUnsigned(kind)
               val == Wrap(u, rhs)
               adj == Wrap(u, adjustment)
           IN  /\ rangeSets'[u] \in SUBSET Range(u) /\ rangeSets'[u] # {}
               /\ rangeSets' = [rangeSets EXCEPT ![u] = rangeSets'[u]]
               /\ Sorted(rangeSets'[u])
               /\ Member(rangeSets'[u], Wrap(u, input))
               /\ \A x \in BitVector : Member(rangeSets'[u], Wrap(u, x)) <=>
                      x \in RangeConstraint(u) /\ Holds(kind, x, val, adj)
<1>. DEFINE u == IsUnsigned(kind)
            val == Wrap(u, rhs)
            adj == Wrap(u, adjustment)
            lower == Lower(u, kind, val, adj)
            upper == Upper(u, kind, val, adj)
            old == IF rangeSets[u] = Null THEN Full(u) ELSE rangeSets[u]
            new == Intersect(u, old, lower, upper)
<1>0. u \in BOOLEAN
  BY DEF IsUnsigned
<1>1. /\ Holds(kind, input, val, adj)
      /\ rangeSets' = [rangeSets EXCEPT ![u] = new]
  BY DEF AddConstraint
<1>2. rangeSets'[u] = new
  BY <1>0, <1>1 DEF IInv, TypeOK
<1>3. \A x \in BitVector : Wrap(u, x) \in Number(u)
  BY <1>0, HalfAssumption DEF Wrap, Number, MinValue, MaxValue, BitVector
<1>4. val \in Number(u) /\ adj \in Number(u) /\ input \in BitVector
  BY <1>3 DEF IInv, TypeOK
<1>. HIDE DEF u, val, adj
<1>5. /\ lower \in Number(u) /\ upper \in Number(u)
      /\ \A x \in BitVector : Holds(kind, x, val, adj) <=>
                                 InModular(Wrap(u, x), lower, upper)
  BY <1>0, <1>1, <1>4, BoundsExact DEF u
<1>6. /\ old \in SUBSET Range(u) /\ Sorted(old)
      /\ \A x \in BitVector : Member(old, Wrap(u, x)) <=> x \in RangeConstraint(u)
  <2>1. CASE rangeSets[u] = Null
    <3>1. old = {[from |-> MinValue(u), to |-> MaxValue(u)]}
      BY <2>1 DEF Full
    <3>2. old \in SUBSET Range(u)
      BY <3>1, <1>0, HalfAssumption DEF Range, MinValue, MaxValue
    <3>3. Sorted(old)
      BY <3>1, <1>0, HalfAssumption DEF Sorted, Before, MinValue, MaxValue
    <3>4. ASSUME NEW x \in BitVector PROVE Member(old, Wrap(u, x))
      <4>1. Wrap(u, x) \in MinValue(u)..MaxValue(u)
        BY <1>3 DEF Number
      <4>2. Includes([from |-> MinValue(u), to |-> MaxValue(u)], Wrap(u, x))
        BY <4>1, <1>0, HalfAssumption DEF Includes, MinValue, MaxValue
      <4>. QED  BY <3>1, <4>2 DEF Member
    <3>. QED  BY <3>2, <3>3, <3>4, <2>1 DEF RangeConstraint
  <2>2. CASE rangeSets[u] # Null
    <3>1. old = rangeSets[u]
      BY <2>2
    <3>2. old \in SUBSET Range(u) /\ Sorted(old)
      BY <3>1, <2>2, <1>0 DEF IInv, TypeOK, RangesDisjoint, Sorted
    <3>3. old # {}
      BY <3>1, <2>2, <1>0 DEF IInv, HasInput, Member
    <3>. QED  BY <3>1, <3>2, <3>3, <2>2 DEF RangeConstraint, Member
  <2>. QED  BY <2>1, <2>2
<1>. HIDE DEF old, lower, upper
<1>7. /\ new \subseteq Range(u)
      /\ Sorted(new)
      /\ \A v \in Number(u) : Member(new, v) <=> Member(old, v) /\ InModular(v, lower, upper)
  BY <1>0, <1>5, <1>6, IntersectExact
<1>. HIDE DEF new
<1>8. \A x \in BitVector : Member(new, Wrap(u, x)) <=>
           x \in RangeConstraint(u) /\ Holds(kind, x, val, adj)
  BY <1>3, <1>5, <1>6, <1>7
<1>9. input \in RangeConstraint(u)
  BY <1>0, <1>4 DEF RangeConstraint, IInv, HasInput, Member
<1>10. Member(new, Wrap(u, input))
  BY <1>1, <1>4, <1>8, <1>9
<1>11. new # {}
  BY <1>10 DEF Member
<1>. QED  BY <1>1, <1>2, <1>7, <1>8, <1>10, <1>11 DEF u, val, adj

(* Expr::addConstraint preserves the inductive invariant. *)
LEMMA NextIInv == IInv /\ [Next]_vars => IInv'
<1>. SUFFICES ASSUME IInv, [Next]_vars PROVE IInv'
  OBVIOUS
<1>1. CASE UNCHANGED vars
  BY <1>1 DEF IInv, TypeOK, RangesDisjoint, HasInput, ConstraintExact, RangeConstraint, vars
<1>2. ASSUME NEW kind \in Kind, NEW rhs \in BitVector, NEW adjustment \in BitVector,
             AddConstraint(kind, rhs, adjustment)
      PROVE  IInv'
  <2>. DEFINE u == IsUnsigned(kind)
              val == Wrap(u, rhs)
              adj == Wrap(u, adjustment)
  <2>0. u \in BOOLEAN
    BY DEF IsUnsigned
  <2>1. /\ rangeSets'[u] \in SUBSET Range(u) /\ rangeSets'[u] # {}
        /\ rangeSets' = [rangeSets EXCEPT ![u] = rangeSets'[u]]
        /\ Sorted(rangeSets'[u])
        /\ Member(rangeSets'[u], Wrap(u, input))
        /\ \A x \in BitVector : Member(rangeSets'[u], Wrap(u, x)) <=>
              x \in RangeConstraint(u) /\ Holds(kind, x, val, adj)
    BY <1>2, AddedRanges
  <2>2. /\ input' = input
        /\ allowed' = {x \in allowed : Holds(kind, x, val, adj)}
    BY <1>2 DEF AddConstraint
  <2>. HIDE DEF u, val, adj
  <2>3. \A w \in BOOLEAN : w # u => rangeSets'[w] = rangeSets[w]
    BY <2>0, <2>1 DEF IInv, TypeOK
  <2>4. rangeSets'[u] # Null
    BY <2>0, <2>1, NullAssumption
  <2>5. TypeOK'
    <3>1. \A w \in BOOLEAN : rangeSets'[w] # Null => rangeSets'[w] \subseteq Range(w)
      BY <2>1, <2>3 DEF IInv, TypeOK
    <3>2. SUBSET Range(u) \subseteq (SUBSET Range(FALSE)) \cup (SUBSET Range(TRUE))
      <4>1. CASE u = TRUE
        BY <4>1
      <4>2. CASE u = FALSE
        BY <4>2
      <4>. QED  BY <4>1, <4>2, <2>0
    <3>3. rangeSets' \in [BOOLEAN -> {Null} \cup (SUBSET Range(FALSE)) \cup (SUBSET Range(TRUE))]
      BY <2>0, <2>1, <3>2 DEF IInv, TypeOK
    <3>4. allowed' \subseteq BitVector /\ input' \in BitVector
      BY <2>2 DEF IInv, TypeOK
    <3>. QED  BY <3>1, <3>3, <3>4 DEF TypeOK
  <2>6. RangesDisjoint'
    BY <2>1, <2>3 DEF IInv, RangesDisjoint, Sorted
  <2>7. HasInput'
    BY <2>1, <2>2, <2>3 DEF IInv, HasInput
  <2>8. ConstraintExact'
    <3>1. RangeConstraint(u)' = {x \in RangeConstraint(u) : Holds(kind, x, val, adj)}
      <4>1. u' = u
        BY DEF u, IsUnsigned
      <4>2. RangeConstraint(u)' = {x \in BitVector : Member(rangeSets'[u], Wrap(u, x))}
        BY <4>1, <2>1, <2>4 DEF RangeConstraint, Member
      <4>3. RangeConstraint(u) \subseteq BitVector
        BY DEF RangeConstraint
      <4>. QED  BY <4>2, <4>3, <2>1
    <3>2. \A w \in BOOLEAN : w # u => RangeConstraint(w)' = RangeConstraint(w)
      BY <2>3 DEF RangeConstraint
    <3>3. CASE u = TRUE
      BY <3>1, <3>2, <3>3, <2>2 DEF IInv, ConstraintExact
    <3>4. CASE u = FALSE
      BY <3>1, <3>2, <3>4, <2>2 DEF IInv, ConstraintExact
    <3>. QED  BY <3>3, <3>4, <2>0
  <2>. QED  BY <2>5, <2>6, <2>7, <2>8 DEF IInv
<1>. QED  BY <1>1, <1>2 DEF Next

(* The inductive invariant holds of every reachable state of the two        *)
(* RangeSets that Expr::addConstraint maintains.                            *)
THEOREM Invariance == Spec => []IInv
<1>1. Init => IInv
  BY InitIInv
<1>2. IInv /\ [Next]_vars => IInv'
  BY NextIInv
<1>. QED  BY <1>1, <1>2, PTL DEF Spec

(* For every width of the bit vectors, the two RangeSets of an expression   *)
(* together describe exactly the values that satisfy the constraints added  *)
(* by Expr::addConstraint.                                                  *)
THEOREM Exactness == Spec => []ConstraintExact
<1>1. IInv => ConstraintExact
  BY DEF IInv
<1>. QED  BY <1>1, Invariance, PTL

(* The intervals of a RangeSet never overlap, which intersectInRange needs. *)
THEOREM Disjointness == Spec => []RangesDisjoint
<1>1. IInv => RangesDisjoint
  BY DEF IInv
<1>. QED  BY <1>1, Invariance, PTL

(* The state of the module keeps its type. *)
THEOREM TypeCorrect == Spec => []TypeOK
<1>1. IInv => TypeOK
  BY DEF IInv
<1>. QED  BY <1>1, Invariance, PTL
=============================================================================
