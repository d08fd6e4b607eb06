--------------------------- MODULE AlgoTest_proofs ---------------------------
(***************************************************************************)
(* The Python and the MicroPython implementations find the same overlap,   *)
(* and what the two algotest.py make of it, for any finite set of end      *)
(* points, any list of servers and any number of ranges.  A range in the   *)
(* wrong order, which only MicroPython takes, counts against the points it *)
(* spans: with that, both scans of a search still count the same at every  *)
(* point, and what one more range changes is never more than one.          *)
(***************************************************************************)
EXTENDS AlgoTest, Edges_proofs

\* The ranges around x, and those in the wrong order that span it.
Around(x) == {r \in Interval : r.lo <= x /\ x <= r.hi}
Across(x) == {r \in Interval : r.hi < x /\ x < r.lo}

\* What both scans count at each point.
Net(rs) == [x \in Value |-> CountIn(rs, Around(x)) - CountIn(rs, Across(x))]

\* n is the greatest of the numbers in D, or 0 if none is positive.
IsTop(D, n) ==
  /\ n \in Nat
  /\ \A x \in Value : D[x] <= n
  /\ n = 0 \/ \E x \in Value : D[x] >= n

\* lo and hi are the outermost points at which D reaches n.
Ends(D, n, lo, hi) ==
  /\ lo \in Value /\ D[lo] >= n
  /\ hi \in Value /\ D[hi] >= n
  /\ \A x \in Value : D[x] >= n => lo <= x /\ x <= hi

InOrder(rs) == \A i \in DOMAIN rs : rs[i].lo <= rs[i].hi

-----------------------------------------------------------------------------
(* What the scans count *)

\* The number of ranges of a kind is a natural number.
LEMMA KindCount ==
  ASSUME NEW rs \in Seq(Interval), NEW S
  PROVE  CountIn(rs, S) \in Nat /\ CountIn(rs, S) <= Len(rs)
<1> DEFINE n == Len(rs)
           I == IndicesIn(rs, S)
<1>1. n \in Nat /\ I \subseteq 1..n
  BY DEF IndicesIn
<1> HIDE DEF n
<1>2. IsFiniteSet(1..n) /\ Cardinality(1..n) = IF 1 > n THEN 0 ELSE n - 1 + 1
  BY <1>1, FS_Interval
<1>3. Cardinality(1..n) = n
  BY <1>1, <1>2
<1> HIDE DEF I
<1>4. IsFiniteSet(I) /\ Cardinality(I) <= Cardinality(1..n)
  BY <1>1, <1>2, FS_Subset
<1>5. Cardinality(I) \in Nat
  BY <1>4, FS_CardinalityType
<1> QED
  BY <1>3, <1>4, <1>5 DEF CountIn, I, n

\* One more range counts once if it is of the kind.
LEMMA KindAppend ==
  ASSUME NEW rs \in Seq(Interval), NEW r \in Interval, NEW S
  PROVE  CountIn(Append(rs, r), S) = CountIn(rs, S) + (IF r \in S THEN 1 ELSE 0)
<1> DEFINE n == Len(rs) + 1
           t == Append(rs, r)
           I == IndicesIn(rs, S)
           J == IndicesIn(t, S)
<1>1. IsFiniteSet(I) /\ Cardinality(I) \in Nat
  BY IndicesFinite DEF IndicesIn
<1>2. n \notin I
  BY DEF IndicesIn
<1>3. /\ DOMAIN t = 1..n /\ DOMAIN rs = 1..Len(rs) /\ Len(rs) \in Nat
      /\ t[n] = r /\ \A i \in 1..Len(rs) : t[i] = rs[i]
  OBVIOUS
<1> HIDE DEF t
<1>4. CASE r \in S
  <2>1. J = I \cup {n}
    BY <1>3, <1>4 DEF IndicesIn
  <2> HIDE DEF I, J, n
  <2>2. Cardinality(I \cup {n}) = Cardinality(I) + 1
    BY <1>1, <1>2, FS_AddElement
  <2> QED
    BY <1>4, <2>1, <2>2 DEF CountIn, I, J, t
<1>5. CASE r \notin S
  <2>1. J = I
    BY <1>3, <1>5 DEF IndicesIn
  <2> HIDE DEF I, J, n
  <2> QED
    BY <1>1, <1>5, <2>1 DEF CountIn, I, J, t
<1> QED
  BY <1>4, <1>5

\* The depth of a point is the number of ranges around it.
LEMMA DepthIsCount ==
  ASSUME NEW rs \in Seq(Interval), NEW x
  PROVE  Depth(rs, x) = CountIn(rs, Around(x))
<1>1. \A i \in DOMAIN rs : rs[i] \in Interval
  OBVIOUS
<1>2. {i \in DOMAIN rs : rs[i].lo <= x /\ x <= rs[i].hi} = IndicesIn(rs, Around(x))
  BY <1>1 DEF IndicesIn, Around
<1> QED
  BY <1>2 DEF Depth, CountIn

\* There is a number for every point, and no more than there are ranges.
LEMMA NetType ==
  ASSUME NEW rs \in Seq(Interval)
  PROVE  Net(rs) \in [Value -> Int] /\ \A x \in Value : Net(rs)[x] <= Len(rs)
<1>1. \A x \in Value : /\ CountIn(rs, Around(x)) \in Nat /\ CountIn(rs, Across(x)) \in Nat
                       /\ CountIn(rs, Around(x)) <= Len(rs)
  BY KindCount
<1>2. Len(rs) \in Nat
  OBVIOUS
<1> QED
  BY <1>1, <1>2 DEF Net

\* One more range raises the number by one, or lowers it, or does neither.
LEMMA NetAppend ==
  ASSUME NEW rs \in Seq(Interval), NEW r \in Interval, NEW x \in Value
  PROVE  Net(Append(rs, r))[x] =
           Net(rs)[x] + (IF r.lo <= x /\ x <= r.hi THEN 1 ELSE 0)
                      - (IF r.hi < x /\ x < r.lo THEN 1 ELSE 0)
<1> DEFINE t == Append(rs, r)
           a == CountIn(rs, Around(x))
           b == CountIn(rs, Across(x))
           c == CountIn(t, Around(x))
           d == CountIn(t, Across(x))
<1>1. Net(t)[x] = c - d /\ Net(rs)[x] = a - b
  BY DEF Net
<1>2. r \in Around(x) <=> r.lo <= x /\ x <= r.hi
  BY DEF Around
<1>3. r \in Across(x) <=> r.hi < x /\ x < r.lo
  BY DEF Across
<1>4. c = a + (IF r \in Around(x) THEN 1 ELSE 0) /\ d = b + (IF r \in Across(x) THEN 1 ELSE 0)
  BY KindAppend
<1>5. a \in Nat /\ b \in Nat
  BY KindCount
<1> HIDE DEF a, b, c, d, t
<1>6. Net(t)[x] = Net(rs)[x] + (IF r.lo <= x /\ x <= r.hi THEN 1 ELSE 0)
                             - (IF r.hi < x /\ x < r.lo THEN 1 ELSE 0)
  BY <1>1, <1>2, <1>3, <1>4, <1>5
<1> QED
  BY <1>6 DEF t

\* Of ranges in the right order, the number is the depth.
LEMMA NetInOrder ==
  ASSUME NEW rs \in Seq(Interval), InOrder(rs), NEW x \in Value
  PROVE  Net(rs)[x] = Depth(rs, x)
<1>1. \A i \in DOMAIN rs : rs[i].lo \in Int /\ rs[i].hi \in Int /\ rs[i].lo <= rs[i].hi
  <2> SUFFICES ASSUME NEW i \in DOMAIN rs PROVE rs[i].lo \in Int /\ rs[i].hi \in Int /\ rs[i].lo <= rs[i].hi
    OBVIOUS
  <2>1. rs[i] \in Interval
    OBVIOUS
  <2> QED
    BY <2>1, ValueAssumption DEF InOrder, Interval
<1>2. IndicesIn(rs, Across(x)) = {}
  <2>1. x \in Int
    BY ValueAssumption
  <2> QED
    BY <1>1, <2>1 DEF IndicesIn, Across
<1>3. CountIn(rs, Across(x)) = 0
  BY <1>2, FS_EmptySet DEF CountIn
<1>4. Depth(rs, x) = CountIn(rs, Around(x)) /\ Depth(rs, x) \in Nat
  BY DepthIsCount, KindCount
<1> QED
  BY <1>3, <1>4 DEF Net

\* The edges of a range count at each point what the range does, whatever its order.
LEMMA NetCounts ==
  ASSUME NEW s \in Seq(EdgeType), NEW t \in Seq(EdgeType), NEW rs \in Seq(Interval),
         NEW l \in Value, NEW h \in Value, Counts(s, Net(rs)),
         \A S : CountIn(t, S) = CountIn(s, S) + (IF Edge(l, -1) \in S THEN 1 ELSE 0)
                                              + (IF Edge(h, 1) \in S THEN 1 ELSE 0)
  PROVE  Counts(t, Net(Append(rs, [lo |-> l, hi |-> h])))
<1> DEFINE rt == Append(rs, [lo |-> l, hi |-> h])
<1>1. l \in Int /\ h \in Int /\ [lo |-> l, hi |-> h] \in Interval
  BY ValueAssumption DEF Interval
<1>2. \A x \in Value : Net(rt)[x] = Net(rs)[x] + (IF l <= x /\ x <= h THEN 1 ELSE 0)
                                               - (IF h < x /\ x < l THEN 1 ELSE 0)
  BY <1>1, NetAppend
<1>3. \A x \in Value : Net(rs)[x] \in Int
  BY NetType
<1> HIDE DEF rt
<1> SUFFICES ASSUME NEW x \in Value
             PROVE  /\ CountIn(t, UpTo(x) \cap LowEdges) - CountIn(t, UpTo(x) \cap HighEdges)
                         = Net(rt)[x]
                    /\ CountIn(t, From(x) \cap HighEdges) - CountIn(t, From(x) \cap LowEdges)
                         = Net(rt)[x]
  BY DEF Counts, rt
<1>4. x \in Int
  BY ValueAssumption
<1>5. /\ Edge(l, -1) \in UpTo(x) \cap LowEdges <=> l <= x
      /\ Edge(h, 1) \notin UpTo(x) \cap LowEdges
      /\ Edge(h, 1) \in UpTo(x) \cap HighEdges <=> h < x
      /\ Edge(l, -1) \notin UpTo(x) \cap HighEdges
  BY <1>1, <1>4 DEF Edge, EdgeType, UpTo, LowEdges, HighEdges
<1>6. /\ Edge(h, 1) \in From(x) \cap HighEdges <=> x <= h
      /\ Edge(l, -1) \notin From(x) \cap HighEdges
      /\ Edge(l, -1) \in From(x) \cap LowEdges <=> x < l
      /\ Edge(h, 1) \notin From(x) \cap LowEdges
  BY <1>1, <1>4 DEF Edge, EdgeType, From, LowEdges, HighEdges
<1> DEFINE a  == CountIn(s, UpTo(x) \cap LowEdges)
           b  == CountIn(s, UpTo(x) \cap HighEdges)
           c  == CountIn(s, From(x) \cap HighEdges)
           d  == CountIn(s, From(x) \cap LowEdges)
           a1 == CountIn(t, UpTo(x) \cap LowEdges)
           b1 == CountIn(t, UpTo(x) \cap HighEdges)
           c1 == CountIn(t, From(x) \cap HighEdges)
           d1 == CountIn(t, From(x) \cap LowEdges)
<1>7. /\ a1 = a + (IF l <= x THEN 1 ELSE 0) + 0 /\ b1 = b + 0 + (IF h < x THEN 1 ELSE 0)
      /\ c1 = c + 0 + (IF x <= h THEN 1 ELSE 0) /\ d1 = d + (IF x < l THEN 1 ELSE 0) + 0
  BY <1>5, <1>6
<1>8. a - b = Net(rs)[x] /\ c - d = Net(rs)[x]
  BY DEF Counts
<1>9. a \in Nat /\ b \in Nat /\ c \in Nat /\ d \in Nat
  <2>1. \A S : IndicesIn(s, S) \subseteq DOMAIN s
    BY DEF IndicesIn
  <2> QED
    BY <2>1, IndicesFinite DEF CountIn
<1> HIDE DEF a, b, c, d, a1, b1, c1, d1
<1>10. a1 - b1 = Net(rt)[x] /\ c1 - d1 = Net(rt)[x]
  <2>1. Net(rt)[x] = Net(rs)[x] + (IF l <= x /\ x <= h THEN 1 ELSE 0)
                                - (IF h < x /\ x < l THEN 1 ELSE 0)
    BY <1>2
  <2>2. Net(rs)[x] \in Int
    BY <1>3
  <2>3. (IF l <= x THEN 1 ELSE 0) - (IF h < x THEN 1 ELSE 0)
          = (IF l <= x /\ x <= h THEN 1 ELSE 0) - (IF h < x /\ x < l THEN 1 ELSE 0)
    BY <1>1, <1>4
  <2>4. (IF x <= h THEN 1 ELSE 0) - (IF x < l THEN 1 ELSE 0)
          = (IF l <= x /\ x <= h THEN 1 ELSE 0) - (IF h < x /\ x < l THEN 1 ELSE 0)
    BY <1>1, <1>4
  <2> QED
    BY <1>7, <1>8, <1>9, <2>1, <2>2, <2>3, <2>4
<1> QED
  BY <1>10 DEF a1, b1, c1, d1

-----------------------------------------------------------------------------
(* What a search ends with *)

\* Numbers that are bounded have a greatest one.
LEMMA TopExists ==
  ASSUME NEW D \in [Value -> Int], NEW N \in Nat, \A x \in Value : D[x] <= N
  PROVE  \E n \in 0..N : IsTop(D, n)
<1> DEFINE S == {n \in 1..N : \E x \in Value : D[x] >= n}
<1>1. CASE S = {}
  <2>1. ASSUME NEW x \in Value PROVE D[x] <= 0
    <3> SUFFICES ASSUME D[x] > 0 PROVE FALSE
      OBVIOUS
    <3>1. D[x] \in 1..N
      OBVIOUS
    <3> QED
      BY <1>1, <3>1
  <2> QED
    BY <2>1 DEF IsTop
<1>2. CASE S # {}
  <2>1. PICK n \in S : \A m \in S : m <= n
    <3>1. S \subseteq 1..N
      OBVIOUS
    <3> HIDE DEF S
    <3> QED BY <1>2, <3>1, LastOf
  <2>2. n \in 0..N /\ \E x \in Value : D[x] >= n
    OBVIOUS
  <2>3. ASSUME NEW x \in Value PROVE D[x] <= n
    <3> SUFFICES ASSUME D[x] > n PROVE FALSE
      OBVIOUS
    <3>1. D[x] \in S
      BY <2>2
    <3> QED
      BY <2>1, <2>2, <3>1
  <2> QED
    BY <2>2, <2>3 DEF IsTop
<1> QED
  BY <1>1, <1>2

\* There is only one greatest number.
LEMMA TopUnique ==
  ASSUME NEW D \in [Value -> Int], NEW n, NEW m, IsTop(D, n), IsTop(D, m)
  PROVE  n = m
  BY DEF IsTop

\* Of the deepest overlap, the count is the greatest depth.
LEMMA BestIsTop ==
  ASSUME NEW rs \in Seq(Interval), InOrder(rs), NEW n, IsTop(Net(rs), n)
  PROVE  /\ MaxDepth(rs) = n /\ Best(rs).count = n
         /\ n = 0 => Best(rs) = NoOverlap
         /\ \A lo, hi : n # 0 /\ Ends(Net(rs), n, lo, hi) =>
                          Best(rs) = [count |-> n, lo |-> lo, hi |-> hi]
<1>1. \A x \in Value : Net(rs)[x] = Depth(rs, x) /\ Depth(rs, x) \in Nat /\ Depth(rs, x) <= Len(rs)
  BY NetInOrder, DepthType
<1>2. n \in 0..Len(rs) /\ n \in Nat
  <2>1. n \in Nat /\ Len(rs) \in Nat /\ (n = 0 \/ \E x \in Value : Net(rs)[x] >= n)
    BY DEF IsTop
  <2> QED
    BY <1>1, <2>1
<1>3. MaxDepth(rs) = n
  <2>1. \A x \in Value : Depth(rs, x) <= n
    BY <1>1 DEF IsTop
  <2>2. n = 0 \/ \E x \in Value : Depth(rs, x) >= n
    BY <1>1 DEF IsTop
  <2> QED
    BY <1>2, <2>1, <2>2, MaxDepthIs
<1>4. n = 0 => Best(rs) = NoOverlap
  BY <1>3 DEF Best
<1>5. Best(rs).count = n
  BY <1>3, <1>4 DEF Best, NoOverlap
<1>6. ASSUME NEW lo, NEW hi, n # 0, Ends(Net(rs), n, lo, hi)
      PROVE  Best(rs) = [count |-> n, lo |-> lo, hi |-> hi]
  <2>1. n \in 1..Len(rs)
    BY <1>2, <1>6
  <2>2. lo \in Value /\ hi \in Value /\ Depth(rs, lo) >= n /\ Depth(rs, hi) >= n
    BY <1>1, <1>6 DEF Ends
  <2>3. \A x \in Value : Depth(rs, x) >= n => lo <= x /\ x <= hi
    BY <1>1, <1>6 DEF Ends
  <2>4. \A x \in Value : Depth(rs, x) <= n
    BY <1>1 DEF IsTop
  <2> QED
    BY <2>1, <2>2, <2>3, <2>4, BestIs
<1> QED
  BY <1>3, <1>4, <1>5, <1>6

\* Both scans reach a count when some point has it, and then they agree and stop
\* at the outermost of these points.
LEMMA ScansFind ==
  ASSUME NEW s \in Seq(EdgeOfValue), Sorted(s), NEW D \in [Value -> Int], Counts(s, D),
         NEW w \in Nat \ {0}
  PROVE  /\ ReachUp(s, w) # {} <=> \E x \in Value : D[x] >= w
         /\ ReachDown(s, w) # {} <=> \E x \in Value : D[x] >= w
         /\ Agreed(s, w) <=> \E x \in Value : D[x] >= w
         /\ (\E x \in Value : D[x] >= w) =>
              Ends(D, w, LowEdge(s, w).value, HighEdge(s, w).value)
<1>1. ReachUp(s, w) # {} <=> \E x \in Value : D[x] >= w
  BY ScanUpReaches
<1>2. ReachDown(s, w) # {} <=> \E x \in Value : D[x] >= w
  BY ScanDownReaches
<1>3. ASSUME NEW x \in Value, D[x] >= w
      PROVE  Ends(D, w, LowEdge(s, w).value, HighEdge(s, w).value)
  <2>1. ReachUp(s, w) \in SUBSET Nat /\ ReachDown(s, w) \in SUBSET (1..Len(s)) /\ Len(s) \in Nat
    BY ValuesOfEdges DEF ReachUp, ReachDown
  <2>2. /\ Min(ReachUp(s, w)) \in ReachUp(s, w)
        /\ \A m \in ReachUp(s, w) : Min(ReachUp(s, w)) <= m
    <3>1. \E k \in ReachUp(s, w) : \A m \in ReachUp(s, w) : k <= m
      BY <1>1, <1>3, <2>1, FirstOf
    <3> QED
      BY <3>1 DEF Min
  <2>3. /\ Max(ReachDown(s, w)) \in ReachDown(s, w)
        /\ \A m \in ReachDown(s, w) : m <= Max(ReachDown(s, w))
    <3>1. \E k \in ReachDown(s, w) : \A m \in ReachDown(s, w) : m <= k
      BY <1>2, <1>3, <2>1, LastOf
    <3>2. \E k \in ReachDown(s, w) : \A m \in ReachDown(s, w) : k >= m
      BY <2>1, <3>1
    <3>3. \A m \in ReachDown(s, w) : Max(ReachDown(s, w)) >= m
      BY <3>2 DEF Max
    <3>4. Max(ReachDown(s, w)) \in ReachDown(s, w)
      BY <3>2 DEF Max
    <3> QED
      BY <2>1, <3>3, <3>4
  <2>4. /\ LowEdge(s, w).value \in Value /\ D[LowEdge(s, w).value] >= w
        /\ \A y \in Value : D[y] >= w => LowEdge(s, w).value <= y
    BY <2>2, ScanUpReaches DEF LowEdge
  <2>5. /\ HighEdge(s, w).value \in Value /\ D[HighEdge(s, w).value] >= w
        /\ \A y \in Value : D[y] >= w => y <= HighEdge(s, w).value
    BY <2>3, ScanDownReaches DEF HighEdge
  <2> QED
    BY <2>4, <2>5 DEF Ends
<1>4. Agreed(s, w) <=> \E x \in Value : D[x] >= w
  <2>1. ASSUME NEW x \in Value, D[x] >= w PROVE LowEdge(s, w).value <= HighEdge(s, w).value
    <3>1. /\ LowEdge(s, w).value \in Int /\ HighEdge(s, w).value \in Int /\ x \in Int
          /\ LowEdge(s, w).value <= x /\ x <= HighEdge(s, w).value
      BY <1>3, <2>1, ValueAssumption DEF Ends
    <3> QED
      BY <3>1
  <2> QED
    BY <1>1, <1>2, <2>1 DEF Agreed
<1> QED
  BY <1>1, <1>2, <1>3, <1>4

\* A search from any count that is not below the greatest number ends at it.
LEMMA SearchEnds ==
  ASSUME NEW s \in Seq(EdgeOfValue), Sorted(s), NEW D \in [Value -> Int], Counts(s, D),
         NEW w \in Nat, NEW n, IsTop(D, n), n <= w
  PROVE  FirstAgreed(s, w) = n
<1> DEFINE W == {k \in 1..w : Agreed(s, k)}
<1>1. n \in Nat /\ (\A x \in Value : D[x] <= n) /\ (n = 0 \/ \E x \in Value : D[x] >= n)
  BY DEF IsTop
<1>2. \A k \in 1..w : Agreed(s, k) <=> \E x \in Value : D[x] >= k
  <2> SUFFICES ASSUME NEW k \in 1..w PROVE Agreed(s, k) <=> \E x \in Value : D[x] >= k
    OBVIOUS
  <2>1. k \in Nat \ {0}
    OBVIOUS
  <2> QED
    BY <2>1, ScansFind
<1>3. \A k \in W : k <= n
  BY <1>1, <1>2
<1>4. n # 0 => n \in W
  BY <1>1, <1>2
<1>5. FirstAgreed(s, w) = IF W = {} THEN 0 ELSE Max(W)
  BY DEF FirstAgreed
<1>6. W \subseteq 1..w
  OBVIOUS
<1> HIDE DEF W
<1>7. CASE n = 0
  <2>1. W = {}
    BY <1>3, <1>6, <1>7
  <2> QED
    BY <1>5, <1>7, <2>1
<1>8. CASE n # 0
  <2>1. n \in W /\ \A m \in W : n >= m
    BY <1>1, <1>3, <1>4, <1>6, <1>8
  <2>2. \A k \in W : (\A m \in W : k >= m) => k = n
    BY <1>1, <1>6, <2>1
  <2>3. Max(W) = n
    BY <2>1, <2>2 DEF Max
  <2> QED
    BY <1>5, <2>1, <2>3
<1> QED
  BY <1>7, <1>8

-----------------------------------------------------------------------------
(* The implementations *)

\* Variants uses one list of edges in all of them.
LEMMA PySame ==
  ASSUME NEW s, NEW w
  PROVE  /\ Python!ReachUp(s, w) = ReachUp(s, w) /\ Python!ReachDown(s, w) = ReachDown(s, w)
         /\ Python!LowEdge(s, w) = LowEdge(s, w) /\ Python!HighEdge(s, w) = HighEdge(s, w)
         /\ Python!FirstAgreed(s, w) = FirstAgreed(s, w)
<1>1. \A I : Python!Lows(s, I) = Lows(s, I) /\ Python!Highs(s, I) = Highs(s, I)
  BY DEF Python!Lows, Lows, Python!Highs, Highs
<1>2. \A S : Python!Cardinality(S) = Cardinality(S)
  BY Zenon DEF Python!Cardinality, Cardinality
<1>3. \A k : Python!ChimeUp(s, k) = ChimeUp(s, k) /\ Python!ChimeDown(s, k) = ChimeDown(s, k)
  BY <1>1, <1>2 DEF Python!ChimeUp, ChimeUp, Python!ChimeDown, ChimeDown
<1>4. \A n : Python!ReachUp(s, n) = ReachUp(s, n) /\ Python!ReachDown(s, n) = ReachDown(s, n)
  BY <1>3 DEF Python!ReachUp, ReachUp, Python!ReachDown, ReachDown
<1>5. \A S : Python!Min(S) = Min(S) /\ Python!Max(S) = Max(S)
  BY Zenon DEF Python!Min, Min, Python!Max, Max
<1>6. \A n : Python!LowEdge(s, n) = LowEdge(s, n) /\ Python!HighEdge(s, n) = HighEdge(s, n)
  BY <1>4, <1>5 DEF Python!LowEdge, LowEdge, Python!HighEdge, HighEdge
<1>7. \A n : Python!Agreed(s, n) <=> Agreed(s, n)
  BY <1>4, <1>6 DEF Python!Agreed, Agreed
<1>8. {n \in 1..w : Python!Agreed(s, n)} = {n \in 1..w : Agreed(s, n)}
  BY <1>7
<1>9. Python!FirstAgreed(s, w) = FirstAgreed(s, w)
  BY <1>5, <1>8, Zenon DEF Python!FirstAgreed, FirstAgreed
<1> QED
  BY <1>4, <1>6, <1>9

\* Of adding a range, too.
LEMMA PySameAdd ==
  ASSUME NEW s, NEW l, NEW h
  PROVE  Python!AddRange(s, l, h) = AddRange(s, l, h)
<1>1. \A v, c : Python!Edge(v, c) = Edge(v, c)
  BY DEF Python!Edge, Edge
<1>2. \A e, f : Python!Precedes(e, f) <=> Precedes(e, f)
  BY DEF Python!Precedes, Precedes
<1>3. \A t, e : Python!Places(t, e) = Places(t, e)
  BY <1>2 DEF Python!Places, Places
<1>4. \A t, p, e : Python!PutAt(t, p, e) = PutAt(t, p, e)
  BY DEF Python!PutAt, PutAt
<1>5. \A t, e : Python!Insert(t, e) = Insert(t, e)
  BY <1>3, <1>4, Zenon DEF Python!Insert, Insert
<1> QED
  BY <1>1, <1>5, Zenon DEF Python!AddRange, AddRange

\* The same operators, as the MicroPython module has them.
LEMMA MpSame ==
  ASSUME NEW s, NEW w
  PROVE  /\ MicroPython!LowEdge(s, w) = LowEdge(s, w) /\ MicroPython!HighEdge(s, w) = HighEdge(s, w)
         /\ MicroPython!FirstAgreed(s, w) = FirstAgreed(s, w)
<1>1. \A I : MicroPython!Lows(s, I) = Lows(s, I) /\ MicroPython!Highs(s, I) = Highs(s, I)
  BY DEF MicroPython!Lows, Lows, MicroPython!Highs, Highs
<1>2. \A S : MicroPython!Cardinality(S) = Cardinality(S)
  BY Zenon DEF MicroPython!Cardinality, Cardinality
<1>3. \A k : /\ MicroPython!ChimeUp(s, k) = ChimeUp(s, k)
             /\ MicroPython!ChimeDown(s, k) = ChimeDown(s, k)
  BY <1>1, <1>2 DEF MicroPython!ChimeUp, ChimeUp, MicroPython!ChimeDown, ChimeDown
<1>4. \A n : /\ MicroPython!ReachUp(s, n) = ReachUp(s, n)
             /\ MicroPython!ReachDown(s, n) = ReachDown(s, n)
  BY <1>3 DEF MicroPython!ReachUp, ReachUp, MicroPython!ReachDown, ReachDown
<1>5. \A S : MicroPython!Min(S) = Min(S) /\ MicroPython!Max(S) = Max(S)
  BY Zenon DEF MicroPython!Min, Min, MicroPython!Max, Max
<1>6. \A n : /\ MicroPython!LowEdge(s, n) = LowEdge(s, n)
             /\ MicroPython!HighEdge(s, n) = HighEdge(s, n)
  BY <1>4, <1>5 DEF MicroPython!LowEdge, LowEdge, MicroPython!HighEdge, HighEdge
<1>7. \A n : MicroPython!Agreed(s, n) <=> Agreed(s, n)
  BY <1>4, <1>6 DEF MicroPython!Agreed, Agreed
<1>8. {n \in 1..w : MicroPython!Agreed(s, n)} = {n \in 1..w : Agreed(s, n)}
  BY <1>7
<1>9. MicroPython!FirstAgreed(s, w) = FirstAgreed(s, w)
  BY <1>5, <1>8, Zenon DEF MicroPython!FirstAgreed, FirstAgreed
<1> QED
  BY <1>6, <1>9

\* And how it adds a range.
LEMMA MpSameAdd ==
  ASSUME NEW s, NEW l, NEW h
  PROVE  MicroPython!AddRange(s, l, h) = AddRange(s, l, h)
<1>1. \A v, c : MicroPython!Edge(v, c) = Edge(v, c)
  BY DEF MicroPython!Edge, Edge
<1>2. \A e, f : MicroPython!Precedes(e, f) <=> Precedes(e, f)
  BY DEF MicroPython!Precedes, Precedes
<1>3. \A t, e : MicroPython!Places(t, e) = Places(t, e)
  BY <1>2 DEF MicroPython!Places, Places
<1>4. \A t, p, e : MicroPython!PutAt(t, p, e) = PutAt(t, p, e)
  BY DEF MicroPython!PutAt, PutAt
<1>5. \A t, e : MicroPython!Insert(t, e) = Insert(t, e)
  BY <1>3, <1>4, Zenon DEF MicroPython!Insert, Insert
<1> QED
  BY <1>1, <1>5, Zenon DEF MicroPython!AddRange, AddRange

\* What a list with one more range holds.
LEMMA AddedRange ==
  ASSUME NEW s \in Seq(EdgeOfValue), Sorted(s), NEW rs \in Seq(Interval), Counts(s, Net(rs)),
         NEW l \in Value, NEW h \in Value
  PROVE  /\ AddRange(s, l, h) \in Seq(EdgeOfValue) /\ Sorted(AddRange(s, l, h))
         /\ Counts(AddRange(s, l, h), Net(Append(rs, [lo |-> l, hi |-> h])))
<1> DEFINE t == AddRange(s, l, h)
<1>1. EdgeOfValue \in SUBSET EdgeType /\ s \in Seq(EdgeType)
  BY ValuesOfEdges
<1>2. Edge(l, -1) \in EdgeOfValue /\ Edge(h, 1) \in EdgeOfValue
  BY DEF Edge, EdgeOfValue
<1>3. t \in Seq(EdgeOfValue) /\ Sorted(t)
  BY <1>1, <1>2, AddRangeShape
<1>4. \A S : CountIn(t, S) = CountIn(s, S) + (IF Edge(l, -1) \in S THEN 1 ELSE 0)
                                           + (IF Edge(h, 1) \in S THEN 1 ELSE 0)
  BY <1>1, <1>2, AddRangeShape
<1> HIDE DEF t
<1>5. t \in Seq(EdgeType)
  BY <1>3, ValuesOfEdges
<1>6. Counts(t, Net(Append(rs, [lo |-> l, hi |-> h])))
  BY <1>1, <1>4, <1>5, NetCounts
<1> QED
  BY <1>3, <1>6 DEF t

\* Both finds of the Python classes return the deepest overlap, if each starts from a
\* count that is high enough.
LEMMA PyFinds ==
  ASSUME NEW s \in Seq(EdgeOfValue), Sorted(s), NEW D \in [Value -> Int], Counts(s, D),
         NEW n, IsTop(D, n), NEW w \in Nat, NEW r \in Nat, n <= w, n <= r,
         w # 0 => n # 0, r # 0 => n # 0
  PROVE  /\ Python!IncrementalFind(s, w) = Python!RefFind(s, r)
         /\ n = 0 => Python!RefFind(s, r) = NoOverlap
         /\ n # 0 => Python!RefFind(s, r) = [count |-> n, lo |-> LowEdge(s, n).value,
                                                          hi |-> HighEdge(s, n).value]
<1>1. n \in Nat /\ (\A x \in Value : D[x] <= n) /\ (n = 0 \/ \E x \in Value : D[x] >= n)
  BY DEF IsTop
<1>2. CASE n = 0
  <2>1. w = 0 /\ r = 0
    BY <1>2
  <2>2. Python!IncrementalFind(s, w) = Python!NoOverlap /\ Python!RefFind(s, r) = Python!NoOverlap
    BY <2>1 DEF Python!IncrementalFind, Python!RefFind
  <2>3. Python!NoOverlap = NoOverlap
    BY DEF Python!NoOverlap, NoOverlap
  <2> QED
    BY <1>2, <2>2, <2>3
<1>3. CASE n # 0
  <2> DEFINE stop == {k \in 1..r : k = 1 \/ (ReachUp(s, k) # {} /\ ReachDown(s, k) # {})}
             c == CHOOSE k \in stop : \A m \in stop : m <= k
             found == [count |-> n, lo |-> LowEdge(s, n).value, hi |-> HighEdge(s, n).value]
  <2>1. \A k \in 1..r : (ReachUp(s, k) # {} /\ ReachDown(s, k) # {}) <=> \E x \in Value : D[x] >= k
    <3> SUFFICES ASSUME NEW k \in 1..r
                 PROVE (ReachUp(s, k) # {} /\ ReachDown(s, k) # {}) <=> \E x \in Value : D[x] >= k
      OBVIOUS
    <3>1. k \in Nat \ {0}
      OBVIOUS
    <3> QED
      BY <3>1, ScansFind
  <2>2. n \in 1..r
    BY <1>1, <1>3
  <2>3. n \in stop /\ \A k \in stop : k <= n
    BY <1>1, <2>1, <2>2
  <2>4. stop \subseteq Nat
    OBVIOUS
  <2>5. c = n
    <3> HIDE DEF stop
    <3>1. \A k \in stop : (\A m \in stop : m <= k) => k = n
      BY <1>1, <2>3, <2>4
    <3> QED
      BY <2>3, <3>1
  <2>6. stop = {k \in 1..r : k = 1 \/ (Python!ReachUp(s, k) # {} /\ Python!ReachDown(s, k) # {})}
    BY PySame
  <2> HIDE DEF stop
  <2>7. ReachUp(s, n) # {} /\ ReachDown(s, n) # {}
    BY <1>1, <1>3, <2>1, <2>2
  <2>8. Python!ScansAt(s, n) = found
    BY <2>7, PySame DEF Python!ScansAt
  <2>9. Python!RefFind(s, r) = found
    <3>1. r # 0
      BY <2>2
    <3>2. Python!RefFind(s, r) = Python!ScansAt(s, c)
      BY <2>6, <3>1 DEF Python!RefFind
    <3> QED
      BY <2>5, <2>8, <3>2
  <2>10. Python!FirstAgreed(s, w) = n
    BY PySame, SearchEnds
  <2>11. Python!IncrementalFind(s, w) = [found EXCEPT !.count = n]
    <3>1. w # 0
      BY <1>1, <1>3
    <3> QED
      BY <1>3, <2>8, <2>10, <3>1 DEF Python!IncrementalFind
  <2>12. [found EXCEPT !.count = n] = found
    OBVIOUS
  <2> QED
    BY <1>3, <2>9, <2>11, <2>12
<1> QED
  BY <1>2, <1>3

-----------------------------------------------------------------------------
(* The objects *)

\* Both Python objects keep the same edges; what the incremental one hopes for is
\* an upper bound.
PyInv ==
  /\ pyEdges \in Seq(EdgeOfValue) /\ Sorted(pyEdges) /\ refEdges = pyEdges
  /\ pyRanges \in Seq(Interval) /\ InOrder(pyRanges)
  /\ Counts(pyEdges, Net(pyRanges))
  /\ pyWanted \in Nat /\ pyWanted <= Len(pyRanges) /\ refResponses = Len(pyRanges)
  /\ \A x \in Value : Net(pyRanges)[x] <= pyWanted
  /\ Agree

\* The MicroPython objects have searched after every range: what the optimized one
\* hopes for is what was found.
MpInv ==
  /\ mpEdges \in Seq(EdgeOfValue) /\ Sorted(mpEdges)
  /\ mpRanges \in Seq(Interval)
  /\ Counts(mpEdges, Net(mpRanges))
  /\ mpResponses = Len(mpRanges)
  /\ IsTop(Net(mpRanges), mpWanted)
  /\ mpPlain = mpOptimized
  /\ mpOptimized = [count |-> mpWanted, lo |-> mpOptimized.lo, hi |-> mpOptimized.hi]
  /\ mpWanted # 0 => Ends(Net(mpRanges), mpWanted, mpOptimized.lo, mpOptimized.hi)
  /\ mpRanges = <<>> => mpOptimized = NoOverlap

\* A range in the right order is around its own low end.
LEMMA SomethingFound ==
  ASSUME NEW rs \in Seq(Interval), InOrder(rs), Len(rs) # 0, NEW n, IsTop(Net(rs), n)
  PROVE  n # 0
<1>1. 1 \in 1..Len(rs) /\ rs[1].lo <= rs[1].hi
  <2>1. 1 \in 1..Len(rs)
    OBVIOUS
  <2> QED
    BY <2>1 DEF InOrder
<1>2. rs[1].lo \in Value /\ Depth(rs, rs[1].lo) >= 1
  BY <1>1, DepthOfOne
<1>3. Net(rs)[rs[1].lo] >= 1 /\ Net(rs)[rs[1].lo] \in Int
  BY <1>2, NetInOrder, NetType
<1>4. Net(rs)[rs[1].lo] <= n /\ n \in Nat
  BY <1>2 DEF IsTop
<1> QED
  BY <1>3, <1>4

\* The greatest number and the outermost points that reach it are the deepest
\* overlap of ranges in the right order.
LEMMA TopIsBest ==
  ASSUME NEW rs \in Seq(Interval), InOrder(rs), NEW n, NEW found, IsTop(Net(rs), n),
         found = [count |-> n, lo |-> found.lo, hi |-> found.hi],
         n # 0 => Ends(Net(rs), n, found.lo, found.hi),
         rs = <<>> => found = NoOverlap
  PROVE  found = Best(rs)
<1>1. CASE n # 0
  BY <1>1, BestIsTop
<1>2. CASE n = 0
  <2>1. Len(rs) = 0
    BY <1>2, SomethingFound
  <2>2. rs = <<>>
    BY <2>1
  <2> QED
    BY <1>2, <2>2, BestIsTop
<1> QED
  BY <1>1, <1>2

\* Both objects are empty at first.
LEMMA ObjectsInit == Init => PyInv /\ MpInv
<1> SUFFICES ASSUME Init PROVE PyInv /\ MpInv
  OBVIOUS
<1>1. \A S : CountIn(<<>>, S) = 0
  <2> SUFFICES ASSUME NEW S PROVE CountIn(<<>>, S) = 0
    OBVIOUS
  <2>1. IndicesIn(<<>>, S) = {}
    BY DEF IndicesIn
  <2> QED
    BY <2>1, FS_EmptySet DEF CountIn
<1>2. \A x \in Value : Net(<<>>)[x] = 0
  BY <1>1 DEF Net
<1>3. Counts(<<>>, Net(<<>>))
  BY <1>1, <1>2 DEF Counts
<1>4. IsTop(Net(<<>>), 0)
  BY <1>2 DEF IsTop
<1>5. Python!NoOverlap = NoOverlap /\ MicroPython!NoOverlap = NoOverlap
  BY DEF Python!NoOverlap, MicroPython!NoOverlap, NoOverlap
<1>6. PyInv
  <2>1. /\ pyEdges = <<>> /\ refEdges = <<>> /\ pyRanges = <<>> /\ pyWanted = 0 /\ refResponses = 0
        /\ Agree
    BY DEF Init, Python!Init, Agree, Python!Agree, Python!Both
  <2> QED
    BY <1>2, <1>3, <2>1 DEF PyInv, Sorted, InOrder
<1>7. MpInv
  <2>1. /\ mpEdges = <<>> /\ mpRanges = <<>> /\ mpWanted = 0 /\ mpResponses = 0
        /\ mpPlain = NoOverlap /\ mpOptimized = NoOverlap
    BY <1>5 DEF Init, MicroPython!Init
  <2> QED
    BY <1>3, <1>4, <2>1 DEF MpInv, Sorted, NoOverlap
<1> QED
  BY <1>6, <1>7

\* add: the object hopes for one overlap more.
LEMMA PyAdds ==
  ASSUME PyInv, NEW l \in Value, NEW h \in Value, Python!Add(l, h)
  PROVE  /\ PyInv' /\ pyRanges' = Append(pyRanges, [lo |-> l, hi |-> h])
         /\ [lo |-> l, hi |-> h] \in Interval
<1> DEFINE r == [lo |-> l, hi |-> h]
           rt == Append(pyRanges, r)
<1>1. /\ l <= h /\ pyEdges' = AddRange(pyEdges, l, h) /\ refEdges' = AddRange(refEdges, l, h)
      /\ pyWanted' = pyWanted + 1 /\ refResponses' = refResponses + 1 /\ pyRanges' = rt
      /\ Agree'
  BY PySameAdd DEF Python!Add, Agree, Python!Agree, Python!Both
<1>2. r \in Interval
  BY DEF Interval
<1>3. rt \in Seq(Interval) /\ Len(rt) = Len(pyRanges) + 1 /\ Len(pyRanges) \in Nat
  BY <1>2 DEF PyInv
<1>4. InOrder(rt)
  <2> SUFFICES ASSUME NEW i \in DOMAIN rt PROVE rt[i].lo <= rt[i].hi
    BY DEF InOrder
  <2>1. CASE i = Len(pyRanges) + 1
    <3>1. rt[i] = r
      BY <2>1 DEF PyInv
    <3> QED
      BY <1>1, <3>1
  <2>2. CASE i # Len(pyRanges) + 1
    <3>1. i \in DOMAIN pyRanges /\ rt[i] = pyRanges[i]
      BY <1>3, <2>2 DEF PyInv
    <3> QED
      BY <3>1 DEF PyInv, InOrder
  <2> QED
    BY <2>1, <2>2
<1>5. /\ AddRange(pyEdges, l, h) \in Seq(EdgeOfValue) /\ Sorted(AddRange(pyEdges, l, h))
      /\ Counts(AddRange(pyEdges, l, h), Net(rt))
  BY AddedRange DEF PyInv
<1>6. \A x \in Value : Net(rt)[x] <= pyWanted + 1
  <2> SUFFICES ASSUME NEW x \in Value PROVE Net(rt)[x] <= pyWanted + 1
    OBVIOUS
  <2>1. Net(rt)[x] = Net(pyRanges)[x] + (IF r.lo <= x /\ x <= r.hi THEN 1 ELSE 0)
                                      - (IF r.hi < x /\ x < r.lo THEN 1 ELSE 0)
    BY <1>2, NetAppend DEF PyInv
  <2>2. Net(pyRanges)[x] \in Int /\ Net(pyRanges)[x] <= pyWanted /\ pyWanted \in Nat
    BY NetType DEF PyInv
  <2> QED
    BY <2>1, <2>2
<1>7. pyWanted' \in Nat /\ pyWanted' <= Len(rt) /\ refResponses' = Len(rt)
  BY <1>1, <1>3 DEF PyInv
<1> HIDE DEF rt, r
<1>8. PyInv'
  BY <1>1, <1>3, <1>4, <1>5, <1>6, <1>7 DEF PyInv
<1> QED
  BY <1>1, <1>2, <1>8 DEF r, rt

\* add of a range in the wrong order changes nothing but the outcome.
LEMMA PyRefuses ==
  ASSUME PyInv, NEW l, NEW h, Python!AddRefused(l, h)
  PROVE  PyInv' /\ pyRanges' = pyRanges
<1>1. /\ UNCHANGED <<pyEdges, pyWanted, refEdges, refResponses, pyRanges>>
      /\ Agree'
  BY DEF Python!AddRefused, Agree, Python!Agree, Python!Both
<1> QED
  BY <1>1 DEF PyInv

\* What both finds of the Python classes return, now and whenever no range is added.
LEMMA PyFindsBest ==
  ASSUME PyInv
  PROVE  \E n : /\ IsTop(Net(pyRanges), n) /\ n <= pyWanted
                /\ Python!FirstAgreed(pyEdges, pyWanted) = n
                /\ Python!IncrementalFind(pyEdges, pyWanted) = Best(pyRanges)
                /\ Python!RefFind(refEdges, refResponses) = Best(pyRanges)
                /\ Best(pyRanges).count = n
<1> DEFINE D == Net(pyRanges)
<1>1. /\ pyEdges \in Seq(EdgeOfValue) /\ Sorted(pyEdges) /\ refEdges = pyEdges
      /\ pyRanges \in Seq(Interval) /\ InOrder(pyRanges) /\ Counts(pyEdges, D)
      /\ pyWanted \in Nat /\ pyWanted <= Len(pyRanges) /\ refResponses = Len(pyRanges)
      /\ \A x \in Value : D[x] <= pyWanted
  BY DEF PyInv
<1>2. D \in [Value -> Int] /\ Len(pyRanges) \in Nat
  BY <1>1, NetType
<1> HIDE DEF D
<1>3. PICK n \in 0..pyWanted : IsTop(D, n)
  BY <1>1, <1>2, TopExists
<1>4. Len(pyRanges) # 0 => n # 0
  BY <1>1, <1>3, SomethingFound DEF D
<1>5. n \in Nat /\ n <= pyWanted /\ n <= Len(pyRanges) /\ (pyWanted # 0 => n # 0)
  BY <1>1, <1>2, <1>3, <1>4
<1>6. Python!FirstAgreed(pyEdges, pyWanted) = n
  BY <1>1, <1>2, <1>3, <1>5, PySame, SearchEnds
<1>7. /\ Python!IncrementalFind(pyEdges, pyWanted) = Python!RefFind(refEdges, refResponses)
      /\ n = 0 => Python!RefFind(refEdges, refResponses) = NoOverlap
      /\ n # 0 => Python!RefFind(refEdges, refResponses) =
                    [count |-> n, lo |-> LowEdge(pyEdges, n).value, hi |-> HighEdge(pyEdges, n).value]
  BY <1>1, <1>2, <1>3, <1>4, <1>5, PyFinds
<1>8. n # 0 => Ends(D, n, LowEdge(pyEdges, n).value, HighEdge(pyEdges, n).value)
  <2> SUFFICES ASSUME n # 0 PROVE Ends(D, n, LowEdge(pyEdges, n).value, HighEdge(pyEdges, n).value)
    OBVIOUS
  <2>1. n \in Nat \ {0} /\ \E x \in Value : D[x] >= n
    BY <1>3, <1>5 DEF IsTop
  <2> QED
    BY <1>1, <1>2, <2>1, ScansFind
<1>9. Python!RefFind(refEdges, refResponses) = Best(pyRanges) /\ Best(pyRanges).count = n
  BY <1>1, <1>3, <1>7, <1>8, BestIsTop DEF D
<1> QED
  BY <1>3, <1>5, <1>6, <1>7, <1>9 DEF D

\* find: what the object hopes for afterwards is the greatest depth.
LEMMA PyFindKeeps ==
  ASSUME PyInv, Python!Find
  PROVE  /\ PyInv' /\ pyRanges' = pyRanges
         /\ pyResults'.reference = Best(pyRanges)
<1>1. PICK n : /\ IsTop(Net(pyRanges), n) /\ n <= pyWanted
               /\ Python!FirstAgreed(pyEdges, pyWanted) = n
               /\ Python!IncrementalFind(pyEdges, pyWanted) = Best(pyRanges)
               /\ Python!RefFind(refEdges, refResponses) = Best(pyRanges)
  BY PyFindsBest
<1>2. /\ UNCHANGED <<pyEdges, refEdges, refResponses, pyRanges>>
      /\ pyWanted' = n
      /\ pyResults' = [incremental |-> Best(pyRanges), reference |-> Best(pyRanges)]
  BY <1>1 DEF Python!Find, Python!Both
<1>3. Agree' /\ pyResults'.reference = Best(pyRanges)
  BY <1>2 DEF Agree, Python!Agree
<1>4. n \in Nat /\ n <= Len(pyRanges) /\ \A x \in Value : Net(pyRanges)[x] <= n
  <2>1. n \in Nat /\ n <= pyWanted /\ \A x \in Value : Net(pyRanges)[x] <= n
    BY <1>1 DEF IsTop
  <2>2. pyWanted \in Nat /\ pyWanted <= Len(pyRanges) /\ Len(pyRanges) \in Nat
    BY DEF PyInv
  <2> QED
    BY <2>1, <2>2
<1> QED
  BY <1>2, <1>3, <1>4 DEF PyInv

\* handle: the greatest number rises by no more than one, so that neither search
\* starts below it.
LEMMA MpHandles ==
  ASSUME MpInv, NEW l \in Value, NEW h \in Value, MicroPython!Handle(l, h)
  PROVE  /\ MpInv' /\ mpRanges' = Append(mpRanges, [lo |-> l, hi |-> h])
         /\ [lo |-> l, hi |-> h] \in Interval
         /\ InOrder(mpRanges') => mpOptimized' = Best(mpRanges')
<1> DEFINE r == [lo |-> l, hi |-> h]
           rt == Append(mpRanges, r)
           D == Net(rt)
           t == AddRange(mpEdges, l, h)
           N == Len(mpRanges) + 1
<1>1. r \in Interval
  BY DEF Interval
<1>2. rt \in Seq(Interval) /\ Len(rt) = N /\ N \in Nat /\ rt # <<>>
  <2>1. mpRanges \in Seq(Interval)
    BY DEF MpInv
  <2>2. rt \in Seq(Interval) /\ Len(rt) = N /\ N \in Nat
    BY <1>1, <2>1
  <2>3. Len(rt) # 0
    BY <2>1, <2>2
  <2> QED
    BY <2>2, <2>3
<1>3. t \in Seq(EdgeOfValue) /\ Sorted(t) /\ Counts(t, D)
  BY AddedRange DEF MpInv
<1>4. D \in [Value -> Int] /\ \A x \in Value : D[x] <= N
  BY <1>2, NetType
<1>5. mpWanted \in Nat /\ \A x \in Value : D[x] <= mpWanted + 1
  <2>1. mpWanted \in Nat /\ \A x \in Value : Net(mpRanges)[x] <= mpWanted
    BY DEF MpInv, IsTop
  <2>2. ASSUME NEW x \in Value PROVE D[x] <= mpWanted + 1
    <3>1. D[x] = Net(mpRanges)[x] + (IF r.lo <= x /\ x <= r.hi THEN 1 ELSE 0)
                                  - (IF r.hi < x /\ x < r.lo THEN 1 ELSE 0)
      BY <1>1, NetAppend DEF MpInv
    <3>2. Net(mpRanges)[x] \in Int
      BY NetType DEF MpInv
    <3> QED
      BY <2>1, <3>1, <3>2
  <2> QED
    BY <2>1, <2>2
<1>6. /\ mpEdges' = t /\ mpResponses' = mpResponses + 1 /\ mpRanges' = rt
      /\ mpPlain' = MicroPython!Result(mpPlain, t, FirstAgreed(t, N))
      /\ mpWanted' = FirstAgreed(t, mpWanted + 1)
      /\ mpOptimized' = MicroPython!Result(mpOptimized, t, mpWanted')
  <2>1. mpResponses + 1 = N
    BY DEF MpInv
  <2>2. MicroPython!AddRange(mpEdges, l, h) = t
    BY MpSameAdd
  <2> QED
    BY <2>1, <2>2, MpSame DEF MicroPython!Handle
<1> HIDE DEF r, rt, t, D, N
<1>7. PICK n \in 0..N : IsTop(D, n)
  BY <1>2, <1>4, TopExists
<1>8. n \in Nat /\ n <= N /\ n <= mpWanted + 1
  BY <1>2, <1>4, <1>5, <1>7 DEF IsTop
<1>9. FirstAgreed(t, N) = n /\ mpWanted' = n
  <2>1. FirstAgreed(t, N) = n
    BY <1>2, <1>3, <1>4, <1>7, <1>8, SearchEnds
  <2>2. mpWanted + 1 \in Nat
    BY <1>5
  <2>3. FirstAgreed(t, mpWanted + 1) = n
    BY <1>3, <1>4, <1>7, <1>8, <2>2, SearchEnds
  <2> QED
    BY <1>6, <2>1, <2>3
<1>10. mpPlain' = mpOptimized'
  BY <1>6, <1>9 DEF MpInv
<1>11. mpOptimized' = [count |-> n, lo |-> mpOptimized'.lo, hi |-> mpOptimized'.hi]
  <2>1. mpOptimized' = IF n = 0 THEN [mpOptimized EXCEPT !.count = 0]
                       ELSE [count |-> n, lo |-> LowEdge(t, n).value, hi |-> HighEdge(t, n).value]
    BY <1>6, <1>9, MpSame DEF MicroPython!Result
  <2>2. mpOptimized = [count |-> mpWanted, lo |-> mpOptimized.lo, hi |-> mpOptimized.hi]
    BY DEF MpInv
  <2> DEFINE a == mpOptimized.lo
             b == mpOptimized.hi
  <2>3. mpOptimized = [count |-> mpWanted, lo |-> a, hi |-> b]
    BY <2>2
  <2> HIDE DEF a, b
  <2>4. [mpOptimized EXCEPT !.count = 0] = [count |-> 0, lo |-> a, hi |-> b]
    BY <2>3
  <2>5. CASE n = 0
    BY <2>1, <2>4, <2>5
  <2>6. CASE n # 0
    BY <2>1, <2>6
  <2> QED
    BY <2>5, <2>6
<1>12. n # 0 => Ends(D, n, mpOptimized'.lo, mpOptimized'.hi)
  <2> SUFFICES ASSUME n # 0 PROVE Ends(D, n, mpOptimized'.lo, mpOptimized'.hi)
    OBVIOUS
  <2>1. n \in Nat \ {0} /\ \E x \in Value : D[x] >= n
    BY <1>7, <1>8 DEF IsTop
  <2>2. mpOptimized' = [count |-> n, lo |-> LowEdge(t, n).value, hi |-> HighEdge(t, n).value]
    BY <1>6, <1>9, <2>1, MpSame DEF MicroPython!Result
  <2>3. Ends(D, n, LowEdge(t, n).value, HighEdge(t, n).value)
    BY <1>3, <1>4, <2>1, ScansFind
  <2> QED
    BY <2>2, <2>3
<1>13. mpResponses' = Len(rt)
  BY <1>2, <1>6 DEF MpInv, N
<1>14. MpInv'
  BY <1>2, <1>3, <1>6, <1>7, <1>9, <1>10, <1>11, <1>12, <1>13 DEF MpInv, D
<1>15. InOrder(rt) => mpOptimized' = Best(rt)
  <2> SUFFICES ASSUME InOrder(rt) PROVE mpOptimized' = Best(rt)
    OBVIOUS
  <2> DEFINE found == mpOptimized'
  <2>1. /\ found = [count |-> n, lo |-> found.lo, hi |-> found.hi]
        /\ n # 0 => Ends(Net(rt), n, found.lo, found.hi)
        /\ IsTop(Net(rt), n)
    BY <1>7, <1>11, <1>12 DEF D
  <2> HIDE DEF found
  <2>2. found = Best(rt)
    BY <1>2, <2>1, TopIsBest
  <2> QED
    BY <2>2 DEF found
<1> QED
  BY <1>1, <1>6, <1>14, <1>15 DEF r, rt

\* With ranges in the right order, handle has found the deepest overlap.
LEMMA MpFindsBest ==
  ASSUME MpInv, InOrder(mpRanges)
  PROVE  mpOptimized = Best(mpRanges)
  BY TopIsBest DEF MpInv

-----------------------------------------------------------------------------
(* main *)

\* The range of a server that tells the truth is around the true adjustment.
Truthful(kinds, rs) ==
  /\ Len(kinds) = Len(rs)
  /\ \A i \in 1..Len(kinds) : kinds[i] = "good" => rs[i].lo <= Truth /\ Truth <= rs[i].hi

\* When main is satisfied.
Enough(found, n) == IF driver = "python" THEN PyEnough(found, n) ELSE MicroEnough(found, n)

\* After none of the first m ranges was there an overlap to be satisfied with.
NeverEnough(rs, m) == \A n \in 1..m : ~Enough(Best(SubSeq(rs, 1, n)), n)

\* A range for each of those who answered.
SaidInv ==
  /\ driver \in {"test", "python", "micropython"}
  /\ driver = "test" => pc = "ask"
  /\ pc = "find" => driver = "python"
  /\ said \in Seq(Kinds)
  /\ driver # "test" /\ pc # "raised" => Truthful(said, Heard)

\* main goes on for as long as there is not enough.
SearchInv ==
  driver # "test" /\ InOrder(Heard) =>
    /\ pc \in {"ask", "exhausted"} => NeverEnough(Heard, Len(Heard))
    /\ pc \in {"find", "set"} => NeverEnough(Heard, Len(Heard) - 1)

\* The clock is set by what was found last, and that is enough.
SetInv ==
  pc = "set" =>
    /\ driver # "test" /\ Enough(Found, Len(said)) /\ clock = Found.lo + Found.hi
    /\ driver = "python" => Found = Best(pyRanges)

\* The inductive invariant.
Inv == PyInv /\ MpInv /\ SaidInv /\ SearchInv /\ SetInv

\* One more answer.
LEMMA OneMoreTruthful ==
  ASSUME NEW rs \in Seq(Interval), NEW r \in Interval, NEW kinds \in Seq(Kinds), NEW k \in Kinds,
         Truthful(kinds, rs), k = "good" => r.lo <= Truth /\ Truth <= r.hi
  PROVE  Append(kinds, k) \in Seq(Kinds) /\ Truthful(Append(kinds, k), Append(rs, r))
<1> DEFINE ks == Append(kinds, k)
           rt == Append(rs, r)
           n == Len(kinds) + 1
<1>1. /\ ks \in Seq(Kinds) /\ Len(ks) = n /\ ks[n] = k /\ \A i \in 1..Len(kinds) : ks[i] = kinds[i]
      /\ Len(kinds) \in Nat
  OBVIOUS
<1>2. /\ Len(rt) = Len(rs) + 1 /\ rt[Len(rs) + 1] = r /\ \A i \in 1..Len(rs) : rt[i] = rs[i]
  OBVIOUS
<1>3. Len(kinds) = Len(rs) /\ \A i \in 1..Len(kinds) :
        kinds[i] = "good" => rs[i].lo <= Truth /\ Truth <= rs[i].hi
  BY DEF Truthful
<1> HIDE DEF ks, rt
<1>4. ASSUME NEW i \in 1..n, ks[i] = "good" PROVE rt[i].lo <= Truth /\ Truth <= rt[i].hi
  <2>1. CASE i = n
    BY <1>1, <1>2, <1>3, <1>4, <2>1
  <2>2. CASE i # n
    <3>1. i \in 1..Len(kinds)
      BY <1>1, <2>2
    <3> QED
      BY <1>1, <1>2, <1>3, <1>4, <3>1
  <2> QED
    BY <2>1, <2>2
<1>5. Truthful(ks, rt)
  BY <1>1, <1>2, <1>3, <1>4 DEF Truthful
<1> QED
  BY <1>1, <1>5 DEF ks, rt

\* The ranges before the last one were in the right order, and never enough.
LEMMA OneMoreSearched ==
  ASSUME NEW rs \in Seq(Interval), NEW r \in Interval
  PROVE  /\ InOrder(Append(rs, r)) => InOrder(rs)
         /\ Len(Append(rs, r)) = Len(rs) + 1 /\ Len(rs) \in Nat
         /\ NeverEnough(rs, Len(rs)) => NeverEnough(Append(rs, r), Len(rs))
         /\ NeverEnough(rs, Len(rs)) /\ ~Enough(Best(Append(rs, r)), Len(rs) + 1)
              => NeverEnough(Append(rs, r), Len(rs) + 1)
<1> DEFINE rt == Append(rs, r)
<1>1. /\ rt \in Seq(Interval) /\ Len(rt) = Len(rs) + 1 /\ Len(rs) \in Nat
      /\ DOMAIN rs = 1..Len(rs) /\ DOMAIN rt = 1..Len(rs) + 1
      /\ \A i \in 1..Len(rs) : rt[i] = rs[i]
  OBVIOUS
<1>2. /\ SubSeq(rt, 1, Len(rs) + 1) = rt
      /\ \A k \in 1..Len(rs) : SubSeq(rt, 1, k) = SubSeq(rs, 1, k)
  BY Prefixes
<1> HIDE DEF rt
<1>3. InOrder(rt) => InOrder(rs)
  BY <1>1 DEF InOrder
<1>4. ASSUME NeverEnough(rs, Len(rs)) PROVE NeverEnough(rt, Len(rs))
  BY <1>2, <1>4 DEF NeverEnough
<1>5. ASSUME NeverEnough(rs, Len(rs)), ~Enough(Best(rt), Len(rs) + 1)
      PROVE  NeverEnough(rt, Len(rs) + 1)
  <2> SUFFICES ASSUME NEW n \in 1..Len(rs) + 1 PROVE ~Enough(Best(SubSeq(rt, 1, n)), n)
    BY DEF NeverEnough
  <2>1. CASE n = Len(rs) + 1
    BY <1>2, <1>5, <2>1
  <2>2. CASE n # Len(rs) + 1
    <3>1. n \in 1..Len(rs)
      BY <1>1, <2>2
    <3> QED
      BY <1>2, <1>5, <3>1 DEF NeverEnough
  <2> QED
    BY <2>1, <2>2
<1> QED
  BY <1>1, <1>3, <1>4, <1>5 DEF rt

\* main has asked nobody yet.
LEMMA InvInit == MainInit => Inv
<1> SUFFICES ASSUME MainInit PROVE Inv
  OBVIOUS
<1>1. PyInv /\ MpInv
  BY ObjectsInit DEF MainInit
<1>2. pyRanges = <<>> /\ mpRanges = <<>> /\ said = <<>> /\ pc = "ask"
  BY DEF MainInit, Init, Python!Init, MicroPython!Init
<1>3. Heard = <<>> /\ Len(Heard) = 0
  BY <1>2 DEF Heard
<1>4. SaidInv
  <2>1. driver \in {"test", "python", "micropython"} /\ said \in Seq(Kinds)
    BY <1>2 DEF MainInit
  <2>2. Truthful(said, Heard)
    BY <1>2, <1>3 DEF Truthful
  <2> QED
    BY <1>2, <2>1, <2>2 DEF SaidInv
<1>5. SearchInv
  BY <1>2, <1>3 DEF SearchInv, NeverEnough
<1>6. SetInv
  BY <1>2 DEF SetInv
<1> QED
  BY <1>1, <1>4, <1>5, <1>6 DEF Inv

\* A step in which main neither hears nor searches.
LEMMA NothingHeard ==
  ASSUME Inv, UNCHANGED <<vars, driver, said, clock>>,
         \/ pc' = pc
         \/ pc = "ask" /\ pc' = "exhausted" /\ driver # "test"
  PROVE  Inv'
<1>1. /\ pyEdges' = pyEdges /\ pyWanted' = pyWanted /\ refEdges' = refEdges
      /\ refResponses' = refResponses /\ pyResults' = pyResults /\ pyRanges' = pyRanges
      /\ mpEdges' = mpEdges /\ mpResponses' = mpResponses /\ mpWanted' = mpWanted
      /\ mpPlain' = mpPlain /\ mpOptimized' = mpOptimized /\ mpRanges' = mpRanges
  BY DEF vars, python, micropython
<1>2. driver' = driver /\ said' = said /\ clock' = clock
  OBVIOUS
<1>3. PyInv'
  BY <1>1 DEF Inv, PyInv, Agree, Python!Agree
<1>4. MpInv'
  BY <1>1 DEF Inv, MpInv
<1>5. Heard' = Heard /\ Found' = Found
  BY <1>1, <1>2 DEF Heard, Found
<1>6. SaidInv'
  BY <1>2, <1>5 DEF Inv, SaidInv, Truthful
<1>7. SearchInv'
  BY <1>2, <1>5 DEF Inv, SearchInv, NeverEnough, Enough
<1>8. SetInv'
  <2>1. pc' = "set" => pc = "set"
    OBVIOUS
  <2> QED
    BY <1>1, <1>2, <1>5, <2>1 DEF Inv, SetInv, Enough
<1> QED
  BY <1>3, <1>4, <1>6, <1>7, <1>8 DEF Inv

\* What a reply to main is.
LEMMA ReplyIs ==
  ASSUME NEW k, NEW l, NEW h, Reply(k, l, h)
  PROVE  /\ pc = "ask" /\ driver' = driver /\ said' = Append(said, k)
         /\ k = "good" => l <= Truth /\ Truth <= h
  BY DEF Reply, Ask

\* A range that is refused ends main.
LEMMA RaisedKeeps ==
  ASSUME Inv, NEW k \in Kinds, NEW l \in Value, NEW h \in Value, PyRaised(k, l, h)
  PROVE  Inv'
<1>1. /\ driver = "python" /\ pc' = "raised" /\ driver' = driver /\ said' = Append(said, k)
      /\ Python!AddRefused(l, h) /\ UNCHANGED micropython
  BY ReplyIs DEF PyRaised
<1>2. PyInv'
  BY <1>1, PyRefuses DEF Inv
<1>3. MpInv'
  BY <1>1 DEF Inv, MpInv, micropython
<1>4. said' \in Seq(Kinds)
  BY <1>1 DEF Inv, SaidInv
<1>5. SaidInv' /\ SearchInv' /\ SetInv'
  BY <1>1, <1>4 DEF Inv, SaidInv, SearchInv, SetInv
<1> QED
  BY <1>2, <1>3, <1>5 DEF Inv

\* A range that is added will be searched next.
LEMMA AddedKeeps ==
  ASSUME Inv, NEW k \in Kinds, NEW l \in Value, NEW h \in Value, PyAdded(k, l, h)
  PROVE  Inv'
<1> DEFINE r == [lo |-> l, hi |-> h]
<1>1. /\ driver = "python" /\ pc = "ask" /\ pc' = "find" /\ driver' = driver
      /\ said' = Append(said, k) /\ (k = "good" => l <= Truth /\ Truth <= h)
      /\ Python!Add(l, h) /\ UNCHANGED micropython
  BY ReplyIs DEF PyAdded
<1>2. PyInv' /\ pyRanges' = Append(pyRanges, r) /\ r \in Interval
  BY <1>1, PyAdds DEF Inv
<1>3. MpInv'
  BY <1>1 DEF Inv, MpInv, micropython
<1>4. Heard = pyRanges /\ Heard' = Append(pyRanges, r)
  BY <1>1, <1>2 DEF Heard
<1>5. /\ pyRanges \in Seq(Interval) /\ said \in Seq(Kinds) /\ Truthful(said, pyRanges)
      /\ k = "good" => r.lo <= Truth /\ Truth <= r.hi
  BY <1>1, <1>4 DEF Inv, PyInv, SaidInv
<1> HIDE DEF r
<1>6. said' \in Seq(Kinds) /\ Truthful(said', Append(pyRanges, r))
  BY <1>1, <1>2, <1>5, OneMoreTruthful
<1>7. SaidInv'
  BY <1>1, <1>4, <1>6 DEF SaidInv, Truthful
<1>8. ASSUME InOrder(Heard') PROVE NeverEnough(Heard', Len(Heard') - 1)
  <2>1. InOrder(pyRanges) /\ Len(Heard') - 1 = Len(pyRanges)
    BY <1>2, <1>4, <1>5, <1>8, OneMoreSearched
  <2>2. NeverEnough(pyRanges, Len(pyRanges))
    BY <1>1, <1>4, <2>1 DEF Inv, SearchInv
  <2> QED
    BY <1>2, <1>4, <1>5, <2>1, <2>2, OneMoreSearched
<1>9. SearchInv'
  BY <1>1, <1>8 DEF SearchInv, NeverEnough, Enough
<1>10. SetInv'
  BY <1>1 DEF SetInv
<1> QED
  BY <1>2, <1>3, <1>7, <1>9, <1>10 DEF Inv

\* The search of the Python main finds the deepest overlap.
LEMMA FoundKeeps ==
  ASSUME Inv, PyFound
  PROVE  Inv'
<1> DEFINE best == Best(pyRanges)
           n == Len(pyRanges)
<1>1. /\ driver = "python" /\ pc = "find" /\ driver' = driver /\ said' = said
      /\ Python!Find /\ UNCHANGED micropython
      /\ pc' = (IF PyEnough(pyResults'.reference, Len(said)) THEN "set" ELSE "ask")
      /\ clock' = (IF PyEnough(pyResults'.reference, Len(said))
                     THEN pyResults'.reference.lo + pyResults'.reference.hi ELSE clock)
  BY DEF PyFound, SetOrGoOn
<1>2. PyInv' /\ pyRanges' = pyRanges /\ pyResults'.reference = best
  BY <1>1, PyFindKeeps DEF Inv
<1>3. MpInv'
  BY <1>1 DEF Inv, MpInv, micropython
<1>4. Heard = pyRanges /\ Heard' = pyRanges /\ Found' = best
  BY <1>1, <1>2 DEF Heard, Found
<1>5. Truthful(said, pyRanges) /\ said \in Seq(Kinds) /\ Len(said) = n
  BY <1>1, <1>4 DEF Inv, SaidInv, Truthful
<1>6. pyRanges \in Seq(Interval) /\ InOrder(pyRanges) /\ n \in Nat
  BY DEF Inv, PyInv
<1> HIDE DEF best
<1>7. SaidInv'
  BY <1>1, <1>4, <1>5 DEF SaidInv, Truthful
<1>8. NeverEnough(pyRanges, n - 1)
  BY <1>1, <1>4, <1>6 DEF Inv, SearchInv
<1>9. CASE PyEnough(best, n)
  <2>1. pc' = "set" /\ clock' = best.lo + best.hi
    BY <1>1, <1>2, <1>5, <1>9
  <2>2. SearchInv'
    BY <1>1, <1>4, <1>8, <2>1 DEF SearchInv, NeverEnough, Enough
  <2>3. SetInv'
    <3>1. driver' # "test" /\ clock' = Found'.lo + Found'.hi
      BY <1>1, <1>4, <2>1
    <3>2. Enough(Found, Len(said))'
      BY <1>1, <1>4, <1>5, <1>9 DEF Enough, PyEnough
    <3>3. (Found = Best(pyRanges))'
      BY <1>2, <1>4 DEF best
    <3> QED
      BY <3>1, <3>2, <3>3 DEF SetInv
  <2> QED
    BY <1>2, <1>3, <1>7, <2>2, <2>3 DEF Inv
<1>10. CASE ~PyEnough(best, n)
  <2>1. pc' = "ask"
    BY <1>1, <1>2, <1>5, <1>10
  <2>2. NeverEnough(pyRanges, n)
    <3> SUFFICES ASSUME NEW m \in 1..n PROVE ~Enough(Best(SubSeq(pyRanges, 1, m)), m)
      BY DEF NeverEnough
    <3>1. CASE m = n
      <4>1. SubSeq(pyRanges, 1, m) = pyRanges
        BY <1>6, <3>1
      <4> QED
        BY <1>1, <1>10, <3>1, <4>1 DEF Enough, best
    <3>2. CASE m # n
      <4>1. m \in 1..n - 1
        BY <1>6, <3>2
      <4> QED
        BY <1>8, <4>1 DEF NeverEnough
    <3> QED
      BY <3>1, <3>2
  <2>3. SearchInv'
    BY <1>1, <1>4, <2>1, <2>2 DEF SearchInv, NeverEnough, Enough
  <2>4. SetInv'
    BY <2>1 DEF SetInv
  <2> QED
    BY <1>2, <1>3, <1>7, <2>3, <2>4 DEF Inv
<1> QED
  BY <1>9, <1>10

\* The MicroPython main searches after every answer.
LEMMA HandledKeeps ==
  ASSUME Inv, NEW k \in Kinds, NEW l \in Value, NEW h \in Value, MicroHandled(k, l, h)
  PROVE  Inv'
<1> DEFINE r == [lo |-> l, hi |-> h]
           rt == Append(mpRanges, r)
           enough == MicroEnough(mpOptimized', Len(said'))
<1>1. /\ driver = "micropython" /\ pc = "ask" /\ driver' = driver
      /\ said' = Append(said, k) /\ (k = "good" => l <= Truth /\ Truth <= h)
      /\ MicroPython!Handle(l, h) /\ UNCHANGED python
      /\ pc' = (IF enough THEN "set" ELSE "ask")
      /\ clock' = (IF enough THEN mpOptimized'.lo + mpOptimized'.hi ELSE clock)
  BY ReplyIs DEF MicroHandled, SetOrGoOn
<1>2. MpInv' /\ mpRanges' = rt /\ r \in Interval
  BY <1>1, MpHandles DEF Inv
<1>3. PyInv'
  BY <1>1 DEF Inv, PyInv, Agree, Python!Agree, python
<1>4. Heard = mpRanges /\ Heard' = rt /\ Found' = mpOptimized'
  BY <1>1, <1>2 DEF Heard, Found
<1>5. /\ mpRanges \in Seq(Interval) /\ said \in Seq(Kinds) /\ Truthful(said, mpRanges)
      /\ k = "good" => r.lo <= Truth /\ Truth <= r.hi
  BY <1>1, <1>4 DEF Inv, MpInv, SaidInv
<1> HIDE DEF r
<1>6. said' \in Seq(Kinds) /\ Truthful(said', rt)
  BY <1>1, <1>2, <1>5, OneMoreTruthful
<1>7. Len(said') = Len(rt) /\ Len(rt) = Len(mpRanges) + 1 /\ Len(mpRanges) \in Nat
  BY <1>2, <1>5, <1>6, OneMoreSearched DEF Truthful
<1>8. SaidInv'
  BY <1>1, <1>4, <1>6 DEF SaidInv, Truthful
<1>9. InOrder(rt) => mpOptimized' = Best(rt)
  BY <1>1, <1>2, MpHandles DEF Inv
<1>10. InOrder(rt) => NeverEnough(mpRanges, Len(mpRanges)) /\ NeverEnough(rt, Len(rt) - 1)
  <2> SUFFICES ASSUME InOrder(rt)
               PROVE  NeverEnough(mpRanges, Len(mpRanges)) /\ NeverEnough(rt, Len(rt) - 1)
    OBVIOUS
  <2>1. InOrder(mpRanges) /\ Len(rt) - 1 = Len(mpRanges)
    BY <1>2, <1>5, <1>7, OneMoreSearched
  <2>2. NeverEnough(mpRanges, Len(mpRanges))
    BY <1>1, <1>4, <2>1 DEF Inv, SearchInv
  <2> QED
    BY <1>2, <1>5, <2>1, <2>2, OneMoreSearched
<1> HIDE DEF rt
<1>11. CASE enough
  <2>1. pc' = "set" /\ clock' = mpOptimized'.lo + mpOptimized'.hi
    BY <1>1, <1>11
  <2>2. SearchInv'
    BY <1>1, <1>4, <1>10, <2>1 DEF SearchInv, NeverEnough, Enough
  <2>3. SetInv'
    BY <1>1, <1>4, <1>11, <2>1 DEF SetInv, Enough
  <2> QED
    BY <1>2, <1>3, <1>8, <2>2, <2>3 DEF Inv
<1>12. CASE ~enough
  <2>1. pc' = "ask"
    BY <1>1, <1>12
  <2>2. InOrder(rt) => NeverEnough(rt, Len(rt))
    <3> SUFFICES ASSUME InOrder(rt) PROVE NeverEnough(rt, Len(rt))
      OBVIOUS
    <3>1. ~Enough(Best(rt), Len(mpRanges) + 1)
      BY <1>1, <1>7, <1>9, <1>12 DEF Enough
    <3> QED
      BY <1>2, <1>5, <1>7, <1>10, <3>1, OneMoreSearched DEF rt
  <2>3. SearchInv'
    BY <1>1, <1>4, <2>1, <2>2 DEF SearchInv, NeverEnough, Enough
  <2>4. SetInv'
    BY <2>1 DEF SetInv
  <2> QED
    BY <1>2, <1>3, <1>8, <2>3, <2>4 DEF Inv
<1> QED
  BY <1>11, <1>12

\* The tests use both sets of objects as they like.
LEMMA TestedKeeps ==
  ASSUME Inv, Tested
  PROVE  Inv'
<1>1. /\ driver = "test" /\ pc = "ask" /\ Next
      /\ driver' = driver /\ pc' = pc /\ said' = said /\ clock' = clock
  BY DEF Tested, client, Inv, SaidInv
<1>2. SaidInv' /\ SearchInv' /\ SetInv'
  BY <1>1 DEF Inv, SaidInv, SearchInv, SetInv
<1>3. PyInv' /\ MpInv'
  <2>1. CASE Find
    <3>1. Python!Find /\ UNCHANGED micropython
      BY <2>1 DEF Find
    <3>2. PyInv'
      BY <3>1, PyFindKeeps DEF Inv
    <3>3. MpInv'
      BY <3>1 DEF Inv, MpInv, micropython
    <3> QED
      BY <3>2, <3>3
  <2>2. ASSUME NEW l \in Value, NEW h \in Value, Take(l, h) PROVE PyInv' /\ MpInv'
    BY <2>2, PyAdds, MpHandles DEF Take, Inv
  <2>3. ASSUME NEW l \in Value, NEW h \in Value, Refuse(l, h) PROVE PyInv' /\ MpInv'
    BY <2>3, PyRefuses, MpHandles DEF Refuse, Inv
  <2> QED
    BY <1>1, <2>1, <2>2, <2>3 DEF Next
<1> QED
  BY <1>2, <1>3 DEF Inv

\* Every step keeps the invariant.
LEMMA NextKeeps == Inv /\ [MainNext]_allVars => Inv'
<1> SUFFICES ASSUME Inv, [MainNext]_allVars PROVE Inv'
  OBVIOUS
<1>1. CASE \E k \in Kinds : NoAnswer(k)
  BY <1>1, NothingHeard DEF NoAnswer, Ask
<1>2. CASE \E k \in Kinds, l, h \in Value : PyRaised(k, l, h) \/ PyAdded(k, l, h) \/ MicroHandled(k, l, h)
  BY <1>2, RaisedKeeps, AddedKeeps, HandledKeeps
<1>3. CASE PyFound
  BY <1>3, FoundKeeps
<1>4. CASE Exhausted
  BY <1>4, NothingHeard DEF Exhausted
<1>5. CASE Tested
  BY <1>5, TestedKeeps
<1>6. CASE UNCHANGED allVars
  BY <1>6, NothingHeard DEF allVars, client
<1> QED
  BY <1>1, <1>2, <1>3, <1>4, <1>5, <1>6 DEF MainNext, Ended

\* The invariant holds throughout every behaviour.
LEMMA Invariance == MainSpec => []Inv
<1> QED
  BY InvInit, NextKeeps, PTL DEF MainSpec

-----------------------------------------------------------------------------
(* Where the clock is set *)

\* A point is at least as deep as there are ranges of a set around it.
LEMMA AroundAll ==
  ASSUME NEW rs \in Seq(Interval), NEW x, NEW T \in SUBSET (1..Len(rs)),
         \A i \in T : rs[i].lo <= x /\ x <= rs[i].hi
  PROVE  Cardinality(T) \in Nat /\ IsFiniteSet(T) /\ Cardinality(T) <= Depth(rs, x)
<1> DEFINE D == {i \in DOMAIN rs : rs[i].lo <= x /\ x <= rs[i].hi}
<1>1. DOMAIN rs = 1..Len(rs)
  OBVIOUS
<1>2. T \in SUBSET D /\ IsFiniteSet(D)
  <2>1. T \in SUBSET D /\ D \subseteq DOMAIN rs
    BY <1>1
  <2> HIDE DEF D
  <2> QED
    BY <2>1, IndicesFinite
<1> HIDE DEF D
<1>3. IsFiniteSet(T) /\ Cardinality(T) <= Cardinality(D)
  BY <1>2, FS_Subset
<1> QED
  BY <1>3, FS_CardinalityType DEF Depth, D

\* If those who tell the truth are half of all, and half of all, but none of those,
\* are around the point x, then those around x are exactly the others.
LEMMA EvenlySplit ==
  ASSUME NEW rs \in Seq(Interval), NEW T \in SUBSET (1..Len(rs)),
         2 * Cardinality(T) >= Len(rs),
         \A i \in T : rs[i].lo <= Truth /\ Truth <= rs[i].hi,
         NEW c, IsTop(Net(rs), c), c >= Len(rs) \div 2,
         NEW x \in Value, Net(rs)[x] >= c,
         \A i \in T : ~(rs[i].lo <= x /\ x <= rs[i].hi)
  PROVE  /\ InOrder(rs) /\ Len(rs) = 2 * c /\ Cardinality(T) = c
         /\ \A i \in (1..Len(rs)) \ T : rs[i].lo <= x /\ x <= rs[i].hi
         /\ Depth(rs, x) >= c
<1> DEFINE n == Len(rs)
           A == IndicesIn(rs, Around(x))
           B == IndicesIn(rs, Across(x))
<1>1. n \in Nat /\ DOMAIN rs = 1..n /\ c \in Nat /\ \A i \in 1..n : rs[i] \in Interval
  BY DEF IsTop
<1>2. A \in SUBSET (1..n) /\ A \cap T = {} /\ \A i \in A : rs[i].lo <= x /\ x <= rs[i].hi
  BY <1>1 DEF IndicesIn, Around
<1>3. Cardinality(A) >= c /\ Cardinality(A) \in Nat /\ IsFiniteSet(A)
  <2>1. Net(rs)[x] = CountIn(rs, Around(x)) - CountIn(rs, Across(x))
    BY DEF Net
  <2>2. CountIn(rs, Around(x)) \in Nat /\ CountIn(rs, Across(x)) \in Nat
    BY KindCount
  <2>3. CountIn(rs, Around(x)) >= c
    BY <1>1, <2>1, <2>2
  <2>4. IsFiniteSet(A)
    BY <1>1, <1>2, IndicesFinite
  <2> QED
    BY <2>2, <2>3, <2>4 DEF CountIn
<1> HIDE DEF A, n
<1>4. IsFiniteSet(1..n) /\ Cardinality(1..n) = n
  BY <1>1, FS_Interval
<1>5. IsFiniteSet(T) /\ Cardinality(T) \in Nat
  BY <1>4, FS_Subset, FS_CardinalityType DEF n
<1>6. /\ Cardinality(A \cup T) = Cardinality(A) + Cardinality(T)
      /\ Cardinality(A \cup T) <= n
      /\ n = Cardinality(A \cup T) => A \cup T = 1..n
  <2>1. Cardinality(A \cap T) = 0
    BY <1>2, FS_EmptySet
  <2>2. Cardinality(A \cup T) = Cardinality(A) + Cardinality(T) - Cardinality(A \cap T)
    BY <1>3, <1>5, FS_Union
  <2>3. A \cup T \in SUBSET (1..n)
    BY <1>2 DEF n
  <2>4. Cardinality(A \cup T) <= Cardinality(1..n) /\ (Cardinality(1..n) = Cardinality(A \cup T) => A \cup T = 1..n)
    BY <1>4, <2>3, FS_Subset
  <2> QED
    BY <1>3, <1>4, <1>5, <2>1, <2>2, <2>4
<1>7. Cardinality(A) = c /\ c + Cardinality(T) = n
  <2> DEFINE a == Cardinality(A)
             g == Cardinality(T)
  <2>1. a \in Nat /\ g \in Nat /\ n \in Nat /\ c \in Nat /\ a >= c /\ a + g <= n /\ 2 * g >= n /\ c >= n \div 2
    BY <1>1, <1>3, <1>5, <1>6 DEF n
  <2> HIDE DEF a, g
  <2>2. a = c /\ c + g = n
    BY <2>1
  <2> QED
    BY <2>2 DEF a, g
<1>8. A \cup T = 1..n
  BY <1>3, <1>5, <1>6, <1>7
<1>9. InOrder(rs)
  <2> SUFFICES ASSUME NEW i \in 1..n PROVE rs[i].lo <= rs[i].hi
    BY <1>1 DEF InOrder
  <2>1. rs[i].lo \in Int /\ rs[i].hi \in Int /\ x \in Int /\ Truth \in Int
    BY <1>1, ValueAssumption, TruthAssumption DEF Interval
  <2>2. CASE i \in A
    BY <1>2, <2>1, <2>2
  <2>3. CASE i \in T
    BY <2>1, <2>3
  <2> QED
    BY <1>8, <2>2, <2>3
<1>10. Depth(rs, Truth) <= c /\ Depth(rs, Truth) >= Cardinality(T) /\ Depth(rs, Truth) \in Nat
  <2>1. Depth(rs, Truth) >= Cardinality(T) /\ Depth(rs, Truth) \in Nat
    BY <1>5, AroundAll, DepthType
  <2>2. Net(rs)[Truth] <= c /\ Net(rs)[Truth] = Depth(rs, Truth)
    BY <1>9, TruthAssumption, NetInOrder DEF IsTop
  <2> QED
    BY <2>1, <2>2
<1>11. n = 2 * c /\ Cardinality(T) = c
  <2> DEFINE g == Cardinality(T)
             d == Depth(rs, Truth)
  <2>1. g \in Nat /\ d \in Nat /\ n \in Nat /\ c \in Nat /\ 2 * g >= n /\ c + g = n /\ d <= c /\ d >= g
    BY <1>1, <1>5, <1>7, <1>10 DEF n
  <2> HIDE DEF g, d
  <2>2. n = 2 * c /\ g = c
    BY <2>1
  <2> QED
    BY <2>2 DEF g
<1>12. Depth(rs, x) >= c
  BY <1>9, NetInOrder
<1> QED
  BY <1>2, <1>8, <1>9, <1>11, <1>12 DEF n

\* Then half of all, one for each of the others, had an overlap as deep before the
\* last one answered.
LEMMA EnoughBefore ==
  ASSUME NEW rs \in Seq(Interval), InOrder(rs), NEW T \in SUBSET (1..Len(rs)), NEW c \in Nat \ {0},
         Len(rs) = 2 * c, Cardinality(T) = c,
         \A i \in T : rs[i].lo <= Truth /\ Truth <= rs[i].hi,
         NEW x \in Value, \A i \in (1..Len(rs)) \ T : rs[i].lo <= x /\ x <= rs[i].hi
  PROVE  Len(rs) - 1 \in 1..Len(rs) - 1 /\ Best(SubSeq(rs, 1, Len(rs) - 1)).count >= c
<1> DEFINE n == Len(rs)
           m == n - 1
           ps == SubSeq(rs, 1, m)
<1>1. /\ n \in Nat /\ n = 2 * c /\ m \in 1..m /\ m \in Nat /\ m <= n
      /\ DOMAIN rs = 1..n /\ \A i \in 1..n : i = n \/ i \in 1..m
  <2>1. n \in Nat /\ n = 2 * c /\ DOMAIN rs = 1..n
    OBVIOUS
  <2> HIDE DEF n
  <2> QED
    BY <2>1
<1>2. ps \in Seq(Interval) /\ Len(ps) = m /\ DOMAIN ps = 1..m /\ \A i \in 1..m : ps[i] = rs[i]
  OBVIOUS
<1> HIDE DEF ps, m
<1>3. InOrder(ps)
  BY <1>1, <1>2 DEF InOrder
<1>4. \E y \in Value : Depth(ps, y) >= c
  <2>1. CASE n \in T
    <3> DEFINE U == (1..n) \ T
    <3>1. U \in SUBSET (1..Len(ps)) /\ \A i \in U : ps[i].lo <= x /\ x <= ps[i].hi
      <4>1. ASSUME NEW i \in U PROVE i \in 1..m /\ ps[i] = rs[i]
        BY <1>1, <1>2, <2>1
      <4> QED
        BY <1>2, <4>1
    <3>2. IsFiniteSet(1..n) /\ Cardinality(1..n) = n
      BY <1>1, FS_Interval
    <3>3. Cardinality(U) = n - Cardinality((1..n) \cap T)
      BY <3>2, FS_Difference
    <3>4. (1..n) \cap T = T
      OBVIOUS
    <3> HIDE DEF U, n
    <3>5. Cardinality(U) = n - c
      BY <3>3, <3>4, Zenon
    <3>6. Cardinality(U) = c
      BY <1>1, <3>5
    <3>7. Depth(ps, x) >= c
      BY <1>2, <3>1, <3>6, AroundAll
    <3> QED
      BY <3>7
  <2>2. CASE n \notin T
    <3>1. T \in SUBSET (1..Len(ps)) /\ \A i \in T : ps[i].lo <= Truth /\ Truth <= ps[i].hi
      <4>1. ASSUME NEW i \in T PROVE i \in 1..m /\ ps[i] = rs[i]
        BY <1>1, <1>2, <2>2
      <4> QED
        BY <1>2, <4>1
    <3>2. Depth(ps, Truth) >= c
      BY <1>2, <3>1, AroundAll
    <3> QED
      BY <3>2, TruthAssumption
  <2> QED
    BY <2>1, <2>2
<1>5. PICK k \in 0..m : IsTop(Net(ps), k)
  <2>1. Net(ps) \in [Value -> Int] /\ \A y \in Value : Net(ps)[y] <= m
    BY <1>2, NetType
  <2> QED
    BY <1>1, <2>1, TopExists
<1>6. k >= c
  <2>1. PICK y \in Value : Depth(ps, y) >= c
    BY <1>4
  <2>2. Net(ps)[y] = Depth(ps, y) /\ Net(ps)[y] <= k /\ Depth(ps, y) \in Nat
    BY <1>2, <1>3, <1>5, NetInOrder, DepthType DEF IsTop
  <2> QED
    BY <2>1, <2>2
<1>7. Best(ps).count = k
  BY <1>2, <1>3, <1>5, BestIsTop
<1> QED
  BY <1>1, <1>6, <1>7 DEF ps, m

\* When the clock is set, all answers were searched; what was found is the greatest
\* number of ranges around a point, with the outermost such points.
LEMMA FoundAtTop ==
  ASSUME Inv, pc = "set"
  PROVE  /\ Heard \in Seq(Interval) /\ Len(said) = Len(Heard) /\ said \in Seq(Kinds)
         /\ \A i \in True : i \in 1..Len(Heard) /\ Heard[i].lo <= Truth /\ Truth <= Heard[i].hi
         /\ IsTop(Net(Heard), Found.count) /\ Found.count # 0
         /\ Ends(Net(Heard), Found.count, Found.lo, Found.hi)
<1>1. /\ driver \in {"python", "micropython"} /\ said \in Seq(Kinds) /\ Truthful(said, Heard)
      /\ Enough(Found, Len(said)) /\ (driver = "python" => Found = Best(pyRanges))
  BY DEF Inv, SaidInv, SetInv
<1>2. Found.count >= Wanted
  BY <1>1 DEF Enough, PyEnough, MicroEnough
<1>3. \A i \in True : i \in 1..Len(Heard) /\ Heard[i].lo <= Truth /\ Truth <= Heard[i].hi
  BY <1>1 DEF True, Truthful
<1>4. CASE driver = "python"
  <2>1. Heard = pyRanges /\ Found = Best(pyRanges) /\ pyRanges \in Seq(Interval) /\ InOrder(pyRanges)
    BY <1>1, <1>4 DEF Inv, PyInv, Heard
  <2>2. PICK n : IsTop(Net(pyRanges), n) /\ Best(pyRanges).count = n
    BY PyFindsBest DEF Inv
  <2>3. n \in Nat \ {0} /\ \E x \in Value : Net(pyRanges)[x] >= n
    BY <1>2, <2>1, <2>2, WantedAssumption DEF IsTop
  <2>4. PICK lo, hi : Ends(Net(pyRanges), n, lo, hi)
    <3>1. Net(pyRanges) \in [Value -> Int]
      BY <2>1, NetType
    <3> QED
      BY <2>3, <3>1, ScansFind DEF Inv, PyInv
  <2>5. Best(pyRanges) = [count |-> n, lo |-> lo, hi |-> hi]
    BY <2>1, <2>2, <2>3, <2>4, BestIsTop
  <2> QED
    BY <1>1, <1>3, <2>1, <2>2, <2>3, <2>4, <2>5 DEF Truthful
<1>5. CASE driver = "micropython"
  <2>1. Heard = mpRanges /\ Found = mpOptimized
    BY <1>5 DEF Heard, Found
  <2>2. /\ mpRanges \in Seq(Interval) /\ IsTop(Net(mpRanges), mpWanted)
        /\ mpOptimized = [count |-> mpWanted, lo |-> mpOptimized.lo, hi |-> mpOptimized.hi]
        /\ mpWanted # 0 => Ends(Net(mpRanges), mpWanted, mpOptimized.lo, mpOptimized.hi)
    BY DEF Inv, MpInv
  <2>3. mpOptimized.count = mpWanted
    BY <2>2
  <2>4. mpWanted # 0
    BY <1>2, <2>1, <2>2, <2>3, WantedAssumption DEF IsTop
  <2> QED
    BY <1>1, <1>3, <2>1, <2>2, <2>3, <2>4 DEF Truthful
<1> QED
  BY <1>1, <1>4, <1>5

\* Unless more than half of those who answered were wrong, a point as deep as what
\* was found is in the range of one who was right: an exact half of them does not
\* suffice, as it had sufficed before the last one answered.
LEMMA TrueAround ==
  ASSUME Inv, pc = "set", 2 * Cardinality(True) >= Len(said),
         NEW x \in Value, Net(Heard)[x] >= Found.count
  PROVE  \E i \in True : Heard[i].lo <= x /\ x <= Heard[i].hi
<1> SUFFICES ASSUME \A i \in True : ~(Heard[i].lo <= x /\ x <= Heard[i].hi)
             PROVE  FALSE
  OBVIOUS
<1> DEFINE rs == Heard
           T == True
           c == Found.count
<1>1. /\ rs \in Seq(Interval) /\ Len(said) = Len(rs) /\ said \in Seq(Kinds)
      /\ T \in SUBSET (1..Len(rs)) /\ \A i \in T : rs[i].lo <= Truth /\ Truth <= rs[i].hi
      /\ IsTop(Net(rs), c) /\ c # 0
  BY FoundAtTop
<1>2. /\ driver \in {"python", "micropython"} /\ Enough(Found, Len(said))
      /\ InOrder(rs) => NeverEnough(rs, Len(rs) - 1)
  BY DEF Inv, SaidInv, SetInv, SearchInv
<1>3. c >= Wanted /\ c >= Len(rs) \div 2 /\ (driver = "python" => c > Len(rs) \div 2)
  <2>1. c \in Nat /\ Len(rs) \in Nat
    BY <1>1 DEF IsTop
  <2> QED
    BY <1>1, <1>2, <2>1 DEF Enough, PyEnough, MicroEnough
<1>4. 2 * Cardinality(T) >= Len(rs) /\ Net(rs)[x] >= c
      /\ \A i \in T : ~(rs[i].lo <= x /\ x <= rs[i].hi)
  BY <1>1
<1>5. c \in Nat \ {0} /\ Wanted \in Nat \ {0}
  BY <1>1, WantedAssumption DEF IsTop
<1> HIDE DEF rs, T, c
<1>6. /\ InOrder(rs) /\ Len(rs) = 2 * c /\ Cardinality(T) = c
      /\ \A i \in (1..Len(rs)) \ T : rs[i].lo <= x /\ x <= rs[i].hi
  <2>1. InOrder(rs) /\ Len(rs) = 2 * c
    BY <1>1, <1>3, <1>4, EvenlySplit
  <2>2. Cardinality(T) = c
    BY <1>1, <1>3, <1>4, EvenlySplit
  <2>3. \A i \in (1..Len(rs)) \ T : rs[i].lo <= x /\ x <= rs[i].hi
    BY <1>1, <1>3, <1>4, EvenlySplit
  <2> QED
    BY <2>1, <2>2, <2>3
<1>7. driver = "micropython"
  BY <1>2, <1>3, <1>5, <1>6
<1>8. Len(rs) - 1 \in 1..Len(rs) - 1 /\ Best(SubSeq(rs, 1, Len(rs) - 1)).count >= c
  BY <1>1, <1>5, <1>6, EnoughBefore
<1>9. ~MicroEnough(Best(SubSeq(rs, 1, Len(rs) - 1)), Len(rs) - 1)
  BY <1>2, <1>6, <1>7, <1>8 DEF NeverEnough, Enough
<1>10. Best(SubSeq(rs, 1, Len(rs) - 1)).count \in Int
  <2> DEFINE ps == SubSeq(rs, 1, Len(rs) - 1)
  <2>1. ps \in Seq(Interval) /\ Len(ps) \in Nat
    BY <1>1
  <2>2. Net(ps) \in [Value -> Int] /\ \A y \in Value : Net(ps)[y] <= Len(ps)
    BY <2>1, NetType
  <2>3. PICK k \in 0..Len(ps) : IsTop(Net(ps), k)
    BY <2>1, <2>2, TopExists
  <2>4. InOrder(ps)
    BY <1>1, <1>6, <1>8 DEF InOrder
  <2> HIDE DEF ps
  <2>5. Best(ps).count = k
    BY <2>1, <2>3, <2>4, BestIsTop
  <2> QED
    BY <2>1, <2>5 DEF ps
<1> QED
  BY <1>3, <1>5, <1>6, <1>8, <1>9, <1>10 DEF MicroEnough

-----------------------------------------------------------------------------
(* Theorems *)

\* Whenever both Python classes have been asked, they returned the same, wherever
\* finds and refused ranges fell (the assertions of overlap_multi.py:19, 30-32).
THEOREM PythonAgrees == MainSpec => []Agree
<1>1. Inv => Agree
  BY DEF Inv, PyInv
<1> QED
  BY <1>1, Invariance, PTL

\* Both MicroPython algorithms return the same from every handle, for ranges in the
\* wrong order too: what is found is the greatest number both scans count.
THEOREM MicroPythonAgrees == MainSpec => []SameResult
<1>1. Inv => SameResult
  BY DEF Inv, MpInv, SameResult, MicroPython!SameResult
<1> QED
  BY <1>1, Invariance, PTL

\* A find of the Python class answers what the last handle of the MicroPython one
\* did, if both got the same ranges: both have found the deepest overlap.
THEOREM MicroPythonAsPython == MainSpec => []SameAsPython
<1>1. Inv => SameAsPython
  <2> SUFFICES ASSUME Inv, pyRanges = mpRanges
               PROVE  Python!IncrementalFind(pyEdges, pyWanted) = mpOptimized
    BY DEF SameAsPython
  <2>1. InOrder(mpRanges)
    BY DEF Inv, PyInv
  <2>2. mpOptimized = Best(mpRanges)
    BY <2>1, MpFindsBest DEF Inv
  <2>3. Python!IncrementalFind(pyEdges, pyWanted) = Best(pyRanges)
    BY PyFindsBest DEF Inv
  <2> QED
    BY <2>2, <2>3
<1> QED
  BY <1>1, Invariance, PTL

\* main asks the whole list only if after no answer enough ranges overlapped,
\* although each search starts from what the last one left.
THEOREM NoAgreementMissed == MainSpec => []AgreementNotMissed
<1>1. Inv => AgreementNotMissed
  <2> SUFFICES ASSUME Inv, pc = "exhausted", MicroPython!Ordered, NEW n \in DOMAIN Heard
               PROVE  LET best == Best(SubSeq(Heard, 1, n))
                      IN  IF driver = "python" THEN ~PyEnough(best, n) ELSE ~MicroEnough(best, n)
    BY DEF AgreementNotMissed
  <2>1. driver # "test" /\ InOrder(Heard)
    BY DEF Inv, SaidInv, PyInv, Heard, InOrder, MicroPython!Ordered
  <2>2. NeverEnough(Heard, Len(Heard))
    BY <2>1 DEF Inv, SearchInv
  <2>3. n \in 1..Len(Heard)
    BY DEF Inv, PyInv, MpInv, Heard
  <2> QED
    BY <2>2, <2>3 DEF NeverEnough, Enough
<1> QED
  BY <1>1, Invariance, PTL

\* As long as no more than half of those who answered were wrong, they cannot pull
\* the clock away from the truth: each end of the overlap is in a range that holds
\* the true adjustment, and so is no further from it than that range is wide.
THEOREM ClockNearTruth == MainSpec => []ClockSetRight
<1>1. Inv => ClockSetRight
  <2> SUFFICES ASSUME Inv, pc = "set", 2 * Cardinality(True) >= Len(said)
               PROVE  \E i \in True :
                        LET error == clock - 2 * Truth
                            width == Heard[i].hi - Heard[i].lo
                        IN  -2 * width <= error /\ error <= 2 * width
    BY DEF ClockSetRight
  <2> DEFINE lo == Found.lo
             hi == Found.hi
  <2>1. /\ lo \in Value /\ Net(Heard)[lo] >= Found.count
        /\ hi \in Value /\ Net(Heard)[hi] >= Found.count
    BY FoundAtTop DEF Ends
  <2>2. PICK i \in True : Heard[i].lo <= lo /\ lo <= Heard[i].hi
    BY <2>1, TrueAround
  <2>3. PICK j \in True : Heard[j].lo <= hi /\ hi <= Heard[j].hi
    BY <2>1, TrueAround
  <2>4. clock = lo + hi
    BY DEF Inv, SetInv
  <2> DEFINE a == Heard[i].lo
             b == Heard[i].hi
             c == Heard[j].lo
             d == Heard[j].hi
  <2>5. a \in Int /\ b \in Int /\ c \in Int /\ d \in Int
    <3>1. Heard[i] \in Interval /\ Heard[j] \in Interval
      BY FoundAtTop
    <3> QED
      BY <3>1, ValueAssumption DEF Interval
  <2>6. a <= Truth /\ Truth <= b /\ c <= Truth /\ Truth <= d
    BY FoundAtTop
  <2>7. lo \in Int /\ hi \in Int /\ Truth \in Int
    BY <2>1, ValueAssumption, TruthAssumption
  <2>8. a <= lo /\ lo <= b /\ c <= hi /\ hi <= d
    BY <2>2, <2>3
  <2> HIDE DEF lo, hi, a, b, c, d
  <2>9. \/ -2 * (b - a) <= clock - 2 * Truth /\ clock - 2 * Truth <= 2 * (b - a)
        \/ -2 * (d - c) <= clock - 2 * Truth /\ clock - 2 * Truth <= 2 * (d - c)
    BY <2>4, <2>5, <2>6, <2>7, <2>8
  <2> QED
    BY <2>9 DEF a, b, c, d
<1> QED
  BY <1>1, Invariance, PTL
=============================================================================
