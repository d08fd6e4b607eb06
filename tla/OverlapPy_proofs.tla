--------------------------- MODULE OverlapPy_proofs ---------------------------
(***************************************************************************)
(* OverlapPy keeps its invariants, and implements Overlap, for every       *)
(* finite set of end points and any number of ranges.  The count an object *)
(* carries from one find to the next is an upper bound because of what a   *)
(* pair of scans that disagrees has shown: no point lies in that many      *)
(* ranges.  So the invariant below says what the edges count at a point,   *)
(* and what a scan that is over has found.                                 *)
(***************************************************************************)
EXTENDS OverlapPy, Edges_proofs

\* The list is sorted and counts the ranges, none of which is in the wrong order.
ListInv ==
  /\ Sorted(edges)
  /\ CountsRanges(edges, ranges)
  /\ \A i \in DOMAIN ranges : ranges[i].lo <= ranges[i].hi

\* The running scan has found nothing yet, and looks at an edge or has just
\* left the last one.
ScanInv ==
  /\ pc # "idle" => wanted > 0
  /\ pc = "low" => pos >= 1 /\ lo = None
  /\ pc = "high" => pos <= Len(edges) /\ hi = None

\* The upward scan is over: it stopped at the first edge that reaches the
\* wanted count, or there is none.
LowOver ==
  \/ lo = None /\ \A k \in 1..Len(edges) : ChimeUp(edges, k) < wanted
  \/ \E k \in 1..Len(edges) : /\ lo = edges[k].value
                              /\ ChimeUp(edges, k) >= wanted
                              /\ \A i \in 1..k - 1 : ChimeUp(edges, i) < wanted

\* The downward scan is over.
HighOver ==
  \/ hi = None /\ \A k \in 1..Len(edges) : ChimeDown(edges, k) < wanted
  \/ \E k \in 1..Len(edges) : /\ hi = edges[k].value
                              /\ ChimeDown(edges, k) >= wanted
                              /\ \A i \in k + 1..Len(edges) : ChimeDown(edges, i) < wanted

\* What the scans that are over have found.
FoundInv ==
  /\ pc \in {"high", "test"} => LowOver
  /\ pc = "test" => HighOver

\* The inductive invariant.
Inv == TypeOK /\ ListInv /\ ScanInv /\ FoundInv /\ ScanCounts /\ WantedIsUpperBound

-----------------------------------------------------------------------------
(* What the edges show *)

\* The facts about the edges that the lemmas on lists need.
LEMMA EdgesTyped ==
  ASSUME TypeOK
  PROVE  /\ EdgeOfValue \in SUBSET EdgeType /\ edges \in Seq(EdgeOfValue)
         /\ edges \in Seq(EdgeType) /\ Len(edges) \in Nat
         /\ \A k \in 1..Len(edges) : edges[k].value \in Value /\ edges[k].chime \in {-1, 1}
<1>1. EdgeOfValue \in SUBSET EdgeType
  BY ValueAssumption DEF EdgeOfValue, EdgeType
<1>2. edges \in Seq(EdgeOfValue)
  BY DEF TypeOK, EdgeOfValue
<1>3. edges \in Seq(EdgeType) /\ Len(edges) \in Nat
  BY <1>1, <1>2
<1>4. ASSUME NEW k \in 1..Len(edges)
      PROVE  edges[k].value \in Value /\ edges[k].chime \in {-1, 1}
  <2>1. edges[k] \in EdgeOfValue
    BY <1>2
  <2> QED
    BY <2>1 DEF EdgeOfValue
<1> QED
  BY <1>1, <1>2, <1>3, <1>4

\* When the wanted count is reached at a point, the upward scan has stopped, and
\* no later than there.
LEMMA LowBound ==
  ASSUME TypeOK, ListInv, LowOver, wanted > 0,
         NEW x \in Value, Depth(ranges, x) >= wanted
  PROVE  lo \in Value /\ lo <= x
<1>1. /\ edges \in Seq(EdgeType) /\ Sorted(edges) /\ x \in Int
      /\ \A k \in 1..Len(edges) : edges[k].value \in Value
  BY EdgesTyped, ValueAssumption DEF ListInv
<1>2. PICK k \in 0..Len(edges) :
        /\ \A i \in 1..Len(edges) : edges[i] \in UpTo(x) <=> i <= k
        /\ ChimeUp(edges, k) = Depth(ranges, x)
  <2>1. CountIn(edges, UpTo(x) \cap LowEdges) - CountIn(edges, UpTo(x) \cap HighEdges)
          = Depth(ranges, x)
    BY DEF ListInv, CountsRanges
  <2> QED
    BY <1>1, <2>1, CountAtPoint
<1>3. wanted \in Nat
  BY DEF TypeOK
<1>4. k # 0
  BY <1>1, <1>2, <1>3, ScanUp
<1>5. ChimeUp(edges, k) \in Int
  BY <1>1, ScanUp
<1>6. PICK j \in 1..Len(edges) :
        /\ lo = edges[j].value
        /\ \A i \in 1..j - 1 : ChimeUp(edges, i) < wanted
  BY <1>2, <1>3, <1>4, <1>5 DEF LowOver
<1>7. j <= k
  BY <1>2, <1>3, <1>4, <1>5, <1>6
<1>8. edges[j] \in UpTo(x)
  BY <1>2, <1>7
<1> QED
  BY <1>1, <1>6, <1>8 DEF UpTo, EdgeType

\* The same for the downward scan.
LEMMA HighBound ==
  ASSUME TypeOK, ListInv, HighOver, wanted > 0,
         NEW x \in Value, Depth(ranges, x) >= wanted
  PROVE  hi \in Value /\ x <= hi
<1>1. /\ edges \in Seq(EdgeType) /\ Sorted(edges) /\ x \in Int
      /\ \A k \in 1..Len(edges) : edges[k].value \in Value
  BY EdgesTyped, ValueAssumption DEF ListInv
<1>2. PICK k \in 1..Len(edges) + 1 :
        /\ \A i \in 1..Len(edges) : edges[i] \in From(x) <=> i >= k
        /\ ChimeDown(edges, k) = Depth(ranges, x)
  <2>1. CountIn(edges, From(x) \cap HighEdges) - CountIn(edges, From(x) \cap LowEdges)
          = Depth(ranges, x)
    BY DEF ListInv, CountsRanges
  <2> QED
    BY <1>1, <2>1, CountFromPoint
<1>3. wanted \in Nat
  BY DEF TypeOK
<1>4. k # Len(edges) + 1
  BY <1>1, <1>2, <1>3, ScanDown
<1>5. ChimeDown(edges, k) \in Int
  BY <1>1, ScanDown
<1>6. PICK j \in 1..Len(edges) :
        /\ hi = edges[j].value
        /\ \A i \in j + 1..Len(edges) : ChimeDown(edges, i) < wanted
  BY <1>2, <1>3, <1>4, <1>5 DEF HighOver
<1>7. k <= j
  BY <1>2, <1>3, <1>4, <1>5, <1>6
<1>8. edges[j] \in From(x)
  BY <1>2, <1>7
<1> QED
  BY <1>1, <1>6, <1>8 DEF From, EdgeType

\* A value a scan has found lies in as many ranges as it was to find.
LEMMA FoundIsDeep ==
  ASSUME TypeOK, ListInv, wanted > 0
  PROVE  /\ LowOver /\ lo # None => Depth(ranges, lo) >= wanted
         /\ HighOver /\ hi # None => Depth(ranges, hi) >= wanted
<1>1. /\ edges \in Seq(EdgeType) /\ Sorted(edges) /\ wanted \in Int
      /\ \A k \in 1..Len(edges) : edges[k].value \in Value
  BY EdgesTyped DEF ListInv, TypeOK
<1>2. ASSUME LowOver, lo # None PROVE Depth(ranges, lo) >= wanted
  <2>1. PICK j \in 1..Len(edges) :
          /\ lo = edges[j].value /\ ChimeUp(edges, j) >= wanted
          /\ \A i \in 1..j - 1 : ChimeUp(edges, i) < wanted
    BY <1>2 DEF LowOver
  <2>2. CountIn(edges, UpTo(lo) \cap LowEdges) - CountIn(edges, UpTo(lo) \cap HighEdges) >= wanted
    BY <1>1, <2>1, FirstReachUp
  <2> QED
    BY <1>1, <2>1, <2>2 DEF ListInv, CountsRanges
<1>3. ASSUME HighOver, hi # None PROVE Depth(ranges, hi) >= wanted
  <2>1. PICK j \in 1..Len(edges) :
          /\ hi = edges[j].value /\ ChimeDown(edges, j) >= wanted
          /\ \A i \in j + 1..Len(edges) : ChimeDown(edges, i) < wanted
    BY <1>3 DEF HighOver
  <2>2. CountIn(edges, From(hi) \cap HighEdges) - CountIn(edges, From(hi) \cap LowEdges) >= wanted
    BY <1>1, <2>1, FirstReachDown
  <2> QED
    BY <1>1, <2>1, <2>2 DEF ListInv, CountsRanges
<1> QED
  BY <1>2, <1>3

\* Two scans that are over agree when some point lies in the wanted number of
\* ranges, and only then.
LEMMA ConsistentIffDeep ==
  ASSUME TypeOK, ListInv, LowOver, HighOver, wanted > 0
  PROVE  Consistent <=> \E x \in Value : Depth(ranges, x) >= wanted
<1>1. ASSUME NEW x \in Value, Depth(ranges, x) >= wanted PROVE Consistent
  <2>1. lo \in Value /\ lo <= x /\ hi \in Value /\ x <= hi
    BY <1>1, LowBound, HighBound
  <2> QED
    BY <2>1, ValueAssumption, NoneAssumption DEF Consistent
<1>2. ASSUME Consistent PROVE \E x \in Value : Depth(ranges, x) >= wanted
  <2>1. lo \in Value /\ lo # None
    BY <1>2 DEF Consistent, TypeOK
  <2> QED
    BY <2>1, FoundIsDeep
<1> QED
  BY <1>1, <1>2

-----------------------------------------------------------------------------
(* The invariant *)

\* An object without ranges has no edges and hopes for nothing.
LEMMA InitInv == Init => Inv
<1> SUFFICES ASSUME Init PROVE Inv
  OBVIOUS
<1>1. TypeOK
  BY DEF Init, TypeOK, Answers, NoOverlap
<1>2. \A S : CountIn(<<>>, S) = 0
  <2> SUFFICES ASSUME NEW S PROVE CountIn(<<>>, S) = 0
    OBVIOUS
  <2>1. IndicesIn(<<>>, S) = {}
    BY DEF IndicesIn
  <2> QED
    BY <2>1, FS_EmptySet DEF CountIn
<1>3. \A x \in Value : Depth(<<>>, x) = 0
  <2> SUFFICES ASSUME NEW x \in Value PROVE Depth(<<>>, x) = 0
    OBVIOUS
  <2>1. {i \in DOMAIN <<>> : <<>>[i].lo <= x /\ x <= <<>>[i].hi} = {}
    OBVIOUS
  <2>2. Depth(<<>>, x) = Cardinality({})
    BY <2>1 DEF Depth
  <2> QED
    BY <2>2, FS_EmptySet
<1>4. ListInv
  BY <1>2, <1>3 DEF Init, ListInv, Sorted, CountsRanges
<1>5. WantedIsUpperBound
  BY <1>3 DEF Init, WantedIsUpperBound
<1>6. ScanInv /\ FoundInv /\ ScanCounts
  BY DEF Init, ScanInv, FoundInv, ScanCounts
<1> QED
  BY <1>1, <1>4, <1>5, <1>6 DEF Inv

\* One more range: two more edges, one more wanted, and at most one more around
\* any point.
LEMMA AddInv ==
  ASSUME Inv, NEW l \in Value, NEW h \in Value, Add(l, h)
  PROVE  Inv'
<1> DEFINE r == [lo |-> l, hi |-> h]
<1>1. /\ pc = "idle" /\ pc' = "idle" /\ l <= h /\ wanted' = wanted + 1
      /\ edges' = AddRange(edges, l, h) /\ ranges' = Append(ranges, r)
      /\ UNCHANGED <<pos, chime, lo, hi, answer>>
  BY DEF Add, locals
<1>2. r \in Interval /\ l \in Int /\ h \in Int
  BY ValueAssumption DEF Interval
<1>3. Edge(l, -1) \in EdgeOfValue /\ Edge(h, 1) \in EdgeOfValue
  BY DEF Edge, EdgeOfValue
<1>4. /\ edges' \in Seq(EdgeOfValue) /\ Sorted(edges)' /\ Len(edges') = Len(edges) + 2
      /\ \A S : CountIn(edges', S) = CountIn(edges, S)
                                     + (IF Edge(l, -1) \in S THEN 1 ELSE 0)
                                     + (IF Edge(h, 1) \in S THEN 1 ELSE 0)
  <2>1. EdgeOfValue \in SUBSET EdgeType /\ edges \in Seq(EdgeOfValue) /\ Sorted(edges)
    BY EdgesTyped DEF Inv, ListInv
  <2>2. /\ AddRange(edges, l, h) \in Seq(EdgeOfValue) /\ Sorted(AddRange(edges, l, h))
        /\ Len(AddRange(edges, l, h)) = Len(edges) + 2
        /\ \A S : CountIn(AddRange(edges, l, h), S) = CountIn(edges, S)
                                     + (IF Edge(l, -1) \in S THEN 1 ELSE 0)
                                     + (IF Edge(h, 1) \in S THEN 1 ELSE 0)
    BY <1>3, <2>1, AddRangeShape
  <2> QED
    BY <1>1, <2>2
<1>5. ranges \in Seq(Interval) /\ ranges' \in Seq(Interval)
  BY <1>1, <1>2 DEF Inv, TypeOK
<1>6. \A x \in Value : Depth(ranges', x) = Depth(ranges, x) + (IF l <= x /\ x <= h THEN 1 ELSE 0)
  BY <1>1, <1>2, <1>5, DepthAppend
<1>7. \A x \in Value : Depth(ranges, x) \in Nat
  BY <1>5, DepthType
<1>8. TypeOK'
  BY <1>1, <1>4, <1>5 DEF Inv, TypeOK, EdgeOfValue
<1>9. CountsRanges(edges', ranges')
  <2>1. /\ edges \in Seq(EdgeType) /\ CountsRanges(edges, ranges)
        /\ EdgeOfValue \subseteq EdgeType
    BY EdgesTyped DEF Inv, ListInv
  <2>2. edges' \in Seq(EdgeType)
    BY <1>4, <2>1
  <2>3. CountsRanges(edges', Append(ranges, r))
    BY <1>1, <1>4, <1>5, <2>1, <2>2, AddCounts
  <2> QED
    BY <1>1, <2>3
<1>10. ListInv'
  <2>1. \A i \in DOMAIN ranges' : ranges'[i].lo <= ranges'[i].hi
    BY <1>1, <1>5 DEF Inv, ListInv
  <2> QED
    BY <1>4, <1>9, <2>1 DEF ListInv
<1>11. WantedIsUpperBound'
  <2>1. Len(ranges') = Len(ranges) + 1 /\ wanted \in Nat /\ Len(ranges) \in Nat
    BY <1>1, <1>5 DEF Inv, TypeOK
  <2> QED
    BY <1>1, <1>6, <1>7, <2>1 DEF Inv, WantedIsUpperBound
<1>12. ScanInv' /\ FoundInv' /\ ScanCounts'
  BY <1>1 DEF ScanInv, FoundInv, ScanCounts
<1> QED
  BY <1>8, <1>10, <1>11, <1>12 DEF Inv

\* What the upward scan knows when it has looked at one more edge.
LEMMA LowScanInv ==
  ASSUME Inv, LowStep \/ LowFound \/ LowExhausted
  PROVE  Inv'
<1> DEFINE s == edges
<1>1. /\ s \in Seq(EdgeType) /\ Len(s) \in Nat
      /\ \A k \in 1..Len(s) : s[k].value \in Value /\ s[k].chime \in {-1, 1}
  BY EdgesTyped DEF Inv
<1>2. /\ pc = "low" /\ edges' = edges /\ wanted' = wanted /\ ranges' = ranges
      /\ answer' = answer
  BY DEF LowStep, LowFound, LowExhausted, StartHighScan
<1>3. /\ pos \in 1..Len(s) + 1 /\ wanted \in Nat /\ wanted > 0 /\ chime \in Int
      /\ chime = ChimeUp(s, pos - 1)
      /\ \A k \in 1..pos - 1 : ChimeUp(s, k) < wanted
  BY <1>1, <1>2 DEF Inv, TypeOK, ScanInv, ScanCounts
<1>4. \A k \in 1..Len(s) : ChimeUp(s, k) \in Int /\ ChimeUp(s, k) = ChimeUp(s, k - 1) - s[k].chime
  BY <1>1, ScanUp
<1>5. ListInv' /\ WantedIsUpperBound'
  BY <1>2 DEF Inv, ListInv, CountsRanges, WantedIsUpperBound
<1>6. ChimeDown(s, Len(s) + 1) = 0
  BY <1>1, ScanDown
<1>7. CASE LowStep
  <2>1. /\ pos \in 1..Len(s) /\ pc' = "low" /\ pos' = pos + 1 /\ lo' = lo /\ hi' = hi
        /\ chime' = chime - s[pos].chime /\ chime' < wanted
    BY <1>3, <1>7 DEF LowStep
  <2>2. chime' = ChimeUp(s, pos) /\ pos' - 1 = pos /\ chime' \in Int
    BY <1>3, <1>4, <2>1
  <2>3. \A k \in 1..pos : ChimeUp(s, k) < wanted
    BY <1>3, <2>1, <2>2
  <2>4. ScanCounts'
    BY <1>2, <2>1, <2>2, <2>3 DEF ScanCounts
  <2>5. TypeOK'
    BY <1>2, <2>1, <2>2 DEF Inv, TypeOK
  <2>6. ScanInv' /\ FoundInv'
    BY <1>2, <1>3, <2>1 DEF Inv, ScanInv, FoundInv
  <2> QED
    BY <1>5, <2>4, <2>5, <2>6 DEF Inv
<1>8. CASE LowFound
  <2>1. /\ pos \in 1..Len(s) /\ pc' = "high" /\ pos' = Len(s) /\ chime' = 0
        /\ lo' = s[pos].value /\ hi' = None
        /\ chime - s[pos].chime >= wanted
    BY <1>3, <1>8 DEF LowFound, StartHighScan
  <2>2. ChimeUp(s, pos) >= wanted
    BY <1>3, <1>4, <2>1
  <2>3. LowOver'
    BY <1>2, <1>3, <2>1, <2>2 DEF LowOver
  <2>4. ScanCounts'
    BY <1>2, <1>6, <2>1 DEF ScanCounts
  <2>5. TypeOK'
    BY <1>1, <1>2, <2>1 DEF Inv, TypeOK
  <2>6. ScanInv' /\ FoundInv'
    BY <1>2, <1>3, <2>1, <2>3 DEF ScanInv, FoundInv
  <2> QED
    BY <1>5, <2>4, <2>5, <2>6 DEF Inv
<1>9. CASE LowExhausted
  <2>1. /\ pos = Len(s) + 1 /\ pc' = "high" /\ pos' = Len(s) /\ chime' = 0
        /\ lo' = lo /\ hi' = None
    BY <1>1, <1>3, <1>9 DEF LowExhausted, StartHighScan
  <2>2. LowOver'
    BY <1>1, <1>2, <1>3, <2>1 DEF LowOver, Inv, ScanInv
  <2>3. ScanCounts'
    BY <1>2, <1>6, <2>1 DEF ScanCounts
  <2>4. TypeOK'
    BY <1>1, <1>2, <2>1 DEF Inv, TypeOK
  <2>5. ScanInv' /\ FoundInv'
    BY <1>2, <1>3, <2>1, <2>2 DEF ScanInv, FoundInv
  <2> QED
    BY <1>5, <2>3, <2>4, <2>5 DEF Inv
<1> QED
  BY <1>7, <1>8, <1>9

\* The same for the downward scan.
LEMMA HighScanInv ==
  ASSUME Inv, HighStep \/ HighFound \/ HighExhausted
  PROVE  Inv'
<1> DEFINE s == edges
<1>1. /\ s \in Seq(EdgeType) /\ Len(s) \in Nat
      /\ \A k \in 1..Len(s) : s[k].value \in Value /\ s[k].chime \in {-1, 1}
  BY EdgesTyped DEF Inv
<1>2. /\ pc = "high" /\ edges' = edges /\ wanted' = wanted /\ ranges' = ranges
      /\ answer' = answer /\ lo' = lo
  BY DEF HighStep, HighFound, HighExhausted, locals
<1>3. /\ pos \in 0..Len(s) /\ wanted \in Nat /\ wanted > 0 /\ chime \in Int
      /\ chime = ChimeDown(s, pos + 1)
      /\ \A k \in pos + 1..Len(s) : ChimeDown(s, k) < wanted
      /\ hi = None
  BY <1>1, <1>2 DEF Inv, TypeOK, ScanInv, ScanCounts
<1>4. \A k \in 1..Len(s) : /\ ChimeDown(s, k) \in Int
                           /\ ChimeDown(s, k) = ChimeDown(s, k + 1) + s[k].chime
  BY <1>1, ScanDown
<1>5. ListInv' /\ WantedIsUpperBound'
  BY <1>2 DEF Inv, ListInv, CountsRanges, WantedIsUpperBound
<1>6. LowOver'
  BY <1>2 DEF Inv, FoundInv, LowOver
<1>7. CASE HighStep
  <2>1. /\ pos \in 1..Len(s) /\ pc' = "high" /\ pos' = pos - 1 /\ hi' = hi
        /\ chime' = chime + s[pos].chime /\ chime' < wanted
    BY <1>3, <1>7 DEF HighStep
  <2>2. chime' = ChimeDown(s, pos) /\ pos' + 1 = pos /\ chime' \in Int
    BY <1>3, <1>4, <2>1
  <2>3. \A k \in pos..Len(s) : ChimeDown(s, k) < wanted
    BY <1>3, <2>1, <2>2
  <2>4. ScanCounts'
    BY <1>2, <2>1, <2>2, <2>3 DEF ScanCounts
  <2>5. TypeOK'
    BY <1>2, <2>1, <2>2 DEF Inv, TypeOK
  <2>6. ScanInv' /\ FoundInv'
    BY <1>2, <1>3, <1>6, <2>1 DEF ScanInv, FoundInv
  <2> QED
    BY <1>5, <2>4, <2>5, <2>6 DEF Inv
<1>8. CASE HighFound
  <2>1. /\ pos \in 1..Len(s) /\ pc' = "test" /\ hi' = s[pos].value
        /\ pos' = pos /\ chime' = chime
        /\ chime + s[pos].chime >= wanted
    BY <1>3, <1>8 DEF HighFound
  <2>2. ChimeDown(s, pos) >= wanted
    BY <1>3, <1>4, <2>1
  <2>3. HighOver'
    BY <1>2, <1>3, <2>1, <2>2 DEF HighOver
  <2>4. TypeOK'
    BY <1>1, <1>2, <2>1 DEF Inv, TypeOK
  <2>5. ScanInv' /\ FoundInv' /\ ScanCounts'
    BY <1>2, <1>3, <1>6, <2>1, <2>3 DEF ScanInv, FoundInv, ScanCounts
  <2> QED
    BY <1>5, <2>4, <2>5 DEF Inv
<1>9. CASE HighExhausted
  <2>1. pos = 0 /\ pc' = "test" /\ hi' = hi /\ pos' = pos /\ chime' = chime
    BY <1>3, <1>9 DEF HighExhausted, locals
  <2>2. HighOver'
    BY <1>1, <1>2, <1>3, <2>1 DEF HighOver
  <2>3. TypeOK'
    BY <1>1, <1>2, <2>1 DEF Inv, TypeOK
  <2>4. ScanInv' /\ FoundInv' /\ ScanCounts'
    BY <1>2, <1>3, <1>6, <2>1, <2>2 DEF ScanInv, FoundInv, ScanCounts
  <2> QED
    BY <1>5, <2>3, <2>4 DEF Inv
<1> QED
  BY <1>7, <1>8, <1>9

\* Two scans that disagree have shown that no point lies in the wanted number of
\* ranges: the count that is tried next is an upper bound as well.
LEMMA LoweredIsUpperBound ==
  ASSUME Inv, pc = "test", ~Consistent
  PROVE  wanted - 1 \in Nat /\ wanted > 1 /\ \A x \in Value : Depth(ranges, x) <= wanted - 1
<1>1. /\ TypeOK /\ ListInv /\ LowOver /\ HighOver
      /\ wanted \in Nat /\ wanted > 0 /\ wanted <= Len(ranges) /\ ranges \in Seq(Interval)
  BY DEF Inv, ScanInv, FoundInv, TypeOK, WantedIsUpperBound
<1>2. \A x \in Value : ~(Depth(ranges, x) >= wanted)
  BY <1>1, ConsistentIffDeep
<1>3. \A x \in Value : Depth(ranges, x) \in Nat
  BY <1>1, DepthType
<1>4. wanted # 1
  <2>1. 1 \in 1..Len(ranges) /\ ranges[1].lo <= ranges[1].hi
    BY <1>1 DEF ListInv
  <2>2. ranges[1].lo \in Value /\ Depth(ranges, ranges[1].lo) >= 1
    BY <1>1, <2>1, DepthOfOne
  <2> QED
    BY <1>2, <2>2
<1> QED
  BY <1>1, <1>2, <1>3, <1>4

\* Every step keeps the invariant.
LEMMA NextInv == Inv /\ [Next]_vars => Inv'
<1> SUFFICES ASSUME Inv, [Next]_vars PROVE Inv'
  OBVIOUS
<1>1. CASE \E l, h \in Value : Add(l, h)
  BY <1>1, AddInv
<1>2. CASE FindNothing
  <2>1. /\ pc = "idle" /\ UNCHANGED <<edges, wanted, pc, locals, ranges>>
        /\ answer' \in Answers
    BY <1>2 DEF FindNothing, NoOverlap, Answers
  <2>2. TypeOK'
    BY <2>1 DEF Inv, TypeOK, locals
  <2> QED
    BY <2>1, <2>2 DEF Inv, ListInv, CountsRanges, ScanInv, FoundInv, ScanCounts,
                      WantedIsUpperBound
<1>3. CASE FindStart
  <2>1. /\ pc' = "low" /\ pos' = 1 /\ chime' = 0 /\ lo' = None /\ hi' = hi /\ wanted > 0
        /\ UNCHANGED <<edges, wanted, answer, ranges>>
    BY <1>3 DEF FindStart, StartLowScan
  <2>2. edges \in Seq(EdgeType) /\ Len(edges) \in Nat
    BY EdgesTyped DEF Inv
  <2>3. ScanCounts'
    BY <2>1, <2>2, ScanUp DEF ScanCounts
  <2>4. TypeOK'
    BY <2>1, <2>2 DEF Inv, TypeOK
  <2>5. ListInv' /\ WantedIsUpperBound'
    BY <2>1 DEF Inv, ListInv, CountsRanges, WantedIsUpperBound
  <2> QED
    BY <2>1, <2>3, <2>4, <2>5 DEF Inv, ScanInv, FoundInv
<1>4. CASE LowStep \/ LowFound \/ LowExhausted
  BY <1>4, LowScanInv
<1>5. CASE HighStep \/ HighFound \/ HighExhausted
  BY <1>5, HighScanInv
<1>6. CASE Return
  <2>1. /\ pc = "test" /\ pc' = "idle" /\ UNCHANGED <<edges, pos, chime, lo, hi, ranges>>
        /\ Consistent \/ wanted = 1
        /\ wanted' = IF Consistent THEN wanted ELSE wanted - 1
        /\ answer' = [count |-> wanted', lo |-> lo, hi |-> hi]
    BY <1>6 DEF Return, locals
  <2>2. Consistent /\ wanted' = wanted
    BY <2>1, LoweredIsUpperBound
  <2>3. TypeOK'
    BY <2>1, <2>2 DEF Inv, TypeOK, Answers
  <2> QED
    BY <2>1, <2>2, <2>3 DEF Inv, ListInv, CountsRanges, ScanInv, FoundInv, ScanCounts,
                            WantedIsUpperBound
<1>7. CASE Retry
  <2>1. /\ pc = "test" /\ pc' = "low" /\ pos' = 1 /\ chime' = 0 /\ lo' = None /\ hi' = hi
        /\ ~Consistent /\ wanted' = wanted - 1
        /\ UNCHANGED <<edges, answer, ranges>>
    BY <1>7 DEF Retry, StartLowScan
  <2>2. /\ wanted' \in Nat /\ wanted' > 0
        /\ \A x \in Value : Depth(ranges, x) <= wanted'
    BY <2>1, LoweredIsUpperBound DEF Inv, TypeOK
  <2>3. edges \in Seq(EdgeType) /\ Len(edges) \in Nat
    BY EdgesTyped DEF Inv
  <2>4. ScanCounts'
    BY <2>1, <2>3, ScanUp DEF ScanCounts
  <2>5. TypeOK'
    BY <2>1, <2>2, <2>3 DEF Inv, TypeOK
  <2>6. ListInv'
    BY <2>1 DEF Inv, ListInv, CountsRanges
  <2>7. WantedIsUpperBound'
    <3>1. wanted \in Nat /\ Len(ranges) \in Nat
      BY DEF Inv, TypeOK
    <3> QED
      BY <2>1, <2>2, <3>1 DEF Inv, WantedIsUpperBound
  <2> QED
    BY <2>1, <2>2, <2>4, <2>5, <2>6, <2>7 DEF Inv, ScanInv, FoundInv
<1>8. CASE UNCHANGED vars
  BY <1>8 DEF vars, locals, Inv, TypeOK, ListInv, Sorted, CountsRanges, ScanInv, FoundInv,
              LowOver, HighOver, ScanCounts, WantedIsUpperBound
<1> QED
  BY <1>1, <1>2, <1>3, <1>4, <1>5, <1>6, <1>7, <1>8 DEF Next, FindStep

\* The invariant holds throughout every behaviour.
LEMMA Invariance == Spec => []Inv
<1> QED
  BY InitInv, NextInv, PTL DEF Spec

-----------------------------------------------------------------------------
(* Theorems *)

\* Every variable of the object and of find holds a value of its type, whatever
\* sequence of add and find is called (overlap.py:50-133).
THEOREM TypeCorrect == Spec => []TypeOK
<1>1. Inv => TypeOK
  BY DEF Inv
<1> QED
  BY <1>1, Invariance, PTL

\* A scan of find has counted the edges behind it and has run past none where
\* the wanted count was reached (overlap.py:114-118, 122-126).
THEOREM ScansCount == Spec => []ScanCounts
<1>1. Inv => ScanCounts
  BY DEF Inv
<1> QED
  BY <1>1, Invariance, PTL

\* The count an object carries from one find to the next never drops below the
\* true number of overlaps (overlap.py:94, 131).
THEOREM WantedNeverTooLow == Spec => []WantedIsUpperBound
<1>1. Inv => WantedIsUpperBound
  BY DEF Inv
<1> QED
  BY <1>1, Invariance, PTL

-----------------------------------------------------------------------------
(* Refinement *)

\* Both specifications count the ranges around a point alike.
LEMMA SameDepth ==
  ASSUME NEW x
  PROVE  Abstract!Depth(ranges, x) = Depth(ranges, x)
<1> DEFINE D == {i \in DOMAIN ranges : ranges[i].lo <= x /\ x <= ranges[i].hi}
<1>1. Abstract!Depth(ranges, x) = Cardinality(D)
  BY Zenon DEF Abstract!Depth, Abstract!Cardinality, Cardinality
<1>2. Depth(ranges, x) = Cardinality(D)
  BY DEF Depth
<1> QED
  BY <1>1, <1>2

\* The largest number of overlapping ranges of the abstract specification is the
\* one number that bounds every depth and is reached, or is 0.
LEMMA AbstractDepth ==
  ASSUME NEW n \in 0..Len(ranges), ranges \in Seq(Interval),
         \A x \in Value : Depth(ranges, x) <= n,
         n = 0 \/ \E x \in Value : Depth(ranges, x) >= n
  PROVE  Abstract!MaxDepth(ranges) = n
<1> DEFINE P(m) == /\ \A x \in Value : Depth(ranges, x) <= m
                   /\ m = 0 \/ \E x \in Value : Depth(ranges, x) >= m
<1>1. \A x : Abstract!Depth(ranges, x) = Depth(ranges, x)
  BY SameDepth
<1>2. \A m : Abstract!IsMaxDepth(ranges, m) <=> P(m)
  BY <1>1, Zenon DEF Abstract!IsMaxDepth, Abstract!Shared
<1>3. \A x \in Value : Depth(ranges, x) \in Nat
  BY DepthType
<1>4. ASSUME NEW m \in 0..Len(ranges), P(m) PROVE m = n
  BY <1>3, <1>4
<1>5. n \in 0..Len(ranges) /\ P(n)
  OBVIOUS
<1> HIDE DEF P
<1>6. Abstract!MaxDepth(ranges) = CHOOSE m \in 0..Len(ranges) : Abstract!IsMaxDepth(ranges, m)
  BY DEF Abstract!MaxDepth
<1> QED
  BY <1>2, <1>4, <1>5, <1>6

\* The lowest and the highest point of a set of end points.
LEMMA AbstractEnds ==
  ASSUME NEW S \in SUBSET Value, NEW x \in S
  PROVE  /\ (\A y \in S : x <= y) => Abstract!Lowest(S) = x
         /\ (\A y \in S : y <= x) => Abstract!Highest(S) = x
<1>1. S \subseteq Int
  BY ValueAssumption
<1>2. ASSUME \A y \in S : x <= y PROVE Abstract!Lowest(S) = x
  <2>1. \A z \in S : (\A y \in S : z <= y) => z = x
    BY <1>1, <1>2
  <2> QED
    BY <1>2, <2>1 DEF Abstract!Lowest
<1>3. ASSUME \A y \in S : y <= x PROVE Abstract!Highest(S) = x
  <2>1. \A z \in S : (\A y \in S : y <= z) => z = x
    BY <1>1, <1>3
  <2> QED
    BY <1>3, <2>1 DEF Abstract!Highest
<1> QED
  BY <1>2, <1>3

\* What find returns is the deepest overlap and its outermost points.
LEMMA ReturnIsBest ==
  ASSUME Inv, Return
  PROVE  answer' = Abstract!Best(ranges)
<1> DEFINE S == Abstract!Shared(ranges, wanted)
<1>1. /\ pc = "test" /\ Consistent /\ wanted' = wanted
      /\ answer' = [count |-> wanted, lo |-> lo, hi |-> hi]
  <2>1. pc = "test" /\ (Consistent \/ wanted = 1)
    BY DEF Return
  <2>2. Consistent
    BY <2>1, LoweredIsUpperBound
  <2> QED
    BY <2>1, <2>2 DEF Return
<1>2. /\ TypeOK /\ ListInv /\ LowOver /\ HighOver /\ wanted \in Nat /\ wanted > 0
      /\ wanted <= Len(ranges) /\ ranges \in Seq(Interval)
      /\ lo \in Value /\ hi \in Value /\ lo # None /\ hi # None
      /\ \A x \in Value : Depth(ranges, x) <= wanted
  BY <1>1 DEF Inv, ScanInv, FoundInv, TypeOK, WantedIsUpperBound, Consistent
<1>3. Depth(ranges, lo) >= wanted /\ Depth(ranges, hi) >= wanted
  BY <1>2, FoundIsDeep
<1>4. Abstract!MaxDepth(ranges) = wanted
  <2>1. wanted \in 0..Len(ranges)
    BY <1>2
  <2> QED
    BY <1>2, <1>3, <2>1, AbstractDepth
<1>5. S = {x \in Value : Depth(ranges, x) >= wanted}
  BY SameDepth DEF Abstract!Shared
<1>6. S \in SUBSET Value /\ lo \in S /\ hi \in S
  BY <1>2, <1>3, <1>5
<1>7. \A x \in S : lo <= x /\ x <= hi
  BY <1>2, <1>5, LowBound, HighBound
<1> HIDE DEF S
<1>8. Abstract!Lowest(S) = lo /\ Abstract!Highest(S) = hi
  BY <1>6, <1>7, AbstractEnds
<1> QED
  BY <1>1, <1>2, <1>4, <1>8 DEF Abstract!Best, S

\* An object without ranges has no overlap.
LEMMA NothingIsBest ==
  ASSUME Inv, wanted = 0
  PROVE  Abstract!Best(ranges) = NoOverlap
<1>1. ranges \in Seq(Interval) /\ \A x \in Value : Depth(ranges, x) <= 0
  BY DEF Inv, TypeOK, WantedIsUpperBound
<1>2. 0 \in 0..Len(ranges)
  BY <1>1
<1>3. Abstract!MaxDepth(ranges) = 0
  BY <1>1, <1>2, AbstractDepth
<1> QED
  BY <1>3 DEF Abstract!Best, Abstract!NoOverlap, NoOverlap

\* Every step of the object is a step of the abstract specification or none.
LEMMA NextRefines == Inv /\ [Next]_vars => [Abstract!Next]_(Abstract!vars)
<1> SUFFICES ASSUME Inv, [Next]_vars PROVE [Abstract!Next]_(Abstract!vars)
  OBVIOUS
<1>1. ASSUME UNCHANGED <<ranges, answer>> PROVE [Abstract!Next]_(Abstract!vars)
  BY <1>1 DEF Abstract!vars
<1>2. CASE \E l, h \in Value : Add(l, h)
  BY <1>2 DEF Add, Abstract!Next, Abstract!Add
<1>3. CASE FindNothing
  BY <1>3, NothingIsBest DEF FindNothing, Abstract!Next, Abstract!Find
<1>4. CASE Return
  BY <1>4, ReturnIsBest DEF Return, Abstract!Next, Abstract!Find
<1>5. CASE FindStart \/ LowStep \/ LowFound \/ LowExhausted
  BY <1>1, <1>5 DEF FindStart, LowStep, LowFound, LowExhausted
<1>6. CASE HighStep \/ HighFound \/ HighExhausted \/ Retry
  BY <1>1, <1>6 DEF HighStep, HighFound, HighExhausted, Retry
<1>7. CASE UNCHANGED vars
  BY <1>1, <1>7 DEF vars
<1> QED
  BY <1>2, <1>3, <1>4, <1>5, <1>6, <1>7 DEF Next, FindStep

\* Every find returns the deepest overlap of the accepted ranges and the
\* outermost points that reach it, whatever was asked before: OverlapAlgorithm
\* implements Overlap (overlap.py:81-133).
THEOREM Implements == Spec => Refines
<1>1. Init => Abstract!Init
  BY DEF Init, Abstract!Init, NoOverlap, Abstract!NoOverlap
<1> QED
  BY <1>1, NextRefines, Invariance, PTL DEF Spec, Refines, Abstract!Spec
=============================================================================
