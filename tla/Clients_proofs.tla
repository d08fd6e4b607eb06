--------------------------- MODULE Clients_proofs ----------------------------
(***************************************************************************)
(* What the clients that set a clock promise, for any servers and however  *)
(* many answers are false.                                                 *)
(*                                                                         *)
(* The C client: the edges of the responses are in the order of the Python *)
(* implementation because no range ends where one begins, so that the last *)
(* overlap_find has found the deepest overlap of all responses.            *)
(*                                                                         *)
(* The ESP32 sketch: its port of the algorithm inserts edges in another    *)
(* order, leaves an edge out of each scan and goes on where a scan found   *)
(* nothing.  As many ranges end as begin, so that one scan is the mirror   *)
(* of the other and the edges left out are never needed; and where no      *)
(* range begins where one ends, edges of equal value are equal.            *)
(***************************************************************************)
EXTENDS VakClient, Esp32, Edges_proofs

\* Every variable of main holds a value of its type.
TypeOK ==
  /\ pc \in {"shuffle", "new", "query", "success", "failure", "error"}
  /\ servers \in [1..NrServers -> 1..NrServers]
  /\ i \in 0..NrServers + 1
  /\ nrResponses \in Nat /\ wanted \in Nat
  /\ ranges \in Seq(Interval)
  /\ repliers \in Seq(1..NrServers)

\* A server is asked once, and each response is counted and has one range.
CountInv ==
  /\ pc = "shuffle" => i <= NrServers
  /\ pc \in {"shuffle", "new"} => ranges = <<>>
  /\ pc = "query" => i > Len(ranges)
  /\ Len(ranges) <= NrServers
  /\ nrResponses = Len(ranges) /\ Len(repliers) = Len(ranges)

\* No range ends where one begins, and none is in the wrong order.
RangesInv ==
  \A k \in DOMAIN ranges :
    ranges[k].lo \in LowEnds /\ ranges[k].hi \in HighEnds /\ ranges[k].lo <= ranges[k].hi

\* algo holds the ranges of the responses, and what the last overlap_find found.
AlgoInv ==
  /\ HoldsRanges(edges, ranges)
  /\ \A x \in Value : Depth(ranges, x) <= wanted
  /\ ranges # <<>> =>
       /\ found = Best(ranges) /\ found.count = MaxDepth(ranges) /\ found.count \in Nat
       /\ Outermost(ranges, found.count, found.lo, found.hi)

\* The program asks on as long as, and only when, no majority was found.
EnoughInv ==
  /\ pc \in {"query", "failure"} =>
       \A k \in 1..Len(ranges) : ~Enough(Best(SubSeq(ranges, 1, k)), k)
  /\ pc = "success" => ranges # <<>> /\ Enough(found, Len(ranges))

\* The inductive invariant.
Inv == TypeOK /\ CountInv /\ RangesInv /\ AlgoInv /\ EnoughInv

-----------------------------------------------------------------------------
(* The C client: its invariant                                             *)

\* Nobody has answered yet, and the list has no edges.
LEMMA NothingYet == Init => Inv
<1> SUFFICES ASSUME Init PROVE Inv
  OBVIOUS
<1>1. TypeOK
  BY ServersAssumption DEF Init, TypeOK
<1>2. CountInv /\ RangesInv /\ EnoughInv
  BY ServersAssumption DEF Init, CountInv, RangesInv, EnoughInv
<1>3. AlgoInv
  BY HoldsRangesEmpty DEF Init, AlgoInv
<1> QED
  BY <1>1, <1>2, <1>3 DEF Inv

\* The steps that neither query nor test anything.
LEMMA OtherStep ==
  ASSUME Inv,
         \/ \E j \in 1..i : Shuffle(j)
         \/ Shuffled \/ NewAlgo \/ GiveUp \/ NoResponse \/ NoServerLeft
         \/ UNCHANGED vars
  PROVE  Inv'
<1>1. UNCHANGED <<nrResponses, edges, wanted, found, ranges, repliers>>
  BY DEF Shuffle, Shuffled, NewAlgo, GiveUp, NoResponse, NoServerLeft, vars, algo
<1>2. AlgoInv' /\ RangesInv'
  <2>1. HoldsRanges(edges, ranges)'
    BY <1>1 DEF Inv, AlgoInv, HoldsRanges, Sorted, CountsRanges, CountIn, IndicesIn, Balanced,
                LowsKnown, Depth
  <2>2. AlgoInv'
    BY <1>1, <2>1 DEF Inv, AlgoInv, Outermost, Depth, Best, MaxDepth
  <2> QED
    BY <1>1, <2>2 DEF Inv, RangesInv
<1>3. CASE \E j \in 1..i : Shuffle(j)
  <2>1. PICK j \in 1..i : Shuffle(j)
    BY <1>3
  <2>2. pc = "shuffle" /\ pc' = pc /\ i > 0 /\ i' = i - 1 /\ servers' = Rotated(servers, i, 1, j)
    BY <2>1 DEF Shuffle
  <2>3. i \in 1..NrServers /\ j \in 1..NrServers /\ 1 \in 1..NrServers
    BY <2>2, ServersAssumption DEF Inv, TypeOK, CountInv
  <2>4. servers' \in [1..NrServers -> 1..NrServers]
    BY <2>2, <2>3 DEF Inv, TypeOK, Rotated
  <2>5. TypeOK'
    <3>1. i' \in 0..NrServers + 1
      BY <2>2, <2>3, ServersAssumption
    <3> QED
      BY <1>1, <2>2, <2>4, <3>1 DEF Inv, TypeOK
  <2>6. CountInv'
    BY <1>1, <2>2, <2>3, ServersAssumption DEF Inv, CountInv
  <2>7. EnoughInv'
    BY <2>2 DEF EnoughInv
  <2> QED
    BY <1>2, <2>5, <2>6, <2>7 DEF Inv
<1>4. CASE Shuffled \/ GiveUp
  <2>1. /\ pc \in {"shuffle", "new"} /\ pc' \in {"new", "error"} /\ UNCHANGED <<servers, i>>
    BY <1>4 DEF Shuffled, GiveUp
  <2>2. TypeOK' /\ CountInv'
    BY <1>1, <2>1 DEF Inv, TypeOK, CountInv
  <2> QED
    BY <1>2, <2>1, <2>2 DEF Inv, EnoughInv
<1>5. CASE NewAlgo
  <2>1. pc = "new" /\ pc' = "query" /\ i' = 1 /\ UNCHANGED servers
    BY <1>5 DEF NewAlgo
  <2>2. ranges = <<>> /\ ranges' = <<>>
    BY <1>1, <2>1 DEF Inv, CountInv
  <2>3. TypeOK' /\ CountInv'
    BY <1>1, <2>1, <2>2, ServersAssumption DEF Inv, TypeOK, CountInv
  <2>4. EnoughInv'
    BY <2>1, <2>2 DEF EnoughInv
  <2> QED
    BY <1>2, <2>3, <2>4 DEF Inv
<1>6. CASE NoResponse \/ NoServerLeft
  <2>1. /\ pc = "query" /\ pc' \in {"query", "failure"} /\ UNCHANGED servers
        /\ \/ i <= NrServers /\ i' = i + 1
           \/ i' = i /\ pc' = "failure"
    BY <1>6 DEF NoResponse, NoServerLeft
  <2>2. TypeOK'
    <3>1. i \in 0..NrServers + 1
      BY DEF Inv, TypeOK
    <3>2. i' \in 0..NrServers + 1
      BY <2>1, <3>1, ServersAssumption
    <3> QED
      BY <1>1, <2>1, <3>2 DEF Inv, TypeOK
  <2>3. CountInv'
    <3>1. i \in Nat /\ i > Len(ranges) /\ Len(ranges) \in Nat
      BY <2>1 DEF Inv, TypeOK, CountInv
    <3>2. i' > Len(ranges)
      BY <2>1, <3>1
    <3> QED
      BY <1>1, <2>1, <3>2 DEF Inv, CountInv
  <2>4. EnoughInv'
    BY <1>1, <2>1 DEF Inv, EnoughInv, Enough, Best, MaxDepth
  <2> QED
    BY <1>2, <2>2, <2>3, <2>4 DEF Inv
<1>7. CASE UNCHANGED vars
  <2>1. TypeOK' /\ CountInv' /\ EnoughInv'
    BY <1>7 DEF vars, algo, Inv, TypeOK, CountInv, EnoughInv, Enough, Best, MaxDepth
  <2> QED
    BY <1>2, <2>1 DEF Inv
<1> QED
  BY <1>3, <1>4, <1>5, <1>6, <1>7

\* A response: the edges of the range join those of the others, and the search
\* that resumes one above what was found last finds the deepest overlap.
LEMMA ResponseStep ==
  ASSUME Inv, NEW l \in LowEnds, NEW h \in HighEnds, Response(l, h)
  PROVE  Inv'
<1> DEFINE r == [lo |-> l, hi |-> h]
           n == FoundCount(edges', Hoped)
<1>1. /\ pc = "query" /\ i <= NrServers /\ l <= h
      /\ nrResponses' = nrResponses + 1
      /\ edges' = AddEdges(edges, l, h, {"lo", "hi"})
      /\ wanted' = n
      /\ found' = [count |-> n, lo |-> IF n = 0 THEN l ELSE FoundLo(edges', n),
                                hi |-> IF n = 0 THEN h ELSE FoundHi(edges', n)]
      /\ ranges' = Append(ranges, r)
      /\ repliers' = Append(repliers, servers[i])
      /\ servers' = servers
      /\ \/ Enough(found', nrResponses') /\ pc' = "success" /\ i' = i
         \/ ~Enough(found', nrResponses') /\ pc' = "query" /\ i' = i + 1
  BY DEF Response
<1>2. l \in Value /\ h \in Value /\ l < h /\ r \in Interval
  <2>1. l \in Value /\ h \in Value /\ l # h
    BY EndsAssumption
  <2> QED
    BY <1>1, <2>1, ValueAssumption DEF Interval
<1>3. /\ ranges \in Seq(Interval) /\ Len(ranges) \in Nat /\ wanted \in Nat
      /\ i \in 1..NrServers /\ Len(ranges) < i
  BY <1>1 DEF Inv, TypeOK, CountInv
<1>4. /\ ranges' \in Seq(Interval) /\ Len(ranges') = Len(ranges) + 1
      /\ ranges'[Len(ranges) + 1] = r
      /\ \A k \in 1..Len(ranges) : ranges'[k] = ranges[k]
  BY <1>1, <1>2, <1>3
<1>5. RangesInv'
  BY <1>1, <1>3, <1>4 DEF Inv, RangesInv
<1>6. HoldsRanges(edges, ranges) /\ \A x \in Value : Depth(ranges, x) <= wanted
  BY DEF Inv, AlgoInv
<1>7. HoldsRanges(edges', ranges')
  <2>1. \A k \in DOMAIN ranges : ranges[k].lo # h
    BY EndsAssumption DEF Inv, RangesInv
  <2> QED
    BY <1>1, <1>2, <1>6, <2>1, AddKeeps
<1>8. \A x \in Value : Depth(ranges', x) <= Hoped
  <2> SUFFICES ASSUME NEW x \in Value PROVE Depth(ranges', x) <= Hoped
    OBVIOUS
  <2>1. Depth(ranges, x) \in Nat
    BY <1>3, DepthType
  <2>2. Depth(ranges', x) = Depth(ranges, x) + (IF r.lo <= x /\ x <= r.hi THEN 1 ELSE 0)
    BY <1>1, <1>2, <1>3, DepthAppend
  <2> QED
    BY <1>3, <1>6, <2>1, <2>2 DEF Hoped
<1>9. UIntMod \in Nat /\ Len(edges') < UIntMod
  BY <1>3, <1>4, <1>7, UIntModAssumption, ServersAssumption DEF HoldsRanges
<1>10. Hoped \in Nat
  BY <1>3 DEF Hoped
<1>11. /\ n \in 0..Hoped /\ MaxDepth(ranges') = n /\ \A x \in Value : Depth(ranges', x) <= n
       /\ Best(ranges') = IF n = 0 THEN NoOverlap
                          ELSE [count |-> n, lo |-> FoundLo(edges', n), hi |-> FoundHi(edges', n)]
       /\ n # 0 => Outermost(ranges', n, FoundLo(edges', n), FoundHi(edges', n))
  BY <1>7, <1>8, <1>9, <1>10, SearchIs
<1> HIDE DEF n
<1>12. n # 0
  <2>1. /\ Len(ranges) + 1 \in 1..Len(ranges')
        /\ ranges'[Len(ranges) + 1].lo <= ranges'[Len(ranges) + 1].hi
    BY <1>1, <1>3, <1>4
  <2>2. \E x \in Value : Depth(ranges', x) >= 1
    BY <1>4, <2>1, DepthOfOne
  <2>3. \A x \in Value : Depth(ranges', x) \in Nat
    BY <1>4, DepthType
  <2> QED
    BY <1>11, <2>2, <2>3
<1>13. found' = Best(ranges') /\ found'.count = n /\ found'.lo = FoundLo(edges', n)
       /\ found'.hi = FoundHi(edges', n)
  BY <1>1, <1>11, <1>12
<1>14. AlgoInv'
  <2>1. HoldsRanges(edges, ranges)'
    BY <1>7 DEF HoldsRanges, Sorted, CountsRanges, CountIn, IndicesIn, Balanced, LowsKnown, Depth
  <2>2. \A x \in Value : Depth(ranges, x)' <= wanted'
    BY <1>1, <1>11 DEF Depth
  <2>3. Outermost(ranges, found.count, found.lo, found.hi)'
    BY <1>11, <1>12, <1>13 DEF Outermost, Depth
  <2>4. (found = Best(ranges) /\ found.count = MaxDepth(ranges))'
    BY <1>11, <1>13 DEF Best, MaxDepth, IsMaxDepth, Shared, Depth
  <2>5. found'.count \in Nat
    BY <1>10, <1>11, <1>13
  <2> QED
    BY <2>1, <2>2, <2>3, <2>4, <2>5 DEF AlgoInv
<1>15. TypeOK'
  <2>1. n \in Nat
    BY <1>10, <1>11
  <2>2. repliers' \in Seq(1..NrServers)
    BY <1>1, <1>3 DEF Inv, TypeOK
  <2>3. i' \in 0..NrServers + 1
    BY <1>1, <1>3, ServersAssumption
  <2>4. nrResponses' \in Nat
    BY <1>1 DEF Inv, TypeOK
  <2> QED
    BY <1>1, <1>4, <2>1, <2>2, <2>3, <2>4 DEF Inv, TypeOK
<1>16. CountInv' /\ nrResponses' = Len(ranges')
  <2>1. Len(repliers') = Len(repliers) + 1
    BY <1>1, <1>3 DEF Inv, TypeOK
  <2>2. Len(ranges') <= NrServers
    BY <1>3, <1>4, ServersAssumption
  <2> QED
    BY <1>1, <1>3, <1>4, <2>1, <2>2 DEF Inv, CountInv
<1>17. EnoughInv'
  <2>1. CASE pc' = "success"
    <3>1. Enough(found', Len(ranges')) /\ ranges' # <<>>
      BY <1>1, <1>3, <1>4, <1>16, <2>1
    <3> QED
      BY <2>1, <3>1 DEF EnoughInv, Enough
  <2>2. CASE pc' = "query"
    <3> SUFFICES ASSUME NEW k \in 1..Len(ranges')
                 PROVE  ~Enough(Best(SubSeq(ranges', 1, k)), k)
      BY <2>2 DEF EnoughInv, Enough, Best, MaxDepth, IsMaxDepth, Shared, Depth
    <3>1. CASE k = Len(ranges')
      <4>1. SubSeq(ranges', 1, k) = ranges'
        BY <1>1, <1>2, <1>3, <1>4, <3>1, Prefixes
      <4>2. ~Enough(found', nrResponses')
        BY <1>1, <2>2
      <4> QED
        BY <1>13, <1>16, <3>1, <4>1, <4>2
    <3>2. CASE k # Len(ranges')
      <4>1. k \in 1..Len(ranges)
        BY <1>3, <1>4, <3>2
      <4>2. SubSeq(ranges', 1, k) = SubSeq(ranges, 1, k)
        BY <1>1, <1>2, <1>3, <4>1, Prefixes
      <4>3. ~Enough(Best(SubSeq(ranges, 1, k)), k)
        BY <1>1, <4>1 DEF Inv, EnoughInv
      <4> QED
        BY <4>2, <4>3
    <3> QED
      BY <3>1, <3>2
  <2> QED
    BY <1>1, <2>1, <2>2
<1> QED
  BY <1>5, <1>14, <1>15, <1>16, <1>17 DEF Inv

\* The invariant holds in every state.
LEMMA Invariance == Spec => []Inv
<1>1. Init => Inv
  BY NothingYet
<1>2. Inv /\ [Next]_vars => Inv'
  <2> SUFFICES ASSUME Inv, [Next]_vars PROVE Inv'
    OBVIOUS
  <2>1. CASE \E l \in LowEnds, h \in HighEnds : Response(l, h)
    BY <2>1, ResponseStep
  <2>2. CASE Step /\ ~\E l \in LowEnds, h \in HighEnds : Response(l, h)
    BY <2>2, OtherStep DEF Step
  <2>3. CASE Done \/ UNCHANGED vars
    BY <2>3, OtherStep DEF Done
  <2> QED
    BY <2>1, <2>2, <2>3 DEF Next
<1> QED
  BY <1>1, <1>2, PTL DEF Spec

-----------------------------------------------------------------------------
(* The C client: its theorems                                              *)

\* The program prints an adjustment only when more than half of the responses,
\* WANTED_OVERLAPS at least, share a point, and the printed range is narrow and
\* holds every point that as many share (vak_client.c:342-344, 354).
THEOREM SuccessNeedsMajority == Spec => []SuccessIsMajority
<1>1. Inv => SuccessIsMajority
  <2> SUFFICES ASSUME Inv, pc = "success" PROVE SuccessIsMajority
    BY DEF SuccessIsMajority
  <2> DEFINE n == MaxDepth(ranges)
  <2>1. /\ found.count = n /\ Outermost(ranges, n, found.lo, found.hi)
        /\ Enough(found, Len(ranges))
    BY DEF Inv, AlgoInv, EnoughInv
  <2>2. ranges \in Seq(Interval) /\ Len(ranges) \in Nat
    BY DEF Inv, TypeOK
  <2>3. found.lo \in Value /\ Depth(ranges, found.lo) >= n
    BY <2>1 DEF Outermost
  <2>4. n \in Nat
    BY <2>1 DEF Inv, AlgoInv, EnoughInv
  <2> HIDE DEF n
  <2>5. n > Len(ranges) \div 2 /\ n >= WantedOverlaps /\ found.hi - found.lo <= WantedUncertainty
    BY <2>1 DEF Enough
  <2>6. 2 * n > Len(ranges)
    BY <2>2, <2>4, <2>5
  <2>7. ASSUME NEW x \in Value, Depth(ranges, x) = n PROVE found.lo <= x /\ x <= found.hi
    BY <2>1, <2>4, <2>7 DEF Outermost
  <2>8. found.lo <= found.hi
    BY <2>1, <2>3 DEF Outermost
  <2> QED
    BY <2>5, <2>6, <2>7, <2>8 DEF SuccessIsMajority, n
<1> QED
  BY <1>1, Invariance, PTL

\* As long as at most half of the responses come from falsetickers, each end of
\* the printed range lies in the range of a truthful server
\* (vak_client.c:51-53, 354).
THEOREM FalsetickersCannotMoveIt == Spec => []TruthfulSupport
<1>1. Inv => TruthfulSupport
  <2> SUFFICES ASSUME Inv, pc = "success", 2 * Cardinality(False) <= Len(ranges),
                      NEW x \in {found.lo, found.hi}
               PROVE  \E k \in DOMAIN ranges \ False : ranges[k].lo <= x /\ x <= ranges[k].hi
    BY DEF TruthfulSupport
  <2> DEFINE D == {k \in DOMAIN ranges : ranges[k].lo <= x /\ x <= ranges[k].hi}
             n == found.count
  <2>1. /\ n \in Nat /\ Outermost(ranges, n, found.lo, found.hi) /\ Enough(found, Len(ranges))
        /\ ranges \in Seq(Interval) /\ Len(ranges) \in Nat
    BY DEF Inv, AlgoInv, EnoughInv, TypeOK
  <2>2. Cardinality(D) >= n
    BY <2>1 DEF Outermost, Depth
  <2>3. n > Len(ranges) \div 2
    BY <2>1 DEF Enough
  <2>4. /\ IsFiniteSet(D) /\ Cardinality(D) \in Nat
    BY <2>1, IndicesFinite
  <2>5. IsFiniteSet(False) /\ Cardinality(False) \in Nat
    BY IndicesFinite DEF Inv, TypeOK, False
  <2> HIDE DEF D, n
  <2>6. Cardinality(False) < Cardinality(D)
    BY <2>1, <2>2, <2>3, <2>4, <2>5
  <2>7. ~(D \subseteq False)
    BY <2>4, <2>5, <2>6, FS_Subset
  <2> QED
    BY <2>7 DEF D
<1> QED
  BY <1>1, Invariance, PTL

\* The program gives up only if no prefix of the responses would have done,
\* although overlap_find resumes from a count that it has lowered
\* (vak_client.c:352-357, overlap_algo.c:87-124).
THEOREM NoAgreementOverlooked == Spec => []NothingOverlooked
<1>1. Inv => NothingOverlooked
  BY DEF Inv, EnoughInv, NothingOverlooked
<1> QED
  BY <1>1, Invariance, PTL

-----------------------------------------------------------------------------
(* The two scans of the ESP32                                              *)

\* As many ranges end as begin.
Even(s) == ChimeUp(s, Len(s)) = 0

\* The scans of such a list mirror each other: where the one for lo has counted
\* so many, the one for hi counts as many from the next edge on.
LEMMA ScansMirror ==
  ASSUME NEW s \in Seq(EdgeType), Even(s)
  PROVE  \A k \in 0..Len(s) : ChimeDown(s, k + 1) = ChimeUp(s, k)
<1> DEFINE S == {k \in 0..Len(s) : ChimeDown(s, k + 1) # ChimeUp(s, k)}
<1> SUFFICES ASSUME S # {} PROVE FALSE
  OBVIOUS
<1>1. Len(s) \in Nat
  OBVIOUS
<1>2. PICK k \in S : \A m \in S : k <= m
  <2>1. S \in SUBSET Nat
    BY <1>1
  <2> HIDE DEF S
  <2> QED BY <2>1, FirstOf
<1>3. k # 0
  <2>1. ChimeDown(s, 1) = -ChimeUp(s, Len(s))
    <3> DEFINE a == Cardinality(Lows(s, 1..Len(s)))
               b == Cardinality(Highs(s, 1..Len(s)))
    <3>1. a \in Nat /\ b \in Nat
      <4>1. Lows(s, 1..Len(s)) \subseteq DOMAIN s /\ Highs(s, 1..Len(s)) \subseteq DOMAIN s
        BY DEF Lows, Highs
      <4> QED BY <4>1, IndicesFinite
    <3>2. ChimeDown(s, 1) = b - a /\ ChimeUp(s, Len(s)) = a - b
      BY DEF ChimeDown, ChimeUp
    <3> HIDE DEF a, b
    <3> QED BY <3>1, <3>2
  <2>2. ChimeUp(s, 0) = 0
    BY ScanUp
  <2> QED BY <1>2, <2>1, <2>2 DEF Even
<1>4. k \in 1..Len(s) /\ k - 1 \in 0..Len(s) /\ k - 1 \notin S
  BY <1>1, <1>2, <1>3
<1>5. ChimeDown(s, k) = ChimeUp(s, k - 1)
  BY <1>4
<1>6. ChimeUp(s, k) = ChimeUp(s, k - 1) - s[k].chime
  BY <1>4, ScanUp
<1>7. ChimeDown(s, k) = ChimeDown(s, k + 1) + s[k].chime /\ ChimeDown(s, k + 1) \in Int
  BY <1>1, <1>4, ScanDown
<1>8. s[k].chime \in Int
  <2>1. s[k] \in EdgeType
    BY <1>4
  <2> QED BY <2>1 DEF EdgeType
<1>9. ChimeDown(s, k + 1) = ChimeUp(s, k)
  BY <1>5, <1>6, <1>7, <1>8
<1> QED BY <1>2, <1>9

\* Leaving out the last edge, or the first, leaves out no count that matters.
LEMMA EndsNotNeeded ==
  ASSUME NEW s \in Seq(EdgeType), Even(s), NEW w \in Nat \ {0}
  PROVE  LowReached(s, w) = ReachUp(s, w) /\ HighReached(s, w) = ReachDown(s, w)
<1>1. Len(s) \in Nat /\ DOMAIN s = 1..Len(s)
  OBVIOUS
<1>2. ChimeUp(s, Len(s)) = 0
  BY DEF Even
<1>3. ChimeDown(s, 1) = 0
  BY <1>1, ScansMirror, ScanUp
<1>4. LowReached(s, w) = ReachUp(s, w)
  BY <1>1, <1>2 DEF LowReached, ReachUp
<1>5. HighReached(s, w) = ReachDown(s, w)
  BY <1>1, <1>3 DEF HighReached, ReachDown
<1> QED BY <1>4, <1>5

\* Where the two scans stop, seen from either side.
LEMMA StopsAt ==
  ASSUME NEW s \in Seq(EdgeType), Sorted(s), Even(s), NEW w \in Nat \ {0},
         ReachUp(s, w) # {}
  PROVE  \E j, k \in 1..Len(s) :
           /\ j \in ReachUp(s, w) /\ \A m \in ReachUp(s, w) : j <= m
           /\ k \in ReachDown(s, w) /\ \A m \in ReachDown(s, w) : m <= k
           /\ LowEdge(s, w) = s[j] /\ HighEdge(s, w) = s[k]
           /\ ScanLow(s, w, 0) = s[j].value /\ ScanHigh(s, w, 0) = s[k].value
           /\ s[j].value <= s[k].value
<1> DEFINE U == ReachUp(s, w)
           D == ReachDown(s, w)
<1>1. Len(s) \in Nat /\ DOMAIN s = 1..Len(s)
  OBVIOUS
<1>2. U \subseteq 1..Len(s) /\ D \subseteq 1..Len(s)
  BY <1>1 DEF ReachUp, ReachDown
<1>3. PICK j \in U : \A m \in U : j <= m
  <2>1. U \in SUBSET Nat /\ U # {}
    BY <1>1, <1>2
  <2> HIDE DEF U
  <2> QED BY <2>1, FirstOf
<1>4. j # Len(s)
  BY <1>3 DEF ReachUp, Even
<1>5. j + 1 \in D
  <2>1. j \in 1..Len(s) /\ ChimeUp(s, j) >= w
    BY <1>2, <1>3 DEF ReachUp
  <2>2. j + 1 \in 1..Len(s) /\ j \in 0..Len(s)
    <3>1. j \in 1..Len(s) /\ j # Len(s)
      BY <1>4, <2>1
    <3> DEFINE n == Len(s)
    <3>2. n \in Nat /\ j \in 1..n /\ j # n
      BY <1>1, <3>1
    <3> HIDE DEF U, D, n
    <3>3. j + 1 \in 1..n /\ j \in 0..n
      BY <3>2
    <3> QED BY <3>3 DEF n
  <2>3. ChimeDown(s, j + 1) >= w
    BY <2>1, <2>2, ScansMirror
  <2> QED BY <1>1, <2>2, <2>3 DEF ReachDown
<1>6. PICK k \in D : \A m \in D : m <= k
  <2>1. D \in SUBSET (1..Len(s)) /\ D # {}
    BY <1>2, <1>5
  <2> HIDE DEF D
  <2> QED BY <1>1, <2>1, LastOf
<1>7. j \in 1..Len(s) /\ k \in 1..Len(s) /\ j < k
  BY <1>2, <1>3, <1>5, <1>6
<1> HIDE DEF U, D
<1>8. Min(U) = j /\ (CHOOSE x \in U : \A m \in U : x <= m) = j
  <2>1. \A x \in U : (\A m \in U : x <= m) => x = j
    BY <1>1, <1>2, <1>3
  <2>2. (CHOOSE x \in U : \A m \in U : x <= m) = j
    BY <1>3, <2>1
  <2> QED BY <2>2 DEF Min
<1>9. Max(D) = k /\ (CHOOSE x \in D : \A m \in D : m <= x) = k
  <2>1. \A x \in D : (\A m \in D : m <= x) => x = k
    BY <1>1, <1>2, <1>6
  <2>2. (CHOOSE x \in D : \A m \in D : m <= x) = k
    BY <1>6, <2>1
  <2>3. \A x \in D : (\A m \in D : x >= m) <=> (\A m \in D : m <= x)
    BY <1>1, <1>2
  <2>4. (CHOOSE x \in D : \A m \in D : x >= m) = k
    BY <1>6, <2>1, <2>3
  <2> QED BY <2>2, <2>4 DEF Max
<1>10. LowEdge(s, w) = s[j] /\ HighEdge(s, w) = s[k]
  BY <1>8, <1>9 DEF LowEdge, HighEdge, U, D
<1>11. ScanLow(s, w, 0) = s[j].value /\ ScanHigh(s, w, 0) = s[k].value
  <2>1. LowReached(s, w) = U /\ HighReached(s, w) = D
    BY EndsNotNeeded DEF U, D
  <2>2. U # {} /\ D # {}
    BY <1>3, <1>6
  <2> QED BY <1>8, <1>9, <2>1, <2>2 DEF ScanLow, ScanHigh
<1>12. s[j].value <= s[k].value
  <2>1. Precedes(s[j], s[k])
    BY <1>1, <1>7 DEF Sorted
  <2>2. s[j] \in EdgeType /\ s[k] \in EdgeType
    BY <1>7
  <2> QED BY <2>1, <2>2 DEF Precedes, EdgeType
<1> QED BY <1>3, <1>6, <1>7, <1>10, <1>11, <1>12 DEF U, D

\* The scans of such a list agree whenever the count is reached at all.
LEMMA ReachedIsAgreed ==
  ASSUME NEW s \in Seq(EdgeType), Sorted(s), Even(s), NEW w \in Nat \ {0}
  PROVE  Agreed(s, w) <=> ReachUp(s, w) # {}
<1>1. ASSUME ReachUp(s, w) # {} PROVE Agreed(s, w)
  <2>1. PICK j, k \in 1..Len(s) :
          /\ k \in ReachDown(s, w)
          /\ LowEdge(s, w) = s[j] /\ HighEdge(s, w) = s[k]
          /\ s[j].value <= s[k].value
    BY <1>1, StopsAt
  <2> QED BY <1>1, <2>1 DEF Agreed
<1> QED BY <1>1 DEF Agreed

\* A count that is not reached changes neither lo nor hi.
LEMMA ScanInVain ==
  ASSUME NEW s \in Seq(EdgeType), Sorted(s), Even(s), NEW w \in Nat \ {0},
         ReachUp(s, w) = {}, NEW lo, NEW hi
  PROVE  ScanLow(s, w, lo) = lo /\ ScanHigh(s, w, hi) = hi
<1>1. ReachDown(s, w) = {}
  <2> SUFFICES ASSUME NEW k \in ReachDown(s, w) PROVE FALSE
    OBVIOUS
  <2>1. k \in 1..Len(s) /\ ChimeDown(s, k) >= w /\ Len(s) \in Nat /\ DOMAIN s = 1..Len(s)
    BY DEF ReachDown
  <2>2. k - 1 \in 0..Len(s) /\ (k - 1) + 1 = k
    BY <2>1
  <2>3. ChimeUp(s, k - 1) >= w
    BY <2>1, <2>2, ScansMirror
  <2>4. k - 1 # 0
    BY <2>3, ScanUp
  <2>5. k - 1 \in DOMAIN s
    BY <2>1, <2>2, <2>4
  <2> QED BY <2>3, <2>5 DEF ReachUp
<1>2. LowReached(s, w) = {} /\ HighReached(s, w) = {}
  BY <1>1, EndsNotNeeded
<1> QED BY <1>2 DEF ScanLow, ScanHigh

-----------------------------------------------------------------------------
(* The search *)

NotFound == [lo |-> 0, hi |-> 0, wanted |-> 0]

\* What the loop does for one value of wanted.
Try(s, before, count) ==
  [lo     |-> ScanLow(s, count, before.lo),
   hi     |-> ScanHigh(s, count, before.hi),
   wanted |-> count]

SearchStep(s, responses, before, z) ==
  IF z > 0 /\ Found(before) THEN before ELSE Try(s, before, responses - z)

\* g holds the states of the loop after each of the values of wanted.
Tries(g, s, responses, m) ==
  g = [z \in 0..m |-> SearchStep(s, responses, IF z = 0 THEN NotFound ELSE g[z - 1], z)]

LEMMA TriesExist ==
  ASSUME NEW s, NEW responses, NEW n \in Nat
  PROVE  \E g : Tries(g, s, responses, n)
<1> DEFINE S == {m \in Nat : ~ \E g : Tries(g, s, responses, m)}
<1> SUFFICES ASSUME S # {} PROVE FALSE
  OBVIOUS
<1>1. PICK m \in S : \A k \in S : m <= k
  <2>1. S \in SUBSET Nat
    OBVIOUS
  <2> HIDE DEF S
  <2> QED BY <2>1, FirstOf
<1>2. CASE m = 0
  <2>1. Tries([k \in 0..0 |-> SearchStep(s, responses, NotFound, 0)], s, responses, 0)
    BY DEF Tries
  <2> QED BY <1>1, <1>2, <2>1
<1>3. CASE m # 0
  <2>1. m - 1 \in Nat /\ m - 1 \notin S
    BY <1>1, <1>3
  <2>2. PICK g : Tries(g, s, responses, m - 1)
    BY <2>1
  <2> DEFINE Turn(b, k) == SearchStep(s, responses, b, k)
             h == [k \in 0..m |-> IF k = m THEN Turn(g[m - 1], m) ELSE g[k]]
  <2>3. g = [k \in 0..m - 1 |-> Turn(IF k = 0 THEN NotFound ELSE g[k - 1], k)]
    BY <2>2 DEF Tries
  <2> HIDE DEF Turn
  <2>4. \A k \in 0..m : h[k] = Turn(IF k = 0 THEN NotFound ELSE h[k - 1], k)
    <3> SUFFICES ASSUME NEW k \in 0..m
                 PROVE  h[k] = Turn(IF k = 0 THEN NotFound ELSE h[k - 1], k)
      OBVIOUS
    <3>0. k # 0 => h[k - 1] = g[k - 1]
      BY <1>1
    <3>1. CASE k = m
      BY <1>3, <3>0, <3>1
    <3>2. CASE k # m
      <4>1. k \in 0..m - 1
        BY <3>2
      <4>2. g[k] = Turn(IF k = 0 THEN NotFound ELSE g[k - 1], k)
        BY <2>3, <4>1
      <4>3. h[k] = g[k]
        BY <3>2
      <4> HIDE DEF h
      <4> QED BY <3>0, <4>2, <4>3
    <3> QED BY <3>1, <3>2
  <2>5. Tries(h, s, responses, m)
    <3>1. h = [k \in 0..m |-> h[k]]
      OBVIOUS
    <3> HIDE DEF h
    <3>2. h = [k \in 0..m |-> Turn(IF k = 0 THEN NotFound ELSE h[k - 1], k)]
      BY <2>4, <3>1
    <3> QED BY <3>2 DEF Tries, Turn
  <2> QED BY <1>1, <2>5
<1> QED BY <1>2, <1>3

\* The search is the loop, one value of wanted at a time.
SearchedBy(g, s, responses, n) ==
  /\ Search(s, responses, n) = g[responses - n]
  /\ g[0] = Try(s, NotFound, responses)
  /\ \A z \in 1..responses - n :
       g[z] = IF Found(g[z - 1]) THEN g[z - 1] ELSE Try(s, g[z - 1], responses - z)

LEMMA SearchIsLoop ==
  ASSUME NEW s, NEW responses \in Nat, NEW n \in 0..responses
  PROVE  \E g : SearchedBy(g, s, responses, n)
<1> DEFINE m == responses - n
           g == CHOOSE f : Tries(f, s, responses, m)
<1>1. m \in Nat
  OBVIOUS
<1>2. Tries(g, s, responses, m)
  <2> HIDE DEF m
  <2> QED BY <1>1, TriesExist
<1>3. Search(s, responses, n) = g[m]
  BY DEF Search, Tries, SearchStep, Try, NotFound
<1> HIDE DEF g, m
<1>4. \A z \in 0..m : g[z] = SearchStep(s, responses, IF z = 0 THEN NotFound ELSE g[z - 1], z)
  BY <1>2 DEF Tries
<1>5. g[0] = Try(s, NotFound, responses)
  <2>1. g[0] = SearchStep(s, responses, NotFound, 0)
    BY <1>1, <1>4
  <2> QED BY <2>1 DEF SearchStep
<1>6. \A z \in 1..m :
        g[z] = IF Found(g[z - 1]) THEN g[z - 1] ELSE Try(s, g[z - 1], responses - z)
  BY <1>1, <1>4 DEF SearchStep
<1>7. SearchedBy(g, s, responses, n)
  BY <1>3, <1>5, <1>6 DEF SearchedBy, m
<1> QED BY <1>7

\* Where no end is zero, the search stops at the first count that is reached.
LEMMA SearchFinds ==
  ASSUME NEW s \in Seq(EdgeType), Sorted(s), Even(s),
         \A k \in 1..Len(s) : s[k].value # 0,
         NEW responses \in Nat, NEW n \in 1..responses,
         NEW w \in n..responses, ReachUp(s, w) # {},
         \A m \in w + 1..responses : ReachUp(s, m) = {}
  PROVE  Search(s, responses, n) =
           [lo |-> LowEdge(s, w).value, hi |-> HighEdge(s, w).value, wanted |-> w]
<1> DEFINE best == [lo |-> LowEdge(s, w).value, hi |-> HighEdge(s, w).value, wanted |-> w]
<1>1. PICK g : SearchedBy(g, s, responses, n)
  <2>1. n \in 0..responses
    OBVIOUS
  <2> QED BY <2>1, SearchIsLoop
<1>2. /\ ScanLow(s, w, 0) = best.lo /\ ScanHigh(s, w, 0) = best.hi
      /\ Found(best)
  <2>1. PICK j, k \in 1..Len(s) :
          /\ LowEdge(s, w) = s[j] /\ HighEdge(s, w) = s[k]
          /\ ScanLow(s, w, 0) = s[j].value /\ ScanHigh(s, w, 0) = s[k].value
          /\ s[j].value <= s[k].value
    BY StopsAt
  <2> QED BY <2>1 DEF Found
<1> HIDE DEF best
<1> DEFINE Right(z) == g[z] = IF responses - z > w THEN [NotFound EXCEPT !.wanted = responses - z]
                                                  ELSE best
           Tried(b) == b.lo = 0 /\ b.hi = 0
<1>3. ASSUME NEW z \in 0..responses - n, NEW b, Tried(b), responses - z >= w
      PROVE  Try(s, b, responses - z) =
               IF responses - z > w THEN [NotFound EXCEPT !.wanted = responses - z] ELSE best
  <2>1. responses - z \in w..responses
    BY <1>3
  <2>2. CASE responses - z = w
    BY <1>2, <1>3, <2>2 DEF Try, best
  <2>3. CASE responses - z # w
    <3>1. responses - z \in w + 1..responses /\ responses - z \in Nat \ {0}
      BY <2>1, <2>3
    <3>2. ScanLow(s, responses - z, 0) = 0 /\ ScanHigh(s, responses - z, 0) = 0
      BY <3>1, ScanInVain
    <3>3. responses - z > w
      BY <3>1
    <3> QED BY <1>3, <3>2, <3>3 DEF Try, NotFound
  <2> QED BY <2>2, <2>3
<1>4. \A z \in 0..responses - n : Right(z)
  <2> DEFINE S == {z \in 0..responses - n : ~Right(z)}
  <2> SUFFICES ASSUME S # {} PROVE FALSE
    OBVIOUS
  <2>1. PICK z \in S : \A m \in S : z <= m
    <3>1. S \in SUBSET Nat
      OBVIOUS
    <3> HIDE DEF S
    <3> QED BY <3>1, FirstOf
  <2>2. z \in 0..responses - n /\ ~Right(z)
    BY <2>1
  <2>3. CASE z = 0
    <3>1. Tried(NotFound)
      BY DEF NotFound
    <3>2. responses - z >= w /\ responses - z = responses
      BY <2>3
    <3>3. Right(z)
      <4> HIDE DEF Tried
      <4> QED BY <1>1, <1>3, <2>2, <2>3, <3>1, <3>2 DEF SearchedBy
    <3> QED BY <2>2, <3>3
  <2>4. CASE z # 0
    <3>1. z \in 1..responses - n /\ z - 1 \in 0..responses - n /\ z - 1 \notin S
      <4>1. z \in 1..responses - n /\ z - 1 \in 0..responses - n
        BY <2>2, <2>4
      <4>2. ~(z <= z - 1)
        BY <4>1
      <4> HIDE DEF S
      <4> QED BY <2>1, <4>1, <4>2
    <3>2. Right(z - 1)
      BY <3>1
    <3>3. g[z] = IF Found(g[z - 1]) THEN g[z - 1] ELSE Try(s, g[z - 1], responses - z)
      BY <1>1, <3>1 DEF SearchedBy
    <3>4. CASE responses - (z - 1) > w
      <4>1. Tried(g[z - 1]) /\ ~Found(g[z - 1])
        BY <3>2, <3>4 DEF NotFound, Found
      <4>2. responses - z >= w
        BY <3>1, <3>4
      <4>3. Right(z)
        <5> HIDE DEF Tried
        <5> QED BY <1>3, <2>2, <3>3, <4>1, <4>2
      <4> QED BY <2>2, <4>3
    <3>5. CASE ~(responses - (z - 1) > w)
      <4>1. g[z - 1] = best
        BY <3>2, <3>5
      <4>2. g[z] = best
        BY <1>2, <3>3, <4>1
      <4>3. ~(responses - z > w)
        BY <3>1, <3>5
      <4> QED BY <2>2, <4>2, <4>3
    <3> QED BY <3>4, <3>5
  <2> QED BY <2>3, <2>4
<1>5. Right(responses - n) /\ ~(responses - (responses - n) > w)
  <2>1. responses - n \in 0..responses - n /\ responses - (responses - n) = n
    OBVIOUS
  <2>2. ~(n > w)
    OBVIOUS
  <2> QED BY <1>4, <2>1, <2>2
<1> QED BY <1>1, <1>5 DEF best, SearchedBy

\* Whatever it finds are numbers.
LEMMA ScanType ==
  ASSUME NEW s \in Seq(EdgeType), NEW w \in Int, NEW lo \in Int, NEW hi \in Int
  PROVE  ScanLow(s, w, lo) \in Int /\ ScanHigh(s, w, hi) \in Int
<1> DEFINE L == LowReached(s, w)
           H == HighReached(s, w)
<1>1. Len(s) \in Nat /\ L \subseteq 1..Len(s) /\ H \subseteq 1..Len(s)
  BY DEF LowReached, HighReached
<1>2. \A k \in 1..Len(s) : s[k].value \in Int
  <2> SUFFICES ASSUME NEW k \in 1..Len(s) PROVE s[k].value \in Int
    OBVIOUS
  <2>1. s[k] \in EdgeType
    OBVIOUS
  <2> QED BY <2>1 DEF EdgeType
<1> HIDE DEF L, H
<1>3. ScanLow(s, w, lo) \in Int
  <2>1. CASE L # {}
    <3>1. L \in SUBSET Nat
      BY <1>1
    <3>2. \E x \in L : \A y \in L : x <= y
      BY <2>1, <3>1, FirstOf
    <3>3. (CHOOSE x \in L : \A y \in L : x <= y) \in L
      BY <3>2
    <3> QED BY <1>1, <1>2, <2>1, <3>3 DEF ScanLow, L
  <2> QED BY <2>1 DEF ScanLow, L
<1>4. ScanHigh(s, w, hi) \in Int
  <2>1. CASE H # {}
    <3>1. \E x \in H : \A y \in H : y <= x
      BY <1>1, <2>1, LastOf
    <3>2. (CHOOSE x \in H : \A y \in H : y <= x) \in H
      BY <3>1
    <3> QED BY <1>1, <1>2, <2>1, <3>2 DEF ScanHigh, H
  <2> QED BY <2>1 DEF ScanHigh, H
<1> QED BY <1>3, <1>4

LEMMA SearchType ==
  ASSUME NEW s \in Seq(EdgeType), NEW responses \in Nat, NEW n \in 0..responses
  PROVE  Search(s, responses, n) \in [lo : Int, hi : Int, wanted : Int]
<1> DEFINE T == [lo : Int, hi : Int, wanted : Int]
<1>1. PICK g : SearchedBy(g, s, responses, n)
  BY SearchIsLoop
<1>2. ASSUME NEW b \in T, NEW w \in Int PROVE Try(s, b, w) \in T
  <2>1. b.lo \in Int /\ b.hi \in Int
    OBVIOUS
  <2> QED BY <2>1, ScanType DEF Try
<1>3. NotFound \in T
  BY DEF NotFound
<1> HIDE DEF T
<1>4. \A z \in 0..responses - n : g[z] \in T
  <2> DEFINE S == {z \in 0..responses - n : g[z] \notin T}
  <2> SUFFICES ASSUME S # {} PROVE FALSE
    OBVIOUS
  <2>1. PICK z \in S : \A m \in S : z <= m
    <3>1. S \in SUBSET Nat
      OBVIOUS
    <3> HIDE DEF S
    <3> QED BY <3>1, FirstOf
  <2>2. z \in 0..responses - n /\ g[z] \notin T
    BY <2>1
  <2>3. z # 0
    BY <1>1, <1>2, <1>3, <2>2 DEF SearchedBy
  <2>4. z \in 1..responses - n /\ z - 1 \in 0..responses - n /\ responses - z \in Int
    BY <2>2, <2>3
  <2>5. g[z - 1] \in T
    <3>1. ~(z <= z - 1)
      BY <2>4
    <3>2. z - 1 \notin S
      <4> HIDE DEF S
      <4> QED BY <2>1, <3>1
    <3> QED BY <2>4, <3>2
  <2>6. g[z] = IF Found(g[z - 1]) THEN g[z - 1] ELSE Try(s, g[z - 1], responses - z)
    BY <1>1, <2>4 DEF SearchedBy
  <2> QED BY <1>2, <2>2, <2>4, <2>5, <2>6
<1>5. responses - n \in 0..responses - n
  OBVIOUS
<1> QED BY <1>1, <1>4, <1>5 DEF SearchedBy, T

-----------------------------------------------------------------------------
(* The edges of the ESP32 and of Python                                    *)

\* sortedInsert puts an edge where overlap_insert puts it.
LEMMA SortedInsertIs ==
  ASSUME NEW s \in Seq(EdgeType), Rising(s), NEW e \in EdgeType
  PROVE  /\ SortedInsert(s, e) = InsertBefore(s, e)
         /\ \E p \in 1..Len(s) + 1 :
              /\ SortedInsert(s, e) = PutAt(s, p, e)
              /\ \A z \in 1..p - 1 : s[z].value < e.value
              /\ \A z \in p..Len(s) : s[z].value >= e.value
<1> DEFINE Here(p) == /\ \A z \in 1..p - 1 : s[z].value < e.value
                      /\ \A z \in p..Len(s) : s[z].value >= e.value
           p0 == CHOOSE p \in 1..Len(s) + 1 : Here(p)
<1>1. Len(s) \in Nat /\ DOMAIN s = 1..Len(s)
  OBVIOUS
<1>2. \A z \in 1..Len(s) : s[z].value \in Int
  <2> SUFFICES ASSUME NEW k \in 1..Len(s) PROVE s[k].value \in Int
    OBVIOUS
  <2>1. s[k] \in EdgeType
    OBVIOUS
  <2> QED BY <2>1 DEF EdgeType
<1>3. e.value \in Int
  BY DEF EdgeType
<1>4. \E p \in 1..Len(s) + 1 : Here(p)
  <2>1. PICK p \in 1..Len(s) + 1 :
          /\ \A z \in 1..p - 1 : s[z].value < e.value
          /\ p # Len(s) + 1 => s[p].value >= e.value
    BY StopExists
  <2>2. ASSUME NEW z \in p..Len(s) PROVE s[z].value >= e.value
    <3>1. p \in 1..Len(s) /\ z \in 1..Len(s) /\ s[p].value >= e.value
      BY <1>1, <2>1
    <3>2. s[p].value <= s[z].value
      BY <1>1, <1>2, <3>1 DEF Rising
    <3> QED BY <1>2, <1>3, <3>1, <3>2
  <2> QED BY <2>1, <2>2
<1>5. p0 \in 1..Len(s) + 1 /\ Here(p0)
  <2> HIDE DEF Here
  <2> QED BY <1>4
<1>6. SortedInsert(s, e) = PutAt(s, p0, e)
  BY DEF SortedInsert
<1> HIDE DEF p0
<1>7. p0 # Len(s) + 1 => s[p0].value >= e.value
  BY <1>1, <1>5
<1>8. InsertBefore(s, e) = PutAt(s, p0, e)
  BY <1>5, <1>7, InsertBeforeAt
<1> QED BY <1>5, <1>6, <1>8

\* Nothing else gets into the list.
LEMMA SortedInsertMembers ==
  ASSUME NEW s \in Seq(EdgeType), Rising(s), NEW e \in EdgeType
  PROVE  \A k \in DOMAIN SortedInsert(s, e) :
           SortedInsert(s, e)[k] = e \/ \E j \in DOMAIN s : SortedInsert(s, e)[k] = s[j]
<1>1. PICK p \in 1..Len(s) + 1 : SortedInsert(s, e) = PutAt(s, p, e)
  BY SortedInsertIs
<1> DEFINE t == PutAt(s, p, e)
<1>2. /\ Len(t) = Len(s) + 1 /\ t \in Seq(EdgeType)
      /\ \A z \in 1..Len(s) + 1 : t[z] = IF z < p THEN s[z] ELSE IF z = p THEN e ELSE s[z - 1]
  BY PutAtShape
<1>3. Len(s) \in Nat /\ DOMAIN s = 1..Len(s) /\ DOMAIN t = 1..Len(s) + 1
  BY <1>2
<1> HIDE DEF t
<1>4. ASSUME NEW k \in DOMAIN t PROVE t[k] = e \/ \E j \in DOMAIN s : t[k] = s[j]
  <2>1. k \in 1..Len(s) + 1
    BY <1>3
  <2>2. CASE k < p
    <3>1. k \in DOMAIN s
      BY <1>3, <2>1, <2>2
    <3> QED BY <1>2, <2>1, <2>2, <3>1
  <2>3. CASE k = p
    BY <1>2, <2>1, <2>3
  <2>4. CASE k > p
    <3>1. k - 1 \in DOMAIN s
      BY <1>3, <2>1, <2>4
    <3> QED BY <1>2, <2>1, <2>4, <3>1
  <2> QED BY <2>1, <2>2, <2>3, <2>4
<1> QED BY <1>1, <1>4 DEF t

\* Where edges of equal value are equal, that is also where sort puts it: there
\* it stands behind its equals, here in front of them.
LEMMA SameInsert ==
  ASSUME NEW s \in Seq(EdgeType), Sorted(s), Rising(s), NEW e \in EdgeType,
         \A z \in 1..Len(s) : s[z].value = e.value => s[z] = e
  PROVE  SortedInsert(s, e) = Insert(s, e)
<1> DEFINE q == CHOOSE q \in Places(s, e) : TRUE
<1>1. Len(s) \in Nat
  OBVIOUS
<1>2. PICK p \in 1..Len(s) + 1 :
        /\ SortedInsert(s, e) = PutAt(s, p, e)
        /\ \A z \in 1..p - 1 : s[z].value < e.value
        /\ \A z \in p..Len(s) : s[z].value >= e.value
  BY SortedInsertIs
<1>3. q \in Places(s, e)
  BY PlaceExists
<1>4. Insert(s, e) = PutAt(s, q, e)
  BY DEF Insert
<1> HIDE DEF q
<1>5. /\ q \in 1..Len(s) + 1
      /\ \A z \in 1..q - 1 : Precedes(s[z], e)
      /\ \A z \in q..Len(s) : ~Precedes(s[z], e)
  BY <1>3 DEF Places
<1>6. e.value \in Int /\ \A z \in 1..Len(s) : s[z].value \in Int
  <2>1. \A z \in 1..Len(s) : s[z] \in EdgeType
    OBVIOUS
  <2> QED BY <2>1 DEF EdgeType
<1>7. p <= q
  <2> SUFFICES ASSUME q < p PROVE FALSE
    BY <1>5
  <2>1. q \in 1..p - 1 /\ q \in q..Len(s)
    BY <1>1, <1>5
  <2>2. s[q].value < e.value /\ ~Precedes(s[q], e)
    BY <1>2, <1>5, <2>1
  <2> QED BY <2>2 DEF Precedes
<1>8. \A z \in p..q - 1 : s[z] = e
  <2> SUFFICES ASSUME NEW z \in p..q - 1 PROVE s[z] = e
    OBVIOUS
  <2>1. z \in 1..Len(s) /\ z \in p..Len(s) /\ z \in 1..q - 1
    BY <1>1, <1>5
  <2>2. s[z].value >= e.value /\ Precedes(s[z], e) /\ s[z].value \in Int
    BY <1>2, <1>5, <1>6, <2>1
  <2>3. s[z].value = e.value
    BY <1>6, <2>2 DEF Precedes
  <2> QED BY <2>1, <2>3
<1> DEFINE a == PutAt(s, p, e)
           b == PutAt(s, q, e)
<1>9. /\ a \in Seq(EdgeType) /\ Len(a) = Len(s) + 1
      /\ \A z \in 1..Len(s) + 1 : a[z] = IF z < p THEN s[z] ELSE IF z = p THEN e ELSE s[z - 1]
  <2>1. p \in 1..Len(s) + 1
    OBVIOUS
  <2> QED BY <2>1, PutAtShape, SMTT(30)
<1>10. /\ b \in Seq(EdgeType) /\ Len(b) = Len(s) + 1
       /\ \A z \in 1..Len(s) + 1 : b[z] = IF z < q THEN s[z] ELSE IF z = q THEN e ELSE s[z - 1]
  BY <1>5, PutAtShape
<1> HIDE DEF a, b
<1>11. \A z \in 1..Len(s) + 1 : a[z] = b[z]
  <2> SUFFICES ASSUME NEW z \in 1..Len(s) + 1 PROVE a[z] = b[z]
    OBVIOUS
  <2>1. CASE z < p
    BY <1>5, <1>7, <1>9, <1>10, <2>1
  <2>2. CASE z > q
    BY <1>5, <1>7, <1>9, <1>10, <2>2
  <2>3. CASE p <= z /\ z <= q
    <3>1. a[z] = e
      <4>1. z # p => z - 1 \in p..q - 1
        BY <1>5, <2>3
      <4> QED BY <1>8, <1>9, <2>3, <4>1
    <3>2. b[z] = e
      <4>1. z # q => z \in p..q - 1
        BY <1>5, <2>3
      <4> QED BY <1>5, <1>8, <1>10, <2>3, <4>1
    <3> QED BY <3>1, <3>2
  <2> QED BY <1>5, <2>1, <2>2, <2>3
<1>12. a = b
  BY <1>1, <1>9, <1>10, <1>11
<1> QED BY <1>2, <1>4, <1>12 DEF a, b

\* g holds the edges that Python has after each of the first n ranges.
Added(g, rs, n) ==
  g = [k \in 0..n |-> IF k = 0 THEN <<>> ELSE AddRange(g[k - 1], rs[k].lo, rs[k].hi)]

LEMMA AddedExists ==
  ASSUME NEW rs, NEW n \in Nat
  PROVE  \E g : Added(g, rs, n)
<1> DEFINE S == {m \in Nat : ~ \E g : Added(g, rs, m)}
           Turn(b, k) == AddRange(b, rs[k].lo, rs[k].hi)
<1> SUFFICES ASSUME S # {} PROVE FALSE
  OBVIOUS
<1>1. PICK m \in S : \A k \in S : m <= k
  <2>1. S \in SUBSET Nat
    OBVIOUS
  <2> HIDE DEF S
  <2> QED BY <2>1, FirstOf
<1>2. CASE m = 0
  <2>1. Added([k \in 0..0 |-> <<>>], rs, 0)
    BY DEF Added
  <2> QED BY <1>1, <1>2, <2>1
<1>3. CASE m # 0
  <2>1. m - 1 \in Nat /\ m - 1 \notin S
    BY <1>1, <1>3
  <2>2. PICK g : Added(g, rs, m - 1)
    BY <2>1
  <2>3. g = [k \in 0..m - 1 |-> IF k = 0 THEN <<>> ELSE Turn(g[k - 1], k)]
    BY <2>2 DEF Added
  <2> HIDE DEF Turn
  <2> DEFINE h == [k \in 0..m |-> IF k = m THEN Turn(g[m - 1], m) ELSE g[k]]
  <2>4. \A k \in 0..m : h[k] = IF k = 0 THEN <<>> ELSE Turn(h[k - 1], k)
    <3> SUFFICES ASSUME NEW k \in 0..m
                 PROVE  h[k] = IF k = 0 THEN <<>> ELSE Turn(h[k - 1], k)
      OBVIOUS
    <3>0. k # 0 => h[k - 1] = g[k - 1]
      BY <1>1
    <3>1. CASE k = m
      BY <1>3, <3>0, <3>1
    <3>2. CASE k # m
      <4>1. k \in 0..m - 1
        BY <3>2
      <4>2. g[k] = IF k = 0 THEN <<>> ELSE Turn(g[k - 1], k)
        BY <2>3, <4>1
      <4>3. h[k] = g[k]
        BY <3>2
      <4> HIDE DEF h
      <4> QED BY <3>0, <4>2, <4>3
    <3> QED BY <3>1, <3>2
  <2>5. Added(h, rs, m)
    <3>1. h = [k \in 0..m |-> h[k]]
      OBVIOUS
    <3> HIDE DEF h
    <3>2. h = [k \in 0..m |-> IF k = 0 THEN <<>> ELSE Turn(h[k - 1], k)]
      BY <2>4, <3>1
    <3> QED BY <3>2 DEF Added, Turn
  <2> QED BY <1>1, <2>5
<1> QED BY <1>2, <1>3

\* What Python's edges are of no range, and of one more.
LEMMA PyEdgesOfNone == PyEdges(<<>>) = <<>>
<1> DEFINE g == CHOOSE f : Added(f, <<>>, 0)
<1>1. Added(g, <<>>, 0)
  BY AddedExists
<1>2. PyEdges(<<>>) = g[0]
  BY DEF PyEdges, Added
<1> HIDE DEF g
<1> QED BY <1>1, <1>2 DEF Added

LEMMA PyEdgesOfMore ==
  ASSUME NEW T, NEW rs \in Seq(T), NEW r \in T
  PROVE  PyEdges(Append(rs, r)) = AddRange(PyEdges(rs), r.lo, r.hi)
<1> DEFINE n == Len(rs)
           t == Append(rs, r)
           g == CHOOSE f : Added(f, rs, n)
           h == CHOOSE f : Added(f, t, n + 1)
<1>1. n \in Nat /\ Len(t) = n + 1 /\ t[n + 1] = r /\ \A k \in 1..n : t[k] = rs[k]
  OBVIOUS
<1>2. PyEdges(rs) = g[n]
  BY DEF PyEdges, Added
<1>3. PyEdges(t) = h[n + 1]
  <2> HIDE DEF t, n
  <2>1. PyEdges(t) = (CHOOSE f : Added(f, t, Len(t)))[Len(t)]
    BY DEF PyEdges, Added
  <2> QED BY <1>1, <2>1
<1> HIDE DEF t, n
<1>4. Added(g, rs, n) /\ Added(h, t, n + 1)
  <2>1. n \in Nat /\ n + 1 \in Nat
    BY <1>1
  <2> QED BY <2>1, AddedExists
<1> HIDE DEF g, h
<1>5. \A k \in 0..n : g[k] = IF k = 0 THEN <<>> ELSE AddRange(g[k - 1], rs[k].lo, rs[k].hi)
  BY <1>4 DEF Added
<1>6. \A k \in 0..n + 1 : h[k] = IF k = 0 THEN <<>> ELSE AddRange(h[k - 1], t[k].lo, t[k].hi)
  BY <1>4 DEF Added
<1>7. \A k \in 0..n : h[k] = g[k]
  <2> DEFINE S == {k \in 0..n : h[k] # g[k]}
  <2> SUFFICES ASSUME S # {} PROVE FALSE
    OBVIOUS
  <2>1. PICK k \in S : \A m \in S : k <= m
    <3>1. S \in SUBSET Nat
      OBVIOUS
    <3> HIDE DEF S
    <3> QED BY <3>1, FirstOf
  <2>2. k \in 0..n /\ h[k] # g[k]
    BY <2>1
  <2>3. k \in 0..n + 1
    BY <1>1, <2>2
  <2>4. k # 0
    BY <1>5, <1>6, <2>2, <2>3
  <2>5. k \in 1..n /\ k - 1 \in 0..n
    BY <1>1, <2>2, <2>4
  <2>6. h[k - 1] = g[k - 1]
    <3>1. ~(k <= k - 1)
      BY <2>5
    <3>2. k - 1 \notin S
      <4> HIDE DEF S
      <4> QED BY <2>1, <3>1
    <3> QED BY <2>5, <3>2
  <2> QED BY <1>1, <1>5, <1>6, <2>2, <2>3, <2>4, <2>5, <2>6
<1>8. h[n + 1] = AddRange(h[n], r.lo, r.hi)
  <2>1. n + 1 \in 0..n + 1 /\ n + 1 # 0 /\ (n + 1) - 1 = n
    BY <1>1
  <2> QED BY <1>1, <1>6, <2>1
<1>9. h[n] = g[n]
  <2>1. n \in 0..n
    BY <1>1
  <2> QED BY <1>7, <2>1
<1> QED BY <1>2, <1>3, <1>8, <1>9 DEF t

\* Every edge is an end of one of the ranges.
EndsOf(s, rs) ==
  \A k \in DOMAIN s : \E j \in DOMAIN rs :
    s[k].value = IF s[k].chime = -1 THEN rs[j].lo ELSE rs[j].hi

\* No range ends where one begins.
Apart(rs) == \A j, k \in DOMAIN rs : rs[j].lo # rs[k].hi

\* s holds the edges of the ranges rs.
EdgesOf(s, rs) ==
  /\ s \in Seq(EdgeType) /\ Sorted(s) /\ EndsOf(s, rs)
  /\ CountIn(s, LowEdges) = CountIn(s, HighEdges)
  /\ \A x \in Int : CountUp(s, x) = Depth(rs, x) /\ CountDown(s, x) = Depth(rs, x)

LEMMA SortedIsRising ==
  ASSUME NEW s \in Seq(EdgeType), Sorted(s)
  PROVE  Rising(s)
<1> SUFFICES ASSUME NEW j \in DOMAIN s, NEW k \in DOMAIN s, j < k
             PROVE  s[j].value <= s[k].value
  BY DEF Rising
<1>1. s[j] \in EdgeType /\ s[k] \in EdgeType
  OBVIOUS
<1>2. Precedes(s[j], s[k])
  BY DEF Sorted
<1> QED BY <1>1, <1>2 DEF Precedes, EdgeType

\* As many edges of either kind: the scans come to zero.
LEMMA EvenIs ==
  ASSUME NEW s \in Seq(EdgeType), CountIn(s, LowEdges) = CountIn(s, HighEdges)
  PROVE  Even(s)
<1>1. \A k \in 1..Len(s) : s[k] \in EdgeType
  OBVIOUS
<1>2. PICK k \in 0..Len(s) :
        /\ \A z \in 1..Len(s) : s[z] \in EdgeType <=> z <= k
        /\ ChimeUp(s, k) = CountIn(s, EdgeType \cap LowEdges) - CountIn(s, EdgeType \cap HighEdges)
  BY <1>1, CountBehind
<1>3. k = Len(s)
  BY <1>1, <1>2
<1>4. EdgeType \cap LowEdges = LowEdges /\ EdgeType \cap HighEdges = HighEdges
  BY DEF LowEdges, HighEdges
<1>5. CountIn(s, LowEdges) \in Nat
  <2>1. IndicesIn(s, LowEdges) \subseteq DOMAIN s
    BY DEF IndicesIn
  <2> QED BY <2>1, IndicesFinite DEF CountIn
<1>6. ChimeUp(s, Len(s)) = CountIn(s, LowEdges) - CountIn(s, HighEdges)
  BY <1>2, <1>3, <1>4
<1> QED BY <1>5, <1>6 DEF Even

LEMMA NoEdges == EdgesOf(<<>>, <<>>)
<1>1. \A S : CountIn(<<>>, S) = 0
  <2> SUFFICES ASSUME NEW S PROVE CountIn(<<>>, S) = 0
    OBVIOUS
  <2>1. IndicesIn(<<>>, S) = {}
    BY DEF IndicesIn
  <2> QED BY <2>1, FS_EmptySet DEF CountIn
<1>2. \A x : Depth(<<>>, x) = 0
  <2> SUFFICES ASSUME NEW x PROVE Depth(<<>>, x) = 0
    OBVIOUS
  <2>1. {z \in DOMAIN <<>> : <<>>[z].lo <= x /\ x <= <<>>[z].hi} = {}
    OBVIOUS
  <2> QED BY <2>1, FS_EmptySet DEF Depth
<1>3. <<>> \in Seq(EdgeType) /\ Sorted(<<>>) /\ EndsOf(<<>>, <<>>)
  BY DEF Sorted, EndsOf
<1> QED BY <1>1, <1>2, <1>3 DEF EdgesOf, CountUp, CountDown

\* A range more: both implementations get the same list.
LEMMA EdgesOfMore ==
  ASSUME NEW s, NEW rs \in Seq([lo : Int, hi : Int]), EdgesOf(s, rs),
         NEW l \in Int, NEW h \in Int, l <= h,
         Apart(Append(rs, [lo |-> l, hi |-> h]))
  PROVE  LET t == SortedInsert(SortedInsert(s, Edge(l, -1)), Edge(h, 1))
         IN  /\ EdgesOf(t, Append(rs, [lo |-> l, hi |-> h]))
             /\ t = AddRange(s, l, h)
<1> DEFINE r   == [lo |-> l, hi |-> h]
           n   == Len(rs)
           rt  == Append(rs, r)
           low == Edge(l, -1)
           high == Edge(h, 1)
           one == SortedInsert(s, low)
           t   == SortedInsert(one, high)
<1>1. /\ s \in Seq(EdgeType) /\ Sorted(s) /\ EndsOf(s, rs)
      /\ CountIn(s, LowEdges) = CountIn(s, HighEdges)
      /\ \A x \in Int : CountUp(s, x) = Depth(rs, x) /\ CountDown(s, x) = Depth(rs, x)
  BY DEF EdgesOf
<1>2. /\ low \in EdgeType /\ low.value = l /\ low.chime = -1
      /\ high \in EdgeType /\ high.value = h /\ high.chime = 1
  BY DEF Edge, EdgeType
<1>3. /\ n \in Nat /\ DOMAIN rs = 1..n /\ DOMAIN rt = 1..n + 1
      /\ rt[n + 1] = r /\ \A k \in 1..n : rt[k] = rs[k]
      /\ r.lo = l /\ r.hi = h
  <2>1. r \in [lo : Int, hi : Int]
    OBVIOUS
  <2> QED BY <2>1
<1> HIDE DEF r, rt, n
<1>4. Apart(rt)
  BY DEF rt, r
<1>5. l # h /\ \A j \in DOMAIN rs : rs[j].hi # l /\ rs[j].lo # h
  <2>1. n + 1 \in DOMAIN rt /\ \A j \in DOMAIN rs : j \in DOMAIN rt /\ rt[j] = rs[j]
    BY <1>3
  <2>2. rt[n + 1].lo = l /\ rt[n + 1].hi = h
    BY <1>3
  <2> QED BY <1>4, <2>1, <2>2 DEF Apart
<1>6. \A k \in DOMAIN s : s[k] \in EdgeType
  BY <1>1
<1>7. \A e, f \in EdgeType : e.value = f.value /\ e.chime = f.chime => e = f
  BY DEF EdgeType
<1> HIDE DEF low, high
<1>8. Rising(s)
  BY <1>1, SortedIsRising
<1>9. one = Insert(s, low)
  <2>1. ASSUME NEW k \in 1..Len(s), s[k].value = low.value PROVE s[k] = low
    <3>1. k \in DOMAIN s
      BY <1>1
    <3>2. PICK j \in DOMAIN rs : s[k].value = IF s[k].chime = -1 THEN rs[j].lo ELSE rs[j].hi
      BY <1>1, <3>1 DEF EndsOf
    <3>3. s[k].chime = -1
      BY <1>2, <1>5, <2>1, <3>2
    <3> QED BY <1>2, <1>6, <1>7, <2>1, <3>1, <3>3
  <2> QED BY <1>1, <1>2, <1>8, <2>1, SameInsert
<1>10. one \in Seq(EdgeType) /\ Sorted(one)
  <2>1. EdgeType \in SUBSET EdgeType
    OBVIOUS
  <2> QED BY <1>1, <1>2, <1>9, <2>1, InsertShape
<1>11. \A k \in DOMAIN one : one[k] = low \/ \E j \in DOMAIN s : one[k] = s[j]
  BY <1>1, <1>2, <1>8, SortedInsertMembers
<1>12. Rising(one)
  BY <1>10, SortedIsRising
<1> HIDE DEF one
<1>13. t = Insert(one, high)
  <2>1. ASSUME NEW k \in 1..Len(one), one[k].value = high.value PROVE one[k] = high
    <3>1. k \in DOMAIN one /\ one[k] \in EdgeType
      BY <1>10
    <3>2. one[k].chime # -1
      <4>1. CASE one[k] = low
        BY <1>2, <1>5, <2>1, <4>1
      <4>2. CASE one[k] # low
        <5>1. PICK j \in DOMAIN s : one[k] = s[j]
          BY <1>11, <3>1, <4>2
        <5>2. PICK z \in DOMAIN rs : s[j].value = IF s[j].chime = -1 THEN rs[z].lo ELSE rs[z].hi
          BY <1>1 DEF EndsOf
        <5> QED BY <1>2, <1>5, <2>1, <5>1, <5>2
      <4> QED BY <4>1, <4>2
    <3>3. one[k].chime = 1
      BY <3>1, <3>2 DEF EdgeType
    <3> QED BY <1>2, <1>7, <2>1, <3>1, <3>3
  <2> QED BY <1>2, <1>10, <1>12, <2>1, SameInsert
<1>14. \A k \in DOMAIN t : t[k] = high \/ \E j \in DOMAIN one : t[k] = one[j]
  BY <1>2, <1>10, <1>12, SortedInsertMembers
<1> HIDE DEF t
<1>15. t = AddRange(s, l, h)
  BY <1>9, <1>13 DEF AddRange, low, high
<1>16. /\ t \in Seq(EdgeType) /\ Sorted(t)
       /\ \A S : CountIn(t, S) = CountIn(s, S) + (IF low \in S THEN 1 ELSE 0)
                                              + (IF high \in S THEN 1 ELSE 0)
  <2>1. EdgeType \in SUBSET EdgeType
    OBVIOUS
  <2> QED BY <1>1, <1>2, <1>15, <2>1, AddRangeShape DEF low, high
<1>17. EndsOf(t, rt)
  <2> SUFFICES ASSUME NEW k \in DOMAIN t
               PROVE  \E j \in DOMAIN rt : t[k].value = IF t[k].chime = -1 THEN rt[j].lo ELSE rt[j].hi
    BY DEF EndsOf
  <2>1. n + 1 \in DOMAIN rt /\ \A j \in DOMAIN rs : j \in DOMAIN rt /\ rt[j] = rs[j]
    BY <1>3
  <2>2. CASE t[k] = high
    BY <1>2, <1>3, <2>1, <2>2
  <2>3. CASE t[k] = low
    BY <1>2, <1>3, <2>1, <2>3
  <2>4. CASE t[k] # high /\ t[k] # low
    <3>1. PICK j \in DOMAIN one : t[k] = one[j]
      BY <1>14, <2>4
    <3>2. PICK m \in DOMAIN s : t[k] = s[m]
      BY <1>11, <2>4, <3>1
    <3>3. PICK z \in DOMAIN rs : s[m].value = IF s[m].chime = -1 THEN rs[z].lo ELSE rs[z].hi
      BY <1>1 DEF EndsOf
    <3> QED BY <2>1, <3>2, <3>3
  <2> QED BY <2>2, <2>3, <2>4
<1>18. CountIn(t, LowEdges) = CountIn(t, HighEdges)
  <2>1. low \in LowEdges /\ low \notin HighEdges /\ high \in HighEdges /\ high \notin LowEdges
    BY <1>2 DEF LowEdges, HighEdges
  <2>2. CountIn(s, LowEdges) \in Nat
    <3>1. IndicesIn(s, LowEdges) \subseteq DOMAIN s
      BY DEF IndicesIn
    <3> QED BY <1>1, <3>1, IndicesFinite DEF CountIn
  <2>3. CountIn(t, LowEdges) = CountIn(s, LowEdges) + 1 + 0
    BY <1>16, <2>1
  <2>4. CountIn(t, HighEdges) = CountIn(s, HighEdges) + 0 + 1
    BY <1>16, <2>1
  <2> QED BY <1>1, <2>2, <2>3, <2>4
<1>19. ASSUME NEW x \in Int PROVE CountUp(t, x) = Depth(rt, x) /\ CountDown(t, x) = Depth(rt, x)
  <2>1. Grown(s, t, l, h)
    BY <1>16 DEF Grown, low, high
  <2>2. /\ CountUp(t, x) = CountUp(s, x) + (IF l <= x /\ x <= h THEN 1 ELSE 0)
        /\ CountDown(t, x) = CountDown(s, x) + (IF l <= x /\ x <= h THEN 1 ELSE 0)
    BY <1>1, <1>16, <2>1, CountsGrow
  <2>3. Depth(rt, x) = Depth(rs, x) + (IF r.lo <= x /\ x <= r.hi THEN 1 ELSE 0)
    <3>1. r \in [lo : Int, hi : Int]
      BY DEF r
    <3> QED BY <3>1, DepthAppend DEF rt
  <2> QED BY <1>1, <1>3, <2>2, <2>3
<1>20. EdgesOf(t, rt)
  BY <1>16, <1>17, <1>18, <1>19 DEF EdgesOf
<1> QED BY <1>15, <1>20 DEF t, one, low, high, rt, r

-----------------------------------------------------------------------------
(* The sketch                                                              *)

Span == [lo : Int, hi : Int]

ClusterType ==
  [edges : Seq(EdgeType), responses : Nat, wanted : Int, lo : Int, hi : Int,
   adjustment : Int, uncertainty : Int]

SketchTypeInv ==
  /\ now \in Int /\ clock \in Int /\ failures \in Nat /\ falses \in Nat
  /\ given \in Seq(Span)
  /\ cluster \in ClusterType /\ Rising(cluster.edges)

\* The range of an answer from a server that tells the truth, when t is to be found.
TrueRange(r, t) ==
  \E u \in Uncertainties : r.lo <= t /\ t <= r.hi /\ r.hi - r.lo = 2 * u

\* All but falses of the ranges are from servers that tell the truth.
AnswersInv ==
  phase \in {"doit", "wait"} =>
    \E F \in SUBSET DOMAIN given :
      /\ Cardinality(F) = falses
      /\ \A k \in DOMAIN given \ F : TrueRange(given[k], now - clock)

\* What the last find_overlap found.
FoundInv ==
  LET s == Search(cluster.edges, Len(given), Needed)
  IN  /\ cluster.wanted = s.wanted /\ cluster.lo = s.lo /\ cluster.hi = s.hi
      /\ cluster.adjustment = Half(s.lo + s.hi)

\* The edges of the cluster are those that Python would have.
EdgesInv ==
  failures = 0 /\ Ordinary =>
    /\ cluster.responses = Len(given)
    /\ cluster.edges = PyEdges(given)
    /\ EdgesOf(cluster.edges, given)
    /\ Len(given) >= Needed => FoundInv

SketchInv == SketchTypeInv /\ AnswersInv /\ EdgesInv

LEMMA HalfType ==
  ASSUME NEW x \in Int
  PROVE  Half(x) \in Int
BY DEF Half

LEMMA WholeSecondsType ==
  ASSUME NEW x \in Int
  PROVE  WholeSeconds(x) \in Int
BY AnswerAssumption DEF WholeSeconds

LEMMA ClusterIsNew == NewCluster \in ClusterType /\ Rising(NewCluster.edges)
BY DEF NewCluster, ClusterType, Rising

\* An edge more in its place.
LEMMA StillRising ==
  ASSUME NEW s \in Seq(EdgeType), Rising(s), NEW e \in EdgeType
  PROVE  SortedInsert(s, e) \in Seq(EdgeType) /\ Rising(SortedInsert(s, e))
<1>1. EdgeType \in SUBSET EdgeType
  OBVIOUS
<1>2. SortedInsert(s, e) = InsertBefore(s, e)
  BY SortedInsertIs
<1> QED BY <1>1, <1>2, InsertBeforeShape

\* Whatever fails, find_overlap leaves a list that rises.
LEMMA FindType ==
  ASSUME NEW c \in ClusterType, Rising(c.edges), NEW l \in Int, NEW h \in Int,
         NEW leftFails \in BOOLEAN, NEW rightFails \in BOOLEAN
  PROVE  LET d == FindOverlap(c, Needed, l, h, leftFails, rightFails)
         IN  d \in ClusterType /\ Rising(d.edges)
<1> DEFINE responses == c.responses + 1
           one == IF leftFails  THEN c.edges ELSE SortedInsert(c.edges, Edge(l, -1))
           two == IF rightFails THEN one     ELSE SortedInsert(one, Edge(h, 1))
           s   == Search(two, responses, Needed)
           d   == FindOverlap(c, Needed, l, h, leftFails, rightFails)
<1>1. c.edges \in Seq(EdgeType) /\ responses \in Nat
  BY DEF ClusterType
<1>2. Edge(l, -1) \in EdgeType /\ Edge(h, 1) \in EdgeType
  BY DEF Edge, EdgeType
<1>3. one \in Seq(EdgeType) /\ Rising(one)
  <2>1. CASE leftFails
    BY <1>1, <2>1
  <2>2. CASE ~leftFails
    BY <1>1, <1>2, <2>2, StillRising
  <2> QED BY <2>1, <2>2
<1> HIDE DEF one
<1>4. two \in Seq(EdgeType) /\ Rising(two)
  <2>1. CASE rightFails
    BY <1>3, <2>1
  <2>2. CASE ~rightFails
    BY <1>2, <1>3, <2>2, StillRising
  <2> QED BY <2>1, <2>2
<1> HIDE DEF two, s, responses
<1>5. responses >= Needed <=> ~(responses < Needed)
  BY <1>1, NeededAssumption
<1>6. /\ leftFails => d = [c EXCEPT !.responses = responses]
      /\ ~leftFails /\ responses < Needed => d = [c EXCEPT !.responses = responses, !.edges = two]
      /\ ~leftFails /\ ~(responses < Needed) =>
           d = [edges |-> two, responses |-> responses, wanted |-> s.wanted,
                lo |-> s.lo, hi |-> s.hi,
                adjustment |-> Half(s.lo + s.hi), uncertainty |-> Half(s.hi - s.lo)]
  <2>1. CASE leftFails
    BY <2>1 DEF FindOverlap, responses
  <2>2. CASE ~leftFails /\ responses < Needed
    <3>1. ~(responses >= Needed)
      BY <1>5, <2>2
    <3> QED BY <2>2, <3>1 DEF FindOverlap, responses, two, one
  <2>3. CASE ~leftFails /\ ~(responses < Needed)
    <3>1. responses >= Needed
      BY <1>5, <2>3
    <3> QED BY <2>3, <3>1 DEF FindOverlap, responses, two, one, s
  <2> QED BY <2>1, <2>2, <2>3
<1> HIDE DEF d
<1>7. CASE leftFails
  BY <1>1, <1>6, <1>7 DEF ClusterType, d
<1>8. CASE ~leftFails /\ responses < Needed
  BY <1>1, <1>4, <1>6, <1>8 DEF ClusterType, d
<1>9. CASE ~leftFails /\ ~(responses < Needed)
  <2>1. Needed \in 0..responses
    BY <1>1, <1>9, NeededAssumption
  <2>2. s \in [lo : Int, hi : Int, wanted : Int]
    BY <1>1, <1>4, <2>1, SearchType DEF s
  <2>3. s.wanted \in Int /\ s.lo \in Int /\ s.hi \in Int
    BY <2>2
  <2>4. Half(s.lo + s.hi) \in Int /\ Half(s.hi - s.lo) \in Int
    BY <2>3, HalfType
  <2> QED BY <1>1, <1>4, <1>6, <1>9, <2>3, <2>4 DEF ClusterType, d
<1> QED BY <1>7, <1>8, <1>9

\* When nothing fails, both edges are in the list, and what is found is kept.
LEMMA FindIs ==
  ASSUME NEW c \in ClusterType, NEW l \in Int, NEW h \in Int
  PROVE  LET d == FindOverlap(c, Needed, l, h, FALSE, FALSE)
             s == Search(d.edges, d.responses, Needed)
         IN  /\ d.responses = c.responses + 1
             /\ d.edges = SortedInsert(SortedInsert(c.edges, Edge(l, -1)), Edge(h, 1))
             /\ d.responses >= Needed =>
                  /\ d.wanted = s.wanted /\ d.lo = s.lo /\ d.hi = s.hi
                  /\ d.adjustment = Half(s.lo + s.hi)
<1> DEFINE responses == c.responses + 1
           two == SortedInsert(SortedInsert(c.edges, Edge(l, -1)), Edge(h, 1))
           s   == Search(two, responses, Needed)
           d   == FindOverlap(c, Needed, l, h, FALSE, FALSE)
<1>1. responses \in Nat
  BY DEF ClusterType
<1> HIDE DEF responses
<1>2. ~(responses < Needed) <=> responses >= Needed
  BY <1>1, NeededAssumption
<1>3. CASE responses < Needed
  <2>1. d = [c EXCEPT !.responses = responses, !.edges = two]
    BY <1>2, <1>3 DEF FindOverlap, responses
  <2> HIDE DEF d, two
  <2>2. d.responses = responses /\ d.edges = two
    BY <2>1 DEF ClusterType
  <2> QED BY <1>2, <1>3, <2>2 DEF d, two, responses
<1>4. CASE ~(responses < Needed)
  <2>1. d = [edges |-> two, responses |-> responses, wanted |-> s.wanted,
             lo |-> s.lo, hi |-> s.hi,
             adjustment |-> Half(s.lo + s.hi), uncertainty |-> Half(s.hi - s.lo)]
    BY <1>2, <1>4 DEF FindOverlap, responses
  <2> HIDE DEF d, s
  <2>2. /\ d.responses = responses /\ d.edges = two
        /\ d.wanted = s.wanted /\ d.lo = s.lo /\ d.hi = s.hi
        /\ d.adjustment = Half(s.lo + s.hi)
    BY <2>1
  <2> QED BY <2>2 DEF d, s, two, responses
<1> QED BY <1>3, <1>4

\* Steps that touch neither the cluster nor what it was given.
LEMMA ClusterUntouched ==
  ASSUME SketchInv, GotIP \/ Disconnected \/ Lost \/ SendQuery \/ Refused \/ Idle
  PROVE  SketchInv'
<1>1. /\ cluster' = cluster /\ given' = given /\ falses' = falses
      /\ failures' = failures /\ clock' = clock /\ now' = now
      /\ phase' \in {"doit", "wait"} => phase \in {"doit", "wait"}
  BY DEF GotIP, Disconnected, Lost, SendQuery, Refused, NextServer, Idle, sketchVars
<1>2. SketchTypeInv'
  BY <1>1 DEF SketchInv, SketchTypeInv
<1>3. AnswersInv'
  BY <1>1 DEF SketchInv, AnswersInv
<1>4. EdgesInv'
  BY <1>1 DEF SketchInv, EdgesInv, FoundInv, Ordinary
<1> QED BY <1>2, <1>3, <1>4 DEF SketchInv

\* No edges and no ranges: what createClusterData and free_tree leave.
LEMMA Emptied ==
  ASSUME SketchInv, cluster' = NewCluster, given' = <<>>, falses' = 0,
         UNCHANGED <<now, clock, failures>>
  PROVE  SketchInv'
<1>1. SketchTypeInv'
  <2>1. <<>> \in Seq(Span) /\ 0 \in Nat
    OBVIOUS
  <2> QED BY <2>1, ClusterIsNew DEF SketchInv, SketchTypeInv
<1>2. AnswersInv'
  <2>1. {} \in SUBSET DOMAIN given' /\ DOMAIN given' \ {} = {} /\ Cardinality({}) = 0
    BY FS_EmptySet
  <2> QED BY <2>1 DEF AnswersInv
<1>3. EdgesInv'
  <2>1. /\ NewCluster.responses = 0 /\ NewCluster.edges = <<>>
        /\ Len(<<>>) = 0
    BY DEF NewCluster
  <2>2. ~(0 >= Needed)
    BY NeededAssumption
  <2>3. PyEdges(given') = <<>> /\ EdgesOf(cluster'.edges, given') /\ cluster'.edges = <<>>
    BY <2>1, PyEdgesOfNone, NoEdges
  <2>4. cluster'.responses = Len(given') /\ ~(Len(given') >= Needed)
    BY <2>1, <2>2
  <2> QED BY <2>3, <2>4 DEF EdgesInv
<1> QED BY <1>1, <1>2, <1>3 DEF SketchInv

\* find_overlap in the sketch: as long as nothing failed, the edges stay those of
\* the ranges given.
LEMMA AnsweredKeeps ==
  ASSUME SketchInv, NEW adjust \in Int, NEW uncert \in Nat, Answered(adjust, uncert)
  PROVE  /\ given' = Append(given, [lo |-> adjust - uncert, hi |-> adjust + uncert])
         /\ failures' \in Nat /\ given' \in Seq(Span)
         /\ cluster' \in ClusterType /\ Rising(cluster'.edges)
         /\ EdgesInv'
<1> DEFINE l == adjust - uncert
           h == adjust + uncert
           r == [lo |-> l, hi |-> h]
<1>1. PICK leftFails, rightFails \in BOOLEAN :
        LET failed == (IF leftFails THEN 1 ELSE 0) + (IF rightFails THEN 1 ELSE 0)
        IN  /\ failures' = failures + failed
            /\ cluster' = FindOverlap(cluster, Needed, l, h, leftFails, rightFails)
            /\ given' = Append(given, r)
  BY DEF Answered
<1>2. l \in Int /\ h \in Int /\ l <= h
  OBVIOUS
<1>3. r \in Span /\ r.lo = l /\ r.hi = h
  BY <1>2 DEF Span
<1>4. /\ failures \in Nat /\ given \in Seq(Span)
      /\ cluster \in ClusterType /\ Rising(cluster.edges)
  BY DEF SketchInv, SketchTypeInv
<1> HIDE DEF l, h
<1>5. failures' \in Nat
  BY <1>1, <1>4
<1>6. given' \in Seq(Span)
  <2> HIDE DEF r
  <2> QED BY <1>1, <1>3, <1>4
<1>7. cluster' \in ClusterType /\ Rising(cluster'.edges)
  BY <1>1, <1>2, <1>4, FindType
<1>8. ASSUME failures' = 0, Ordinary'
      PROVE  /\ cluster'.responses = Len(given')
             /\ cluster'.edges = PyEdges(given')
             /\ EdgesOf(cluster'.edges, given')
             /\ Len(given') >= Needed => FoundInv'
  <2>1. failures = 0 /\ ~leftFails /\ ~rightFails
    BY <1>1, <1>4, <1>8
  <2>2. cluster' = FindOverlap(cluster, Needed, l, h, FALSE, FALSE)
    BY <1>1, <2>1
  <2>3. /\ Len(given') = Len(given) + 1 /\ Len(given) \in Nat
        /\ \A k \in DOMAIN given : k \in DOMAIN given' /\ given'[k] = given[k]
    <3> HIDE DEF r
    <3> QED BY <1>1, <1>3, <1>4
  <2>4. Ordinary
    BY <1>8, <2>3 DEF Ordinary
  <2>5. /\ cluster.responses = Len(given) /\ cluster.edges = PyEdges(given)
        /\ EdgesOf(cluster.edges, given)
    BY <2>1, <2>4 DEF SketchInv, EdgesInv
  <2>6. Apart(given')
    BY <1>8 DEF Ordinary, Apart
  <2> DEFINE t == SortedInsert(SortedInsert(cluster.edges, Edge(l, -1)), Edge(h, 1))
  <2>7. EdgesOf(t, given') /\ t = AddRange(cluster.edges, l, h)
    <3>1. given \in Seq([lo : Int, hi : Int])
      BY <1>4 DEF Span
    <3>2. Apart(Append(given, [lo |-> l, hi |-> h]))
      BY <1>1, <2>6
    <3> QED BY <1>1, <1>2, <2>5, <3>1, <3>2, EdgesOfMore
  <2>8. PyEdges(given') = AddRange(PyEdges(given), l, h)
    <3> HIDE DEF r
    <3> QED BY <1>1, <1>3, <1>4, PyEdgesOfMore
  <2> HIDE DEF t
  <2> DEFINE d == FindOverlap(cluster, Needed, l, h, FALSE, FALSE)
             s == Search(d.edges, d.responses, Needed)
  <2>9. /\ d.responses = cluster.responses + 1 /\ d.edges = t
        /\ d.responses >= Needed =>
             /\ d.wanted = s.wanted /\ d.lo = s.lo /\ d.hi = s.hi
             /\ d.adjustment = Half(s.lo + s.hi)
    BY <1>2, <1>4, FindIs DEF t
  <2>10. d = cluster'
    BY <2>2
  <2> HIDE DEF d
  <2>11. cluster'.responses = Len(given') /\ cluster'.edges = t
    BY <2>3, <2>5, <2>9, <2>10
  <2>12. ASSUME Len(given') >= Needed PROVE FoundInv'
    <3>1. s = Search(cluster'.edges, Len(given'), Needed)
      BY <2>10, <2>11
    <3>2. d.responses >= Needed
      BY <2>10, <2>11, <2>12
    <3> HIDE DEF s
    <3> QED BY <2>9, <2>10, <3>1, <3>2 DEF FoundInv
  <2> QED BY <2>5, <2>7, <2>8, <2>11, <2>12
<1>9. EdgesInv'
  BY <1>8 DEF EdgesInv
<1> QED BY <1>1, <1>5, <1>6, <1>7, <1>9 DEF l, h

\* Truthful and false answers are told apart.
LEMMA AnswersKept ==
  ASSUME SketchInv, phase = "wait", UNCHANGED <<now, clock>>,
         NEW r \in Span, given' = Append(given, r),
         \/ TrueRange(r, now - clock) /\ falses' = falses
         \/ falses' = falses + 1
  PROVE  AnswersInv'
<1>1. given \in Seq(Span) /\ falses \in Nat
  BY DEF SketchInv, SketchTypeInv
<1>2. PICK F \in SUBSET DOMAIN given :
        /\ Cardinality(F) = falses
        /\ \A k \in DOMAIN given \ F : TrueRange(given[k], now - clock)
  BY DEF SketchInv, AnswersInv
<1> DEFINE n == Len(given)
<1>3. /\ n \in Nat /\ DOMAIN given = 1..n /\ DOMAIN given' = 1..n + 1
      /\ given'[n + 1] = r /\ \A k \in 1..n : given'[k] = given[k]
  BY <1>1
<1> HIDE DEF n
<1>4. CASE TrueRange(r, now - clock) /\ falses' = falses
  <2>1. F \in SUBSET DOMAIN given'
    BY <1>2, <1>3
  <2>2. ASSUME NEW k \in DOMAIN given' \ F
        PROVE  TrueRange(given'[k], now' - clock')
    BY <1>2, <1>3, <1>4
  <2> QED BY <1>2, <1>4, <2>1, <2>2 DEF AnswersInv
<1>5. CASE falses' = falses + 1
  <2> DEFINE G == F \cup {n + 1}
  <2>1. G \in SUBSET DOMAIN given'
    BY <1>2, <1>3
  <2>2. ASSUME NEW k \in DOMAIN given' \ G
        PROVE  TrueRange(given'[k], now' - clock')
    BY <1>2, <1>3
  <2>3. IsFiniteSet(F) /\ n + 1 \notin F
    <3>1. IsFiniteSet(1..n)
      BY <1>3, FS_Interval
    <3>2. F \subseteq 1..n
      BY <1>3
    <3> QED BY <1>3, <3>1, <3>2, FS_Subset
  <2>4. Cardinality(G) = falses + 1
    BY <1>2, <2>3, FS_AddElement
  <2> QED BY <1>5, <2>1, <2>2, <2>4 DEF AnswersInv
<1> QED BY <1>4, <1>5

LEMMA AnswerSteps ==
  ASSUME SketchInv, AnsweredTruly \/ AnsweredFalsely
  PROVE  SketchInv'
<1>1. clock \in Int /\ falses \in Nat /\ now \in Int
  BY DEF SketchInv, SketchTypeInv
<1>2. CASE AnsweredTruly
  <2>1. PICK u \in Uncertainties, e \in Errors :
          -u <= e /\ e <= u /\ Answered(now - clock + e, u)
    BY <1>2 DEF AnsweredTruly
  <2>2. phase = "wait" /\ now' = now /\ clock' = clock /\ falses' = falses
    BY <1>2 DEF AnsweredTruly
  <2>3. u \in Nat /\ e \in Int
    BY AnswerAssumption
  <2> DEFINE a == now - clock + e
             r == [lo |-> a - u, hi |-> a + u]
  <2>4. a \in Int /\ r \in Span
    BY <1>1, <2>3 DEF Span
  <2>5. TrueRange(r, now - clock)
    <3>1. /\ r.lo <= now - clock /\ now - clock <= r.hi
          /\ r.hi - r.lo = 2 * u
      BY <1>1, <2>1, <2>3
    <3> HIDE DEF r
    <3> QED BY <3>1 DEF TrueRange
  <2> HIDE DEF a
  <2>6. /\ given' = Append(given, r)
        /\ failures' \in Nat /\ given' \in Seq(Span)
        /\ cluster' \in ClusterType /\ Rising(cluster'.edges)
        /\ EdgesInv'
    BY <2>1, <2>3, <2>4, AnsweredKeeps DEF a
  <2> HIDE DEF r
  <2>7. AnswersInv'
    BY <2>2, <2>4, <2>5, <2>6, AnswersKept
  <2>8. SketchTypeInv'
    BY <1>1, <2>2, <2>6 DEF SketchTypeInv
  <2> QED BY <2>6, <2>7, <2>8 DEF SketchInv
<1>3. CASE AnsweredFalsely
  <2>1. PICK u \in Uncertainties, e \in FalseBy : Answered(now - clock + e, u)
    BY <1>3 DEF AnsweredFalsely
  <2>2. phase = "wait" /\ now' = now /\ clock' = clock /\ falses' = falses + 1
    BY <1>3 DEF AnsweredFalsely
  <2>3. u \in Nat /\ e \in Int
    BY AnswerAssumption
  <2> DEFINE a == now - clock + e
             r == [lo |-> a - u, hi |-> a + u]
  <2>4. a \in Int /\ r \in Span
    BY <1>1, <2>3 DEF Span
  <2> HIDE DEF a
  <2>5. /\ given' = Append(given, r)
        /\ failures' \in Nat /\ given' \in Seq(Span)
        /\ cluster' \in ClusterType /\ Rising(cluster'.edges)
        /\ EdgesInv'
    BY <2>1, <2>3, <2>4, AnsweredKeeps DEF a
  <2> HIDE DEF r
  <2>6. AnswersInv'
    BY <2>2, <2>4, <2>5, AnswersKept
  <2>7. SketchTypeInv'
    BY <1>1, <2>2, <2>5 DEF SketchTypeInv
  <2> QED BY <2>5, <2>6, <2>7 DEF SketchInv
<1> QED BY <1>2, <1>3

\* The invariant of the sketch: the cluster holds the edges that Python would have
\* of the ranges given, all but falses of which hold the time (sketch_aug16b.ino:212-315).
LEMMA SketchInvariance == SketchSpec => []SketchInv
<1>1. SketchInit => SketchInv
  <2> SUFFICES ASSUME SketchInit PROVE SketchInv
    OBVIOUS
  <2>1. SketchTypeInv
    <3>1. <<>> \in Seq(Span) /\ 0 \in Nat /\ 0 \in Int
      OBVIOUS
    <3> QED BY <3>1, ClusterIsNew, AnswerAssumption DEF SketchInit, SketchTypeInv
  <2>2. AnswersInv
    BY DEF SketchInit, AnswersInv
  <2>3. EdgesInv
    <3>1. /\ NewCluster.responses = 0 /\ NewCluster.edges = <<>>
          /\ Len(<<>>) = 0
      BY DEF NewCluster
    <3>2. ~(0 >= Needed)
      BY NeededAssumption
    <3>3. given = <<>> /\ cluster.edges = <<>> /\ cluster.responses = Len(given)
      BY <3>1 DEF SketchInit
    <3> QED BY <3>1, <3>2, <3>3, PyEdgesOfNone, NoEdges DEF EdgesInv
  <2> QED BY <2>1, <2>2, <2>3 DEF SketchInv
<1>2. SketchInv /\ [SketchNext]_sketchVars => SketchInv'
  <2> SUFFICES ASSUME SketchInv, [SketchNext]_sketchVars PROVE SketchInv'
    OBVIOUS
  <2>1. CASE GotIP \/ Disconnected \/ Lost \/ SendQuery \/ Refused \/ Idle
    BY <2>1, ClusterUntouched
  <2>2. CASE CreateCluster
    BY <2>2, Emptied DEF CreateCluster
  <2>3. CASE EndOfLoop
    BY <2>3, Emptied DEF EndOfLoop
  <2>4. CASE SetTime
    <3>1. /\ cluster' = cluster /\ given' = given /\ falses' = falses
          /\ failures' = failures /\ now' = now /\ phase' = "set"
          /\ clock' = WholeSeconds(cluster.adjustment) + Usec
      BY <2>4 DEF SetTime
    <3>2. SketchTypeInv'
      <4>1. cluster.adjustment \in Int
        BY DEF SketchInv, SketchTypeInv, ClusterType
      <4>2. WholeSeconds(cluster.adjustment) \in Int
        BY <4>1, WholeSecondsType
      <4>3. clock' \in Int
        BY <3>1, <4>2, AnswerAssumption
      <4> QED BY <3>1, <4>3 DEF SketchInv, SketchTypeInv
    <3>3. AnswersInv'
      BY <3>1 DEF AnswersInv
    <3>4. EdgesInv'
      BY <3>1 DEF SketchInv, EdgesInv, FoundInv, Ordinary
    <3> QED BY <3>2, <3>3, <3>4 DEF SketchInv
  <2>5. CASE AnsweredTruly \/ AnsweredFalsely
    BY <2>5, AnswerSteps
  <2>6. CASE UNCHANGED sketchVars
    BY <2>6, ClusterUntouched DEF Idle
  <2>7. CASE Tick
    <3>1. /\ cluster' = cluster /\ given' = given /\ falses' = falses
          /\ failures' = failures /\ phase' = phase
          /\ now' = now + 1 /\ clock' = clock + 1
      BY <2>7 DEF Tick
    <3>2. now \in Int /\ clock \in Int
      BY DEF SketchInv, SketchTypeInv
    <3>3. SketchTypeInv'
      BY <3>1, <3>2 DEF SketchInv, SketchTypeInv
    <3>4. now' - clock' = now - clock
      BY <3>1, <3>2
    <3>5. AnswersInv'
      BY <3>1, <3>4 DEF SketchInv, AnswersInv
    <3>6. EdgesInv'
      BY <3>1 DEF SketchInv, EdgesInv, FoundInv, Ordinary
    <3> QED BY <3>3, <3>5, <3>6 DEF SketchInv
  <2> QED BY <2>1, <2>2, <2>3, <2>4, <2>5, <2>6, <2>7 DEF SketchNext, Loop, Arrives
<1> QED BY <1>1, <1>2, PTL DEF SketchSpec

-----------------------------------------------------------------------------
(* What the sketch finds                                                   *)

\* In ordinary ranges the lists of the two implementations are equal, and the
\* scans of either work on them.
LEMMA OrdinaryEdges ==
  ASSUME SketchInv, failures = 0, Ordinary
  PROVE  /\ cluster.edges \in Seq(EdgeType) /\ Sorted(cluster.edges) /\ Even(cluster.edges)
         /\ \A k \in 1..Len(cluster.edges) : cluster.edges[k].value # 0
<1> DEFINE s == cluster.edges
<1>1. EdgesOf(s, given)
  BY DEF SketchInv, EdgesInv
<1> HIDE DEF s
<1>2. /\ s \in Seq(EdgeType) /\ Sorted(s) /\ EndsOf(s, given)
      /\ CountIn(s, LowEdges) = CountIn(s, HighEdges)
  BY <1>1 DEF EdgesOf
<1>3. Even(s)
  BY <1>2, EvenIs
<1>4. ASSUME NEW k \in 1..Len(s) PROVE s[k].value # 0
  <2>1. k \in DOMAIN s
    BY <1>2
  <2>2. PICK j \in DOMAIN given : s[k].value = IF s[k].chime = -1 THEN given[j].lo ELSE given[j].hi
    BY <1>2, <2>1 DEF EndsOf
  <2> QED BY <2>2 DEF Ordinary
<1> QED BY <1>2, <1>3, <1>4 DEF s

\* The largest count that is reached is the one that is found.
LEMMA LargestIsFound ==
  ASSUME SketchInv, failures = 0, Ordinary,
         NEW w \in Needed..Len(given), ReachUp(cluster.edges, w) # {},
         \A m \in w + 1..Len(given) : ReachUp(cluster.edges, m) = {}
  PROVE  /\ cluster.wanted = w
         /\ cluster.lo = LowEdge(cluster.edges, w).value
         /\ cluster.hi = HighEdge(cluster.edges, w).value
         /\ cluster.adjustment = Half(cluster.lo + cluster.hi)
<1> DEFINE s == cluster.edges
           n == Len(given)
           f == Search(s, n, Needed)
<1>1. n \in Nat /\ Needed \in Nat \ {0}
  BY NeededAssumption DEF SketchInv, SketchTypeInv
<1>2. w \in Nat \ {0} /\ Needed \in 1..n /\ n >= Needed
  BY <1>1
<1>3. /\ s \in Seq(EdgeType) /\ Sorted(s) /\ Even(s)
      /\ \A k \in 1..Len(s) : s[k].value # 0
  BY OrdinaryEdges
<1>4. FoundInv
  BY <1>2 DEF SketchInv, EdgesInv
<1>5. /\ cluster.wanted = f.wanted /\ cluster.lo = f.lo /\ cluster.hi = f.hi
      /\ cluster.adjustment = Half(f.lo + f.hi)
  BY <1>4 DEF FoundInv
<1>6. ReachUp(s, w) # {} /\ \A m \in w + 1..n : ReachUp(s, m) = {}
  OBVIOUS
<1>7. w \in Needed..n
  OBVIOUS
<1> HIDE DEF s, n
<1>8. f = [lo |-> LowEdge(s, w).value, hi |-> HighEdge(s, w).value, wanted |-> w]
  BY <1>1, <1>2, <1>3, <1>6, <1>7, SearchFinds
<1> HIDE DEF f
<1> QED BY <1>5, <1>8 DEF s

\* The port finds what the Python implementation finds wherever no end is zero,
\* no range begins where one ends and no allocation failed
\* (clusteringAlgorithm.c:109-207, overlap_algo.py:60-104).
THEOREM FindsWhatPythonFinds == SketchSpec => []MatchesPython
<1>1. SketchInv => MatchesPython
  <2> DEFINE s == PyEdges(given)
             n == Len(given)
             count == FirstAgreed(s, n)
  <2> SUFFICES ASSUME SketchInv, Ordinary, failures = 0, count >= Needed
               PROVE  /\ cluster.wanted = count
                      /\ cluster.lo = LowEdge(s, count).value
                      /\ cluster.hi = HighEdge(s, count).value
    BY DEF MatchesPython
  <2>1. s = cluster.edges
    BY DEF SketchInv, EdgesInv
  <2>2. n \in Nat /\ Needed \in Nat \ {0}
    BY NeededAssumption DEF SketchInv, SketchTypeInv
  <2>3. /\ s \in Seq(EdgeType) /\ Sorted(s) /\ Even(s)
    BY <2>1, OrdinaryEdges
  <2> DEFINE W == {m \in 1..n : Agreed(s, m)}
  <2> HIDE DEF s, n
  <2>4. count = IF W = {} THEN 0 ELSE Max(W)
    BY DEF FirstAgreed
  <2>5. W # {}
    BY <2>2, <2>4
  <2>6. count \in W /\ \A m \in W : m <= count
    <3>1. W \in SUBSET (1..n)
      OBVIOUS
    <3> HIDE DEF W
    <3>2. \E x \in W : \A y \in W : y <= x
      BY <2>2, <2>5, <3>1, LastOf
    <3>3. /\ (CHOOSE x \in W : \A y \in W : y <= x) \in W
          /\ \A m \in W : m <= (CHOOSE x \in W : \A y \in W : y <= x)
      BY <3>2
    <3>4. Max(W) \in W /\ \A m \in W : m <= Max(W)
      BY <3>1, <3>3 DEF Max
    <3> QED BY <2>4, <2>5, <3>4
  <2> HIDE DEF count
  <2>7. count \in 1..n /\ count \in Needed..n /\ Agreed(s, count)
    BY <2>2, <2>6
  <2>8. ReachUp(s, count) # {}
    BY <2>7 DEF Agreed
  <2>9. ASSUME NEW m \in count + 1..n PROVE ReachUp(s, m) = {}
    <3>1. m \in Nat \ {0} /\ m \in 1..n /\ ~(m <= count)
      BY <2>2, <2>7
    <3>2. ~Agreed(s, m)
      BY <2>6, <3>1
    <3> QED BY <2>3, <3>1, <3>2, ReachedIsAgreed
  <2>10. \A m \in count + 1..Len(given) : ReachUp(cluster.edges, m) = {}
    BY <2>1, <2>9 DEF n
  <2> QED BY <2>1, <2>7, <2>8, <2>10, LargestIsFound DEF n
<1> QED BY <1>1, SketchInvariance, PTL

\* The mean of two values is between what they are between.
LEMMA HalfBetween ==
  ASSUME NEW x \in Int, NEW a \in Int, NEW b \in Int, 2 * a <= x, x <= 2 * b
  PROVE  a <= Half(x) /\ Half(x) <= b
<1>1. CASE x >= 0
  <2>1. x \div 2 \in Int /\ x \div 2 <= b /\ a <= x \div 2
    BY <1>1
  <2> QED BY <1>1, <2>1 DEF Half
<1>2. CASE x < 0
  <2>1. (-x) \div 2 \in Int /\ (-x) \div 2 <= -a /\ -b <= (-x) \div 2
    BY <1>2
  <2>2. Half(x) = -((-x) \div 2)
    BY <1>2 DEF Half
  <2> HIDE DEF Half
  <2> QED BY <2>1, <2>2
<1> QED BY <1>1, <1>2

\* Of more ranges than are false, one is true, and as near as it is wide.
LEMMA NearATrueRange ==
  ASSUME NEW rs \in Seq(Span), NEW F \in SUBSET DOMAIN rs, NEW t \in Int, NEW x \in Int,
         \A k \in DOMAIN rs \ F : TrueRange(rs[k], t),
         Depth(rs, x) > Cardinality(F)
  PROVE  \E u \in Uncertainties : t - 2 * u <= x /\ x <= t + 2 * u
<1> DEFINE D == {k \in DOMAIN rs : rs[k].lo <= x /\ x <= rs[k].hi}
<1>1. /\ IsFiniteSet(D) /\ Cardinality(D) \in Nat
      /\ IsFiniteSet(F) /\ Cardinality(F) \in Nat
  BY IndicesFinite
<1>2. Cardinality(D) > Cardinality(F)
  BY DEF Depth
<1>3. ~(D \subseteq F)
  <2> HIDE DEF D
  <2> QED BY <1>1, <1>2, FS_Subset
<1>4. PICK k \in DOMAIN rs \ F : rs[k].lo <= x /\ x <= rs[k].hi
  BY <1>3
<1>5. PICK u \in Uncertainties : /\ rs[k].lo <= t /\ t <= rs[k].hi
                                 /\ rs[k].hi - rs[k].lo = 2 * u
  BY <1>4 DEF TrueRange
<1>6. rs[k].lo \in Int /\ rs[k].hi \in Int /\ u \in Nat
  <2>1. rs[k] \in Span
    BY <1>4
  <2> QED BY <2>1, AnswerAssumption DEF Span
<1>7. t - 2 * u <= x /\ x <= t + 2 * u
  BY <1>4, <1>5, <1>6
<1> QED BY <1>7

\* The ranges of the true answers all hold the time.
LEMMA TrueRangesMeet ==
  ASSUME NEW rs \in Seq(Span), NEW F \in SUBSET DOMAIN rs, NEW t \in Int,
         \A k \in DOMAIN rs \ F : TrueRange(rs[k], t)
  PROVE  Depth(rs, t) >= Len(rs) - Cardinality(F) /\ Cardinality(F) \in Nat
<1> DEFINE D == {k \in DOMAIN rs : rs[k].lo <= t /\ t <= rs[k].hi}
           n == Len(rs)
<1>1. /\ IsFiniteSet(D) /\ Cardinality(D) \in Nat
      /\ IsFiniteSet(F) /\ Cardinality(F) \in Nat
  BY IndicesFinite
<1>2. DOMAIN rs \ F \subseteq D
  BY DEF TrueRange
<1>3. n \in Nat /\ DOMAIN rs = 1..n
  OBVIOUS
<1> HIDE DEF D, n
<1>4. IsFiniteSet(1..n) /\ Cardinality(1..n) = n
  <2>1. /\ IsFiniteSet(1..n)
        /\ Cardinality(1..n) = IF 1 > n THEN 0 ELSE n - 1 + 1
    BY <1>3, FS_Interval
  <2> QED BY <1>3, <2>1
<1>5. /\ IsFiniteSet(1..n \ F)
      /\ Cardinality(1..n \ F) = Cardinality(1..n) - Cardinality(1..n \cap F)
  BY <1>4, FS_Difference
<1>6. 1..n \cap F = F
  BY <1>3
<1>7. Cardinality(1..n \ F) <= Cardinality(D)
  BY <1>1, <1>2, <1>3, FS_Subset
<1>8. Cardinality(D) >= n - Cardinality(F)
  BY <1>1, <1>3, <1>4, <1>5, <1>6, <1>7
<1> QED BY <1>1, <1>8 DEF Depth, D, n

\* A count that is reached where the scan for lo stops: as many ranges hold lo,
\* and as many hold hi.
LEMMA FoundEndsHeld ==
  ASSUME NEW s, NEW rs, EdgesOf(s, rs), NEW w \in Nat \ {0}, ReachUp(s, w) # {}
  PROVE  LET lo == LowEdge(s, w).value
             hi == HighEdge(s, w).value
         IN  /\ lo \in Int /\ hi \in Int /\ lo <= hi
             /\ Depth(rs, lo) >= w /\ Depth(rs, hi) >= w
<1>1. /\ s \in Seq(EdgeType) /\ Sorted(s)
      /\ CountIn(s, LowEdges) = CountIn(s, HighEdges)
      /\ \A x \in Int : CountUp(s, x) = Depth(rs, x) /\ CountDown(s, x) = Depth(rs, x)
  BY DEF EdgesOf
<1>2. Even(s)
  BY <1>1, EvenIs
<1>3. PICK j, k \in 1..Len(s) :
        /\ j \in ReachUp(s, w) /\ \A m \in ReachUp(s, w) : j <= m
        /\ k \in ReachDown(s, w) /\ \A m \in ReachDown(s, w) : m <= k
        /\ LowEdge(s, w) = s[j] /\ HighEdge(s, w) = s[k]
        /\ s[j].value <= s[k].value
  BY <1>1, <1>2, StopsAt
<1>4. s[j].value \in Int /\ s[k].value \in Int
  <2>1. s[j] \in EdgeType /\ s[k] \in EdgeType
    BY <1>1
  <2> QED BY <2>1 DEF EdgeType
<1>5. CountUp(s, s[j].value) >= w
  <2>1. ChimeUp(s, j) >= w
    BY <1>3 DEF ReachUp
  <2>2. ASSUME NEW z \in 1..j - 1 PROVE ChimeUp(s, z) < w
    <3>1. z \in 1..Len(s) /\ ~(j <= z)
      BY <1>3
    <3>2. z \notin ReachUp(s, w) /\ z \in DOMAIN s
      BY <1>1, <1>3, <3>1
    <3>3. ChimeUp(s, z) \in Int
      BY <1>1, <3>1, ScanUp
    <3> QED BY <3>2, <3>3 DEF ReachUp
  <2> QED BY <1>1, <2>1, <2>2, FirstReachUp DEF CountUp
<1>6. CountDown(s, s[k].value) >= w
  <2>1. ChimeDown(s, k) >= w
    BY <1>3 DEF ReachDown
  <2>2. ASSUME NEW z \in k + 1..Len(s) PROVE ChimeDown(s, z) < w
    <3>1. z \in 1..Len(s) /\ ~(z <= k)
      BY <1>1, <1>3
    <3>2. z \notin ReachDown(s, w) /\ z \in DOMAIN s
      BY <1>1, <1>3, <3>1
    <3>3. ChimeDown(s, z) \in Int
      BY <1>1, <3>1, ScanDown
    <3> QED BY <3>2, <3>3 DEF ReachDown
  <2> QED BY <1>1, <2>1, <2>2, FirstReachDown DEF CountDown
<1> QED BY <1>1, <1>3, <1>4, <1>5, <1>6

\* A point in w ranges: the scan for lo comes to w.
LEMMA HeldIsReached ==
  ASSUME NEW s, NEW rs, EdgesOf(s, rs), NEW t \in Int, NEW w \in Nat \ {0},
         Depth(rs, t) >= w
  PROVE  ReachUp(s, w) # {}
<1>1. s \in Seq(EdgeType) /\ Sorted(s) /\ CountUp(s, t) >= w
  BY DEF EdgesOf
<1>2. PICK k \in 0..Len(s) : ChimeUp(s, k) = CountUp(s, t)
  BY <1>1, CountAtPoint DEF CountUp
<1>3. k # 0
  <2>1. ChimeUp(s, 0) = 0
    BY <1>1, ScanUp
  <2> QED BY <1>1, <1>2, <2>1
<1>4. k \in DOMAIN s
  BY <1>1, <1>2, <1>3
<1> QED BY <1>1, <1>2, <1>4 DEF ReachUp

\* A round in which at least needed_answers answers are true and fewer are false ends
\* with an adjustment that is no further from what the clock of the device lacks than
\* some range is wide (clusteringAlgorithm.c:109-207, sketch_aug16b.ino:258-315).
THEOREM AdjustmentIsRight == SketchSpec => []AdjustmentRight
<1>1. SketchInv => AdjustmentRight
  <2> DEFINE n == Len(given)
             trues == n - falses
             s == cluster.edges
             t == now - clock
  <2> SUFFICES ASSUME SketchInv, phase = "doit", failures = 0, Ordinary,
                      trues >= Needed, trues > falses
               PROVE  \E u \in Uncertainties : /\ t - 2 * u <= cluster.adjustment
                                               /\ cluster.adjustment <= t + 2 * u
    BY DEF AdjustmentRight, GoodMajority
  <2>1. /\ given \in Seq(Span) /\ n \in Nat /\ falses \in Nat
        /\ Needed \in Nat \ {0} /\ t \in Int
    BY NeededAssumption DEF SketchInv, SketchTypeInv
  <2>2. PICK F \in SUBSET DOMAIN given :
          /\ Cardinality(F) = falses
          /\ \A k \in DOMAIN given \ F : TrueRange(given[k], t)
    BY DEF SketchInv, AnswersInv
  <2>3. EdgesOf(s, given)
    BY DEF SketchInv, EdgesInv
  <2>4. Depth(given, t) >= trues
    BY <2>1, <2>2, TrueRangesMeet
  <2>5. trues \in Needed..n /\ trues \in Nat \ {0} /\ trues \in 1..n
    BY <2>1
  <2> HIDE DEF n, s, t
  <2>6. ReachUp(s, trues) # {}
    BY <2>1, <2>3, <2>4, <2>5, HeldIsReached
  <2> DEFINE R == {m \in 1..n : ReachUp(s, m) # {}}
  <2>7. PICK w \in R : \A m \in R : m <= w
    <3>1. R \in SUBSET (1..n) /\ R # {}
      BY <2>5, <2>6
    <3> HIDE DEF R
    <3> QED BY <2>1, <3>1, LastOf
  <2>8. w \in 1..n /\ ReachUp(s, w) # {} /\ trues <= w
    BY <2>5, <2>6, <2>7
  <2>9. w \in Nat \ {0} /\ w \in Needed..n /\ w > falses
    BY <2>1, <2>5, <2>8
  <2>10. ASSUME NEW m \in w + 1..n PROVE ReachUp(s, m) = {}
    <3>1. m \in 1..n /\ ~(m <= w)
      BY <2>1, <2>8
    <3> QED BY <2>7, <3>1
  <2> DEFINE lo == LowEdge(s, w).value
             hi == HighEdge(s, w).value
  <2>11. cluster.adjustment = Half(lo + hi)
    <3>1. w \in Needed..Len(given) /\ \A m \in w + 1..Len(given) : ReachUp(cluster.edges, m) = {}
      BY <2>9, <2>10 DEF n, s
    <3> QED BY <2>8, <3>1, LargestIsFound DEF s
  <2>12. /\ lo \in Int /\ hi \in Int
         /\ Depth(given, lo) >= w /\ Depth(given, hi) >= w
    BY <2>3, <2>8, <2>9, FoundEndsHeld
  <2> HIDE DEF lo, hi
  <2>13. Depth(given, lo) > Cardinality(F) /\ Depth(given, hi) > Cardinality(F)
    <3>1. ASSUME NEW x PROVE Depth(given, x) \in Nat
      <4> DEFINE D == {z \in DOMAIN given : given[z].lo <= x /\ x <= given[z].hi}
      <4>1. Cardinality(D) \in Nat
        BY <2>1, IndicesFinite
      <4> QED BY <4>1 DEF Depth
    <3> QED BY <2>1, <2>2, <2>9, <2>12, <3>1
  <2>14. PICK u \in Uncertainties : t - 2 * u <= lo /\ lo <= t + 2 * u
    BY <2>1, <2>2, <2>12, <2>13, NearATrueRange
  <2>15. PICK v \in Uncertainties : t - 2 * v <= hi /\ hi <= t + 2 * v
    BY <2>1, <2>2, <2>12, <2>13, NearATrueRange
  <2>16. u \in Nat /\ v \in Nat
    BY AnswerAssumption
  <2>17. PICK x \in {u, v} : u <= x /\ v <= x
    BY <2>16
  <2>18. /\ x \in Uncertainties /\ x \in Nat
         /\ t - 2 * x \in Int /\ t + 2 * x \in Int /\ lo + hi \in Int
         /\ 2 * (t - 2 * x) <= lo + hi /\ lo + hi <= 2 * (t + 2 * x)
    BY <2>1, <2>12, <2>14, <2>15, <2>16, <2>17
  <2>19. t - 2 * x <= Half(lo + hi) /\ Half(lo + hi) <= t + 2 * x
    BY <2>18, HalfBetween
  <2> QED BY <2>11, <2>18, <2>19
<1> QED BY <1>1, SketchInvariance, PTL
=============================================================================
