---------------------------- MODULE MicroOverlap -----------------------------
(***************************************************************************)
(* The two overlap algorithms of examples/micropython-esp32-ttgo/overlap.py,*)
(* driven in lockstep as the test in that file does.  handle adds a range  *)
(* and searches in one call, keeps the ends of the last overlap in the     *)
(* object, and, unlike the Python class, takes a range with lo > hi: the   *)
(* client produces one when its clock is set back during a query.          *)
(***************************************************************************)
EXTENDS Ranges, Edges

VARIABLES
  edges,      \* _edges, the same list in both objects
  responses,  \* _responses of OverlapAlgorithm
  wanted,     \* _wanted of OptimizedOverlapAlgorithm
  plain,      \* last result of OverlapAlgorithm with its .lo and .hi
  optimized,  \* the same of OptimizedOverlapAlgorithm
  ranges      \* every range handled

vars == <<edges, responses, wanted, plain, optimized, ranges>>

Init ==
  /\ edges = <<>>
  /\ responses = 0
  /\ wanted = 0
  /\ plain = NoOverlap /\ optimized = NoOverlap
  /\ ranges = <<>>

\* Variation: both ends are taken from the upward scan.
ResultOneSided(last, s, n) ==
  IF n = 0 THEN [last EXCEPT !.count = 0]
  ELSE [count |-> n, lo |-> LowEdge(s, n).value, hi |-> LowEdge(s, n).value]

\* A search that ends with the count n sets .lo and .hi; one that fails leaves
\* those of the call before.
Result(last, s, n) ==
  IF n = 0 THEN [last EXCEPT !.count = 0]
  ELSE [count |-> n, lo |-> LowEdge(s, n).value, hi |-> HighEdge(s, n).value]

\* Variation: the optimized search starts at its last count.
HandleWithoutHope(l, h) ==
  /\ Len(ranges) < MaxRanges
  /\ edges' = AddRange(edges, l, h)
  /\ responses' = responses + 1
  /\ plain' = Result(plain, edges', FirstAgreed(edges', responses'))
  /\ wanted' = FirstAgreed(edges', IF wanted = 0 THEN 1 ELSE wanted)
  /\ optimized' = Result(optimized, edges', wanted')
  /\ ranges' = Append(ranges, [lo |-> l, hi |-> h])

\* Variation: a search that fails at the hoped-for count gives up.
HandleOnce(l, h) ==
  /\ Len(ranges) < MaxRanges
  /\ edges' = AddRange(edges, l, h)
  /\ responses' = responses + 1
  /\ plain' = Result(plain, edges', FirstAgreed(edges', responses'))
  /\ wanted' = IF Agreed(edges', wanted + 1) THEN wanted + 1 ELSE 0
  /\ optimized' = Result(optimized, edges', wanted')
  /\ ranges' = Append(ranges, [lo |-> l, hi |-> h])

Handle(l, h) ==
  /\ Len(ranges) < MaxRanges
  /\ edges' = AddRange(edges, l, h)
  /\ responses' = responses + 1
  /\ plain' = Result(plain, edges', FirstAgreed(edges', responses'))
  /\ wanted' = FirstAgreed(edges', wanted + 1)
  /\ optimized' = Result(optimized, edges', wanted')
  /\ ranges' = Append(ranges, [lo |-> l, hi |-> h])

Next == \E l, h \in Value : Handle(l, h)

Spec == Init /\ [][Next]_vars

-----------------------------------------------------------------------------
(* Properties *)

Ordered == \A i \in DOMAIN ranges : ranges[i].lo <= ranges[i].hi

\* The optimized search, which starts one above its last count, ends where the
\* search from the number of responses ends (micropython overlap.py:58-60,
\* 119-123), for ranges in the wrong order too.
SameResult == plain = optimized

=============================================================================
