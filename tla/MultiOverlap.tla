---------------------------- MODULE MultiOverlap -----------------------------
(***************************************************************************)
(* MultiOverlapAlgorithm of examples/python/overlap_multi.py, as            *)
(* test_overlap.py runs it: the incremental algorithm of overlap.py and    *)
(* the reference algorithm of overlap_ref.py get the same calls, and every *)
(* result is asserted to be the same.  The two differ in where a find      *)
(* starts: the incremental one at the count the last find left, the        *)
(* reference one at the number of ranges.                                  *)
(***************************************************************************)
EXTENDS Ranges, Edges

VARIABLES
  edges,      \* _edges of the incremental algorithm
  wanted,     \* its _wanted
  refEdges,   \* _edges of the reference algorithm
  responses,  \* its _responses
  results,    \* what each returned from the last call, by algorithm
  ranges      \* the ranges both accepted

vars == <<edges, wanted, refEdges, responses, results, ranges>>

ValueError == "ValueError"

Both(o, r) == [incremental |-> o, reference |-> r]

Init ==
  /\ edges = <<>> /\ wanted = 0
  /\ refEdges = <<>> /\ responses = 0
  /\ results = Both(None, None)
  /\ ranges = <<>>

\* Each algorithm refuses a range with lo > hi for itself.
AddRefused(l, h) ==
  /\ l > h
  /\ results' = Both(ValueError, ValueError)
  /\ UNCHANGED <<edges, wanted, refEdges, responses, ranges>>

Add(l, h) ==
  /\ l <= h
  /\ Len(ranges) < MaxRanges
  /\ edges' = AddRange(edges, l, h)
  /\ wanted' = wanted + 1
  /\ refEdges' = AddRange(refEdges, l, h)
  /\ responses' = responses + 1
  /\ results' = Both(None, None)
  /\ ranges' = Append(ranges, [lo |-> l, hi |-> h])

\* Where the two scans of s stop for the count n.
ScansAt(s, n) ==
  [count |-> n,
   lo |-> IF ReachUp(s, n) = {} THEN None ELSE LowEdge(s, n).value,
   hi |-> IF ReachDown(s, n) = {} THEN None ELSE HighEdge(s, n).value]

\* find of the reference algorithm stops at the first count, from the number
\* of ranges down to 1, for which both scans stop; the last one if none does.
RefFind(s, n) ==
  LET stop == {k \in 1..n : k = 1 \/ (ReachUp(s, k) # {} /\ ReachDown(s, k) # {})}
  IN  IF n = 0 THEN NoOverlap ELSE ScansAt(s, CHOOSE k \in stop : \A m \in stop : m <= k)

\* find of the incremental algorithm keeps the count it stops at.
IncrementalFind(s, n) ==
  IF n = 0 THEN NoOverlap ELSE [ScansAt(s, IF FirstAgreed(s, n) = 0 THEN 1 ELSE FirstAgreed(s, n))
                                  EXCEPT !.count = FirstAgreed(s, n)]

\* Variation: find lowers the count once more before it returns.
FindLowersTwice ==
  /\ results' = Both(IncrementalFind(edges, wanted), RefFind(refEdges, responses))
  /\ wanted' = IF wanted = 0 THEN 0 ELSE FirstAgreed(edges, wanted) - 1
  /\ UNCHANGED <<edges, refEdges, responses, ranges>>

Find ==
  /\ results' = Both(IncrementalFind(edges, wanted), RefFind(refEdges, responses))
  /\ wanted' = FirstAgreed(edges, wanted)
  /\ UNCHANGED <<edges, refEdges, responses, ranges>>

Next ==
  \/ \E l, h \in Value : AddRefused(l, h) \/ Add(l, h)
  \/ Find

Spec == Init /\ [][Next]_vars

-----------------------------------------------------------------------------
(* Properties *)

\* The assertions of overlap_multi.py:19 and 30-32: exceptions and results
\* are the same, whatever finds came before and wherever a refused range fell.
Agree == results.incremental = results.reference

=============================================================================
