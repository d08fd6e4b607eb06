------------------------------ MODULE OverlapPy ------------------------------
(***************************************************************************)
(* OverlapAlgorithm of examples/python/overlap.py, one action per method   *)
(* entry and one per iteration of its loops.  The object keeps the number  *)
(* of overlaps it still hopes for between calls (_wanted): find lowers it  *)
(* until two scans of the edges agree, add raises it by one, and nothing   *)
(* ever recomputes it from the number of ranges.                           *)
(***************************************************************************)
EXTENDS Ranges, Edges

VARIABLES
  edges,   \* _edges
  wanted,  \* _wanted
  pc,      \* where find is: "idle", "low" scan, "high" scan, "test"
  pos,     \* the edge the running scan looks at next
  chime,   \* local variable of find
  lo, hi,  \* local variables of find
  answer,  \* what the last find returned
  ranges   \* the ranges accepted by add: what the answers are judged by

locals == <<pos, chime, lo, hi>>
vars   == <<edges, wanted, pc, locals, answer, ranges>>

-----------------------------------------------------------------------------
Init ==
  /\ edges = <<>>
  /\ wanted = 0
  /\ pc = "idle"
  /\ pos = 0 /\ chime = 0
  /\ lo = None /\ hi = None
  /\ answer = NoOverlap
  /\ ranges = <<>>

\* add; a range with lo > hi raises ValueError before anything is changed.
Add(l, h) ==
  /\ pc = "idle"
  /\ Len(ranges) < MaxRanges
  /\ l <= h
  /\ edges' = AddRange(edges, l, h)
  /\ wanted' = wanted + 1
  /\ ranges' = Append(ranges, [lo |-> l, hi |-> h])
  /\ UNCHANGED <<pc, locals, answer>>

\* Variation: no early return, so that _wanted is lowered once more.
FindNothingLowers ==
  /\ pc = "idle"
  /\ wanted = 0
  /\ answer' = NoOverlap
  /\ wanted' = wanted - 1
  /\ UNCHANGED <<edges, pc, locals, ranges>>

\* find on an object without ranges returns at once.
FindNothing ==
  /\ pc = "idle"
  /\ wanted = 0
  /\ answer' = NoOverlap
  /\ UNCHANGED <<edges, wanted, pc, locals, ranges>>

StartLowScan ==
  /\ pc' = "low"
  /\ pos' = 1 /\ chime' = 0
  /\ lo' = None /\ UNCHANGED hi

\* Variation: chime is not reset between the scans.
StartHighScanCounting ==
  /\ pc' = "high"
  /\ pos' = Len(edges) /\ chime' = chime
  /\ hi' = None

StartHighScan ==
  /\ pc' = "high"
  /\ pos' = Len(edges) /\ chime' = 0
  /\ hi' = None

FindStart ==
  /\ pc = "idle"
  /\ wanted > 0
  /\ StartLowScan
  /\ UNCHANGED <<edges, wanted, answer, ranges>>

\* One iteration of the upward scan that does not reach the wanted count.
LowStep ==
  /\ pc = "low"
  /\ pos <= Len(edges)
  /\ chime - edges[pos].chime < wanted
  /\ chime' = chime - edges[pos].chime
  /\ pos' = pos + 1
  /\ UNCHANGED <<edges, wanted, pc, lo, hi, answer, ranges>>

LowFound ==
  /\ pc = "low"
  /\ pos <= Len(edges)
  /\ chime - edges[pos].chime >= wanted
  /\ lo' = edges[pos].value
  /\ StartHighScan
  /\ UNCHANGED <<edges, wanted, answer, ranges>>

LowExhausted ==
  /\ pc = "low"
  /\ pos > Len(edges)
  /\ StartHighScan
  /\ UNCHANGED <<edges, wanted, lo, answer, ranges>>

HighStep ==
  /\ pc = "high"
  /\ pos >= 1
  /\ chime + edges[pos].chime < wanted
  /\ chime' = chime + edges[pos].chime
  /\ pos' = pos - 1
  /\ UNCHANGED <<edges, wanted, pc, lo, hi, answer, ranges>>

HighFound ==
  /\ pc = "high"
  /\ pos >= 1
  /\ chime + edges[pos].chime >= wanted
  /\ hi' = edges[pos].value
  /\ pc' = "test"
  /\ UNCHANGED <<edges, wanted, pos, chime, lo, answer, ranges>>

HighExhausted ==
  /\ pc = "high"
  /\ pos < 1
  /\ pc' = "test"
  /\ UNCHANGED <<edges, wanted, locals, answer, ranges>>

\* Variation: an overlap of no width does not count.
ConsistentOpen == lo # None /\ hi # None /\ lo < hi

Consistent == lo # None /\ hi # None /\ lo <= hi

\* The two scans agree, or the last candidate has been given up.
Return ==
  /\ pc = "test"
  /\ Consistent \/ wanted = 1
  /\ wanted' = IF Consistent THEN wanted ELSE wanted - 1
  /\ answer' = [count |-> wanted', lo |-> lo, hi |-> hi]
  /\ pc' = "idle"
  /\ UNCHANGED <<edges, locals, ranges>>

\* Variation: _wanted is not lowered.
RetrySame ==
  /\ pc = "test"
  /\ ~Consistent
  /\ wanted > 1
  /\ wanted' = wanted
  /\ StartLowScan
  /\ UNCHANGED <<edges, answer, ranges>>

Retry ==
  /\ pc = "test"
  /\ ~Consistent
  /\ wanted > 1
  /\ wanted' = wanted - 1
  /\ StartLowScan
  /\ UNCHANGED <<edges, answer, ranges>>

FindStep ==
  \/ LowStep \/ LowFound \/ LowExhausted
  \/ HighStep \/ HighFound \/ HighExhausted
  \/ Return \/ Retry

Next ==
  \/ \E l, h \in Value : Add(l, h)
  \/ FindNothing
  \/ FindStart
  \/ FindStep

Spec == Init /\ [][Next]_vars

\* A call that was made runs to its end: the program is sequential.
FairSpec == Spec /\ WF_vars(FindStep)

-----------------------------------------------------------------------------
(* Properties *)

\* Every variable holds a value of its type.
TypeOK ==
  /\ edges \in Seq([value : Value, chime : {-1, 1}])
  /\ wanted \in Nat
  /\ pc \in {"idle", "low", "high", "test"}
  /\ pos \in 0..Len(edges) + 1
  /\ chime \in Int
  /\ lo \in Value \cup {None}
  /\ hi \in Value \cup {None}
  /\ answer \in Answers
  /\ ranges \in Seq(Interval)

\* _wanted never drops below the true number of overlaps, although find
\* lowers it and add raises it only by one: one more range never adds more
\* than one overlap, so the search that resumes at _wanted misses nothing
\* (overlap.py:94, 131).
WantedIsUpperBound == wanted <= Len(ranges) /\ \A x \in Value : Depth(ranges, x) <= wanted

\* A scan has counted exactly the edges behind it and did not run past an
\* edge where the wanted count was already reached (overlap.py:114-118, 122-126).
ScanCounts ==
  /\ pc = "low" =>
       /\ chime = ChimeUp(edges, pos - 1)
       /\ \A k \in 1..pos - 1 : ChimeUp(edges, k) < wanted
  /\ pc = "high" =>
       /\ chime = ChimeDown(edges, pos + 1)
       /\ \A k \in pos + 1..Len(edges) : ChimeDown(edges, k) < wanted

\* Every find is the abstract one: its answer is a function of the accepted
\* ranges, whatever was asked or refused before (test_overlap.py:46-57).
Abstract == INSTANCE Overlap
Refines  == Abstract!Spec

\* Every find returns.
FindReturns == pc # "idle" ~> pc = "idle"
=============================================================================
