----------------------------- MODULE Clustering -----------------------------
(***************************************************************************)
(* examples/esp32/roughtime/clusteringAlgorithm.c: the overlap algorithm   *)
(* of the ESP32 sketch, a port of its own.                                 *)
(*                                                                         *)
(* The doubly linked list of edges is kept as a sequence: sortedInsert and *)
(* free_tree are its only writers and change it in one piece.  insertEdge  *)
(* has no return statement; what its caller compares to -1 is what is left *)
(* of sortedInsert, and never -1.                                          *)
(***************************************************************************)
EXTENDS Edges

\* Variation of SortedInsert: compared with the first edge only.
SortedInsertHead(edges, e) ==
  PutAt(edges, IF edges # <<>> /\ edges[1].value < e.value THEN Len(edges) + 1 ELSE 1, e)

\* sortedInsert: in front of the first edge whose value is not smaller.
SortedInsert(edges, e) ==
  LET p == CHOOSE p \in 1..(Len(edges) + 1) :
             /\ \A i \in 1..(p - 1)      : edges[i].value < e.value
             /\ \A i \in p..Len(edges)   : edges[i].value >= e.value
  IN  PutAt(edges, p, e)

\* createClusterData
NewCluster ==
  [edges |-> <<>>, responses |-> 0, wanted |-> 0, lo |-> 0, hi |-> 0,
   adjustment |-> 0, uncertainty |-> 0]

-----------------------------------------------------------------------------
(* The scans.  The one for lo ends before the last edge, the one for hi    *)
(* before the first; a scan that finds nothing leaves lo or hi alone.      *)

LowReached(edges, wanted) ==
  {k \in 1..(Len(edges) - 1) : ChimeUp(edges, k) >= wanted}

\* Variation of HighReached: counted from the low end.
HighReachedUp(edges, wanted) ==
  {k \in 2..Len(edges) : ChimeUp(edges, k) >= wanted}

HighReached(edges, wanted) ==
  {k \in 2..Len(edges) : ChimeDown(edges, k) >= wanted}

ScanLow(edges, wanted, lo) ==
  LET K == LowReached(edges, wanted)
  IN  IF K = {} THEN lo ELSE edges[CHOOSE k \in K : \A m \in K : k <= m].value

ScanHigh(edges, wanted, hi) ==
  LET K == HighReached(edges, wanted)
  IN  IF K = {} THEN hi ELSE edges[CHOOSE k \in K : \A m \in K : m <= k].value

\* Zero stands for a value that was not found.
Found(s) == s.lo # 0 /\ s.hi # 0 /\ s.lo <= s.hi

\* The loop of find_overlap, for wanted = responses down to n.
Search(edges, responses, n) ==
  LET state[i \in 0..(responses - n)] ==
        LET before == IF i = 0 THEN [lo |-> 0, hi |-> 0, wanted |-> 0] ELSE state[i - 1]
            wanted == responses - i
        IN  IF i > 0 /\ Found(before) THEN before
            ELSE [lo     |-> ScanLow(edges, wanted, before.lo),
                  hi     |-> ScanHigh(edges, wanted, before.hi),
                  wanted |-> wanted]
  IN  state[responses - n]

\* Half of a sum, rounded towards zero, as set_time rounds it again to seconds.
Half(x) == IF x >= 0 THEN x \div 2 ELSE -((-x) \div 2)

\* find_overlap.  leftFails and rightFails: the calloc for that edge fails; for
\* the right edge this goes unnoticed, as !insertEdge(...) is never -1.
FindOverlap(c, n, low, high, leftFails, rightFails) ==
  LET responses == c.responses + 1
      one == IF leftFails  THEN c.edges ELSE SortedInsert(c.edges, Edge(low, -1))
      two == IF rightFails THEN one     ELSE SortedInsert(one, Edge(high, 1))
      s   == Search(two, responses, n)
  IN  CASE leftFails -> [c EXCEPT !.responses = responses]
        [] ~leftFails /\ responses < n -> [c EXCEPT !.responses = responses, !.edges = two]
        [] ~leftFails /\ responses >= n ->
             [edges |-> two, responses |-> responses, wanted |-> s.wanted,
              lo |-> s.lo, hi |-> s.hi,
              adjustment |-> Half(s.lo + s.hi), uncertainty |-> Half(s.hi - s.lo)]
=============================================================================
