-------------------------------- MODULE Edges --------------------------------
(***************************************************************************)
(* The sorted list of edges every Python implementation of the overlap     *)
(* algorithm keeps.  A range contributes its low end with chime -1 and its *)
(* high end with chime +1, and list.sort() orders the (value, chime) pairs *)
(* lexicographically: at equal values every low end precedes every high    *)
(* end, so that touching ranges overlap.                                   *)
(***************************************************************************)
EXTENDS Integers, Sequences, FiniteSetsExt

Edge(v, c) == [value |-> v, chime |-> c]

\* Variation: high ends before low ends at equal values.
PrecedesHighFirst(e, f) ==
  \/ e.value < f.value
  \/ e.value = f.value /\ e.chime >= f.chime

\* Python's order of the pairs (value, chime).
Precedes(e, f) ==
  \/ e.value < f.value
  \/ e.value = f.value /\ e.chime <= f.chime

\* Where e belongs in the sorted list s: behind everything that precedes it.
Places(s, e) ==
  {p \in 1..Len(s) + 1 : /\ \A i \in 1..p - 1 : Precedes(s[i], e)
                         /\ \A i \in p..Len(s) : ~Precedes(s[i], e)}

PutAt(s, p, e) == SubSeq(s, 1, p - 1) \o <<e>> \o SubSeq(s, p, Len(s))

Insert(s, e) == PutAt(s, CHOOSE p \in Places(s, e) : TRUE, e)

\* append, append, sort
AddRange(s, l, h) == Insert(Insert(s, Edge(l, -1)), Edge(h, 1))

-----------------------------------------------------------------------------
Lows(s, I)  == {i \in I : s[i].chime = -1}
Highs(s, I) == {i \in I : s[i].chime = 1}

\* chime after the first k edges of the upward scan, and after the edges from
\* k to the end of the downward scan.
ChimeUp(s, k)   == Cardinality(Lows(s, 1..k)) - Cardinality(Highs(s, 1..k))
ChimeDown(s, k) == Cardinality(Highs(s, k..Len(s))) - Cardinality(Lows(s, k..Len(s)))

\* Variation: the upward scan stops one overlap early.
ReachUpEarly(s, w) == {k \in DOMAIN s : ChimeUp(s, k) >= w - 1}

ReachUp(s, w)   == {k \in DOMAIN s : ChimeUp(s, k) >= w}
ReachDown(s, w) == {k \in DOMAIN s : ChimeDown(s, k) >= w}

\* Where each of the two scans stops.
LowEdge(s, w)  == s[Min(ReachUp(s, w))]
HighEdge(s, w) == s[Max(ReachDown(s, w))]

\* Both scans stop at an edge and the two edges are the ends of a range.
Agreed(s, w) ==
  /\ ReachUp(s, w) # {}
  /\ ReachDown(s, w) # {}
  /\ LowEdge(s, w).value <= HighEdge(s, w).value

\* What a search downwards from w ends with: the first count the scans agree
\* on, or 0 when they never do.
FirstAgreed(s, w) ==
  LET W == {n \in 1..w : Agreed(s, n)}
  IN  IF W = {} THEN 0 ELSE Max(W)
=============================================================================
