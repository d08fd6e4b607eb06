------------------------------- MODULE EdgesC --------------------------------
(***************************************************************************)
(* The edge list of examples/C/overlap_algo.c as a sequence, and what      *)
(* overlap_add and overlap_find make of it when seen as single steps.  The *)
(* scans count as those of Edges do, but chime, an int, is compared with   *)
(* _wanted, an unsigned.                                                   *)
(***************************************************************************)
EXTENDS Edges

CONSTANT UIntMod  \* 2^width of unsigned

\* The search of overlap_insert stops at the first edge that is not lower.
InsertBefore(s, e) ==
  PutAt(s, 1 + Cardinality({i \in DOMAIN s : \A k \in 1..i : s[k].value < e.value}), e)

\* overlap_add when the allocations of the edges in "kept" succeed: a failed
\* one leaves its edge out and is not reported.
AddEdges(s, l, h, kept) ==
  LET t == IF "lo" \in kept THEN InsertBefore(s, Edge(l, -1)) ELSE s
  IN  IF "hi" \in kept THEN InsertBefore(t, Edge(h, 1)) ELSE t

-----------------------------------------------------------------------------
\* Variation: the count is reached one edge too early.
ReachedEarly(c, w) == ((c + 1) % UIntMod) >= w

\* chime >= _wanted converts chime to unsigned.
Reached(c, w) == (c % UIntMod) >= w

ReachedUp(s, w)   == {k \in DOMAIN s : Reached(ChimeUp(s, k), w)}
ReachedDown(s, w) == {k \in DOMAIN s : Reached(ChimeDown(s, k), w)}

\* The count overlap_find stops at when _wanted is w; it stays in _wanted.
FoundCount(s, w) ==
  LET W == {n \in 1..w : ReachedUp(s, n) # {} /\ ReachedDown(s, n) # {}}
  IN  IF W = {} THEN 0 ELSE CHOOSE n \in W : \A m \in W : m <= n

FoundLo(s, n) == s[CHOOSE k \in ReachedUp(s, n) : \A m \in ReachedUp(s, n) : k <= m].value
FoundHi(s, n) == s[CHOOSE k \in ReachedDown(s, n) : \A m \in ReachedDown(s, n) : m <= k].value
=============================================================================
