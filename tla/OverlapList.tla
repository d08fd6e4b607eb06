----------------------------- MODULE OverlapList -----------------------------
(***************************************************************************)
(* The C overlap algorithm without its heap: overlap_add and overlap_find  *)
(* as single steps on a sequence of edges.  OverlapC, pointer by pointer,  *)
(* implements this module; VakClient calls the algorithm through the same  *)
(* operators.                                                              *)
(***************************************************************************)
EXTENDS EdgesC

CONSTANTS Value, None

VARIABLES
  edges,   \* the values and chimes along the list
  wanted,  \* _wanted
  out      \* what the last overlap_find returned and left in *lo and *hi

vars == <<edges, wanted, out>>

Init ==
  /\ edges = <<>>
  /\ wanted = 0
  /\ out = [count |-> 0, lo |-> None, hi |-> None]

Add(l, h, kept) ==
  /\ l <= h
  /\ wanted' = (wanted + 1) % UIntMod
  /\ edges' = AddEdges(edges, l, h, kept)
  /\ UNCHANGED out

\* *lo and *hi are written only when something was found.
Find ==
  LET n == FoundCount(edges, wanted)
  IN  /\ wanted' = n
      /\ out' = IF n = 0 THEN [out EXCEPT !.count = 0]
                ELSE [count |-> n, lo |-> FoundLo(edges, n), hi |-> FoundHi(edges, n)]
      /\ UNCHANGED edges

\* overlap_del, then overlap_new for a caller with variables of its own
Renew ==
  /\ edges' = <<>>
  /\ wanted' = 0
  /\ out' = [count |-> 0, lo |-> None, hi |-> None]

Next ==
  \/ \E l, h \in Value, kept \in SUBSET {"lo", "hi"} : Add(l, h, kept)
  \/ Find
  \/ Renew

Spec == Init /\ [][Next]_vars
=============================================================================
