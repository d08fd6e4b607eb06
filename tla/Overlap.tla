------------------------------- MODULE Overlap -------------------------------
(***************************************************************************)
(* What an overlap algorithm promises, whatever its implementation: ranges *)
(* are added one by one, and a caller may ask at any time for the largest  *)
(* number of ranges that have a point in common, together with the lowest  *)
(* and the highest point that many ranges share.  The answer depends on    *)
(* the ranges alone, not on their order or on the questions asked before.  *)
(***************************************************************************)
EXTENDS Ranges

VARIABLES
  ranges,     \* every range added so far, in the order of the calls
  answer      \* what the last call to find returned

vars == <<ranges, answer>>

Init ==
  /\ ranges = <<>>
  /\ answer = NoOverlap

\* A range whose ends are in the wrong order is refused and changes nothing.
Add(l, h) ==
  /\ Len(ranges) < MaxRanges
  /\ l <= h
  /\ ranges' = Append(ranges, [lo |-> l, hi |-> h])
  /\ UNCHANGED answer

Find ==
  /\ answer' = Best(ranges)
  /\ UNCHANGED ranges

Next ==
  \/ \E l, h \in Value : Add(l, h)
  \/ Find

Spec == Init /\ [][Next]_vars
=============================================================================
