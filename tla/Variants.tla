------------------------------- MODULE Variants -------------------------------
(***************************************************************************)
(* The implementations of the overlap algorithm in Python and MicroPython  *)
(* side by side: both get the same ranges.  The Python classes refuse a    *)
(* range with lo > hi and search when find is called; the MicroPython      *)
(* classes take every range and search at once.                            *)
(***************************************************************************)
EXTENDS Ranges

VARIABLES
  pyEdges, pyWanted, refEdges, refResponses, pyResults, pyRanges,
  mpEdges, mpResponses, mpWanted, mpPlain, mpOptimized, mpRanges

python      == <<pyEdges, pyWanted, refEdges, refResponses, pyResults, pyRanges>>
micropython == <<mpEdges, mpResponses, mpWanted, mpPlain, mpOptimized, mpRanges>>
vars        == <<python, micropython>>

Python == INSTANCE MultiOverlap WITH
            edges <- pyEdges, wanted <- pyWanted, responses <- refResponses,
            results <- pyResults, ranges <- pyRanges
MicroPython == INSTANCE MicroOverlap WITH
            edges <- mpEdges, responses <- mpResponses, wanted <- mpWanted,
            plain <- mpPlain, optimized <- mpOptimized, ranges <- mpRanges

Init == Python!Init /\ MicroPython!Init

Take(l, h)   == Python!Add(l, h) /\ MicroPython!Handle(l, h)
Refuse(l, h) == Python!AddRefused(l, h) /\ MicroPython!Handle(l, h)
Find         == Python!Find /\ UNCHANGED micropython

Next ==
  \/ \E l, h \in Value : Take(l, h) \/ Refuse(l, h)
  \/ Find

Spec == Init /\ [][Next]_vars

-----------------------------------------------------------------------------
(* Properties *)

\* The assertions of overlap_multi.py:19 and 30-32 hold: the incremental and
\* the reference algorithm return the same, wherever finds and refused ranges fell.
Agree == Python!Agree

\* Both MicroPython algorithms return the same from every handle, for ranges
\* in the wrong order too (micropython overlap.py:58-60, 119-123).
SameResult == MicroPython!SameResult

\* "It is the same as in ../examples/overlap.py" (micropython README.md:20-21):
\* as long as the Python class refused none of the ranges, its find would answer
\* what the last handle did.
SameAsPython ==
  pyRanges = mpRanges =>
    Python!IncrementalFind(pyEdges, pyWanted) = mpOptimized
=============================================================================
