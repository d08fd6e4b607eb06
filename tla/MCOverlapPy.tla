----------------------------- MODULE MCOverlapPy -----------------------------
(* Every sequence of up to MaxRanges ranges over a few end points: nested,  *)
(* touching, equal, disjoint and zero-width ranges all occur.               *)
EXTENDS OverlapPy
=============================================================================
