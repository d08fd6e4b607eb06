----------------------------- MODULE MCOverlapC ------------------------------
(* Small lists of edges: every order of insertion, every failing allocation *)
(* up to MaxFailures, queries and deletion at any time.                     *)
EXTENDS OverlapC
=============================================================================
