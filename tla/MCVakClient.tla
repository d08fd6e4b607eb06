----------------------------- MODULE MCVakClient -----------------------------
(* Low ends 1, 4, 7, 10 and high ends 3, 6, 9, 12: nested, overlapping and   *)
(* disjoint ranges, those of width 2 and 5 narrow enough, the others not.    *)
EXTENDS VakClient
=============================================================================
