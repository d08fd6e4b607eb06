-------------------------------- MODULE Ranges --------------------------------
(***************************************************************************)
(* Closed ranges of adjustments and how many of them share a point: the    *)
(* mathematics the overlap algorithms are judged by.                       *)
(***************************************************************************)
EXTENDS Integers, Sequences, FiniteSets

CONSTANTS
  Value,      \* the end points a range may have
  MaxRanges,  \* bound on the number of ranges a caller adds
  None        \* "no value", Python's None

ASSUME ValueAssumption == Value \subseteq Int /\ IsFiniteSet(Value)
ASSUME MaxRangesAssumption == MaxRanges \in Nat
ASSUME NoneAssumption == None \notin Int

Interval == [lo : Value, hi : Value]

\* The number of ranges of rs that contain x; both end points belong to a range.
Depth(rs, x) == Cardinality({i \in DOMAIN rs : rs[i].lo <= x /\ x <= rs[i].hi})

\* The points contained in at least n ranges.
Shared(rs, n) == {x \in Value : Depth(rs, x) >= n}

\* n is the largest number of ranges of rs that have a point in common.
IsMaxDepth(rs, n) ==
  /\ \A x \in Value : Depth(rs, x) <= n
  /\ n = 0 \/ Shared(rs, n) # {}

MaxDepth(rs) == CHOOSE n \in 0..Len(rs) : IsMaxDepth(rs, n)

Lowest(S)  == CHOOSE x \in S : \A y \in S : x <= y
Highest(S) == CHOOSE x \in S : \A y \in S : y <= x

NoOverlap == [count |-> 0, lo |-> None, hi |-> None]

\* The deepest overlap and the outermost points that reach it.
Best(rs) ==
  LET n == MaxDepth(rs)
  IN  IF n = 0 THEN NoOverlap
      ELSE [count |-> n, lo |-> Lowest(Shared(rs, n)), hi |-> Highest(Shared(rs, n))]

Answers == [count : Nat, lo : Value \cup {None}, hi : Value \cup {None}]
=============================================================================
