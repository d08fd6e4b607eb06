---------------------------- MODULE Edges_proofs ----------------------------
(***************************************************************************)
(* What holds of a sorted list of edges, however long it is: an edge put   *)
(* in its place keeps it sorted and is counted once, a scan counts edge by *)
(* edge, and for every point one of the counts of each scan is the number  *)
(* of ranges around it.                                                    *)
(***************************************************************************)
EXTENDS Ranges, EdgesC, FiniteSetTheorems, WellFoundedInduction, TLAPS

\* The edges of ranges between whole numbers.
EdgeType == [value : Int, chime : {-1, 1}]

\* The edges of the ranges a caller may add.
EdgeOfValue == [value : Value, chime : {-1, 1}]

\* Every edge precedes those behind it.
Sorted(s) == \A i, j \in DOMAIN s : i < j => Precedes(s[i], s[j])

\* How many elements of s are in S.
IndicesIn(s, S) == {i \in DOMAIN s : s[i] \in S}
CountIn(s, S)   == Cardinality(IndicesIn(s, S))

\* The edges of the upward scan that lie before point x or open a range at it,
\* and those of the downward scan that lie behind it or close a range at it.
UpTo(x) == {e \in EdgeType : e.value < x \/ (e.value = x /\ e.chime = -1)}
From(x) == {e \in EdgeType : e.value > x \/ (e.value = x /\ e.chime = 1)}

LowEdges  == {e \in EdgeType : e.chime = -1}
HighEdges == {e \in EdgeType : e.chime = 1}

\* At every point the edges of each scan come to the number D has for the point.
Counts(s, D) ==
  \A x \in Value :
    /\ CountIn(s, UpTo(x) \cap LowEdges) - CountIn(s, UpTo(x) \cap HighEdges) = D[x]
    /\ CountIn(s, From(x) \cap HighEdges) - CountIn(s, From(x) \cap LowEdges) = D[x]

\* That number is how many ranges are around the point.
CountsRanges(s, rs) ==
  \A x \in Value :
    /\ CountIn(s, UpTo(x) \cap LowEdges) - CountIn(s, UpTo(x) \cap HighEdges) = Depth(rs, x)
    /\ CountIn(s, From(x) \cap HighEdges) - CountIn(s, From(x) \cap LowEdges) = Depth(rs, x)

-----------------------------------------------------------------------------
(* Insertion *)

\* The first element of a set of natural numbers.
LEMMA FirstOf ==
  ASSUME NEW S \in SUBSET Nat, S # {}
  PROVE  \E x \in S : \A y \in S : x <= y
<1>1. PICK x \in S : \A y \in S : ~(<<y, x>> \in OpToRel(<, Nat))
  BY NatLessThanWellFounded, WFMin, Zenon
<1>2. \A y \in S : x <= y
  <2> SUFFICES ASSUME NEW y \in S PROVE x <= y
    OBVIOUS
  <2>1. ~(y < x)
    BY <1>1 DEF OpToRel
  <2> QED
    BY <2>1
<1> QED
  BY <1>2

\* The last element of a set of indices.
LEMMA LastOf ==
  ASSUME NEW n \in Nat, NEW S \in SUBSET (1..n), S # {}
  PROVE  \E x \in S : \A y \in S : y <= x
<1> DEFINE T == {m \in Nat : \A y \in S : y <= m}
<1>1. T \in SUBSET Nat /\ n \in T
  OBVIOUS
<1>2. PICK m \in T : \A k \in T : m <= k
  <2> HIDE DEF T
  <2> QED BY <1>1, FirstOf
<1>3. m \in S
  <2> SUFFICES ASSUME m \notin S PROVE FALSE
    OBVIOUS
  <2>0. PICK y \in S : TRUE
    OBVIOUS
  <2>1. m # 0
    BY <1>2, <2>0
  <2>2. m - 1 \in T
    BY <1>2, <2>1
  <2> QED
    BY <1>2, <2>2
<1> QED
  BY <1>2, <1>3

\* The sequence with e put in at place p.
LEMMA PutAtShape ==
  ASSUME NEW E, NEW s \in Seq(E), NEW e \in E, NEW p \in 1..Len(s) + 1
  PROVE  /\ PutAt(s, p, e) \in Seq(E) /\ Len(PutAt(s, p, e)) = Len(s) + 1
         /\ \A i \in 1..Len(s) + 1 :
              PutAt(s, p, e)[i] = IF i < p THEN s[i] ELSE IF i = p THEN e ELSE s[i - 1]
<1> DEFINE a == SubSeq(s, 1, p - 1)
           b == SubSeq(s, p, Len(s))
           c == a \o <<e>>
<1>1. a \in Seq(E) /\ Len(a) = p - 1 /\ \A i \in 1..p - 1 : a[i] = s[i]
  OBVIOUS
<1>2. /\ b \in Seq(E) /\ Len(b) = Len(s) - p + 1
      /\ \A i \in 1..Len(s) - p + 1 : b[i] = s[p + i - 1]
  OBVIOUS
<1> HIDE DEF a, b
<1>3. c \in Seq(E) /\ Len(c) = p /\ \A i \in 1..p : c[i] = IF i < p THEN s[i] ELSE e
  BY <1>1
<1> HIDE DEF c
<1>4. /\ c \o b \in Seq(E) /\ Len(c \o b) = Len(s) + 1
      /\ \A i \in 1..p : (c \o b)[i] = c[i]
      /\ \A i \in p + 1..Len(s) + 1 : (c \o b)[i] = b[i - p]
  BY <1>2, <1>3
<1>5. PutAt(s, p, e) = c \o b
  BY DEF PutAt, a, b, c
<1>6. \A i \in p + 1..Len(s) + 1 : b[i - p] = s[i - 1]
  BY <1>2
<1> DEFINE t == c \o b
<1>7. \A i \in 1..Len(s) + 1 : t[i] = IF i < p THEN s[i] ELSE IF i = p THEN e ELSE s[i - 1]
  <2> SUFFICES ASSUME NEW i \in 1..Len(s) + 1
               PROVE  t[i] = IF i < p THEN s[i] ELSE IF i = p THEN e ELSE s[i - 1]
    OBVIOUS
  <2> HIDE DEF t
  <2>1. CASE i \in 1..p
    BY <1>3, <1>4, <2>1 DEF t
  <2>2. CASE i \in p + 1..Len(s) + 1
    BY <1>4, <1>6, <2>2 DEF t
  <2> QED
    BY <2>1, <2>2
<1> QED
  BY <1>4, <1>5, <1>7

\* Indices into a sequence are finitely many.
LEMMA IndicesFinite ==
  ASSUME NEW E, NEW s \in Seq(E), NEW I, I \subseteq DOMAIN s
  PROVE  IsFiniteSet(I) /\ Cardinality(I) \in Nat
<1>1. IsFiniteSet(1..Len(s)) /\ DOMAIN s = 1..Len(s)
  BY FS_Interval
<1> QED
  BY <1>1, FS_Subset, FS_CardinalityType

\* Putting e in changes how many elements are in S by e itself.
LEMMA PutAtCount ==
  ASSUME NEW E, NEW s \in Seq(E), NEW e \in E, NEW p \in 1..Len(s) + 1, NEW S
  PROVE  CountIn(PutAt(s, p, e), S) = CountIn(s, S) + (IF e \in S THEN 1 ELSE 0)
<1> DEFINE t == PutAt(s, p, e)
           I == IndicesIn(s, S)
           J == {j \in DOMAIN t : j # p /\ t[j] \in S}
           f == [i \in I |-> IF i < p THEN i ELSE i + 1]
<1>1. /\ t \in Seq(E) /\ Len(t) = Len(s) + 1 /\ DOMAIN t = 1..Len(s) + 1
      /\ \A i \in 1..Len(s) + 1 : t[i] = IF i < p THEN s[i] ELSE IF i = p THEN e ELSE s[i - 1]
  <2>1. t \in Seq(E) /\ Len(t) = Len(s) + 1
    BY PutAtShape
  <2>2. \A i \in 1..Len(s) + 1 : t[i] = IF i < p THEN s[i] ELSE IF i = p THEN e ELSE s[i - 1]
    BY PutAtShape
  <2> HIDE DEF t
  <2> QED
    BY <2>1, <2>2
<1>2. IsFiniteSet(I) /\ Cardinality(I) \in Nat
  BY IndicesFinite DEF IndicesIn
<1> HIDE DEF t
<1>3. I = {i \in 1..Len(s) : s[i] \in S} /\ J = {j \in 1..Len(s) + 1 : j # p /\ t[j] \in S}
  BY <1>1 DEF IndicesIn
<1>4. f \in Bijection(I, J)
  <2>1. \A i \in I : f[i] \in J
    BY <1>1, <1>3
  <2>2. \A i, k \in I : f[i] = f[k] => i = k
    BY <1>3
  <2>3. \A j \in J : \E i \in I : f[i] = j
    <3> SUFFICES ASSUME NEW j \in J PROVE \E i \in I : f[i] = j
      OBVIOUS
    <3>1. CASE j < p
      <4>1. j \in I /\ f[j] = j
        BY <1>1, <1>3, <3>1
      <4> QED
        BY <4>1
    <3>2. CASE j > p
      <4>1. j - 1 \in I /\ ~(j - 1 < p)
        BY <1>1, <1>3, <3>2
      <4>2. f[j - 1] = j
        BY <1>3, <4>1
      <4> QED
        BY <4>1, <4>2
    <3> QED
      BY <1>3, <3>1, <3>2
  <2> HIDE DEF I, J
  <2>4. f \in [I -> J]
    BY <2>1
  <2> QED
    BY <2>2, <2>3, <2>4 DEF Bijection, Injection, Surjection, IsInjective
<1>5. IsFiniteSet(J) /\ Cardinality(J) = Cardinality(I)
  <2> HIDE DEF I, J, f
  <2> QED
    BY <1>2, <1>4, FS_Bijection DEF ExistsBijection
<1>6. IndicesIn(t, S) = IF e \in S THEN J \cup {p} ELSE J
  BY <1>1, <1>3 DEF IndicesIn
<1>7. p \notin J
  OBVIOUS
<1>8. CASE e \in S
  <2>1. Cardinality(J \cup {p}) = Cardinality(J) + 1
    <3> HIDE DEF J
    <3> QED BY <1>5, <1>7, FS_AddElement
  <2> HIDE DEF I, J
  <2> QED
    BY <1>5, <1>6, <1>8, <2>1 DEF CountIn, t, I
<1>9. CASE e \notin S
  <2> HIDE DEF I, J
  <2> QED
    BY <1>2, <1>5, <1>6, <1>9 DEF CountIn, t, I
<1> QED
  BY <1>8, <1>9

\* Edges can be compared, and in a sorted list an edge has a place.
LEMMA PlaceExists ==
  ASSUME NEW s \in Seq(EdgeType), Sorted(s), NEW e \in EdgeType
  PROVE  \E p \in Places(s, e) : TRUE
<1> DEFINE S == {i \in 1..Len(s) + 1 : i = Len(s) + 1 \/ ~Precedes(s[i], e)}
<1>1. Len(s) + 1 \in S /\ S \in SUBSET Nat
  OBVIOUS
<1>2. PICK p \in S : \A i \in S : p <= i
  <2> HIDE DEF S
  <2> QED BY <1>1, FirstOf
<1>3. \A i \in 1..p - 1 : Precedes(s[i], e)
  BY <1>2
<1>4. \A i \in p..Len(s) : ~Precedes(s[i], e)
  <2> SUFFICES ASSUME NEW i \in p..Len(s) PROVE ~Precedes(s[i], e)
    OBVIOUS
  <2>1. p \in 1..Len(s) /\ ~Precedes(s[p], e)
    BY <1>2
  <2>2. i = p \/ Precedes(s[p], s[i])
    BY <2>1 DEF Sorted
  <2>3. s[p] \in EdgeType /\ s[i] \in EdgeType
    BY <2>1
  <2> QED
    BY <2>1, <2>2, <2>3 DEF Precedes, EdgeType
<1> QED
  BY <1>2, <1>3, <1>4 DEF Places

\* An edge put between edges that precede it and edges that it precedes.
LEMMA PutAtSorted ==
  ASSUME NEW s \in Seq(EdgeType), Sorted(s), NEW e \in EdgeType, NEW p \in 1..Len(s) + 1,
         \A i \in 1..p - 1 : Precedes(s[i], e),
         \A i \in p..Len(s) : Precedes(e, s[i])
  PROVE  Sorted(PutAt(s, p, e))
<1> DEFINE t == PutAt(s, p, e)
<1>1. t \in Seq(EdgeType) /\ Len(t) = Len(s) + 1
  BY PutAtShape
<1>2. \A i \in 1..Len(s) + 1 : t[i] = IF i < p THEN s[i] ELSE IF i = p THEN e ELSE s[i - 1]
  BY PutAtShape
<1> HIDE DEF t
<1> SUFFICES ASSUME NEW i \in 1..Len(s) + 1, NEW j \in 1..Len(s) + 1, i < j
             PROVE  Precedes(t[i], t[j])
  BY <1>1 DEF Sorted, t
<1>3. \A k, l \in 1..Len(s) : k < l => Precedes(s[k], s[l])
  BY DEF Sorted
<1>4. CASE j < p
  <2>1. t[i] = s[i] /\ t[j] = s[j] /\ i \in 1..Len(s) /\ j \in 1..Len(s)
    BY <1>2, <1>4
  <2> QED
    BY <1>3, <2>1
<1>5. CASE p < i
  <2>1. t[i] = s[i - 1] /\ t[j] = s[j - 1]
    BY <1>2, <1>5
  <2>2. i - 1 \in 1..Len(s) /\ j - 1 \in 1..Len(s) /\ i - 1 < j - 1
    BY <1>5
  <2> QED
    BY <1>3, <2>1, <2>2
<1>6. CASE j = p
  BY <1>2, <1>6
<1>7. CASE i <= p /\ p < j
  <2>1. j - 1 \in p..Len(s) /\ t[j] = s[j - 1] /\ Precedes(e, s[j - 1])
    BY <1>2, <1>7
  <2>2. CASE i = p
    BY <1>2, <2>1, <2>2
  <2>3. CASE i < p
    <3>1. i \in 1..Len(s) /\ j - 1 \in 1..Len(s) /\ i < j - 1 /\ t[i] = s[i]
      BY <1>2, <1>7, <2>3
    <3> QED
      BY <1>3, <2>1, <3>1
  <2> QED
    BY <1>7, <2>2, <2>3
<1> QED
  BY <1>4, <1>5, <1>6, <1>7

\* list.sort after an append: the list stays sorted, and holds the edge as well.
LEMMA InsertShape ==
  ASSUME NEW E \in SUBSET EdgeType, NEW s \in Seq(E), Sorted(s), NEW e \in E
  PROVE  /\ Insert(s, e) \in Seq(E) /\ Sorted(Insert(s, e))
         /\ Len(Insert(s, e)) = Len(s) + 1
         /\ \A S : CountIn(Insert(s, e), S) = CountIn(s, S) + (IF e \in S THEN 1 ELSE 0)
<1> DEFINE p == CHOOSE p \in Places(s, e) : TRUE
           t == PutAt(s, p, e)
<1>0. e \in EdgeType /\ s \in Seq(EdgeType)
  OBVIOUS
<1>1. p \in Places(s, e)
  BY <1>0, PlaceExists
<1> HIDE DEF p
<1>2. /\ p \in 1..Len(s) + 1
      /\ \A i \in 1..p - 1 : Precedes(s[i], e)
      /\ \A i \in p..Len(s) : ~Precedes(s[i], e)
  BY <1>1 DEF Places
<1>3. Insert(s, e) = t
  BY DEF Insert, p
<1>4. /\ t \in Seq(E) /\ Len(t) = Len(s) + 1
      /\ \A i \in 1..Len(s) + 1 : t[i] = IF i < p THEN s[i] ELSE IF i = p THEN e ELSE s[i - 1]
  BY <1>2, PutAtShape
<1>5. \A S : CountIn(t, S) = CountIn(s, S) + (IF e \in S THEN 1 ELSE 0)
  BY <1>2, PutAtCount
<1>6. Sorted(t)
  <2>1. \A i \in p..Len(s) : Precedes(e, s[i])
    <3> SUFFICES ASSUME NEW i \in p..Len(s) PROVE Precedes(e, s[i])
      OBVIOUS
    <3>1. ~Precedes(s[i], e) /\ s[i] \in EdgeType
      BY <1>0, <1>2
    <3> QED
      BY <1>0, <3>1 DEF Precedes, EdgeType
  <2> QED
    BY <1>0, <1>2, <2>1, PutAtSorted
<1> QED
  BY <1>3, <1>4, <1>5, <1>6

\* add: both edges of a range are in the list.
LEMMA AddRangeShape ==
  ASSUME NEW E \in SUBSET EdgeType, NEW s \in Seq(E), Sorted(s),
         NEW l, NEW h, Edge(l, -1) \in E, Edge(h, 1) \in E
  PROVE  /\ AddRange(s, l, h) \in Seq(E) /\ Sorted(AddRange(s, l, h))
         /\ Len(AddRange(s, l, h)) = Len(s) + 2
         /\ \A S : CountIn(AddRange(s, l, h), S) =
                     CountIn(s, S) + (IF Edge(l, -1) \in S THEN 1 ELSE 0)
                                   + (IF Edge(h, 1) \in S THEN 1 ELSE 0)
<1> DEFINE low  == Edge(l, -1)
           high == Edge(h, 1)
           t    == Insert(s, low)
<1>1. low \in E /\ high \in E
  OBVIOUS
<1> HIDE DEF low, high
<1>2. /\ t \in Seq(E) /\ Sorted(t) /\ Len(t) = Len(s) + 1
      /\ \A S : CountIn(t, S) = CountIn(s, S) + (IF low \in S THEN 1 ELSE 0)
  BY <1>1, InsertShape
<1> HIDE DEF t
<1>3. /\ Insert(t, high) \in Seq(E) /\ Sorted(Insert(t, high))
      /\ Len(Insert(t, high)) = Len(t) + 1
      /\ \A S : CountIn(Insert(t, high), S) = CountIn(t, S) + (IF high \in S THEN 1 ELSE 0)
  BY <1>1, <1>2, InsertShape
<1>4. AddRange(s, l, h) = Insert(t, high)
  BY DEF AddRange, low, high, t
<1> QED
  BY <1>2, <1>3, <1>4 DEF low, high

-----------------------------------------------------------------------------
(* Scans *)

\* A scan has counted nothing before its first edge, and then edge by edge.
LEMMA ScanUp ==
  ASSUME NEW s \in Seq(EdgeType)
  PROVE  /\ ChimeUp(s, 0) = 0
         /\ \A k \in 0..Len(s) : ChimeUp(s, k) \in Int
         /\ \A k \in 1..Len(s) : ChimeUp(s, k) = ChimeUp(s, k - 1) - s[k].chime
<1>1. \A k \in 0..Len(s) :
        /\ IsFiniteSet(Lows(s, 1..k)) /\ Cardinality(Lows(s, 1..k)) \in Nat
        /\ IsFiniteSet(Highs(s, 1..k)) /\ Cardinality(Highs(s, 1..k)) \in Nat
  <2> SUFFICES ASSUME NEW k \in 0..Len(s)
               PROVE  /\ IsFiniteSet(Lows(s, 1..k)) /\ Cardinality(Lows(s, 1..k)) \in Nat
                      /\ IsFiniteSet(Highs(s, 1..k)) /\ Cardinality(Highs(s, 1..k)) \in Nat
    OBVIOUS
  <2>1. Lows(s, 1..k) \subseteq DOMAIN s /\ Highs(s, 1..k) \subseteq DOMAIN s
    BY DEF Lows, Highs
  <2> QED
    BY <2>1, IndicesFinite
<1>2. ChimeUp(s, 0) = 0
  <2>1. Lows(s, 1..0) = {} /\ Highs(s, 1..0) = {}
    BY DEF Lows, Highs
  <2> QED
    BY <2>1, FS_EmptySet DEF ChimeUp
<1>3. ASSUME NEW k \in 1..Len(s) PROVE ChimeUp(s, k) = ChimeUp(s, k - 1) - s[k].chime
  <2>1. k - 1 \in 0..Len(s) /\ k \notin 1..(k - 1) /\ 1..k = 1..(k - 1) \cup {k}
    OBVIOUS
  <2> DEFINE low  == Lows(s, 1..(k - 1))
             high == Highs(s, 1..(k - 1))
  <2>2. k \notin low /\ k \notin high
    BY <2>1 DEF Lows, Highs
  <2>3. /\ IsFiniteSet(low) /\ Cardinality(low) \in Nat
        /\ IsFiniteSet(high) /\ Cardinality(high) \in Nat
    BY <1>1, <2>1
  <2> DEFINE lows == Lows(s, 1..k)
             highs == Highs(s, 1..k)
  <2>4. /\ ChimeUp(s, k) = Cardinality(lows) - Cardinality(highs)
        /\ ChimeUp(s, k - 1) = Cardinality(low) - Cardinality(high)
    BY DEF ChimeUp
  <2>5. CASE s[k].chime = -1
    <3>1. lows = low \cup {k} /\ highs = high
      BY <2>1, <2>5 DEF Lows, Highs
    <3> HIDE DEF low, high, lows, highs
    <3>2. Cardinality(low \cup {k}) = Cardinality(low) + 1
      BY <2>2, <2>3, FS_AddElement
    <3> QED
      BY <2>3, <2>4, <2>5, <3>1, <3>2
  <2>6. CASE s[k].chime = 1
    <3>1. lows = low /\ highs = high \cup {k}
      BY <2>1, <2>6 DEF Lows, Highs
    <3> HIDE DEF low, high, lows, highs
    <3>2. Cardinality(high \cup {k}) = Cardinality(high) + 1
      BY <2>2, <2>3, FS_AddElement
    <3> QED
      BY <2>3, <2>4, <2>6, <3>1, <3>2
  <2>7. s[k] \in EdgeType
    OBVIOUS
  <2>8. s[k].chime \in {-1, 1}
    BY <2>7 DEF EdgeType
  <2> QED
    BY <2>5, <2>6, <2>8
<1> QED
  BY <1>1, <1>2, <1>3 DEF ChimeUp

\* The same for the downward scan.
LEMMA ScanDown ==
  ASSUME NEW s \in Seq(EdgeType)
  PROVE  /\ ChimeDown(s, Len(s) + 1) = 0
         /\ \A k \in 1..Len(s) + 1 : ChimeDown(s, k) \in Int
         /\ \A k \in 1..Len(s) : ChimeDown(s, k) = ChimeDown(s, k + 1) + s[k].chime
<1>1. \A k \in 1..Len(s) + 1 :
        /\ IsFiniteSet(Lows(s, k..Len(s))) /\ Cardinality(Lows(s, k..Len(s))) \in Nat
        /\ IsFiniteSet(Highs(s, k..Len(s))) /\ Cardinality(Highs(s, k..Len(s))) \in Nat
  <2> SUFFICES ASSUME NEW k \in 1..Len(s) + 1
               PROVE  /\ IsFiniteSet(Lows(s, k..Len(s))) /\ Cardinality(Lows(s, k..Len(s))) \in Nat
                      /\ IsFiniteSet(Highs(s, k..Len(s))) /\ Cardinality(Highs(s, k..Len(s))) \in Nat
    OBVIOUS
  <2>1. Lows(s, k..Len(s)) \subseteq DOMAIN s /\ Highs(s, k..Len(s)) \subseteq DOMAIN s
    BY DEF Lows, Highs
  <2> QED
    BY <2>1, IndicesFinite
<1>2. ChimeDown(s, Len(s) + 1) = 0
  <2>1. Lows(s, (Len(s) + 1)..Len(s)) = {} /\ Highs(s, (Len(s) + 1)..Len(s)) = {}
    BY DEF Lows, Highs
  <2>2. ChimeDown(s, Len(s) + 1) = Cardinality({}) - Cardinality({})
    BY <2>1 DEF ChimeDown
  <2> QED
    BY <2>2, FS_EmptySet
<1>3. ASSUME NEW k \in 1..Len(s) PROVE ChimeDown(s, k) = ChimeDown(s, k + 1) + s[k].chime
  <2>1. /\ k + 1 \in 1..Len(s) + 1 /\ k \notin (k + 1)..Len(s)
        /\ k..Len(s) = (k + 1)..Len(s) \cup {k}
    OBVIOUS
  <2> DEFINE low  == Lows(s, (k + 1)..Len(s))
             high == Highs(s, (k + 1)..Len(s))
  <2>2. k \notin low /\ k \notin high
    BY <2>1 DEF Lows, Highs
  <2>3. /\ IsFiniteSet(low) /\ Cardinality(low) \in Nat
        /\ IsFiniteSet(high) /\ Cardinality(high) \in Nat
    BY <1>1, <2>1
  <2> DEFINE lows == Lows(s, k..Len(s))
             highs == Highs(s, k..Len(s))
  <2>4. /\ ChimeDown(s, k) = Cardinality(highs) - Cardinality(lows)
        /\ ChimeDown(s, k + 1) = Cardinality(high) - Cardinality(low)
    BY DEF ChimeDown
  <2>5. CASE s[k].chime = -1
    <3>1. lows = low \cup {k} /\ highs = high
      BY <2>1, <2>5 DEF Lows, Highs
    <3> HIDE DEF low, high, lows, highs
    <3>2. Cardinality(low \cup {k}) = Cardinality(low) + 1
      BY <2>2, <2>3, FS_AddElement
    <3> QED
      BY <2>3, <2>4, <2>5, <3>1, <3>2
  <2>6. CASE s[k].chime = 1
    <3>1. lows = low /\ highs = high \cup {k}
      BY <2>1, <2>6 DEF Lows, Highs
    <3> HIDE DEF low, high, lows, highs
    <3>2. Cardinality(high \cup {k}) = Cardinality(high) + 1
      BY <2>2, <2>3, FS_AddElement
    <3> QED
      BY <2>3, <2>4, <2>6, <3>1, <3>2
  <2>7. s[k] \in EdgeType
    OBVIOUS
  <2>8. s[k].chime \in {-1, 1}
    BY <2>7 DEF EdgeType
  <2> QED
    BY <2>5, <2>6, <2>8
<1> QED
  BY <1>1, <1>2, <1>3 DEF ChimeDown

\* The count of an upward scan behind the edges that are in U, when none of these
\* follows one that is not.
LEMMA CountBehind ==
  ASSUME NEW s \in Seq(EdgeType), NEW U,
         \A i, j \in 1..Len(s) : i < j /\ s[j] \in U => s[i] \in U
  PROVE  \E k \in 0..Len(s) :
           /\ \A i \in 1..Len(s) : s[i] \in U <=> i <= k
           /\ ChimeUp(s, k) = CountIn(s, U \cap LowEdges) - CountIn(s, U \cap HighEdges)
<1> DEFINE S == {i \in 1..Len(s) + 1 : i = Len(s) + 1 \/ s[i] \notin U}
<1>1. Len(s) + 1 \in S /\ S \in SUBSET Nat
  OBVIOUS
<1>2. PICK m \in S : \A i \in S : m <= i
  <2> HIDE DEF S
  <2> QED BY <1>1, FirstOf
<1> DEFINE k == m - 1
<1>3. k \in 0..Len(s) /\ \A i \in 1..Len(s) : i <= k => s[i] \in U
  BY <1>2
<1>4. ASSUME NEW i \in 1..Len(s), i > k PROVE s[i] \notin U
  <2>1. m \in 1..Len(s) /\ s[m] \notin U /\ m <= i
    BY <1>2, <1>4
  <2> QED
    BY <2>1
<1> HIDE DEF k
<1>5. \A i \in 1..Len(s) : s[i] \in U <=> i <= k
  BY <1>3, <1>4
<1>6. \A i \in 1..Len(s) : s[i] \in EdgeType
  OBVIOUS
<1>7. /\ Lows(s, 1..k) = IndicesIn(s, U \cap LowEdges)
      /\ Highs(s, 1..k) = IndicesIn(s, U \cap HighEdges)
  BY <1>3, <1>5, <1>6 DEF Lows, Highs, IndicesIn, LowEdges, HighEdges
<1> QED
  BY <1>3, <1>5, <1>7 DEF ChimeUp, CountIn

\* The same for the downward scan.
LEMMA CountAhead ==
  ASSUME NEW s \in Seq(EdgeType), NEW U,
         \A i, j \in 1..Len(s) : i < j /\ s[i] \in U => s[j] \in U
  PROVE  \E k \in 1..Len(s) + 1 :
           /\ \A i \in 1..Len(s) : s[i] \in U <=> i >= k
           /\ ChimeDown(s, k) = CountIn(s, U \cap HighEdges) - CountIn(s, U \cap LowEdges)
<1> DEFINE S == {i \in 1..Len(s) + 1 : i = Len(s) + 1 \/ s[i] \in U}
<1>1. Len(s) + 1 \in S /\ S \in SUBSET Nat
  OBVIOUS
<1>2. PICK k \in S : \A i \in S : k <= i
  <2> HIDE DEF S
  <2> QED BY <1>1, FirstOf
<1>3. k \in 1..Len(s) + 1 /\ \A i \in 1..Len(s) : i < k => s[i] \notin U
  BY <1>2
<1>4. ASSUME NEW i \in 1..Len(s), i >= k PROVE s[i] \in U
  <2>1. k \in 1..Len(s) /\ s[k] \in U /\ k <= i
    BY <1>2, <1>4
  <2> QED
    BY <2>1
<1>5. \A i \in 1..Len(s) : s[i] \in U <=> i >= k
  BY <1>3, <1>4
<1>6. \A i \in 1..Len(s) : s[i] \in EdgeType
  OBVIOUS
<1>7. /\ Lows(s, k..Len(s)) = IndicesIn(s, U \cap LowEdges)
      /\ Highs(s, k..Len(s)) = IndicesIn(s, U \cap HighEdges)
  BY <1>3, <1>5, <1>6 DEF Lows, Highs, IndicesIn, LowEdges, HighEdges
<1> QED
  BY <1>3, <1>5, <1>7 DEF ChimeDown, CountIn

\* In a sorted list the upward scan passes the edges that count up to a point first.
LEMMA CountAtPoint ==
  ASSUME NEW s \in Seq(EdgeType), Sorted(s), NEW x \in Int
  PROVE  \E k \in 0..Len(s) :
           /\ \A i \in 1..Len(s) : s[i] \in UpTo(x) <=> i <= k
           /\ ChimeUp(s, k) = CountIn(s, UpTo(x) \cap LowEdges) - CountIn(s, UpTo(x) \cap HighEdges)
<1>1. ASSUME NEW i \in 1..Len(s), NEW j \in 1..Len(s), i < j, s[j] \in UpTo(x)
      PROVE  s[i] \in UpTo(x)
  <2>1. Precedes(s[i], s[j]) /\ s[i] \in EdgeType /\ s[j] \in EdgeType
    BY <1>1 DEF Sorted
  <2> QED
    BY <1>1, <2>1 DEF Precedes, EdgeType, UpTo
<1> QED
  BY <1>1, CountBehind

\* The same for the downward scan.
LEMMA CountFromPoint ==
  ASSUME NEW s \in Seq(EdgeType), Sorted(s), NEW x \in Int
  PROVE  \E k \in 1..Len(s) + 1 :
           /\ \A i \in 1..Len(s) : s[i] \in From(x) <=> i >= k
           /\ ChimeDown(s, k) = CountIn(s, From(x) \cap HighEdges) - CountIn(s, From(x) \cap LowEdges)
<1>1. ASSUME NEW i \in 1..Len(s), NEW j \in 1..Len(s), i < j, s[i] \in From(x)
      PROVE  s[j] \in From(x)
  <2>1. Precedes(s[i], s[j]) /\ s[i] \in EdgeType /\ s[j] \in EdgeType
    BY <1>1 DEF Sorted
  <2> QED
    BY <1>1, <2>1 DEF Precedes, EdgeType, From
<1> QED
  BY <1>1, CountAhead

\* The edge at which the upward scan first reaches w opens a range, and at its
\* value the edges up to the point come to w at least.
LEMMA FirstReachUp ==
  ASSUME NEW s \in Seq(EdgeType), Sorted(s), NEW w \in Int, w > 0,
         NEW j \in 1..Len(s), ChimeUp(s, j) >= w,
         \A i \in 1..j - 1 : ChimeUp(s, i) < w
  PROVE  LET x == s[j].value
         IN  CountIn(s, UpTo(x) \cap LowEdges) - CountIn(s, UpTo(x) \cap HighEdges) >= w
<1> DEFINE x == s[j].value
<1>1. s[j] \in EdgeType
  OBVIOUS
<1>2. x \in Int /\ s[j].chime \in {-1, 1}
  BY <1>1 DEF EdgeType
<1>3. s[j].chime = -1
  <2>1. ChimeUp(s, j) = ChimeUp(s, j - 1) - s[j].chime /\ ChimeUp(s, j - 1) \in Int
    BY ScanUp
  <2>2. ChimeUp(s, j - 1) < w
    BY ScanUp
  <2> QED
    BY <1>2, <2>1, <2>2
<1>4. s[j] \in UpTo(x)
  BY <1>1, <1>3 DEF UpTo
<1> HIDE DEF x
<1>5. PICK k \in 0..Len(s) :
        /\ \A i \in 1..Len(s) : s[i] \in UpTo(x) <=> i <= k
        /\ ChimeUp(s, k) = CountIn(s, UpTo(x) \cap LowEdges) - CountIn(s, UpTo(x) \cap HighEdges)
  BY <1>2, CountAtPoint
<1>6. j <= k
  BY <1>4, <1>5
<1>7. \A i \in (j + 1)..k : s[i].chime = -1
  <2> SUFFICES ASSUME NEW i \in (j + 1)..k PROVE s[i].chime = -1
    OBVIOUS
  <2>1. i \in 1..Len(s) /\ s[i] \in UpTo(x) /\ s[i] \in EdgeType
    BY <1>5, <1>6
  <2>2. Precedes(s[j], s[i])
    BY <2>1 DEF Sorted
  <2> QED
    BY <1>1, <2>1, <2>2 DEF Precedes, UpTo, EdgeType, x
<1>8. Highs(s, 1..k) = Highs(s, 1..j)
  BY <1>6, <1>7 DEF Highs
<1>9. Lows(s, 1..j) \subseteq Lows(s, 1..k) /\ Lows(s, 1..k) \subseteq DOMAIN s
  BY <1>5, <1>6 DEF Lows
<1>10. Highs(s, 1..j) \subseteq DOMAIN s
  BY DEF Highs
<1>11. /\ IsFiniteSet(Lows(s, 1..k)) /\ Cardinality(Lows(s, 1..k)) \in Nat
       /\ Cardinality(Lows(s, 1..j)) \in Nat /\ Cardinality(Highs(s, 1..j)) \in Nat
  BY <1>9, <1>10, IndicesFinite
<1>12. Cardinality(Lows(s, 1..j)) <= Cardinality(Lows(s, 1..k))
  BY <1>9, <1>11, FS_Subset
<1>13. ChimeUp(s, k) >= ChimeUp(s, j)
  BY <1>8, <1>11, <1>12 DEF ChimeUp
<1>14. ChimeUp(s, k) \in Int /\ ChimeUp(s, j) \in Int
  BY ScanUp
<1> QED
  BY <1>5, <1>13, <1>14 DEF x

\* The same for the downward scan.
LEMMA FirstReachDown ==
  ASSUME NEW s \in Seq(EdgeType), Sorted(s), NEW w \in Int, w > 0,
         NEW j \in 1..Len(s), ChimeDown(s, j) >= w,
         \A i \in j + 1..Len(s) : ChimeDown(s, i) < w
  PROVE  LET x == s[j].value
         IN  CountIn(s, From(x) \cap HighEdges) - CountIn(s, From(x) \cap LowEdges) >= w
<1> DEFINE x == s[j].value
<1>1. s[j] \in EdgeType
  OBVIOUS
<1>2. x \in Int /\ s[j].chime \in {-1, 1}
  BY <1>1 DEF EdgeType
<1>3. s[j].chime = 1
  <2>1. /\ ChimeDown(s, j) = ChimeDown(s, j + 1) + s[j].chime
        /\ ChimeDown(s, j + 1) \in Int
    BY ScanDown
  <2>2. ChimeDown(s, j + 1) < w
    BY ScanDown
  <2> QED
    BY <1>2, <2>1, <2>2
<1>4. s[j] \in From(x)
  BY <1>1, <1>3 DEF From
<1> HIDE DEF x
<1>5. PICK k \in 1..Len(s) + 1 :
        /\ \A i \in 1..Len(s) : s[i] \in From(x) <=> i >= k
        /\ ChimeDown(s, k) = CountIn(s, From(x) \cap HighEdges) - CountIn(s, From(x) \cap LowEdges)
  BY <1>2, CountFromPoint
<1>6. k <= j
  BY <1>4, <1>5
<1>7. \A i \in k..(j - 1) : s[i].chime = 1
  <2> SUFFICES ASSUME NEW i \in k..(j - 1) PROVE s[i].chime = 1
    OBVIOUS
  <2>1. i \in 1..Len(s) /\ s[i] \in From(x) /\ s[i] \in EdgeType
    BY <1>5, <1>6
  <2>2. Precedes(s[i], s[j])
    BY <2>1 DEF Sorted
  <2> QED
    BY <1>1, <2>1, <2>2 DEF Precedes, From, EdgeType, x
<1>8. Lows(s, k..Len(s)) = Lows(s, j..Len(s))
  BY <1>6, <1>7 DEF Lows
<1>9. /\ Highs(s, j..Len(s)) \subseteq Highs(s, k..Len(s))
      /\ Highs(s, k..Len(s)) \subseteq DOMAIN s
  BY <1>5, <1>6 DEF Highs
<1>10. Lows(s, j..Len(s)) \subseteq DOMAIN s
  BY DEF Lows
<1>11. /\ IsFiniteSet(Highs(s, k..Len(s))) /\ Cardinality(Highs(s, k..Len(s))) \in Nat
       /\ Cardinality(Highs(s, j..Len(s))) \in Nat /\ Cardinality(Lows(s, j..Len(s))) \in Nat
  BY <1>9, <1>10, IndicesFinite
<1>12. Cardinality(Highs(s, j..Len(s))) <= Cardinality(Highs(s, k..Len(s)))
  BY <1>9, <1>11, FS_Subset
<1>13. ChimeDown(s, k) >= ChimeDown(s, j)
  BY <1>8, <1>11, <1>12 DEF ChimeDown
<1>14. ChimeDown(s, k) \in Int /\ ChimeDown(s, j) \in Int
  BY ScanDown
<1> QED
  BY <1>5, <1>13, <1>14 DEF x

-----------------------------------------------------------------------------
(* Depth *)

\* A number of ranges is a natural number, and nobody is in more than there are.
LEMMA DepthType ==
  ASSUME NEW rs \in Seq(Interval), NEW x
  PROVE  Depth(rs, x) \in Nat /\ Depth(rs, x) <= Len(rs)
<1> DEFINE D == {i \in DOMAIN rs : rs[i].lo <= x /\ x <= rs[i].hi}
<1>1. D \subseteq 1..Len(rs)
  OBVIOUS
<1>2. IsFiniteSet(1..Len(rs)) /\ Cardinality(1..Len(rs)) = Len(rs)
  <2> DEFINE n == Len(rs)
  <2>1. n \in Nat
    OBVIOUS
  <2> HIDE DEF n
  <2>2. /\ IsFiniteSet(1..n)
        /\ Cardinality(1..n) = IF 1 > n THEN 0 ELSE n - 1 + 1
    BY <2>1, FS_Interval
  <2>3. Cardinality(1..n) = n
    BY <2>1, <2>2
  <2> QED
    BY <2>2, <2>3 DEF n
<1> HIDE DEF D
<1>3. IsFiniteSet(D) /\ Cardinality(D) <= Len(rs)
  BY <1>1, <1>2, FS_Subset
<1> QED
  BY <1>3, FS_CardinalityType DEF Depth, D

\* One more range counts once at the points it contains.
LEMMA DepthAppend ==
  ASSUME NEW T, NEW rs \in Seq(T), NEW r \in T, NEW x
  PROVE  Depth(Append(rs, r), x) =
           Depth(rs, x) + (IF r.lo <= x /\ x <= r.hi THEN 1 ELSE 0)
<1> DEFINE n == Len(rs) + 1
           t == Append(rs, r)
           D == {i \in DOMAIN rs : rs[i].lo <= x /\ x <= rs[i].hi}
           C == {i \in DOMAIN t : t[i].lo <= x /\ x <= t[i].hi}
<1>1. IsFiniteSet(D) /\ Cardinality(D) \in Nat
  BY IndicesFinite
<1>2. n \notin D
  OBVIOUS
<1>3. /\ DOMAIN t = 1..n /\ DOMAIN rs = 1..Len(rs)
      /\ t[n] = r /\ \A i \in 1..Len(rs) : t[i] = rs[i]
  OBVIOUS
<1>4. Depth(rs, x) = Cardinality(D) /\ Depth(t, x) = Cardinality(C)
  BY DEF Depth
<1>5. CASE r.lo <= x /\ x <= r.hi
  <2>1. C = D \cup {n}
    <3> HIDE DEF t
    <3> QED BY <1>3, <1>5
  <2> HIDE DEF C, D, n
  <2>2. Cardinality(D \cup {n}) = Cardinality(D) + 1
    BY <1>1, <1>2, FS_AddElement
  <2> QED
    BY <1>4, <1>5, <2>1, <2>2
<1>6. CASE ~(r.lo <= x /\ x <= r.hi)
  <2>1. C = D
    <3> HIDE DEF t
    <3> QED BY <1>3, <1>6
  <2> HIDE DEF C, D, n
  <2> QED
    BY <1>1, <1>4, <1>6, <2>1
<1> QED
  BY <1>5, <1>6

\* A range contains its own ends.
LEMMA DepthOfOne ==
  ASSUME NEW rs \in Seq(Interval), NEW i \in 1..Len(rs), rs[i].lo <= rs[i].hi
  PROVE  rs[i].lo \in Value /\ Depth(rs, rs[i].lo) >= 1
<1> DEFINE x == rs[i].lo
           D == {j \in DOMAIN rs : rs[j].lo <= x /\ x <= rs[j].hi}
<1>1. rs[i] \in Interval
  OBVIOUS
<1>2. x \in Value /\ x \in Int
  BY <1>1, ValueAssumption DEF Interval
<1>3. i \in D
  BY <1>2
<1>4. IsFiniteSet(D) /\ Cardinality(D) \in Nat
  BY IndicesFinite
<1>5. Cardinality({i}) = 1 /\ {i} \subseteq D
  BY <1>3, FS_Singleton
<1> HIDE DEF D
<1>6. 1 <= Cardinality(D)
  BY <1>4, <1>5, FS_Subset
<1> QED
  BY <1>2, <1>6 DEF Depth, D

\* How many more ranges begin than end up to x, and end than begin from x on.
CountUp(s, x)   == CountIn(s, UpTo(x) \cap LowEdges) - CountIn(s, UpTo(x) \cap HighEdges)
CountDown(s, x) == CountIn(s, From(x) \cap HighEdges) - CountIn(s, From(x) \cap LowEdges)

\* t has the edges of s and those of the range from l to h.
Grown(s, t, l, h) ==
  \A S : CountIn(t, S) = CountIn(s, S) + (IF Edge(l, -1) \in S THEN 1 ELSE 0)
                                       + (IF Edge(h, 1) \in S THEN 1 ELSE 0)

\* The edges of a range more add one to the counts of the points that it holds.
LEMMA CountsGrow ==
  ASSUME NEW s \in Seq(EdgeType), NEW t \in Seq(EdgeType),
         NEW l \in Int, NEW h \in Int, l <= h, Grown(s, t, l, h), NEW x \in Int
  PROVE  /\ CountUp(t, x) = CountUp(s, x) + (IF l <= x /\ x <= h THEN 1 ELSE 0)
         /\ CountDown(t, x) = CountDown(s, x) + (IF l <= x /\ x <= h THEN 1 ELSE 0)
<1>1. /\ Edge(l, -1) \in UpTo(x) \cap LowEdges <=> l <= x
      /\ Edge(h, 1) \notin UpTo(x) \cap LowEdges
      /\ Edge(h, 1) \in UpTo(x) \cap HighEdges <=> h < x
      /\ Edge(l, -1) \notin UpTo(x) \cap HighEdges
  BY DEF Edge, EdgeType, UpTo, LowEdges, HighEdges
<1>2. /\ Edge(h, 1) \in From(x) \cap HighEdges <=> x <= h
      /\ Edge(l, -1) \notin From(x) \cap HighEdges
      /\ Edge(l, -1) \in From(x) \cap LowEdges <=> x < l
      /\ Edge(h, 1) \notin From(x) \cap LowEdges
  BY DEF Edge, EdgeType, From, LowEdges, HighEdges
<1> DEFINE a  == CountIn(s, UpTo(x) \cap LowEdges)
           b  == CountIn(s, UpTo(x) \cap HighEdges)
           c  == CountIn(s, From(x) \cap HighEdges)
           d  == CountIn(s, From(x) \cap LowEdges)
           a1 == CountIn(t, UpTo(x) \cap LowEdges)
           b1 == CountIn(t, UpTo(x) \cap HighEdges)
           c1 == CountIn(t, From(x) \cap HighEdges)
           d1 == CountIn(t, From(x) \cap LowEdges)
<1>3. /\ a1 = a + (IF l <= x THEN 1 ELSE 0) + 0 /\ b1 = b + 0 + (IF h < x THEN 1 ELSE 0)
      /\ c1 = c + 0 + (IF x <= h THEN 1 ELSE 0) /\ d1 = d + (IF x < l THEN 1 ELSE 0) + 0
  BY <1>1, <1>2 DEF Grown
<1>4. a \in Nat /\ b \in Nat /\ c \in Nat /\ d \in Nat
  <2>1. \A S : IndicesIn(s, S) \subseteq DOMAIN s
    BY DEF IndicesIn
  <2> QED
    BY <2>1, IndicesFinite DEF CountIn
<1> HIDE DEF a, b, c, d, a1, b1, c1, d1
<1>5. (IF l <= x THEN 1 ELSE 0) - (IF h < x THEN 1 ELSE 0) = IF l <= x /\ x <= h THEN 1 ELSE 0
  OBVIOUS
<1>6. (IF x <= h THEN 1 ELSE 0) - (IF x < l THEN 1 ELSE 0) = IF l <= x /\ x <= h THEN 1 ELSE 0
  OBVIOUS
<1>7. /\ a1 - b1 = a - b + (IF l <= x /\ x <= h THEN 1 ELSE 0)
      /\ c1 - d1 = c - d + (IF l <= x /\ x <= h THEN 1 ELSE 0)
  BY <1>3, <1>4, <1>5, <1>6
<1> QED
  BY <1>7 DEF CountUp, CountDown, a, b, c, d, a1, b1, c1, d1

\* Adding both edges of a range to the list is adding the range.
LEMMA AddCounts ==
  ASSUME NEW s \in Seq(EdgeType), NEW t \in Seq(EdgeType), NEW rs \in Seq(Interval),
         NEW l \in Value, NEW h \in Value, l <= h, CountsRanges(s, rs),
         \A S : CountIn(t, S) = CountIn(s, S) + (IF Edge(l, -1) \in S THEN 1 ELSE 0)
                                              + (IF Edge(h, 1) \in S THEN 1 ELSE 0)
  PROVE  CountsRanges(t, Append(rs, [lo |-> l, hi |-> h]))
<1> DEFINE rt == Append(rs, [lo |-> l, hi |-> h])
<1>1. l \in Int /\ h \in Int /\ [lo |-> l, hi |-> h] \in Interval
  BY ValueAssumption DEF Interval
<1>2. \A x \in Value : Depth(rt, x) = Depth(rs, x) + (IF l <= x /\ x <= h THEN 1 ELSE 0)
  BY <1>1, DepthAppend
<1> HIDE DEF rt
<1> SUFFICES ASSUME NEW x \in Value
             PROVE  /\ CountIn(t, UpTo(x) \cap LowEdges) - CountIn(t, UpTo(x) \cap HighEdges)
                         = Depth(rt, x)
                    /\ CountIn(t, From(x) \cap HighEdges) - CountIn(t, From(x) \cap LowEdges)
                         = Depth(rt, x)
  BY DEF CountsRanges, rt
<1>3. x \in Int
  BY ValueAssumption
<1>4. /\ CountUp(t, x) = CountUp(s, x) + (IF l <= x /\ x <= h THEN 1 ELSE 0)
      /\ CountDown(t, x) = CountDown(s, x) + (IF l <= x /\ x <= h THEN 1 ELSE 0)
  <2>1. Grown(s, t, l, h)
    BY DEF Grown
  <2> QED
    BY <1>1, <1>3, <2>1, CountsGrow
<1> QED
  BY <1>2, <1>4 DEF CountsRanges, CountUp, CountDown

\* A sequence begins with itself, and an element more does not change how it begins.
LEMMA Prefixes ==
  ASSUME NEW S, NEW s \in Seq(S), NEW e \in S
  PROVE  /\ SubSeq(Append(s, e), 1, Len(s) + 1) = Append(s, e)
         /\ \A k \in 1..Len(s) : SubSeq(Append(s, e), 1, k) = SubSeq(s, 1, k)
<1> DEFINE t == Append(s, e)
<1>1. /\ t \in Seq(S) /\ Len(t) = Len(s) + 1 /\ Len(s) \in Nat
      /\ \A j \in 1..Len(s) : t[j] = s[j]
  OBVIOUS
<1> HIDE DEF t
<1>2. SubSeq(t, 1, Len(t)) = t
  BY <1>1
<1>3. ASSUME NEW k \in 1..Len(s) PROVE SubSeq(t, 1, k) = SubSeq(s, 1, k)
  <2>1. /\ SubSeq(t, 1, k) \in Seq(S) /\ Len(SubSeq(t, 1, k)) = k
        /\ \A j \in 1..k : SubSeq(t, 1, k)[j] = t[j]
    BY <1>1
  <2>2. /\ SubSeq(s, 1, k) \in Seq(S) /\ Len(SubSeq(s, 1, k)) = k
        /\ \A j \in 1..k : SubSeq(s, 1, k)[j] = s[j]
    BY <1>1
  <2> DEFINE a == SubSeq(t, 1, k)
             b == SubSeq(s, 1, k)
  <2> HIDE DEF a, b
  <2>3. \A j \in 1..k : a[j] = b[j]
    BY <1>1, <2>1, <2>2 DEF a, b
  <2>4. a = b
    BY <2>1, <2>2, <2>3 DEF a, b
  <2> QED
    BY <2>4 DEF a, b
<1> QED
  BY <1>1, <1>2, <1>3 DEF t

\* The number that bounds every depth and is reached, or is 0, is the greatest.
LEMMA MaxDepthIs ==
  ASSUME NEW rs \in Seq(Interval), NEW n \in 0..Len(rs),
         \A x \in Value : Depth(rs, x) <= n,
         n = 0 \/ \E x \in Value : Depth(rs, x) >= n
  PROVE  MaxDepth(rs) = n
<1>1. \A m : IsMaxDepth(rs, m) <=>
               /\ \A x \in Value : Depth(rs, x) <= m
               /\ m = 0 \/ \E x \in Value : Depth(rs, x) >= m
  BY DEF IsMaxDepth, Shared
<1>2. \A x \in Value : Depth(rs, x) \in Nat
  BY DepthType
<1>3. ASSUME NEW m \in 0..Len(rs), IsMaxDepth(rs, m) PROVE m = n
  BY <1>1, <1>2, <1>3
<1>4. n \in 0..Len(rs) /\ IsMaxDepth(rs, n)
  BY <1>1
<1>5. MaxDepth(rs) = CHOOSE m \in 0..Len(rs) : IsMaxDepth(rs, m)
  BY DEF MaxDepth
<1> QED
  BY <1>3, <1>4, <1>5

\* The deepest overlap from its depth and its outermost points.
LEMMA BestIs ==
  ASSUME NEW rs \in Seq(Interval), NEW n \in 1..Len(rs), NEW lo \in Value, NEW hi \in Value,
         \A x \in Value : Depth(rs, x) <= n,
         Depth(rs, lo) >= n, Depth(rs, hi) >= n,
         \A x \in Value : Depth(rs, x) >= n => lo <= x /\ x <= hi
  PROVE  MaxDepth(rs) = n /\ Best(rs) = [count |-> n, lo |-> lo, hi |-> hi]
<1> DEFINE S == Shared(rs, n)
<1>1. MaxDepth(rs) = n
  <2>1. n \in 0..Len(rs) /\ Len(rs) \in Nat
    OBVIOUS
  <2> QED
    BY <2>1, MaxDepthIs
<1>2. S = {x \in Value : Depth(rs, x) >= n}
  BY DEF Shared
<1>3. S \subseteq Int /\ lo \in S /\ hi \in S /\ \A x \in S : lo <= x /\ x <= hi
  BY <1>2, ValueAssumption
<1> HIDE DEF S
<1>4. Lowest(S) = lo
  <2>1. \A z \in S : (\A y \in S : z <= y) => z = lo
    BY <1>3
  <2> QED
    BY <1>3, <2>1 DEF Lowest
<1>5. Highest(S) = hi
  <2>1. \A z \in S : (\A y \in S : y <= z) => z = hi
    BY <1>3
  <2> QED
    BY <1>3, <2>1 DEF Highest
<1>6. n # 0
  OBVIOUS
<1> QED
  BY <1>1, <1>4, <1>5, <1>6 DEF Best, S

-----------------------------------------------------------------------------
(* What the scans of a sorted list find *)

\* What a list of edges of ranges holds.
LEMMA ValuesOfEdges ==
  ASSUME NEW s \in Seq(EdgeOfValue)
  PROVE  /\ EdgeOfValue \in SUBSET EdgeType /\ s \in Seq(EdgeType) /\ Len(s) \in Nat
         /\ DOMAIN s = 1..Len(s)
         /\ \A k \in 1..Len(s) : s[k].value \in Value /\ s[k].value \in Int /\ s[k].chime \in {-1, 1}
<1>1. EdgeOfValue \in SUBSET EdgeType
  BY ValueAssumption DEF EdgeOfValue, EdgeType
<1>2. s \in Seq(EdgeType)
  BY <1>1
<1>3. ASSUME NEW k \in 1..Len(s)
      PROVE  s[k].value \in Value /\ s[k].value \in Int /\ s[k].chime \in {-1, 1}
  <2>1. s[k] \in EdgeOfValue
    OBVIOUS
  <2> QED
    BY <2>1, ValueAssumption DEF EdgeOfValue
<1> QED
  BY <1>1, <1>2, <1>3

\* The upward scan reaches a count when it counts as many at some point, and only
\* then, and stops at the lowest such point.
LEMMA ScanUpReaches ==
  ASSUME NEW s \in Seq(EdgeOfValue), Sorted(s), NEW D, Counts(s, D),
         NEW w \in Nat \ {0}
  PROVE  /\ ReachUp(s, w) # {} <=> \E x \in Value : D[x] >= w
         /\ \A k \in ReachUp(s, w) :
              (\A m \in ReachUp(s, w) : k <= m) =>
                /\ s[k].value \in Value /\ D[s[k].value] >= w
                /\ \A x \in Value : D[x] >= w => s[k].value <= x
<1>1. /\ s \in Seq(EdgeType) /\ Len(s) \in Nat /\ DOMAIN s = 1..Len(s)
      /\ \A k \in 1..Len(s) : s[k].value \in Value /\ s[k].value \in Int
  BY ValuesOfEdges
<1>2. ReachUp(s, w) \subseteq 1..Len(s) /\ \A k \in 1..Len(s) : k \in ReachUp(s, w) <=> ChimeUp(s, k) >= w
  BY <1>1 DEF ReachUp
<1>3. \A k \in 0..Len(s) : ChimeUp(s, k) \in Int
  BY <1>1, ScanUp
<1>4. ASSUME NEW x \in Value, D[x] >= w
      PROVE  \E k \in ReachUp(s, w) : \A i \in 1..k : s[i].value <= x
  <2>1. x \in Int
    BY ValueAssumption
  <2>2. PICK k \in 0..Len(s) :
          /\ \A i \in 1..Len(s) : s[i] \in UpTo(x) <=> i <= k
          /\ ChimeUp(s, k) = D[x]
    BY <1>1, <2>1, CountAtPoint DEF Counts
  <2>3. k # 0
    BY <1>1, <1>4, <2>2, ScanUp
  <2>4. k \in ReachUp(s, w)
    BY <1>2, <1>4, <2>2, <2>3
  <2>5. ASSUME NEW i \in 1..k PROVE s[i].value <= x
    <3>1. s[i] \in UpTo(x) /\ s[i].value \in Int
      BY <1>1, <2>2
    <3> QED
      BY <2>1, <3>1 DEF UpTo
  <2> QED
    BY <2>4, <2>5
<1>5. ASSUME NEW k \in ReachUp(s, w), \A m \in ReachUp(s, w) : k <= m
      PROVE  s[k].value \in Value /\ D[s[k].value] >= w
  <2>1. k \in 1..Len(s) /\ ChimeUp(s, k) >= w
    BY <1>2
  <2>2. \A i \in 1..k - 1 : ChimeUp(s, i) < w
    BY <1>1, <1>2, <1>3, <1>5, <2>1
  <2>a. w \in Int /\ w > 0
    OBVIOUS
  <2>3. CountIn(s, UpTo(s[k].value) \cap LowEdges) - CountIn(s, UpTo(s[k].value) \cap HighEdges) >= w
    BY <1>1, <2>1, <2>2, <2>a, FirstReachUp
  <2> QED
    BY <1>1, <2>1, <2>3 DEF Counts
<1>6. ASSUME NEW k \in ReachUp(s, w), \A m \in ReachUp(s, w) : k <= m,
             NEW x \in Value, D[x] >= w
      PROVE  s[k].value <= x
  <2>1. PICK m \in ReachUp(s, w) : \A i \in 1..m : s[i].value <= x
    BY <1>4, <1>6
  <2>2. k \in 1..m
    BY <1>2, <1>6, <2>1
  <2> QED
    BY <2>1, <2>2
<1>7. ASSUME ReachUp(s, w) # {} PROVE \E x \in Value : D[x] >= w
  <2>1. ReachUp(s, w) \in SUBSET Nat
    BY <1>2
  <2>2. PICK k \in ReachUp(s, w) : \A m \in ReachUp(s, w) : k <= m
    BY <1>7, <2>1, FirstOf
  <2> QED
    BY <1>5, <2>2
<1> QED
  BY <1>4, <1>5, <1>6, <1>7

\* Counted are the ranges around the point.
LEMMA ScanUpFinds ==
  ASSUME NEW s \in Seq(EdgeOfValue), Sorted(s), NEW rs \in Seq(Interval), CountsRanges(s, rs),
         NEW w \in Nat \ {0}
  PROVE  /\ ReachUp(s, w) # {} <=> \E x \in Value : Depth(rs, x) >= w
         /\ \A k \in ReachUp(s, w) :
              (\A m \in ReachUp(s, w) : k <= m) =>
                /\ s[k].value \in Value /\ Depth(rs, s[k].value) >= w
                /\ \A x \in Value : Depth(rs, x) >= w => s[k].value <= x
<1> DEFINE D == [x \in Value |-> Depth(rs, x)]
<1>1. Counts(s, D) /\ \A x \in Value : D[x] = Depth(rs, x)
  BY DEF CountsRanges, Counts
<1> HIDE DEF D
<1> QED
  BY <1>1, ScanUpReaches

\* The same for the downward scan, which stops at the highest such point.
LEMMA ScanDownReaches ==
  ASSUME NEW s \in Seq(EdgeOfValue), Sorted(s), NEW D, Counts(s, D),
         NEW w \in Nat \ {0}
  PROVE  /\ ReachDown(s, w) # {} <=> \E x \in Value : D[x] >= w
         /\ \A k \in ReachDown(s, w) :
              (\A m \in ReachDown(s, w) : m <= k) =>
                /\ s[k].value \in Value /\ D[s[k].value] >= w
                /\ \A x \in Value : D[x] >= w => x <= s[k].value
<1>1. /\ s \in Seq(EdgeType) /\ Len(s) \in Nat /\ DOMAIN s = 1..Len(s)
      /\ \A k \in 1..Len(s) : s[k].value \in Value /\ s[k].value \in Int
  BY ValuesOfEdges
<1>2. /\ ReachDown(s, w) \subseteq 1..Len(s)
      /\ \A k \in 1..Len(s) : k \in ReachDown(s, w) <=> ChimeDown(s, k) >= w
  BY <1>1 DEF ReachDown
<1>3. \A k \in 1..Len(s) + 1 : ChimeDown(s, k) \in Int
  BY <1>1, ScanDown
<1>4. ASSUME NEW x \in Value, D[x] >= w
      PROVE  \E k \in ReachDown(s, w) : \A i \in k..Len(s) : x <= s[i].value
  <2>1. x \in Int
    BY ValueAssumption
  <2>2. PICK k \in 1..Len(s) + 1 :
          /\ \A i \in 1..Len(s) : s[i] \in From(x) <=> i >= k
          /\ ChimeDown(s, k) = D[x]
    BY <1>1, <2>1, CountFromPoint DEF Counts
  <2>3. k # Len(s) + 1
    BY <1>1, <1>4, <2>2, ScanDown
  <2>4. k \in ReachDown(s, w)
    BY <1>1, <1>2, <1>4, <2>2, <2>3
  <2>5. ASSUME NEW i \in k..Len(s) PROVE x <= s[i].value
    <3>1. i \in 1..Len(s) /\ s[i] \in From(x) /\ s[i].value \in Int
      BY <1>1, <2>2
    <3> QED
      BY <2>1, <3>1 DEF From
  <2> QED
    BY <2>4, <2>5
<1>5. ASSUME NEW k \in ReachDown(s, w), \A m \in ReachDown(s, w) : m <= k
      PROVE  s[k].value \in Value /\ D[s[k].value] >= w
  <2>1. k \in 1..Len(s) /\ ChimeDown(s, k) >= w
    BY <1>2
  <2>2. \A i \in k + 1..Len(s) : ChimeDown(s, i) < w
    BY <1>1, <1>2, <1>3, <1>5, <2>1
  <2>a. w \in Int /\ w > 0
    OBVIOUS
  <2>3. CountIn(s, From(s[k].value) \cap HighEdges) - CountIn(s, From(s[k].value) \cap LowEdges) >= w
    BY <1>1, <2>1, <2>2, <2>a, FirstReachDown
  <2> QED
    BY <1>1, <2>1, <2>3 DEF Counts
<1>6. ASSUME NEW k \in ReachDown(s, w), \A m \in ReachDown(s, w) : m <= k,
             NEW x \in Value, D[x] >= w
      PROVE  x <= s[k].value
  <2>1. PICK m \in ReachDown(s, w) : \A i \in m..Len(s) : x <= s[i].value
    BY <1>4, <1>6
  <2>2. k \in m..Len(s)
    BY <1>2, <1>6, <2>1
  <2> QED
    BY <2>1, <2>2
<1>7. ASSUME ReachDown(s, w) # {} PROVE \E x \in Value : D[x] >= w
  <2>1. PICK k \in ReachDown(s, w) : \A m \in ReachDown(s, w) : m <= k
    BY <1>1, <1>2, <1>7, LastOf
  <2> QED
    BY <1>5, <2>1
<1> QED
  BY <1>4, <1>5, <1>6, <1>7

\* And for the downward scan.
LEMMA ScanDownFinds ==
  ASSUME NEW s \in Seq(EdgeOfValue), Sorted(s), NEW rs \in Seq(Interval), CountsRanges(s, rs),
         NEW w \in Nat \ {0}
  PROVE  /\ ReachDown(s, w) # {} <=> \E x \in Value : Depth(rs, x) >= w
         /\ \A k \in ReachDown(s, w) :
              (\A m \in ReachDown(s, w) : m <= k) =>
                /\ s[k].value \in Value /\ Depth(rs, s[k].value) >= w
                /\ \A x \in Value : Depth(rs, x) >= w => x <= s[k].value
<1> DEFINE D == [x \in Value |-> Depth(rs, x)]
<1>1. Counts(s, D) /\ \A x \in Value : D[x] = Depth(rs, x)
  BY DEF CountsRanges, Counts
<1> HIDE DEF D
<1> QED
  BY <1>1, ScanDownReaches

-----------------------------------------------------------------------------
(***************************************************************************)
(* What holds of the edge list of the C overlap algorithm, in which the    *)
(* values never fall but edges of equal value are in any order.            *)
(***************************************************************************)

\* The edges with values up to x, and those with values from x on.
Below(x) == {e \in EdgeType : e.value <= x}
Above(x) == {e \in EdgeType : e.value >= x}

\* No more ranges have ended than have begun, seen from either end.
Balanced(s) ==
  \A x \in Int : /\ CountIn(s, Below(x) \cap HighEdges) <= CountIn(s, Below(x) \cap LowEdges)
                /\ CountIn(s, Above(x) \cap LowEdges) <= CountIn(s, Above(x) \cap HighEdges)

\* Every low edge is that of a range.
LowsKnown(s, rs) ==
  \A v \in Value : CountIn(s, {Edge(v, -1)}) = 0 \/ \E i \in DOMAIN rs : rs[i].lo = v

\* s holds the edges of the ranges rs in the order of the Python implementations.
HoldsRanges(s, rs) ==
  /\ s \in Seq(EdgeOfValue) /\ rs \in Seq(Interval)
  /\ Len(s) = 2 * Len(rs)
  /\ Sorted(s) /\ CountsRanges(s, rs) /\ Balanced(s) /\ LowsKnown(s, rs)

\* lo and hi are the outermost points in at least n of the ranges rs.
Outermost(rs, n, lo, hi) ==
  /\ lo \in Value /\ Depth(rs, lo) >= n
  /\ hi \in Value /\ Depth(rs, hi) >= n
  /\ \A x \in Value : Depth(rs, x) >= n => lo <= x /\ x <= hi

\* Values never fall.
Rising(s) == \A i, j \in DOMAIN s : i < j => s[i].value <= s[j].value

\* Where the search of overlap_insert stops is the place of the new edge.
LEMMA InsertBeforeAt ==
  ASSUME NEW s \in Seq(EdgeType), NEW e \in EdgeType, NEW p \in 1..Len(s) + 1,
         \A i \in 1..p - 1 : s[i].value < e.value,
         p # Len(s) + 1 => s[p].value >= e.value
  PROVE  InsertBefore(s, e) = PutAt(s, p, e)
<1> DEFINE L == {i \in DOMAIN s : \A k \in 1..i : s[k].value < e.value}
<1>1. Len(s) \in Nat /\ DOMAIN s = 1..Len(s)
  OBVIOUS
<1>2. L = 1..p - 1
  <2>1. ASSUME NEW i \in DOMAIN s, \A k \in 1..i : s[k].value < e.value PROVE i \in 1..p - 1
    <3> SUFFICES ASSUME i >= p PROVE FALSE
      BY <1>1
    <3>1. p # Len(s) + 1 /\ p \in 1..i /\ p \in DOMAIN s
      BY <1>1
    <3>2. s[p].value < e.value /\ s[p].value >= e.value
      BY <2>1, <3>1
    <3>3. s[p].value \in Int /\ e.value \in Int
      <4>1. s[p] \in EdgeType
        BY <3>1
      <4> QED
        BY <4>1 DEF EdgeType
    <3> QED
      BY <3>2, <3>3
  <2>2. \A i \in 1..p - 1 : i \in DOMAIN s /\ 1..i \subseteq 1..p - 1
    BY <1>1
  <2> QED
    BY <2>1, <2>2
<1>3. Cardinality(1..p - 1) = IF 1 > p - 1 THEN 0 ELSE (p - 1) - 1 + 1
  BY FS_Interval
<1> HIDE DEF L
<1>4. 1 + Cardinality(L) = p
  BY <1>1, <1>2, <1>3
<1> QED
  BY <1>4 DEF InsertBefore, L

\* An edge has such a place, in a list of any order.
LEMMA StopExists ==
  ASSUME NEW s \in Seq(EdgeType), NEW e \in EdgeType
  PROVE  \E p \in 1..Len(s) + 1 :
           /\ \A i \in 1..p - 1 : s[i].value < e.value
           /\ p # Len(s) + 1 => s[p].value >= e.value
<1> DEFINE S == {p \in 1..Len(s) + 1 : p # Len(s) + 1 => s[p].value >= e.value}
<1>1. Len(s) \in Nat /\ DOMAIN s = 1..Len(s)
  OBVIOUS
<1>2. S \in SUBSET Nat /\ Len(s) + 1 \in S
  BY <1>1
<1>3. PICK p \in S : \A q \in S : p <= q
  <2> HIDE DEF S
  <2> QED BY <1>2, FirstOf
<1>4. ASSUME NEW i \in 1..p - 1 PROVE s[i].value < e.value
  <2>1. i \notin S /\ i \in DOMAIN s
    BY <1>1, <1>3
  <2>2. ~(s[i].value >= e.value)
    BY <1>1, <2>1
  <2>3. s[i] \in EdgeType
    BY <2>1
  <2> QED
    BY <2>2, <2>3 DEF EdgeType
<1> QED
  BY <1>3, <1>4

\* overlap_insert: the values still never fall and the list holds one edge more.
LEMMA InsertBeforeShape ==
  ASSUME NEW E \in SUBSET EdgeType, NEW s \in Seq(E), NEW e \in E
  PROVE  /\ InsertBefore(s, e) \in Seq(E)
         /\ Len(InsertBefore(s, e)) = Len(s) + 1
         /\ Rising(s) => Rising(InsertBefore(s, e))
         /\ \A S : CountIn(InsertBefore(s, e), S) = CountIn(s, S) + (IF e \in S THEN 1 ELSE 0)
<1>1. s \in Seq(EdgeType) /\ e \in EdgeType
  OBVIOUS
<1>2. PICK p \in 1..Len(s) + 1 :
        /\ \A i \in 1..p - 1 : s[i].value < e.value
        /\ p # Len(s) + 1 => s[p].value >= e.value
  BY <1>1, StopExists
<1> DEFINE t == PutAt(s, p, e)
<1>3. InsertBefore(s, e) = t
  BY <1>1, <1>2, InsertBeforeAt
<1>4. t \in Seq(E) /\ Len(t) = Len(s) + 1
  BY PutAtShape
<1>5. \A i \in 1..Len(s) + 1 : t[i] = IF i < p THEN s[i] ELSE IF i = p THEN e ELSE s[i - 1]
  BY PutAtShape
<1>6. \A S : CountIn(t, S) = CountIn(s, S) + (IF e \in S THEN 1 ELSE 0)
  BY PutAtCount
<1> HIDE DEF t
<1>7. ASSUME Rising(s), NEW i \in DOMAIN t, NEW j \in DOMAIN t, i < j
      PROVE  t[i].value <= t[j].value
  <2>1. Len(s) \in Nat /\ DOMAIN s = 1..Len(s) /\ DOMAIN t = 1..Len(s) + 1
    BY <1>4
  <2>2. \A k \in DOMAIN s : s[k].value \in Int
    BY <1>1 DEF EdgeType
  <2>3. e.value \in Int
    BY <1>1 DEF EdgeType
  <2>4. \A k, l \in DOMAIN s : k < l => s[k].value <= s[l].value
    BY <1>7 DEF Rising
  <2>5. CASE j < p
    BY <1>5, <1>7, <2>1, <2>4, <2>5
  <2>6. CASE j = p
    BY <1>2, <1>5, <1>7, <2>1, <2>2, <2>3, <2>6
  <2>7. CASE j > p
    <3>1. j - 1 \in DOMAIN s /\ t[j] = s[j - 1] /\ p \in DOMAIN s /\ p <= j - 1
      BY <1>5, <1>7, <2>1, <2>7
    <3>2. e.value <= s[p].value /\ s[p].value <= s[j - 1].value
      BY <1>2, <2>1, <2>2, <2>3, <2>4, <3>1
    <3>3. CASE i = p
      BY <1>5, <2>1, <2>2, <2>3, <3>1, <3>2, <3>3
    <3>4. CASE i < p
      BY <1>5, <1>7, <2>1, <2>4, <3>1, <3>4
    <3>5. CASE i > p
      <4>1. i - 1 \in DOMAIN s /\ i - 1 < j - 1 /\ t[i] = s[i - 1]
        BY <1>5, <1>7, <2>1, <3>1, <3>5
      <4> QED
        BY <2>4, <3>1, <4>1
    <3> QED
      BY <2>1, <3>3, <3>4, <3>5
  <2> QED
    BY <2>1, <2>5, <2>6, <2>7
<1>8. Rising(s) => Rising(t)
  BY <1>7 DEF Rising
<1> QED
  BY <1>3, <1>4, <1>6, <1>8

\* overlap_add when both edges could be allocated.
LEMMA AddEdgesShape ==
  ASSUME NEW E \in SUBSET EdgeType, NEW s \in Seq(E), Rising(s),
         NEW l, NEW h, Edge(l, -1) \in E, Edge(h, 1) \in E
  PROVE  /\ AddEdges(s, l, h, {"lo", "hi"}) \in Seq(E)
         /\ Rising(AddEdges(s, l, h, {"lo", "hi"}))
         /\ Len(AddEdges(s, l, h, {"lo", "hi"})) = Len(s) + 2
         /\ \A S : CountIn(AddEdges(s, l, h, {"lo", "hi"}), S) =
                     CountIn(s, S) + (IF Edge(l, -1) \in S THEN 1 ELSE 0)
                                   + (IF Edge(h, 1) \in S THEN 1 ELSE 0)
<1> DEFINE low  == Edge(l, -1)
           high == Edge(h, 1)
           t    == InsertBefore(s, low)
<1>1. low \in E /\ high \in E
  OBVIOUS
<1> HIDE DEF low, high
<1>2. /\ t \in Seq(E) /\ Rising(t) /\ Len(t) = Len(s) + 1
      /\ \A S : CountIn(t, S) = CountIn(s, S) + (IF low \in S THEN 1 ELSE 0)
  BY <1>1, InsertBeforeShape
<1> HIDE DEF t
<1>3. /\ InsertBefore(t, high) \in Seq(E) /\ Rising(InsertBefore(t, high))
      /\ Len(InsertBefore(t, high)) = Len(t) + 1
      /\ \A S : CountIn(InsertBefore(t, high), S) = CountIn(t, S) + (IF high \in S THEN 1 ELSE 0)
  BY <1>1, <1>2, InsertBeforeShape
<1>4. AddEdges(s, l, h, {"lo", "hi"}) = InsertBefore(t, high)
  BY DEF AddEdges, low, high, t
<1> QED
  BY <1>2, <1>3, <1>4 DEF low, high

-----------------------------------------------------------------------------
(* Ranges that end where no range begins *)

\* The list of no ranges.
LEMMA HoldsRangesEmpty == HoldsRanges(<<>>, <<>>) /\ \A x \in Value : Depth(<<>>, x) = 0
<1>1. ASSUME NEW S PROVE CountIn(<<>>, S) = 0
  <2>1. IndicesIn(<<>>, S) = {}
    BY DEF IndicesIn
  <2> QED
    BY <2>1, FS_EmptySet DEF CountIn
<1>2. ASSUME NEW x \in Value PROVE Depth(<<>>, x) = 0
  <2>1. {i \in DOMAIN <<>> : <<>>[i].lo <= x /\ x <= <<>>[i].hi} = {}
    OBVIOUS
  <2>2. Depth(<<>>, x) = Cardinality({})
    BY <2>1 DEF Depth
  <2> QED
    BY <2>2, FS_EmptySet
<1>3. <<>> \in Seq(EdgeOfValue) /\ <<>> \in Seq(Interval) /\ Len(<<>>) = 2 * Len(<<>>)
  OBVIOUS
<1>4. Sorted(<<>>)
  BY DEF Sorted
<1>5. CountsRanges(<<>>, <<>>) /\ Balanced(<<>>) /\ LowsKnown(<<>>, <<>>)
  BY <1>1, <1>2 DEF CountsRanges, Balanced, LowsKnown
<1> QED
  BY <1>2, <1>3, <1>4, <1>5 DEF HoldsRanges

\* A new edge keeps the order of the Python implementations when it opens a range
\* or no range opens at its value.
LEMMA InsertBeforeSorted ==
  ASSUME NEW s \in Seq(EdgeType), Sorted(s), NEW e \in EdgeType,
         e.chime = 1 => \A i \in 1..Len(s) : s[i].value = e.value => s[i].chime = 1
  PROVE  Sorted(InsertBefore(s, e))
<1>1. PICK p \in 1..Len(s) + 1 :
        /\ \A i \in 1..p - 1 : s[i].value < e.value
        /\ p # Len(s) + 1 => s[p].value >= e.value
  BY StopExists
<1>2. \A i \in 1..p - 1 : Precedes(s[i], e)
  BY <1>1 DEF Precedes
<1>3. ASSUME NEW i \in p..Len(s) PROVE Precedes(e, s[i])
  <2>1. p \in 1..Len(s) /\ s[p].value >= e.value /\ i \in 1..Len(s)
    BY <1>1
  <2>2. i = p \/ Precedes(s[p], s[i])
    BY <2>1 DEF Sorted
  <2>3. s[p] \in EdgeType /\ s[i] \in EdgeType
    BY <2>1
  <2>4. s[i].value >= e.value /\ s[i].chime \in {-1, 1} /\ e.chime \in {-1, 1}
    BY <2>1, <2>2, <2>3 DEF Precedes, EdgeType
  <2>5. e.chime = 1 /\ s[i].value = e.value => s[i].chime = 1
    BY <2>1
  <2>6. s[i].value \in Int /\ e.value \in Int
    BY <2>3 DEF EdgeType
  <2> QED
    BY <2>4, <2>5, <2>6 DEF Precedes
<1>4. Sorted(PutAt(s, p, e))
  BY <1>2, <1>3, PutAtSorted
<1>5. InsertBefore(s, e) = PutAt(s, p, e)
  BY <1>1, InsertBeforeAt
<1> QED
  BY <1>4, <1>5

\* An element of a sequence is counted.
LEMMA CountedOnce ==
  ASSUME NEW E, NEW s \in Seq(E), NEW i \in 1..Len(s)
  PROVE  CountIn(s, {s[i]}) # 0
<1> DEFINE I == IndicesIn(s, {s[i]})
<1>1. i \in I /\ I \subseteq DOMAIN s
  BY DEF IndicesIn
<1>2. IsFiniteSet(I)
  BY <1>1, IndicesFinite
<1> HIDE DEF I
<1>3. Cardinality(I) # 0
  BY <1>1, <1>2, FS_EmptySet
<1> QED
  BY <1>3 DEF CountIn, I

\* One more range, which ends where neither it nor an earlier one begins.
LEMMA AddKeeps ==
  ASSUME NEW s, NEW rs, HoldsRanges(s, rs), NEW l \in Value, NEW h \in Value, l < h,
         \A i \in DOMAIN rs : rs[i].lo # h
  PROVE  HoldsRanges(AddEdges(s, l, h, {"lo", "hi"}), Append(rs, [lo |-> l, hi |-> h]))
<1> DEFINE low  == Edge(l, -1)
           high == Edge(h, 1)
           r    == [lo |-> l, hi |-> h]
           u    == InsertBefore(s, low)
           t    == AddEdges(s, l, h, {"lo", "hi"})
<1>1. /\ s \in Seq(EdgeOfValue) /\ rs \in Seq(Interval) /\ Len(s) = 2 * Len(rs)
      /\ Sorted(s) /\ CountsRanges(s, rs) /\ Balanced(s) /\ LowsKnown(s, rs)
  BY DEF HoldsRanges
<1>2. s \in Seq(EdgeType) /\ EdgeOfValue \in SUBSET EdgeType
  BY <1>1, ValuesOfEdges
<1>3. l \in Int /\ h \in Int /\ l # h
  BY ValueAssumption
<1>4. /\ low \in EdgeOfValue /\ low \in EdgeType /\ low.value = l /\ low.chime = -1
      /\ high \in EdgeOfValue /\ high \in EdgeType /\ high.value = h /\ high.chime = 1
  BY <1>3 DEF Edge, EdgeOfValue, EdgeType
<1>5. Sorted(u)
  BY <1>1, <1>2, <1>4, InsertBeforeSorted
<1>6. u \in Seq(EdgeType) /\ \A S : CountIn(u, S) = CountIn(s, S) + (IF low \in S THEN 1 ELSE 0)
  BY <1>2, <1>4, InsertBeforeShape
<1>7. ASSUME NEW i \in 1..Len(u), u[i].value = h PROVE u[i].chime = 1
  <2> SUFFICES ASSUME u[i].chime # 1 PROVE FALSE
    OBVIOUS
  <2>1. u[i] \in EdgeType
    BY <1>6
  <2>2. u[i] = Edge(h, -1)
    BY <1>7, <2>1 DEF EdgeType, Edge
  <2>3. CountIn(u, {Edge(h, -1)}) # 0
    BY <1>6, <2>2, CountedOnce
  <2>4. low # Edge(h, -1)
    BY <1>3, <1>4 DEF Edge
  <2>5. CountIn(s, {Edge(h, -1)}) # 0
    BY <1>1, <1>6, <2>3, <2>4
  <2> QED
    BY <1>1, <2>5 DEF LowsKnown
<1>8. t = InsertBefore(u, high)
  BY DEF AddEdges
<1>9. Sorted(t)
  <2>1. Sorted(InsertBefore(u, high))
    <3> HIDE DEF u, high
    <3> QED BY <1>4, <1>5, <1>6, <1>7, InsertBeforeSorted
  <2> QED
    BY <1>8, <2>1
<1>10. Rising(s)
  <2>1. \A i, j \in DOMAIN s : i < j => s[i] \in EdgeType /\ s[j] \in EdgeType /\ Precedes(s[i], s[j])
    BY <1>1, <1>2 DEF Sorted
  <2> QED
    BY <2>1 DEF Rising, Precedes, EdgeType
<1>11. /\ t \in Seq(EdgeOfValue) /\ t \in Seq(EdgeType) /\ Len(t) = Len(s) + 2
       /\ \A S : CountIn(t, S) = CountIn(s, S) + (IF low \in S THEN 1 ELSE 0)
                                              + (IF high \in S THEN 1 ELSE 0)
  BY <1>1, <1>2, <1>4, <1>10, AddEdgesShape
<1> HIDE DEF t, u
<1>12. CountsRanges(t, Append(rs, r))
  <2>1. l <= h
    BY <1>3
  <2> QED
    BY <1>1, <1>2, <1>11, <2>1, AddCounts
<1>13. r \in Interval
  BY DEF Interval
<1>14. Append(rs, r) \in Seq(Interval) /\ Len(t) = 2 * Len(Append(rs, r))
  BY <1>1, <1>11, <1>13
<1>15. LowsKnown(t, Append(rs, r))
  <2> SUFFICES ASSUME NEW v \in Value, CountIn(t, {Edge(v, -1)}) # 0
               PROVE  \E i \in DOMAIN Append(rs, r) : Append(rs, r)[i].lo = v
    BY DEF LowsKnown
  <2>1. CASE v = l
    <3>1. Len(rs) + 1 \in DOMAIN Append(rs, r) /\ Append(rs, r)[Len(rs) + 1] = r
      BY <1>1
    <3> QED
      BY <2>1, <3>1
  <2>2. CASE v # l
    <3>1. low \notin {Edge(v, -1)} /\ high \notin {Edge(v, -1)}
      BY <2>2, <1>4 DEF Edge
    <3>2. CountIn(s, {Edge(v, -1)}) # 0
      <4>1. CountIn(s, {Edge(v, -1)}) \in Nat
        BY <1>1, IndicesFinite DEF CountIn, IndicesIn
      <4> QED
        BY <1>11, <3>1, <4>1
    <3>3. PICK i \in DOMAIN rs : rs[i].lo = v
      BY <1>1, <3>2 DEF LowsKnown
    <3>4. i \in DOMAIN Append(rs, r) /\ Append(rs, r)[i] = rs[i]
      BY <1>1
    <3> QED
      BY <3>3, <3>4
  <2> QED
    BY <2>1, <2>2
<1>16. Balanced(t)
  <2> SUFFICES ASSUME NEW x \in Int
               PROVE  /\ CountIn(t, Below(x) \cap HighEdges) <= CountIn(t, Below(x) \cap LowEdges)
                      /\ CountIn(t, Above(x) \cap LowEdges) <= CountIn(t, Above(x) \cap HighEdges)
    BY DEF Balanced
  <2> DEFINE bh == CountIn(s, Below(x) \cap HighEdges)
             bl == CountIn(s, Below(x) \cap LowEdges)
             ah == CountIn(s, Above(x) \cap HighEdges)
             al == CountIn(s, Above(x) \cap LowEdges)
  <2>1. bh \in Nat /\ bl \in Nat /\ ah \in Nat /\ al \in Nat
    BY <1>1, IndicesFinite DEF CountIn, IndicesIn
  <2>2. bh <= bl /\ al <= ah
    BY <1>1 DEF Balanced
  <2>3. /\ low \notin HighEdges /\ high \notin LowEdges /\ low \in LowEdges /\ high \in HighEdges
        /\ low \in Below(x) <=> l <= x
        /\ high \in Below(x) <=> h <= x
        /\ low \in Above(x) <=> l >= x
        /\ high \in Above(x) <=> h >= x
    BY <1>4 DEF HighEdges, LowEdges, Below, Above
  <2> HIDE DEF bh, bl, ah, al, low, high
  <2>4. /\ CountIn(t, Below(x) \cap HighEdges) = bh + (IF h <= x THEN 1 ELSE 0)
        /\ CountIn(t, Below(x) \cap LowEdges) = bl + (IF l <= x THEN 1 ELSE 0)
    BY <1>11, <2>1, <2>3 DEF bh, bl
  <2>5. /\ CountIn(t, Above(x) \cap HighEdges) = ah + (IF h >= x THEN 1 ELSE 0)
        /\ CountIn(t, Above(x) \cap LowEdges) = al + (IF l >= x THEN 1 ELSE 0)
    BY <1>11, <2>1, <2>3 DEF ah, al
  <2> QED
    BY <1>3, <2>1, <2>2, <2>4, <2>5
<1> QED
  BY <1>9, <1>11, <1>12, <1>14, <1>15, <1>16 DEF HoldsRanges, t, r

-----------------------------------------------------------------------------
(* The comparison of chime with an unsigned *)

\* When no more ranges end than begin the counts of both scans are between 0 and
\* the number of edges.
LEMMA UpIsNatural ==
  ASSUME NEW s \in Seq(EdgeType), Sorted(s), Balanced(s)
  PROVE  \A k \in 0..Len(s) : ChimeUp(s, k) \in 0..Len(s)
<1> DEFINE n == Len(s)
<1>1. n \in Nat /\ DOMAIN s = 1..n
  OBVIOUS
<1>2. /\ ChimeUp(s, 0) = 0 /\ \A k \in 0..n : ChimeUp(s, k) \in Int
      /\ \A k \in 1..n : ChimeUp(s, k) = ChimeUp(s, k - 1) - s[k].chime
  BY ScanUp
<1>3. ASSUME NEW k \in 0..n PROVE /\ IsFiniteSet(Lows(s, 1..k)) /\ IsFiniteSet(Highs(s, 1..k))
                                 /\ Cardinality(Lows(s, 1..k)) \in Nat
                                 /\ Cardinality(Highs(s, 1..k)) \in Nat
                                 /\ Cardinality(Lows(s, 1..k)) <= n
  <2>1. Lows(s, 1..k) \subseteq 1..n /\ Highs(s, 1..k) \subseteq 1..n
    BY <1>1 DEF Lows, Highs
  <2>2. IsFiniteSet(1..n) /\ Cardinality(1..n) = n
    <3> HIDE DEF n
    <3>1. IsFiniteSet(1..n) /\ Cardinality(1..n) = IF 1 > n THEN 0 ELSE n - 1 + 1
      BY <1>1, FS_Interval
    <3> QED BY <1>1, <3>1
  <2> HIDE DEF n
  <2> QED
    BY <1>1, <2>1, <2>2, IndicesFinite, FS_Subset
<1> DEFINE Bad == {k \in 0..n : ChimeUp(s, k) < 0}
<1>4. Bad = {}
  <2> SUFFICES ASSUME Bad # {} PROVE FALSE
    OBVIOUS
  <2>1. Bad \in SUBSET Nat
    BY <1>1
  <2>2. PICK k \in Bad : \A i \in Bad : k <= i
    <3> HIDE DEF Bad
    <3> QED BY <2>1, FirstOf
  <2>3. k \in 1..n /\ ChimeUp(s, k) < 0 /\ k - 1 \in 0..n
    BY <1>1, <1>2, <2>2
  <2>4. ChimeUp(s, k - 1) >= 0
    BY <1>1, <1>2, <2>2, <2>3
  <2>5. s[k] \in EdgeType /\ s[k].value \in Int /\ s[k].chime = 1
    <3>1. s[k] \in EdgeType
      BY <2>3
    <3>2. s[k].value \in Int /\ s[k].chime \in {-1, 1}
      BY <3>1 DEF EdgeType
    <3> QED
      BY <1>2, <2>3, <2>4, <3>1, <3>2
  <2> DEFINE x == s[k].value
  <2>6. ASSUME NEW i \in 1..n, NEW j \in 1..n, i < j, s[j] \in Below(x) PROVE s[i] \in Below(x)
    <3>1. Precedes(s[i], s[j]) /\ s[i] \in EdgeType /\ s[j] \in EdgeType
      BY <1>1, <2>6 DEF Sorted
    <3> QED
      BY <2>5, <2>6, <3>1 DEF Precedes, EdgeType, Below
  <2>7. PICK m \in 0..n :
          /\ \A i \in 1..n : s[i] \in Below(x) <=> i <= m
          /\ ChimeUp(s, m) = CountIn(s, Below(x) \cap LowEdges) - CountIn(s, Below(x) \cap HighEdges)
    <3> HIDE DEF x
    <3> QED BY <2>6, CountBehind
  <2>8. k <= m
    <3>1. s[k] \in Below(x)
      BY <2>5 DEF Below
    <3> QED
      BY <2>3, <2>7, <3>1
  <2>9. \A i \in k + 1..m : s[i].chime = 1
    <3> SUFFICES ASSUME NEW i \in k + 1..m PROVE s[i].chime = 1
      OBVIOUS
    <3>1. i \in 1..n /\ k < i /\ s[i] \in Below(x)
      BY <1>1, <2>3, <2>7
    <3>2. Precedes(s[k], s[i]) /\ s[i] \in EdgeType
      BY <1>1, <2>3, <3>1 DEF Sorted
    <3> QED
      BY <2>5, <3>1, <3>2 DEF Precedes, EdgeType, Below
  <2>10. Lows(s, 1..m) = Lows(s, 1..k) /\ Highs(s, 1..k) \subseteq Highs(s, 1..m)
    <3>1. \A i \in 1..m : i \in 1..k \/ s[i].chime = 1
      BY <1>1, <2>3, <2>9
    <3>2. 1..k \subseteq 1..m
      BY <1>1, <2>3, <2>8
    <3> QED
      BY <3>1, <3>2 DEF Lows, Highs
  <2>11. Cardinality(Highs(s, 1..k)) <= Cardinality(Highs(s, 1..m))
    BY <1>3, <2>10, FS_Subset
  <2>12. ChimeUp(s, m) <= ChimeUp(s, k)
    <3>1. k \in 0..n
      BY <2>2
    <3>2. Cardinality(Lows(s, 1..k)) \in Nat /\ Cardinality(Highs(s, 1..k)) \in Nat
      BY <1>3, <3>1
    <3>3. Cardinality(Highs(s, 1..m)) \in Nat
      BY <1>3
    <3> QED
      BY <2>10, <2>11, <3>2, <3>3 DEF ChimeUp
  <2>13. ChimeUp(s, m) >= 0
    <3>1. /\ CountIn(s, Below(x) \cap LowEdges) \in Nat
          /\ CountIn(s, Below(x) \cap HighEdges) \in Nat
      BY IndicesFinite DEF CountIn, IndicesIn
    <3>2. CountIn(s, Below(x) \cap HighEdges) <= CountIn(s, Below(x) \cap LowEdges)
      BY <2>5 DEF Balanced
    <3> QED
      BY <2>7, <3>1, <3>2
  <2>14. ChimeUp(s, m) \in Int /\ ChimeUp(s, k) \in Int
    BY <1>2, <2>3
  <2> QED
    BY <2>3, <2>12, <2>13, <2>14
<1>5. ASSUME NEW k \in 0..n PROVE ChimeUp(s, k) \in 0..n
  <2>1. ChimeUp(s, k) >= 0 /\ ChimeUp(s, k) \in Int
    BY <1>2, <1>4
  <2>2. /\ Cardinality(Lows(s, 1..k)) \in Nat /\ Cardinality(Highs(s, 1..k)) \in Nat
        /\ Cardinality(Lows(s, 1..k)) <= n
    BY <1>3
  <2>3. ChimeUp(s, k) <= n
    BY <1>1, <2>2 DEF ChimeUp
  <2> QED
    BY <1>1, <2>1, <2>3
<1> QED
  BY <1>5

\* The same for the downward scan.
LEMMA DownIsNatural ==
  ASSUME NEW s \in Seq(EdgeType), Sorted(s), Balanced(s)
  PROVE  \A k \in 1..Len(s) + 1 : ChimeDown(s, k) \in 0..Len(s)
<1> DEFINE n == Len(s)
<1>1. n \in Nat /\ DOMAIN s = 1..n
  OBVIOUS
<1>2. /\ ChimeDown(s, n + 1) = 0 /\ \A k \in 1..n + 1 : ChimeDown(s, k) \in Int
      /\ \A k \in 1..n : ChimeDown(s, k) = ChimeDown(s, k + 1) + s[k].chime
  BY ScanDown
<1>3. ASSUME NEW k \in 1..n + 1 PROVE /\ IsFiniteSet(Lows(s, k..n)) /\ IsFiniteSet(Highs(s, k..n))
                                     /\ Cardinality(Lows(s, k..n)) \in Nat
                                     /\ Cardinality(Highs(s, k..n)) \in Nat
                                     /\ Cardinality(Highs(s, k..n)) <= n
  <2>1. Lows(s, k..n) \subseteq 1..n /\ Highs(s, k..n) \subseteq 1..n
    BY <1>1 DEF Lows, Highs
  <2>2. IsFiniteSet(1..n) /\ Cardinality(1..n) = n
    <3> HIDE DEF n
    <3>1. IsFiniteSet(1..n) /\ Cardinality(1..n) = IF 1 > n THEN 0 ELSE n - 1 + 1
      BY <1>1, FS_Interval
    <3> QED BY <1>1, <3>1
  <2> HIDE DEF n
  <2> QED
    BY <1>1, <2>1, <2>2, IndicesFinite, FS_Subset
<1> DEFINE Bad == {k \in 1..n : ChimeDown(s, k) < 0}
<1>4. Bad = {}
  <2> SUFFICES ASSUME Bad # {} PROVE FALSE
    OBVIOUS
  <2>1. Bad \in SUBSET (1..n)
    OBVIOUS
  <2>2. PICK k \in Bad : \A i \in Bad : i <= k
    <3> HIDE DEF Bad, n
    <3> QED BY <1>1, <2>1, LastOf
  <2>3. k \in 1..n /\ ChimeDown(s, k) < 0 /\ k + 1 \in 1..n + 1
    BY <1>1, <2>2
  <2>4. ChimeDown(s, k + 1) >= 0
    <3>1. CASE k = n
      BY <1>2, <3>1
    <3>2. CASE k # n
      <4> HIDE DEF Bad, n
      <4>1. k \in Int /\ k + 1 \in 1..n
        BY <1>1, <2>3, <3>2
      <4>2. k + 1 \notin Bad
        BY <2>2, <4>1
      <4>3. ChimeDown(s, k + 1) \in Int
        BY <1>2, <2>3
      <4> QED
        BY <4>1, <4>2, <4>3 DEF Bad
    <3> QED
      BY <3>1, <3>2
  <2>5. s[k] \in EdgeType /\ s[k].value \in Int /\ s[k].chime = -1
    <3>1. s[k] \in EdgeType
      BY <2>3
    <3>2. s[k].value \in Int /\ s[k].chime \in {-1, 1}
      BY <3>1 DEF EdgeType
    <3> QED
      BY <1>2, <2>3, <2>4, <3>1, <3>2
  <2> DEFINE x == s[k].value
  <2>6. ASSUME NEW i \in 1..n, NEW j \in 1..n, i < j, s[i] \in Above(x) PROVE s[j] \in Above(x)
    <3>1. Precedes(s[i], s[j]) /\ s[i] \in EdgeType /\ s[j] \in EdgeType
      BY <1>1, <2>6 DEF Sorted
    <3> QED
      BY <2>5, <2>6, <3>1 DEF Precedes, EdgeType, Above
  <2>7. PICK m \in 1..n + 1 :
          /\ \A i \in 1..n : s[i] \in Above(x) <=> i >= m
          /\ ChimeDown(s, m) = CountIn(s, Above(x) \cap HighEdges) - CountIn(s, Above(x) \cap LowEdges)
    <3> HIDE DEF x
    <3> QED BY <2>6, CountAhead
  <2>8. m <= k
    <3>1. s[k] \in Above(x)
      BY <2>5 DEF Above
    <3> QED
      BY <2>3, <2>7, <3>1
  <2>9. \A i \in m..k - 1 : s[i].chime = -1
    <3> SUFFICES ASSUME NEW i \in m..k - 1 PROVE s[i].chime = -1
      OBVIOUS
    <3>1. i \in 1..n /\ i < k /\ s[i] \in Above(x)
      BY <1>1, <2>3, <2>7
    <3>2. Precedes(s[i], s[k]) /\ s[i] \in EdgeType
      BY <1>1, <2>3, <3>1 DEF Sorted
    <3> QED
      BY <2>5, <3>1, <3>2 DEF Precedes, EdgeType, Above
  <2>10. Highs(s, m..n) = Highs(s, k..n) /\ Lows(s, k..n) \subseteq Lows(s, m..n)
    <3>1. \A i \in m..n : i \in k..n \/ s[i].chime = -1
      BY <1>1, <2>3, <2>9
    <3>2. k..n \subseteq m..n
      BY <1>1, <2>3, <2>8
    <3> QED
      BY <3>1, <3>2 DEF Lows, Highs
  <2>11. Cardinality(Lows(s, k..n)) <= Cardinality(Lows(s, m..n))
    BY <1>3, <2>10, FS_Subset
  <2>12. ChimeDown(s, m) <= ChimeDown(s, k)
    <3>1. k \in 1..n + 1
      BY <1>1, <2>3
    <3>2. Cardinality(Lows(s, k..n)) \in Nat /\ Cardinality(Highs(s, k..n)) \in Nat
      BY <1>3, <3>1
    <3>3. Cardinality(Lows(s, m..n)) \in Nat
      BY <1>3
    <3> QED
      BY <2>10, <2>11, <3>2, <3>3 DEF ChimeDown
  <2>13. ChimeDown(s, m) >= 0
    <3>1. /\ CountIn(s, Above(x) \cap LowEdges) \in Nat
          /\ CountIn(s, Above(x) \cap HighEdges) \in Nat
      BY IndicesFinite DEF CountIn, IndicesIn
    <3>2. CountIn(s, Above(x) \cap LowEdges) <= CountIn(s, Above(x) \cap HighEdges)
      BY <2>5 DEF Balanced
    <3> QED
      BY <2>7, <3>1, <3>2
  <2>14. ChimeDown(s, m) \in Int /\ ChimeDown(s, k) \in Int
    BY <1>1, <1>2, <2>3
  <2> QED
    BY <2>3, <2>12, <2>13, <2>14
<1>5. ASSUME NEW k \in 1..n + 1 PROVE ChimeDown(s, k) \in 0..n
  <2>1. ChimeDown(s, k) >= 0 /\ ChimeDown(s, k) \in Int
    BY <1>1, <1>2, <1>4
  <2>2. /\ Cardinality(Lows(s, k..n)) \in Nat /\ Cardinality(Highs(s, k..n)) \in Nat
        /\ Cardinality(Highs(s, k..n)) <= n
    BY <1>3
  <2>3. ChimeDown(s, k) <= n
    BY <1>1, <2>2 DEF ChimeDown
  <2> QED
    BY <1>1, <2>1, <2>3
<1> QED
  BY <1>5

\* So the comparison with an unsigned is that of whole numbers.
LEMMA SameReach ==
  ASSUME NEW s, NEW rs, HoldsRanges(s, rs), UIntMod \in Nat, Len(s) < UIntMod, NEW w
  PROVE  ReachedUp(s, w) = ReachUp(s, w) /\ ReachedDown(s, w) = ReachDown(s, w)
<1>1. /\ s \in Seq(EdgeType) /\ Sorted(s) /\ Balanced(s) /\ Len(s) \in Nat
      /\ DOMAIN s = 1..Len(s)
  BY ValuesOfEdges DEF HoldsRanges
<1>2. ASSUME NEW c \in 0..Len(s) PROVE Reached(c, w) <=> c >= w
  <2>1. c % UIntMod = c
    BY <1>1
  <2> QED
    BY <2>1 DEF Reached
<1>3. \A k \in 1..Len(s) : ChimeUp(s, k) \in 0..Len(s) /\ ChimeDown(s, k) \in 0..Len(s)
  BY <1>1, UpIsNatural, DownIsNatural
<1>4. ReachedUp(s, w) = ReachUp(s, w)
  BY <1>1, <1>2, <1>3 DEF ReachedUp, ReachUp
<1>5. ReachedDown(s, w) = ReachDown(s, w)
  BY <1>1, <1>2, <1>3 DEF ReachedDown, ReachDown
<1> QED
  BY <1>4, <1>5

\* A count is reached from both ends when some point lies in as many ranges.
LEMMA ReachedIff ==
  ASSUME NEW s, NEW rs, HoldsRanges(s, rs), UIntMod \in Nat, Len(s) < UIntMod, NEW w \in Nat \ {0}
  PROVE  /\ ReachedUp(s, w) # {} <=> \E x \in Value : Depth(rs, x) >= w
         /\ ReachedDown(s, w) # {} <=> \E x \in Value : Depth(rs, x) >= w
<1>1. ReachedUp(s, w) = ReachUp(s, w) /\ ReachedDown(s, w) = ReachDown(s, w)
  BY SameReach
<1>2. s \in Seq(EdgeOfValue) /\ Sorted(s) /\ rs \in Seq(Interval) /\ CountsRanges(s, rs)
  BY DEF HoldsRanges
<1>3. ReachUp(s, w) # {} <=> \E x \in Value : Depth(rs, x) >= w
  BY <1>2, ScanUpFinds
<1>4. ReachDown(s, w) # {} <=> \E x \in Value : Depth(rs, x) >= w
  BY <1>2, ScanDownFinds
<1> QED
  BY <1>1, <1>3, <1>4

\* The two edges found for a count that some point reaches and none exceeds are
\* the ends of the deepest overlap.
LEMMA FoundIsBest ==
  ASSUME NEW s, NEW rs, HoldsRanges(s, rs), UIntMod \in Nat, Len(s) < UIntMod,
         NEW w \in Nat \ {0}, \A x \in Value : Depth(rs, x) <= w,
         \E x \in Value : Depth(rs, x) >= w
  PROVE  /\ MaxDepth(rs) = w /\ Outermost(rs, w, FoundLo(s, w), FoundHi(s, w))
         /\ Best(rs) = [count |-> w, lo |-> FoundLo(s, w), hi |-> FoundHi(s, w)]
<1> DEFINE U == ReachUp(s, w)
           D == ReachDown(s, w)
<1>1. ReachedUp(s, w) = U /\ ReachedDown(s, w) = D
  BY SameReach
<1>2. s \in Seq(EdgeOfValue) /\ Sorted(s) /\ rs \in Seq(Interval) /\ CountsRanges(s, rs)
  BY DEF HoldsRanges
<1>3. /\ U # {}
      /\ \A k \in U : (\A m \in U : k <= m) =>
           /\ s[k].value \in Value /\ Depth(rs, s[k].value) >= w
           /\ \A x \in Value : Depth(rs, x) >= w => s[k].value <= x
  BY <1>2, ScanUpFinds
<1>4. /\ D # {}
      /\ \A k \in D : (\A m \in D : m <= k) =>
           /\ s[k].value \in Value /\ Depth(rs, s[k].value) >= w
           /\ \A x \in Value : Depth(rs, x) >= w => x <= s[k].value
  BY <1>2, ScanDownFinds
<1>5. U \subseteq 1..Len(s) /\ D \subseteq 1..Len(s) /\ Len(s) \in Nat
  BY <1>2 DEF ReachUp, ReachDown
<1> HIDE DEF U, D
<1>6. \E k \in U : \A m \in U : k <= m
  <2>1. U \in SUBSET Nat
    BY <1>5
  <2> QED
    BY <1>3, <2>1, FirstOf
<1>7. \E k \in D : \A m \in D : m <= k
  BY <1>4, <1>5, LastOf
<1> DEFINE lo == FoundLo(s, w)
           hi == FoundHi(s, w)
<1>8. lo \in Value /\ Depth(rs, lo) >= w /\ \A x \in Value : Depth(rs, x) >= w => lo <= x
  BY <1>1, <1>3, <1>6 DEF FoundLo
<1>9. hi \in Value /\ Depth(rs, hi) >= w /\ \A x \in Value : Depth(rs, x) >= w => x <= hi
  BY <1>1, <1>4, <1>7 DEF FoundHi
<1> HIDE DEF lo, hi
<1>10. w \in 1..Len(rs)
  <2>1. Depth(rs, lo) \in Nat /\ Depth(rs, lo) <= Len(rs) /\ Len(rs) \in Nat
    BY <1>2, DepthType
  <2> QED
    BY <1>8, <2>1
<1>11. MaxDepth(rs) = w /\ Best(rs) = [count |-> w, lo |-> lo, hi |-> hi]
  BY <1>2, <1>8, <1>9, <1>10, BestIs
<1>12. Outermost(rs, w, lo, hi)
  BY <1>8, <1>9 DEF Outermost
<1> QED
  BY <1>11, <1>12 DEF lo, hi

\* A search downwards from w that gave up every count above n has found n.
LEMMA FoundIs ==
  ASSUME NEW s, NEW w \in Nat, NEW n \in 0..w,
         \A m \in n + 1..w : ReachedUp(s, m) = {} \/ ReachedDown(s, m) = {},
         n # 0 => ReachedUp(s, n) # {} /\ ReachedDown(s, n) # {}
  PROVE  FoundCount(s, w) = n
<1> DEFINE W == {m \in 1..w : ReachedUp(s, m) # {} /\ ReachedDown(s, m) # {}}
<1>1. \A m \in W : m \in 1..w /\ m <= n
  OBVIOUS
<1>2. FoundCount(s, w) = IF W = {} THEN 0 ELSE CHOOSE m \in W : \A k \in W : k <= m
  BY DEF FoundCount
<1>3. CASE n = 0
  <2>1. W = {}
    BY <1>1, <1>3
  <2> QED
    BY <1>2, <1>3, <2>1
<1>4. CASE n # 0
  <2>1. n \in W
    BY <1>4
  <2> HIDE DEF W
  <2>2. \A m \in W : (\A k \in W : k <= m) => m = n
    BY <1>1, <2>1
  <2> QED
    BY <1>1, <1>2, <2>1, <2>2
<1> QED
  BY <1>3, <1>4

\* A search downwards from an upper bound finds the deepest overlap.
LEMMA SearchIs ==
  ASSUME NEW s, NEW rs, HoldsRanges(s, rs), UIntMod \in Nat, Len(s) < UIntMod,
         NEW w \in Nat, \A x \in Value : Depth(rs, x) <= w
  PROVE  LET n == FoundCount(s, w)
         IN  /\ n \in 0..w /\ MaxDepth(rs) = n /\ \A x \in Value : Depth(rs, x) <= n
             /\ Best(rs) = IF n = 0 THEN NoOverlap
                           ELSE [count |-> n, lo |-> FoundLo(s, n), hi |-> FoundHi(s, n)]
             /\ n # 0 => Outermost(rs, n, FoundLo(s, n), FoundHi(s, n))
<1> DEFINE W == {m \in 1..w : \E x \in Value : Depth(rs, x) >= m}
<1>1. \A m \in 1..w : /\ ReachedUp(s, m) # {} <=> \E x \in Value : Depth(rs, x) >= m
                      /\ ReachedDown(s, m) # {} <=> \E x \in Value : Depth(rs, x) >= m
  BY ReachedIff
<1>2. rs \in Seq(Interval) /\ Len(rs) \in Nat /\ \A x \in Value : Depth(rs, x) \in Nat
  BY DepthType DEF HoldsRanges
<1>3. CASE W = {}
  <2>1. \A m \in 0 + 1..w : ReachedUp(s, m) = {} \/ ReachedDown(s, m) = {}
    <3>1. \A m \in 1..w : m \notin W
      BY <1>3
    <3>2. 0 + 1..w = 1..w
      OBVIOUS
    <3> QED
      BY <1>1, <3>1, <3>2
  <2>2. FoundCount(s, w) = 0
    BY <2>1, FoundIs
  <2>3. ASSUME NEW x \in Value PROVE Depth(rs, x) <= 0
    BY <1>2, <1>3
  <2>4. 0 \in 0..Len(rs)
    BY <1>2
  <2>5. MaxDepth(rs) = 0
    BY <1>2, <2>3, <2>4, MaxDepthIs
  <2> QED
    BY <2>2, <2>3, <2>5 DEF Best
<1>4. CASE W # {}
  <2>1. PICK n \in W : \A m \in W : m <= n
    <3>1. W \in SUBSET (1..w)
      OBVIOUS
    <3> HIDE DEF W
    <3> QED BY <1>4, <3>1, LastOf
  <2>2. n \in 1..w /\ n \in Nat \ {0} /\ \E x \in Value : Depth(rs, x) >= n
    BY <2>1
  <2>3. ASSUME NEW x \in Value PROVE Depth(rs, x) <= n
    <3>1. Depth(rs, x) \in Nat /\ Depth(rs, x) <= w
      BY <1>2
    <3>2. Depth(rs, x) = 0 \/ Depth(rs, x) \in W
      BY <3>1
    <3> QED
      BY <2>1, <2>2, <3>1, <3>2
  <2>4. FoundCount(s, w) = n
    <3>1. \A m \in n + 1..w : m \in 1..w /\ m \notin W
      BY <2>1, <2>2
    <3>2. \A m \in n + 1..w : ReachedUp(s, m) = {} \/ ReachedDown(s, m) = {}
      BY <1>1, <3>1
    <3>3. ReachedUp(s, n) # {} /\ ReachedDown(s, n) # {}
      BY <1>1, <2>2
    <3>4. n \in 0..w
      BY <2>2
    <3> HIDE DEF W
    <3> QED
      BY <3>2, <3>3, <3>4, FoundIs
  <2>5. /\ MaxDepth(rs) = n /\ Outermost(rs, n, FoundLo(s, n), FoundHi(s, n))
        /\ Best(rs) = [count |-> n, lo |-> FoundLo(s, n), hi |-> FoundHi(s, n)]
    BY <2>2, <2>3, FoundIsBest
  <2> QED
    BY <2>2, <2>3, <2>4, <2>5
<1> QED
  BY <1>3, <1>4
=============================================================================
