--------------------------- MODULE OverlapC_proofs ----------------------------
(***************************************************************************)
(* The linked list of overlap_algo.c, with its allocations that may fail   *)
(* and its unsigned counter, for every finite set of values and any number *)
(* of ranges: no pointer is followed that does not lead to an edge, the    *)
(* list stays linked in both directions, overlap_add and overlap_find are  *)
(* atomic operations on a list of edges, and the answers are those of the  *)
(* Python class for as long as no allocation failed and no range ended     *)
(* where another began.  What is needed is that the addresses along next   *)
(* are all that is allocated, no two of them the same, and that each       *)
(* operation knows how many of the edges before its pointer it has seen.   *)
(***************************************************************************)
EXTENDS OverlapC, Edges_proofs

\* s are the addresses along next from hd, which are all that hp holds.
Chained(hp, hd, s) ==
  /\ s \in Seq(Node)
  /\ \A i, j \in 1..Len(s) : s[i] = s[j] => i = j
  /\ DOMAIN hp = {s[i] : i \in 1..Len(s)}
  /\ hd = IF Len(s) = 0 THEN NULL ELSE s[1]
  /\ \A i \in 1..Len(s) : hp[s[i]].next = IF i = Len(s) THEN NULL ELSE s[i + 1]

\* s are the addresses from either end, in the order of their values.
Linked(hp, hd, tl, s) ==
  /\ Chained(hp, hd, s)
  /\ tl = IF Len(s) = 0 THEN NULL ELSE s[Len(s)]
  /\ \A i \in 1..Len(s) : hp[s[i]].prev = IF i = 1 THEN NULL ELSE s[i - 1]
  /\ \A i, j \in 1..Len(s) : i < j => hp[s[i]].value <= hp[s[j]].value

\* The edges in the order of next.
Addresses == Nodes(heap, head)

\* The pointer to the q-th edge, NULL before the first and behind the last one.
At(q) == IF q \in 1..Len(Addresses) THEN Addresses[q] ELSE NULL

\* Outside of overlap_del the list is well linked.  There it is a chain from
\* _head, nothing of which is lost.
HeapInv ==
  /\ pc \notin {"del", "gone"} => Linked(heap, head, tail, Addresses)
  /\ pc = "del" => Chained(heap, head, Addresses)
  /\ pc = "gone" => DOMAIN heap = {}

\* No more than two edges for each range, no range in the wrong order, and no
\* more overlaps hoped for than there are ranges.
SizeInv ==
  /\ \A i \in DOMAIN ranges : ranges[i].lo <= ranges[i].hi
  /\ Len(ranges) <= MaxRanges
  /\ Cardinality(DOMAIN heap) + Len(todo) <= 2 * Len(ranges)
  /\ wanted <= Len(ranges)
  /\ pc \in {"insert", "search"} => wanted < Len(ranges)

\* A search looks at an edge, all edges before which are lower than the new one.
SearchInv ==
  /\ pc \notin {"insert", "search"} => todo = <<>>
  /\ pc = "search" =>
       /\ todo # <<>> /\ head # NULL
       /\ \E q \in 1..Len(Addresses) + 1 :
            /\ ptr = At(q)
            /\ \A i \in 1..q - 1 : heap[Addresses[i]].value < Head(todo).value

\* What the running overlap_add has done: the edges in "kept" are linked.
AddInv ==
  pc \in {"insert", "search"} =>
    LET r == ranges[Len(ranges)]
    IN  \E kept \in SUBSET {"lo", "hi"} :
          /\ Along = AddEdges(before, r.lo, r.hi, kept)
          /\ \/ todo = <<Edge(r.lo, -1), Edge(r.hi, 1)>> /\ kept = {}
             \/ /\ todo = <<Edge(r.hi, 1)>> /\ "hi" \notin kept
                /\ failures = 0 => "lo" \in kept
             \/ /\ todo = <<>>
                /\ failures = 0 => kept = {"lo", "hi"}

\* A scan has counted the edges behind it, none of which reached the count.
ScanInv ==
  /\ pc = "low" =>
       \E q \in 1..Len(Addresses) + 1 :
         /\ ptr = At(q) /\ chime = ChimeUp(Along, q - 1)
         /\ \A k \in 1..q - 1 : ~Reached(ChimeUp(Along, k), wanted)
  /\ pc = "high" =>
       \E q \in 0..Len(Addresses) :
         /\ ptr = At(q) /\ chime = ChimeDown(Along, q + 1)
         /\ \A k \in q + 1..Len(Addresses) : ~Reached(ChimeDown(Along, k), wanted)

\* A scan that is over has found the first edge that reaches the count, or none.
LowOver ==
  \E q \in 1..Len(Addresses) + 1 :
    /\ loEdge = At(q)
    /\ q \in 1..Len(Addresses) => Reached(ChimeUp(Along, q), wanted)
    /\ \A k \in 1..q - 1 : ~Reached(ChimeUp(Along, k), wanted)

HighOver ==
  \E q \in 0..Len(Addresses) :
    /\ hiEdge = At(q)
    /\ q \in 1..Len(Addresses) => Reached(ChimeDown(Along, q), wanted)
    /\ \A k \in q + 1..Len(Addresses) : ~Reached(ChimeDown(Along, k), wanted)

\* The counts the running overlap_find has given up were not reached.
FindInv ==
  pc \in {"low", "high", "test"} =>
    /\ 0 < wanted /\ wanted <= asked
    /\ \A n \in wanted + 1..asked : ReachedUp(Along, n) = {} \/ ReachedDown(Along, n) = {}
    /\ pc \in {"high", "test"} => LowOver
    /\ pc = "test" => HighOver

\* The inductive invariant.
Inv == TypeOK /\ HeapInv /\ SizeInv /\ SearchInv /\ AddInv /\ ScanInv /\ FindInv

-----------------------------------------------------------------------------
(* Chains of addresses *)

\* A chain holds each address once, and all that are allocated.
LEMMA ChainSize ==
  ASSUME NEW hp, NEW hd, NEW s, Chained(hp, hd, s)
  PROVE  IsFiniteSet(DOMAIN hp) /\ Cardinality(DOMAIN hp) = Len(s)
<1> DEFINE n == Len(s)
           f == [i \in 1..n |-> s[i]]
<1>1. n \in Nat
  BY DEF Chained
<1>2. f \in Bijection(1..n, DOMAIN hp)
  BY Zenon DEF Chained, Bijection, Injection, Surjection, IsInjective
<1> HIDE DEF n, f
<1>3. IsFiniteSet(1..n) /\ Cardinality(1..n) = IF 1 > n THEN 0 ELSE n - 1 + 1
  BY <1>1, FS_Interval
<1>4. Cardinality(1..n) = n
  BY <1>1, <1>3
<1>5. ExistsBijection(1..n, DOMAIN hp)
  BY <1>2 DEF ExistsBijection
<1> QED
  BY <1>3, <1>4, <1>5, FS_Bijection DEF n

\* There is only one chain from an address.
LEMMA NodesIs ==
  ASSUME NEW hp, NEW hd, NEW s, Chained(hp, hd, s)
  PROVE  Nodes(hp, hd) = s
<1> DEFINE n == Len(s)
           g == Nodes(hp, hd)
           next(x) == IF x \in DOMAIN hp THEN hp[x].next ELSE NULL
<1>1. n \in Nat /\ Cardinality(DOMAIN hp) = n /\ s \in Seq(Node)
  BY ChainSize DEF Chained
<1>2. s = [k \in 1..n |-> IF k = 1 THEN hd ELSE next(s[k - 1])]
  <2>1. ASSUME NEW k \in 1..n, k # 1 PROVE s[k] = next(s[k - 1])
    <3>1. k - 1 \in 1..n /\ k - 1 # n /\ (k - 1) + 1 = k
      BY <1>1, <2>1
    <3>2. s[k - 1] \in DOMAIN hp /\ hp[s[k - 1]].next = s[(k - 1) + 1]
      BY <3>1 DEF Chained
    <3> QED
      BY <3>1, <3>2
  <2>2. ASSUME NEW k \in 1..n, k = 1 PROVE s[k] = hd
    <3>1. Len(s) # 0
      BY <1>1, <2>2 DEF n
    <3> QED
      BY <2>2, <3>1 DEF Chained
  <2> QED
    BY <1>1, <2>1, <2>2
<1> HIDE DEF n, next
<1>3. g = [k \in 1..n |-> IF k = 1 THEN hd ELSE next(g[k - 1])]
  <2>1. g = CHOOSE h : h = [k \in 1..n |-> IF k = 1 THEN hd ELSE next(h[k - 1])]
    BY <1>1, Zenon DEF Nodes, next
  <2> QED
    BY <1>2, <2>1, Zenon
<1> HIDE DEF g
<1> DEFINE Bad == {k \in 1..n : g[k] # s[k]}
<1>4. Bad = {}
  <2> SUFFICES ASSUME Bad # {} PROVE FALSE
    OBVIOUS
  <2>1. PICK k \in Bad : \A i \in Bad : k <= i
    <3>1. Bad \in SUBSET Nat
      OBVIOUS
    <3> HIDE DEF Bad
    <3> QED BY <3>1, FirstOf
  <2>2. k \in 1..n /\ g[k] # s[k]
    OBVIOUS
  <2>3. k # 1
    BY <1>2, <1>3, <2>2
  <2>4. k - 1 \in 1..n /\ k - 1 \notin Bad
    BY <1>1, <2>1, <2>2, <2>3
  <2>5. g[k - 1] = s[k - 1]
    BY <2>4
  <2> QED
    BY <1>2, <1>3, <2>2, <2>3, <2>5
<1> QED
  BY <1>2, <1>3, <1>4 DEF g

\* What linking the new edge c at place p makes of the heap.
Links(hp, hq, s, p, e, c) ==
  /\ DOMAIN hq = DOMAIN hp \cup {e}
  /\ hq[e].value = c.value /\ hq[e].chime = c.chime
  /\ hq[e].prev = IF p = 1 THEN NULL ELSE s[p - 1]
  /\ hq[e].next = IF p = Len(s) + 1 THEN NULL ELSE s[p]
  /\ \A i \in 1..Len(s) :
       /\ hq[s[i]].value = hp[s[i]].value /\ hq[s[i]].chime = hp[s[i]].chime
       /\ hq[s[i]].prev = IF i = p THEN e ELSE hp[s[i]].prev
       /\ hq[s[i]].next = IF i = p - 1 THEN e ELSE hp[s[i]].next

\* An edge linked in where its value belongs: the list stays linked, and holds one
\* edge more.
LEMMA LinkKeeps ==
  ASSUME NEW hp, NEW hq, NEW hd, NEW tl, NEW s, Linked(hp, hd, tl, s),
         \A i \in 1..Len(s) : hp[s[i]].value \in Int,
         NEW e \in Node, e \notin DOMAIN hp, NEW c, c.value \in Int, NEW p \in 1..Len(s) + 1,
         \A i \in 1..p - 1 : hp[s[i]].value < c.value,
         p # Len(s) + 1 => hp[s[p]].value >= c.value,
         Links(hp, hq, s, p, e, c)
  PROVE  /\ Linked(hq, IF p = 1 THEN e ELSE hd, IF p = Len(s) + 1 THEN e ELSE tl, PutAt(s, p, e))
         /\ EdgesAt(hq, PutAt(s, p, e))
              = PutAt(EdgesAt(hp, s), p, [value |-> c.value, chime |-> c.chime])
<1> DEFINE t == PutAt(s, p, e)
           n == Len(s)
           old(i) == IF i < p THEN i ELSE i - 1
<1>1. s \in Seq(Node) /\ n \in Nat
  BY DEF Linked, Chained
<1>2. /\ t \in Seq(Node) /\ Len(t) = n + 1
      /\ \A i \in 1..n + 1 : t[i] = IF i < p THEN s[i] ELSE IF i = p THEN e ELSE s[i - 1]
  <2>1. t \in Seq(Node) /\ Len(t) = n + 1
    BY <1>1, PutAtShape
  <2>2. \A i \in 1..n + 1 : t[i] = IF i < p THEN s[i] ELSE IF i = p THEN e ELSE s[i - 1]
    BY <1>1, PutAtShape
  <2> HIDE DEF t
  <2> QED
    BY <2>1, <2>2
<1>3. \A i \in 1..n + 1 : i # p => old(i) \in 1..n /\ t[i] = s[old(i)]
  BY <1>1, <1>2
<1>4. \A i \in 1..n : s[i] \in DOMAIN hp
  BY DEF Linked, Chained
<1> HIDE DEF t
<1>5. \A i, j \in 1..n + 1 : t[i] = t[j] => i = j
  <2> SUFFICES ASSUME NEW i \in 1..n + 1, NEW j \in 1..n + 1, t[i] = t[j] PROVE i = j
    OBVIOUS
  <2>1. CASE i = p \/ j = p
    <3>1. t[p] = e /\ \A k \in 1..n + 1 : k # p => t[k] \in DOMAIN hp
      <4>1. t[p] = e
        BY <1>1, <1>2
      <4>2. \A k \in 1..n + 1 : k # p => t[k] \in DOMAIN hp
        BY <1>3, <1>4
      <4> QED
        BY <4>1, <4>2
    <3> QED
      BY <2>1, <3>1
  <2>2. CASE i # p /\ j # p
    <3>1. s[old(i)] = s[old(j)] /\ old(i) \in 1..n /\ old(j) \in 1..n
      BY <1>3, <2>2
    <3>2. old(i) = old(j)
      BY <3>1 DEF Linked, Chained
    <3> QED
      BY <1>1, <2>2, <3>2
  <2> QED
    BY <2>1, <2>2
<1>6. DOMAIN hq = {t[i] : i \in 1..n + 1}
  <2>1. \A i \in 1..n + 1 : t[i] \in DOMAIN hq
    BY <1>2, <1>3, <1>4 DEF Links
  <2>2. \A i \in 1..n : \E j \in 1..n + 1 : s[i] = t[j]
    <3> SUFFICES ASSUME NEW i \in 1..n PROVE \E j \in 1..n + 1 : s[i] = t[j]
      OBVIOUS
    <3>1. CASE i < p
      BY <1>1, <1>2, <3>1
    <3>2. CASE i >= p
      <4>1. i + 1 \in 1..n + 1 /\ t[i + 1] = s[i]
        BY <1>1, <1>2, <3>2
      <4> QED
        BY <4>1
    <3> QED
      BY <1>1, <3>1, <3>2
  <2>3. t[p] = e
    BY <1>1, <1>2
  <2>4. DOMAIN hq = {s[i] : i \in 1..n} \cup {e}
    BY DEF Links, Linked, Chained
  <2> QED
    BY <1>1, <2>1, <2>2, <2>3, <2>4
<1>7. ASSUME NEW i \in 1..n + 1
      PROVE  /\ hq[t[i]].next = IF i = n + 1 THEN NULL ELSE t[i + 1]
             /\ hq[t[i]].prev = IF i = 1 THEN NULL ELSE t[i - 1]
  <2>1. CASE i = p
    BY <1>1, <1>2, <2>1 DEF Links
  <2>2. CASE i < p
    <3>1. i \in 1..n /\ t[i] = s[i]
      BY <1>1, <1>2, <2>2
    <3>2. /\ hp[s[i]].next = IF i = n THEN NULL ELSE s[i + 1]
          /\ hp[s[i]].prev = IF i = 1 THEN NULL ELSE s[i - 1]
      BY <3>1 DEF Linked, Chained
    <3>3. /\ hq[s[i]].prev = hp[s[i]].prev
          /\ hq[s[i]].next = IF i = p - 1 THEN e ELSE hp[s[i]].next
      BY <2>2, <3>1 DEF Links
    <3>4. t[i + 1] = IF i = p - 1 THEN e ELSE s[i + 1]
      BY <1>1, <1>2, <2>2, <3>1
    <3>5. i # 1 => t[i - 1] = s[i - 1]
      BY <1>1, <1>2, <2>2, <3>1
    <3> QED
      BY <1>1, <2>2, <3>1, <3>2, <3>3, <3>4, <3>5
  <2>3. CASE i > p
    <3>1. i - 1 \in 1..n /\ t[i] = s[i - 1]
      BY <1>1, <1>2, <2>3
    <3> DEFINE j == i - 1
    <3>2. /\ hp[s[j]].next = IF j = n THEN NULL ELSE s[j + 1]
          /\ hp[s[j]].prev = IF j = 1 THEN NULL ELSE s[j - 1]
      BY <3>1 DEF Linked, Chained
    <3>3. /\ hq[s[j]].prev = IF j = p THEN e ELSE hp[s[j]].prev
          /\ hq[s[j]].next = hp[s[j]].next
      BY <2>3, <3>1 DEF Links
    <3>4. i # n + 1 => t[i + 1] = s[j + 1]
      BY <1>1, <1>2, <2>3, <3>1
    <3>5. t[i - 1] = IF j = p THEN e ELSE s[j - 1]
      BY <1>1, <1>2, <2>3, <3>1
    <3> QED
      BY <1>1, <2>3, <3>1, <3>2, <3>3, <3>4, <3>5
  <2> QED
    BY <1>1, <2>1, <2>2, <2>3
<1>8. ASSUME NEW i \in 1..n + 1, NEW j \in 1..n + 1, i < j
      PROVE  hq[t[i]].value <= hq[t[j]].value
  <2>1. \A k \in 1..n + 1 : k # p => hq[t[k]].value = hp[s[old(k)]].value
    BY <1>3 DEF Links
  <2>2. hq[t[p]].value = c.value
    BY <1>1, <1>2 DEF Links
  <2>3. \A k, l \in 1..n : k < l => hp[s[k]].value <= hp[s[l]].value
    BY DEF Linked
  <2>4. CASE i = p
    <3>1. old(j) \in 1..n /\ old(j) >= p /\ p \in 1..n
      BY <1>1, <1>8, <2>4
    <3>2. hp[s[p]].value <= hp[s[old(j)]].value
      BY <2>3, <3>1
    <3> QED
      BY <1>1, <1>8, <2>1, <2>2, <2>4, <3>1, <3>2
  <2>5. CASE j = p
    <3>1. i \in 1..p - 1 /\ old(i) = i /\ i \in 1..n
      BY <1>1, <1>8, <2>5
    <3>2. hp[s[i]].value < c.value /\ hq[t[i]].value = hp[s[i]].value
      BY <1>8, <2>1, <2>5, <3>1
    <3> QED
      BY <2>2, <2>5, <3>1, <3>2
  <2>6. CASE i # p /\ j # p
    <3>1. old(i) \in 1..n /\ old(j) \in 1..n /\ old(i) < old(j)
      BY <1>1, <1>8, <2>6
    <3> QED
      BY <2>1, <2>3, <2>6, <3>1
  <2> QED
    BY <2>4, <2>5, <2>6
<1>9. Linked(hq, IF p = 1 THEN e ELSE hd, IF p = n + 1 THEN e ELSE tl, t)
  <2>1. (IF p = 1 THEN e ELSE hd) = t[1]
    BY <1>1, <1>2 DEF Linked, Chained
  <2>2. (IF p = n + 1 THEN e ELSE tl) = t[n + 1]
    BY <1>1, <1>2 DEF Linked
  <2>3. n + 1 # 0
    BY <1>1
  <2> QED
    BY <1>2, <1>5, <1>6, <1>7, <1>8, <2>1, <2>2, <2>3 DEF Linked, Chained
<1>10. EdgesAt(hq, t) = PutAt(EdgesAt(hp, s), p, [value |-> c.value, chime |-> c.chime])
  <2> DEFINE E == {[value |-> hq[x].value, chime |-> hq[x].chime] : x \in DOMAIN hq}
             u == EdgesAt(hp, s)
             d == [value |-> c.value, chime |-> c.chime]
  <2>1. DOMAIN s = 1..n /\ DOMAIN t = 1..n + 1
    BY <1>1, <1>2
  <2>2. \A i \in 1..n : u[i] = [value |-> hq[s[i]].value, chime |-> hq[s[i]].chime]
    BY <2>1 DEF EdgesAt, Links
  <2>3. \A i \in 1..n : u[i] \in E
    BY <1>4, <2>2 DEF Links
  <2>4. u \in Seq(E) /\ Len(u) = n
    <3>1. u = [i \in 1..n |-> u[i]]
      BY <2>1 DEF EdgesAt
    <3> HIDE DEF u, E
    <3> QED
      BY <1>1, <2>3, <3>1
  <2>5. d \in E
    BY DEF Links
  <2> HIDE DEF E, u
  <2>6. /\ Len(PutAt(u, p, d)) = n + 1 /\ PutAt(u, p, d) \in Seq(E)
        /\ \A i \in 1..n + 1 :
             PutAt(u, p, d)[i] = IF i < p THEN u[i] ELSE IF i = p THEN d ELSE u[i - 1]
    <3> DEFINE v == PutAt(u, p, d)
    <3>1. Len(v) = n + 1 /\ v \in Seq(E)
      BY <2>4, <2>5, PutAtShape
    <3>2. \A i \in 1..n + 1 : v[i] = IF i < p THEN u[i] ELSE IF i = p THEN d ELSE u[i - 1]
      BY <2>4, <2>5, PutAtShape
    <3> QED
      BY ONLY <3>1, <3>2 DEF v
  <2>7. EdgesAt(hq, t) = [i \in 1..n + 1 |-> [value |-> hq[t[i]].value, chime |-> hq[t[i]].chime]]
    BY <2>1 DEF EdgesAt
  <2>8. ASSUME NEW i \in 1..n + 1
        PROVE  [value |-> hq[t[i]].value, chime |-> hq[t[i]].chime] = PutAt(u, p, d)[i]
    <3>1. CASE i = p
      BY <1>1, <1>2, <2>6, <3>1 DEF Links
    <3>2. CASE i # p
      BY <1>3, <2>2, <2>6, <3>2
    <3> QED
      BY <3>1, <3>2
  <2>9. PutAt(u, p, d) = [i \in 1..n + 1 |-> PutAt(u, p, d)[i]]
    BY <2>6
  <2> QED
    BY <2>7, <2>8, <2>9 DEF u
<1> QED
  BY <1>9, <1>10 DEF t

-----------------------------------------------------------------------------
(* The edges along a chain *)

\* hp maps addresses to edges.
HeapType(hp) == DOMAIN hp \subseteq Node /\ hp \in [DOMAIN hp -> EdgeStruct]

\* The edges along a chain are edges between the values of ranges.
LEMMA ChainEdges ==
  ASSUME NEW hp, NEW hd, NEW s, Chained(hp, hd, s), HeapType(hp)
  PROVE  /\ Len(s) \in Nat /\ Cardinality(DOMAIN hp) = Len(s) /\ Nodes(hp, hd) = s
         /\ EdgesAt(hp, s) \in Seq(EdgeOfValue) /\ EdgesAt(hp, s) \in Seq(EdgeType)
         /\ Len(EdgesAt(hp, s)) = Len(s) /\ DOMAIN EdgesAt(hp, s) = 1..Len(s)
         /\ \A i \in 1..Len(s) :
              /\ s[i] \in DOMAIN hp /\ s[i] \in Node /\ s[i] # NULL
              /\ hp[s[i]].value \in Value /\ hp[s[i]].value \in Int /\ hp[s[i]].chime \in {-1, 1}
              /\ EdgesAt(hp, s)[i] = [value |-> hp[s[i]].value, chime |-> hp[s[i]].chime]
<1> DEFINE u == EdgesAt(hp, s)
<1>1. s \in Seq(Node) /\ Len(s) \in Nat /\ DOMAIN s = 1..Len(s)
  BY DEF Chained
<1>2. ASSUME NEW i \in 1..Len(s)
      PROVE  /\ s[i] \in DOMAIN hp /\ s[i] \in Node /\ s[i] # NULL
             /\ hp[s[i]].value \in Value /\ hp[s[i]].chime \in {-1, 1}
  <2>1. s[i] \in DOMAIN hp
    BY DEF Chained
  <2>2. hp[s[i]] \in EdgeStruct
    BY <2>1 DEF HeapType
  <2> QED
    BY <2>1, <2>2, NodeAssumption DEF EdgeStruct, HeapType
<1>3. \A i \in 1..Len(s) : u[i] = [value |-> hp[s[i]].value, chime |-> hp[s[i]].chime]
  BY <1>1 DEF EdgesAt
<1>4. ASSUME NEW i \in 1..Len(s) PROVE u[i] \in EdgeOfValue
  <2>1. [value |-> hp[s[i]].value, chime |-> hp[s[i]].chime] \in EdgeOfValue
    BY <1>2 DEF EdgeOfValue
  <2> QED
    BY <1>3, <2>1
<1>5. u = [i \in 1..Len(s) |-> u[i]]
  BY <1>1 DEF EdgesAt
<1> HIDE DEF u
<1>6. u \in Seq(EdgeOfValue) /\ Len(u) = Len(s) /\ DOMAIN u = 1..Len(s)
  BY <1>1, <1>4, <1>5
<1>7. EdgeOfValue \subseteq EdgeType
  BY ValueAssumption DEF EdgeOfValue, EdgeType
<1>8. u \in Seq(EdgeType)
  BY <1>6, <1>7
<1>9. Value \subseteq Int
  BY ValueAssumption
<1> QED
  BY <1>1, <1>2, <1>3, <1>6, <1>8, <1>9, ChainSize, NodesIs DEF u

\* The same for the list between calls and in overlap_find.
LEMMA ListEdges ==
  ASSUME TypeOK, HeapInv, pc \notin {"del", "gone"}
  PROVE  /\ Linked(heap, head, tail, Addresses) /\ HeapType(heap)
         /\ Len(Addresses) \in Nat /\ Addresses \in Seq(Node)
         /\ Cardinality(DOMAIN heap) = Len(Addresses)
         /\ Along \in Seq(EdgeOfValue) /\ Along \in Seq(EdgeType)
         /\ Len(Along) = Len(Addresses) /\ DOMAIN Along = 1..Len(Addresses)
         /\ \A i \in 1..Len(Addresses) :
              /\ Addresses[i] \in DOMAIN heap /\ Addresses[i] \in Node /\ Addresses[i] # NULL
              /\ heap[Addresses[i]].value \in Int /\ heap[Addresses[i]].chime \in {-1, 1}
              /\ heap[Addresses[i]].value \in Value
              /\ Along[i] = [value |-> heap[Addresses[i]].value, chime |-> heap[Addresses[i]].chime]
         /\ \A i, j \in 1..Len(Addresses) : Addresses[i] = Addresses[j] => i = j
<1>1. Linked(heap, head, tail, Addresses) /\ HeapType(heap)
  BY DEF HeapInv, TypeOK, HeapType
<1>2. Chained(heap, head, Addresses)
  BY <1>1 DEF Linked
<1>3. Addresses \in Seq(Node)
  BY <1>2 DEF Chained
<1>4. Along = EdgesAt(heap, Addresses)
  BY DEF Along, Addresses
<1>5. \A i, j \in 1..Len(Addresses) : Addresses[i] = Addresses[j] => i = j
  BY <1>2 DEF Chained
<1> QED
  BY <1>1, <1>2, <1>3, <1>4, <1>5, ChainEdges

\* There is memory for an edge that overlap_add has yet to insert.
LEMMA FreeNodeIsFree ==
  ASSUME TypeOK, HeapInv, SizeInv, pc \notin {"del", "gone"}, todo # <<>>
  PROVE  FreeNode \in Node /\ FreeNode \notin DOMAIN heap
<1>1. Cardinality(DOMAIN heap) \in Nat /\ DOMAIN heap \subseteq Node
  BY ListEdges DEF TypeOK
<1>2. Len(todo) \in Nat /\ Len(todo) >= 1 /\ Len(ranges) \in Nat
  BY DEF TypeOK
<1>3. Cardinality(DOMAIN heap) < 2 * MaxRanges
  BY <1>1, <1>2, MaxRangesAssumption DEF SizeInv
<1>4. Cardinality(Node) >= 2 * MaxRanges /\ Cardinality(Node) \in Nat
  BY NodeAssumption, FS_CardinalityType
<1>5. DOMAIN heap # Node
  BY <1>1, <1>3, <1>4, MaxRangesAssumption
<1>6. \E n \in Node : n \notin DOMAIN heap
  BY <1>1, <1>5
<1> QED
  BY <1>6 DEF FreeNode

\* What is left to insert, and the first of it.
LEMMA TodoIs ==
  ASSUME TypeOK, AddInv, pc \in {"insert", "search"}, todo # <<>>
  PROVE  LET r == ranges[Len(ranges)]
         IN  \E kept \in SUBSET {"lo", "hi"} :
               /\ Along = AddEdges(before, r.lo, r.hi, kept)
               /\ \/ /\ Head(todo) = Edge(r.lo, -1) /\ Tail(todo) = <<Edge(r.hi, 1)>>
                     /\ kept = {}
                  \/ /\ Head(todo) = Edge(r.hi, 1) /\ Tail(todo) = <<>>
                     /\ "hi" \notin kept /\ (failures = 0 => "lo" \in kept)
<1> DEFINE r == ranges[Len(ranges)]
<1>1. PICK kept \in SUBSET {"lo", "hi"} :
        /\ Along = AddEdges(before, r.lo, r.hi, kept)
        /\ \/ todo = <<Edge(r.lo, -1), Edge(r.hi, 1)>> /\ kept = {}
           \/ /\ todo = <<Edge(r.hi, 1)>> /\ "hi" \notin kept
              /\ failures = 0 => "lo" \in kept
  BY DEF AddInv
<1> HIDE DEF r
<1>2. CASE todo = <<Edge(r.lo, -1), Edge(r.hi, 1)>> /\ kept = {}
  <2>1. Head(todo) = Edge(r.lo, -1) /\ Tail(todo) = <<Edge(r.hi, 1)>>
    BY <1>2
  <2> QED
    BY <1>1, <1>2, <2>1 DEF r
<1>3. CASE todo = <<Edge(r.hi, 1)>> /\ "hi" \notin kept /\ (failures = 0 => "lo" \in kept)
  <2>1. Head(todo) = Edge(r.hi, 1) /\ Tail(todo) = <<>>
    BY <1>3
  <2> QED
    BY <1>1, <1>3, <2>1 DEF r
<1> QED
  BY <1>1, <1>2, <1>3

\* An edge linked where the search ended, or into an empty list, is where
\* overlap_add has to put it.
LEMMA InsertedInv ==
  ASSUME Inv, pc \in {"insert", "search"}, todo # <<>>,
         NEW p \in 1..Len(Addresses) + 1,
         \A i \in 1..p - 1 : heap[Addresses[i]].value < Head(todo).value,
         p # Len(Addresses) + 1 => heap[Addresses[p]].value >= Head(todo).value,
         Links(heap, heap', Addresses, p, FreeNode, Head(todo)),
         heap' \in [DOMAIN heap' -> EdgeStruct],
         head' = IF p = 1 THEN FreeNode ELSE head,
         tail' = IF p = Len(Addresses) + 1 THEN FreeNode ELSE tail,
         pc' = "insert", todo' = Tail(todo),
         UNCHANGED <<wanted, ptr, chime, loEdge, hiEdge, added, answer, ranges, failures, before, asked>>
  PROVE  Inv'
<1> DEFINE e == FreeNode
           c == Head(todo)
           t == PutAt(Addresses, p, e)
           n == Len(Addresses)
<1>1. TypeOK /\ HeapInv /\ SizeInv /\ SearchInv /\ AddInv /\ pc \notin {"del", "gone"}
  BY DEF Inv
<1>2. e \in Node /\ e \notin DOMAIN heap
  BY <1>1, FreeNodeIsFree
<1>3. /\ Linked(heap, head, tail, Addresses) /\ n \in Nat /\ Addresses \in Seq(Node)
      /\ Cardinality(DOMAIN heap) = n
      /\ Along \in Seq(EdgeOfValue) /\ Along \in Seq(EdgeType) /\ Len(Along) = n
      /\ \A i \in 1..n : heap[Addresses[i]].value \in Int
      /\ \A i \in 1..n : Along[i].value = heap[Addresses[i]].value
  BY <1>1, ListEdges
<1>4. todo \in Seq(EdgeOfValue)
  BY <1>1 DEF TypeOK, EdgeOfValue
<1>5. c \in EdgeOfValue /\ Tail(todo) \in Seq(EdgeOfValue) /\ Len(Tail(todo)) = Len(todo) - 1
  BY <1>4
<1>6. c \in EdgeType /\ c = [value |-> c.value, chime |-> c.chime] /\ c.value \in Int
  BY <1>5, ValueAssumption DEF EdgeOfValue, EdgeType
<1> HIDE DEF e, c, n
<1>7. /\ Linked(heap', head', tail', t)
      /\ EdgesAt(heap', t) = PutAt(EdgesAt(heap, Addresses), p, [value |-> c.value, chime |-> c.chime])
  <2>1. p \in 1..n + 1 /\ Links(heap, heap', Addresses, p, e, c)
    BY DEF n, e, c
  <2>2. /\ \A i \in 1..p - 1 : heap[Addresses[i]].value < c.value
        /\ p # n + 1 => heap[Addresses[p]].value >= c.value
    BY DEF n, c
  <2>3. head' = (IF p = 1 THEN e ELSE head) /\ tail' = (IF p = n + 1 THEN e ELSE tail)
    BY DEF n, e
  <2>4. /\ Linked(heap', IF p = 1 THEN e ELSE head, IF p = n + 1 THEN e ELSE tail, t)
        /\ EdgesAt(heap', t)
             = PutAt(EdgesAt(heap, Addresses), p, [value |-> c.value, chime |-> c.chime])
    <3> HIDE DEF t
    <3> QED
      <4>1. Linked(heap, head, tail, Addresses)
        BY <1>3
      <4>2. \A i \in 1..Len(Addresses) : heap[Addresses[i]].value \in Int
        BY <1>3 DEF n
      <4>3. p \in 1..Len(Addresses) + 1
        BY <2>1 DEF n
      <4>4. p # Len(Addresses) + 1 => heap[Addresses[p]].value >= c.value
        BY <2>2 DEF n
      <4>5. c.value \in Int
        BY <1>6
      <4>6. Links(heap, heap', Addresses, p, e, c)
        BY <2>1
      <4>7. \A i \in 1..p - 1 : heap[Addresses[i]].value < c.value
        BY <2>2
      <4> HIDE DEF n
      <4>8. Linked(heap', IF p = 1 THEN e ELSE head, IF p = Len(Addresses) + 1 THEN e ELSE tail, PutAt(Addresses, p, e))
        BY ONLY <1>2, <4>1, <4>2, <4>3, <4>4, <4>5, <4>6, <4>7, LinkKeeps
      <4>9. EdgesAt(heap', PutAt(Addresses, p, e))
             = PutAt(EdgesAt(heap, Addresses), p, [value |-> c.value, chime |-> c.chime])
        BY ONLY <1>2, <4>1, <4>2, <4>3, <4>4, <4>5, <4>6, <4>7, LinkKeeps
      <4> QED
        BY <4>8, <4>9 DEF n, t
  <2> QED
    BY <2>3, <2>4
<1>8. Len(t) = n + 1
  BY <1>2, <1>3, PutAtShape DEF n
<1> HIDE DEF t
<1>9. Chained(heap', head', t)
  BY <1>7 DEF Linked
<1>10. Addresses' = t /\ Cardinality(DOMAIN heap') = n + 1
  BY <1>8, <1>9, NodesIs, ChainSize DEF Addresses
<1>11. Along' = InsertBefore(Along, c)
  <2>1. Along' = PutAt(Along, p, c)
    BY <1>6, <1>7, <1>10 DEF Along, Addresses
  <2>2. \A i \in 1..p - 1 : Along[i].value < c.value
    BY <1>3 DEF c, n
  <2>3. p # Len(Along) + 1 => Along[p].value >= c.value
    BY <1>3 DEF c, n
  <2>4. InsertBefore(Along, c) = PutAt(Along, p, c)
    BY <1>3, <1>6, <2>2, <2>3, InsertBeforeAt DEF n
  <2> QED
    BY <2>1, <2>4
<1>12. TypeOK'
  <2>1. DOMAIN heap' \subseteq Node
    BY <1>1, <1>2 DEF Links, TypeOK, e
  <2>2. head' \in Node \cup {NULL} /\ tail' \in Node \cup {NULL}
    BY <1>1, <1>2 DEF TypeOK, e
  <2>3. todo' \in Seq([value : Value, chime : {-1, 1}])
    BY <1>5 DEF EdgeOfValue
  <2> QED
    BY <1>1, <2>1, <2>2, <2>3 DEF TypeOK
<1>13. HeapInv'
  BY <1>7, <1>10 DEF HeapInv
<1>14. SizeInv'
  <2>1. Len(todo') = Len(todo) - 1 /\ Len(todo) \in Nat
    BY <1>4, <1>5
  <2> QED
    BY <1>1, <1>3, <1>10, <2>1 DEF SizeInv, n
<1>15. SearchInv'
  BY DEF SearchInv
<1>16. AddInv'
  <2> DEFINE r == ranges[Len(ranges)]
  <2>1. PICK kept \in SUBSET {"lo", "hi"} :
          /\ Along = AddEdges(before, r.lo, r.hi, kept)
          /\ \/ /\ c = Edge(r.lo, -1) /\ Tail(todo) = <<Edge(r.hi, 1)>>
                /\ kept = {}
             \/ /\ c = Edge(r.hi, 1) /\ Tail(todo) = <<>>
                /\ "hi" \notin kept /\ (failures = 0 => "lo" \in kept)
    BY <1>1, TodoIs DEF c
  <2> HIDE DEF r
  <2> DEFINE Kept(k) ==
               /\ Along' = AddEdges(before, r.lo, r.hi, k)
               /\ \/ todo' = <<Edge(r.lo, -1), Edge(r.hi, 1)>> /\ k = {}
                  \/ /\ todo' = <<Edge(r.hi, 1)>> /\ "hi" \notin k
                     /\ failures = 0 => "lo" \in k
                  \/ /\ todo' = <<>>
                     /\ failures = 0 => k = {"lo", "hi"}
  <2>2. CASE c = Edge(r.lo, -1) /\ Tail(todo) = <<Edge(r.hi, 1)>> /\ kept = {}
    <3>1. Along = before
      BY <2>1, <2>2 DEF AddEdges
    <3>2. Along' = AddEdges(before, r.lo, r.hi, {"lo"})
      BY <1>11, <2>2, <3>1 DEF AddEdges
    <3>3. Kept({"lo"})
      BY <2>2, <3>2
    <3> QED
      BY <3>3 DEF AddInv, r
  <2>3. CASE c = Edge(r.hi, 1) /\ Tail(todo) = <<>> /\ "hi" \notin kept /\ (failures = 0 => "lo" \in kept)
    <3>1. Along' = AddEdges(before, r.lo, r.hi, kept \cup {"hi"})
      BY <1>11, <2>1, <2>3 DEF AddEdges
    <3>2. Kept(kept \cup {"hi"})
      BY <2>1, <2>3, <3>1
    <3>3. kept \cup {"hi"} \in SUBSET {"lo", "hi"}
      BY <2>1
    <3> QED
      BY <3>2, <3>3 DEF AddInv, r
  <2> QED
    BY <2>1, <2>2, <2>3
<1>17. ScanInv' /\ FindInv'
  BY DEF ScanInv, FindInv
<1> QED
  BY <1>12, <1>13, <1>14, <1>15, <1>16, <1>17 DEF Inv

\* A step that leaves the links alone sees the same list.
LEMMA SameList ==
  ASSUME UNCHANGED <<heap, head>>
  PROVE  Addresses' = Addresses /\ Along' = Along /\ \A q : At(q)' = At(q)
  BY DEF Addresses, Along, At

\* The pointers along the list and back.
LEMMA Pointers ==
  ASSUME TypeOK, HeapInv, pc \notin {"del", "gone"}
  PROVE  /\ head = At(1) /\ tail = At(Len(Addresses))
         /\ At(0) = NULL /\ At(Len(Addresses) + 1) = NULL
         /\ \A q \in 1..Len(Addresses) :
              /\ At(q) # NULL /\ At(q) \in DOMAIN heap /\ At(q) = Addresses[q]
              /\ heap[At(q)].next = At(q + 1) /\ heap[At(q)].prev = At(q - 1)
         /\ \A q \in Nat : At(q) \in DOMAIN heap \cup {NULL} /\ At(q) \in Node \cup {NULL}
         /\ \A q \in 0..Len(Addresses) + 1 : At(q) # NULL => q \in 1..Len(Addresses)
         /\ head = NULL <=> Len(Addresses) = 0
<1> DEFINE n == Len(Addresses)
<1>1. /\ Linked(heap, head, tail, Addresses) /\ n \in Nat
      /\ \A i \in 1..n : Addresses[i] \in DOMAIN heap /\ Addresses[i] \in Node /\ Addresses[i] # NULL
  BY ListEdges
<1>2. /\ head = IF n = 0 THEN NULL ELSE Addresses[1]
      /\ tail = IF n = 0 THEN NULL ELSE Addresses[n]
      /\ \A i \in 1..n :
           /\ heap[Addresses[i]].next = IF i = n THEN NULL ELSE Addresses[i + 1]
           /\ heap[Addresses[i]].prev = IF i = 1 THEN NULL ELSE Addresses[i - 1]
  BY <1>1 DEF Linked, Chained
<1> HIDE DEF n
<1>3. \A q : At(q) = IF q \in 1..n THEN Addresses[q] ELSE NULL
  BY DEF At, n
<1>4. head = At(1) /\ tail = At(n) /\ At(0) = NULL /\ At(n + 1) = NULL
  BY <1>1, <1>2, <1>3
<1>5. ASSUME NEW q \in 1..n
      PROVE  /\ At(q) # NULL /\ At(q) \in DOMAIN heap /\ At(q) = Addresses[q]
             /\ heap[At(q)].next = At(q + 1) /\ heap[At(q)].prev = At(q - 1)
  BY <1>1, <1>2, <1>3
<1>6. \A q \in Nat : At(q) \in DOMAIN heap \cup {NULL} /\ At(q) \in Node \cup {NULL}
  BY <1>1, <1>3
<1>7. \A q \in 0..n + 1 : At(q) # NULL => q \in 1..n
  BY <1>1, <1>3
<1>8. head = NULL <=> n = 0
  BY <1>1, <1>2
<1> QED
  BY <1>4, <1>5, <1>6, <1>7, <1>8 DEF n

\* A new list is empty.
LEMMA InitInv == Init => Inv
<1> SUFFICES ASSUME Init PROVE Inv
  OBVIOUS
<1>1. DOMAIN heap = {}
  BY DEF Init
<1>2. Chained(heap, head, <<>>)
  BY <1>1 DEF Init, Chained
<1>3. Addresses = <<>> /\ Cardinality(DOMAIN heap) = 0
  BY <1>2, NodesIs, ChainSize DEF Addresses
<1>4. HeapInv
  BY <1>2, <1>3 DEF HeapInv, Linked, Init
<1>5. TypeOK
  <2>1. heap \in [DOMAIN heap -> EdgeStruct]
    BY <1>1 DEF Init
  <2>2. 0 \in 0..UIntMod - 1 /\ 0 \in 0..MaxFailures
    BY UIntModAssumption, MaxRangesAssumption, MaxFailuresAssumption
  <2>3. answer \in Answers
    BY DEF Init, NoOverlap, Answers
  <2> QED
    BY <1>1, <2>1, <2>2, <2>3 DEF Init, TypeOK
<1>6. SizeInv
  BY <1>3, MaxRangesAssumption DEF Init, SizeInv
<1>7. SearchInv /\ AddInv /\ ScanInv /\ FindInv
  BY DEF Init, SearchInv, AddInv, ScanInv, FindInv
<1> QED
  BY <1>4, <1>5, <1>6, <1>7 DEF Inv

\* overlap_add takes one step.
LEMMA AddInvKept ==
  ASSUME Inv, AddStep \/ \E l, h \in Value : AddRefused(l, h) \/ AddStart(l, h)
  PROVE  Inv'
<1>1. TypeOK /\ HeapInv /\ SizeInv /\ SearchInv /\ AddInv /\ ScanInv /\ FindInv
  BY DEF Inv
<1> DEFINE n == Len(Addresses)
           e == FreeNode
<1>2. ASSUME NEW l \in Value, NEW h \in Value, AddRefused(l, h)
      PROVE  Inv'
  <2>1. TypeOK'
    BY <1>1, <1>2 DEF AddRefused, TypeOK, list, locals
  <2>2. HeapInv' /\ SizeInv' /\ SearchInv' /\ AddInv' /\ ScanInv' /\ FindInv'
    BY <1>1, <1>2, SameList DEF AddRefused, HeapInv, SizeInv, SearchInv, AddInv, ScanInv, FindInv, list, locals
  <2> QED
    BY <2>1, <2>2 DEF Inv
<1>3. ASSUME NEW l \in Value, NEW h \in Value, AddStart(l, h)
      PROVE  Inv'
  <2>1. ranges' = Append(ranges, [lo |-> l, hi |-> h]) /\ todo' = <<Edge(l, -1), Edge(h, 1)>>
    BY <1>3 DEF AddStart
  <2>2. /\ pc = "idle" /\ pc' = "insert" /\ before' = Along /\ Len(ranges) < MaxRanges
        /\ UNCHANGED <<heap, head, tail, wanted, ptr, chime, loEdge, hiEdge, added, answer, failures, asked>>
    BY <1>3 DEF AddStart, list
  <2>3. /\ ranges \in Seq(Interval) /\ Len(ranges') = Len(ranges) + 1 /\ Len(ranges) \in Nat
        /\ ranges' \in Seq(Interval) /\ ranges'[Len(ranges')] = [lo |-> l, hi |-> h]
    BY <1>1, <2>1 DEF TypeOK, Interval
  <2>4. Addresses' = Addresses /\ Along' = Along
    BY <2>2, SameList
  <2>5. TypeOK'
    <3>1. todo' \in Seq([value : Value, chime : {-1, 1}])
      BY <2>1 DEF Edge
    <3>2. before' \in Seq([value : Value, chime : {-1, 1}])
      BY <1>1, <2>2, ListEdges DEF EdgeOfValue
    <3> QED
      BY <1>1, <2>2, <2>3, <3>1, <3>2 DEF TypeOK
  <2>6. HeapInv'
    BY <1>1, <2>2, <2>4 DEF HeapInv
  <2>7. SizeInv'
    <3>1. Cardinality(DOMAIN heap) \in Nat /\ Len(todo) = 0 /\ Len(todo') = 2
      BY <1>1, <2>1, <2>2, ListEdges DEF SearchInv
    <3>2. \A i \in DOMAIN ranges' : ranges'[i].lo <= ranges'[i].hi
      <4>1. l <= h
        BY <1>3 DEF AddStart
      <4> SUFFICES ASSUME NEW i \in DOMAIN ranges' PROVE ranges'[i].lo <= ranges'[i].hi
        OBVIOUS
      <4>2. CASE i = Len(ranges')
        BY <2>3, <4>1, <4>2
      <4>3. CASE i # Len(ranges')
        <5>1. i \in DOMAIN ranges /\ ranges'[i] = ranges[i]
          BY <2>1, <2>3, <4>3
        <5> QED
          BY <1>1, <5>1 DEF SizeInv
      <4> QED
        BY <4>2, <4>3
    <3> QED
      BY <1>1, <2>2, <2>3, <3>1, <3>2, MaxRangesAssumption DEF SizeInv, TypeOK
  <2>8. SearchInv' /\ ScanInv' /\ FindInv'
    BY <2>2 DEF SearchInv, ScanInv, FindInv
  <2>9. AddInv'
    <3>1. Along' = AddEdges(before', l, h, {})
      BY <2>2, <2>4 DEF AddEdges
    <3> QED
      BY <2>1, <2>3, <3>1 DEF AddInv
  <2> QED
    BY <2>5, <2>6, <2>7, <2>8, <2>9 DEF Inv
<1>4. ASSUME MallocFails PROVE Inv'
  <2>1. /\ pc = "insert" /\ todo # <<>> /\ failures' = failures + 1 /\ failures < MaxFailures
        /\ todo' = Tail(todo)
        /\ UNCHANGED <<heap, head, tail, wanted, pc, ptr, chime, loEdge, hiEdge, added, answer,
                       ranges, before, asked>>
    BY <1>4 DEF MallocFails, list
  <2>2. Addresses' = Addresses /\ Along' = Along
    BY <2>1, SameList
  <2>3. todo' \in Seq(EdgeOfValue) /\ Len(todo') = Len(todo) - 1 /\ Len(todo) \in Nat
    BY <1>1, <2>1 DEF TypeOK, EdgeOfValue
  <2>4. TypeOK'
    BY <1>1, <2>1, <2>3, MaxFailuresAssumption DEF TypeOK, EdgeOfValue
  <2>5. HeapInv' /\ ScanInv' /\ FindInv' /\ SearchInv'
    BY <1>1, <2>1, <2>2 DEF HeapInv, ScanInv, FindInv, SearchInv
  <2>6. SizeInv'
    <3>1. Cardinality(DOMAIN heap) \in Nat
      BY <1>1, <2>1, ListEdges
    <3> QED
      BY <1>1, <2>1, <2>3, <3>1 DEF SizeInv, TypeOK
  <2>7. AddInv'
    <3> DEFINE r == ranges[Len(ranges)]
    <3>1. PICK kept \in SUBSET {"lo", "hi"} :
            /\ Along = AddEdges(before, r.lo, r.hi, kept)
            /\ \/ /\ Head(todo) = Edge(r.lo, -1) /\ Tail(todo) = <<Edge(r.hi, 1)>>
                  /\ kept = {}
               \/ /\ Head(todo) = Edge(r.hi, 1) /\ Tail(todo) = <<>>
                  /\ "hi" \notin kept /\ (failures = 0 => "lo" \in kept)
      BY <1>1, <2>1, TodoIs
    <3>2. failures' # 0
      BY <1>1, <2>1 DEF TypeOK
    <3> HIDE DEF r
    <3>3. /\ Along' = AddEdges(before, r.lo, r.hi, kept)
          /\ \/ todo' = <<Edge(r.hi, 1)>> /\ "hi" \notin kept
             \/ todo' = <<>>
      BY <2>1, <2>2, <3>1
    <3> QED
      BY <2>1, <3>2, <3>3 DEF AddInv, r
  <2> QED
    BY <2>4, <2>5, <2>6, <2>7 DEF Inv
<1>5. ASSUME InsertFirst PROVE Inv'
  <2>1. /\ pc = "insert" /\ todo # <<>> /\ head = NULL
        /\ heap' = [x \in DOMAIN heap \cup {e} |-> IF x = e THEN NewEdge(NULL, NULL) ELSE heap[x]]
        /\ head' = e /\ tail' = e /\ pc' = "insert" /\ todo' = Tail(todo)
        /\ UNCHANGED <<wanted, ptr, chime, loEdge, hiEdge, added, answer, ranges, failures, before, asked>>
    BY <1>5 DEF InsertFirst
  <2>2. e \in Node /\ e \notin DOMAIN heap
    BY <1>1, <2>1, FreeNodeIsFree
  <2>3. Len(Addresses) = 0 /\ HeapType(heap)
    BY <1>1, <2>1, Pointers, ListEdges
  <2>4. Head(todo) \in EdgeOfValue
    <3>1. todo \in Seq(EdgeOfValue)
      BY <1>1 DEF TypeOK, EdgeOfValue
    <3> QED
      BY <2>1, <3>1
  <2> HIDE DEF e
  <2>5. heap' \in [DOMAIN heap' -> EdgeStruct]
    BY <2>1, <2>2, <2>3, <2>4 DEF NewEdge, EdgeStruct, EdgeOfValue, HeapType
  <2>6. Links(heap, heap', Addresses, 1, e, Head(todo))
    BY <2>1, <2>3 DEF Links, NewEdge
  <2>7. 1 \in 1..Len(Addresses) + 1 /\ 1 = Len(Addresses) + 1
    BY <2>3
  <2> QED
    BY <2>1, <2>3, <2>5, <2>6, <2>7, InsertedInv DEF e
<1>6. ASSUME SearchStart PROVE Inv'
  <2>1. /\ pc = "insert" /\ todo # <<>> /\ head # NULL /\ ptr' = head /\ pc' = "search"
        /\ UNCHANGED <<heap, head, tail, wanted, todo, chime, loEdge, hiEdge, added, answer,
                       ranges, failures, before, asked>>
    BY <1>6 DEF SearchStart, list
  <2>2. Addresses' = Addresses /\ Along' = Along /\ \A q : At(q)' = At(q)
    BY <2>1, SameList
  <2>3. TypeOK'
    BY <1>1, <2>1 DEF TypeOK
  <2>4. HeapInv' /\ SizeInv' /\ AddInv' /\ ScanInv' /\ FindInv'
    BY <1>1, <2>1, <2>2 DEF HeapInv, SizeInv, AddInv, ScanInv, FindInv
  <2>5. SearchInv'
    <3>1. ptr' = At(1)' /\ 1 \in 1..Len(Addresses') + 1
      BY <1>1, <2>1, <2>2, Pointers, ListEdges
    <3> QED
      BY <2>1, <3>1 DEF SearchInv
  <2> QED
    BY <2>3, <2>4, <2>5 DEF Inv
<1>7. ASSUME SearchStep PROVE Inv'
  <2>1. /\ pc = "search" /\ ptr # NULL /\ ~(heap[ptr].value >= Head(todo).value)
        /\ ptr' = heap[ptr].next
        /\ UNCHANGED <<heap, head, tail, wanted, pc, todo, chime, loEdge, hiEdge, added, answer,
                       ranges, failures, before, asked>>
    BY <1>7 DEF SearchStep, list, Stops
  <2>2. Addresses' = Addresses /\ Along' = Along /\ \A q : At(q)' = At(q)
    BY <2>1, SameList
  <2>3. PICK q \in 1..n + 1 :
          /\ ptr = At(q)
          /\ \A i \in 1..q - 1 : heap[Addresses[i]].value < Head(todo).value
    BY <1>1, <2>1 DEF SearchInv
  <2>4. q \in 1..n /\ ptr = Addresses[q] /\ ptr' = At(q + 1) /\ n \in Nat
    BY <1>1, <2>1, <2>3, Pointers, ListEdges
  <2>5. heap[Addresses[q]].value < Head(todo).value
    <3>1. heap[Addresses[q]].value \in Int
      BY <1>1, <2>1, <2>4, ListEdges
    <3>2. Head(todo).value \in Int
      <4>1. todo \in Seq(EdgeOfValue) /\ todo # <<>>
        BY <1>1, <2>1 DEF TypeOK, EdgeOfValue, SearchInv
      <4>2. Head(todo) \in EdgeOfValue
        BY <4>1
      <4> QED
        BY <4>2, ValueAssumption DEF EdgeOfValue
    <3> QED
      BY <2>1, <2>4, <3>1, <3>2
  <2>6. TypeOK'
    <3>1. ptr' \in Node \cup {NULL}
      BY <1>1, <2>1, <2>4, Pointers
    <3> QED
      BY <1>1, <2>1, <3>1 DEF TypeOK
  <2>7. HeapInv' /\ SizeInv' /\ AddInv' /\ ScanInv' /\ FindInv'
    BY <1>1, <2>1, <2>2 DEF HeapInv, SizeInv, AddInv, ScanInv, FindInv
  <2>8. SearchInv'
    <3> HIDE DEF n
    <3>1. /\ q + 1 \in 1..n + 1 /\ ptr' = At(q + 1)'
          /\ \A i \in 1..(q + 1) - 1 : heap[Addresses[i]].value < Head(todo).value
      BY <2>2, <2>3, <2>4, <2>5
    <3>2. todo # <<>> /\ head # NULL
      BY <1>1, <2>1 DEF SearchInv
    <3> QED
      BY <2>1, <2>2, <3>1, <3>2 DEF SearchInv, n
  <2> QED
    BY <2>6, <2>7, <2>8 DEF Inv
<1>8. ASSUME LinkBefore PROVE Inv'
  <2> DEFINE p == heap[ptr].prev
  <2>1. /\ pc = "search" /\ ptr # NULL /\ heap[ptr].value >= Head(todo).value
        /\ heap' = [x \in DOMAIN heap \cup {e} |->
                      CASE x = e -> NewEdge(p, ptr)
                        [] x = ptr -> [heap[x] EXCEPT !.prev = e]
                        [] x = p /\ x # ptr -> [heap[x] EXCEPT !.next = e]
                        [] OTHER -> heap[x]]
        /\ head' = (IF p = NULL THEN e ELSE head) /\ pc' = "insert" /\ todo' = Tail(todo)
        /\ UNCHANGED <<tail, wanted, ptr, chime, loEdge, hiEdge, added, answer, ranges, failures, before, asked>>
    BY <1>8 DEF LinkBefore, Stops
  <2>2. PICK q \in 1..n + 1 :
          /\ ptr = At(q)
          /\ \A i \in 1..q - 1 : heap[Addresses[i]].value < Head(todo).value
    BY <1>1, <2>1 DEF SearchInv
  <2>3. q \in 1..n /\ ptr = Addresses[q] /\ p = At(q - 1) /\ n \in Nat
    BY <1>1, <2>1, <2>2, Pointers, ListEdges
  <2>4. p = IF q = 1 THEN NULL ELSE Addresses[q - 1]
    BY <2>3 DEF At
  <2>5. /\ todo # <<>> /\ e \in Node /\ e \notin DOMAIN heap /\ HeapType(heap)
        /\ \A i \in 1..n : Addresses[i] \in DOMAIN heap /\ Addresses[i] # NULL
        /\ \A i, j \in 1..n : Addresses[i] = Addresses[j] => i = j
    BY <1>1, <2>1, FreeNodeIsFree, ListEdges DEF SearchInv
  <2>6. Head(todo) \in EdgeOfValue
    <3>1. todo \in Seq(EdgeOfValue)
      BY <1>1 DEF TypeOK, EdgeOfValue
    <3> QED
      BY <2>5, <3>1
  <2> HIDE DEF e, n, p
  <2>7. p \in DOMAIN heap \cup {NULL} /\ p # e /\ ptr \in DOMAIN heap /\ ptr # e /\ p # ptr
    BY <2>3, <2>4, <2>5, NodeAssumption
  <2>8. heap' \in [DOMAIN heap' -> EdgeStruct]
    <3>1. NewEdge(p, ptr) \in EdgeStruct
      BY <2>5, <2>6, <2>7 DEF NewEdge, EdgeStruct, EdgeOfValue, HeapType
    <3>2. \A x \in DOMAIN heap : /\ heap[x] \in EdgeStruct
                                 /\ [heap[x] EXCEPT !.prev = e] \in EdgeStruct
                                 /\ [heap[x] EXCEPT !.next = e] \in EdgeStruct
      BY <2>5 DEF EdgeStruct, HeapType
    <3>3. ASSUME NEW x \in DOMAIN heap \cup {e} PROVE heap'[x] \in EdgeStruct
      <4>1. CASE x = e
        BY <2>1, <2>7, <3>1, <4>1
      <4>2. CASE x # e /\ x = ptr
        BY <2>1, <3>2, <4>2
      <4>3. CASE x # e /\ x # ptr /\ x = p
        BY <2>1, <3>2, <4>3
      <4>4. CASE x # e /\ x # ptr /\ x # p
        BY <2>1, <3>2, <4>4
      <4> QED
        BY <4>1, <4>2, <4>3, <4>4
    <3> QED
      BY <2>1, <3>3
  <2>9. Links(heap, heap', Addresses, q, e, Head(todo))
    <3>1. DOMAIN heap' = DOMAIN heap \cup {e} /\ heap'[e] = NewEdge(p, ptr)
      BY <2>1, <2>7
    <3>2. /\ NewEdge(p, ptr).value = Head(todo).value /\ NewEdge(p, ptr).chime = Head(todo).chime
          /\ NewEdge(p, ptr).prev = p /\ NewEdge(p, ptr).next = ptr
      BY DEF NewEdge
    <3>3. q # Len(Addresses) + 1
      BY <2>3 DEF n
    <3>4. ASSUME NEW i \in 1..n
          PROVE  /\ heap'[Addresses[i]].value = heap[Addresses[i]].value
                 /\ heap'[Addresses[i]].chime = heap[Addresses[i]].chime
                 /\ heap'[Addresses[i]].prev = IF i = q THEN e ELSE heap[Addresses[i]].prev
                 /\ heap'[Addresses[i]].next = IF i = q - 1 THEN e ELSE heap[Addresses[i]].next
      <4> DEFINE x == Addresses[i]
      <4>1. x \in DOMAIN heap /\ x # e /\ (x = ptr <=> i = q) /\ (x = p <=> i = q - 1)
            /\ heap[x] \in EdgeStruct
        <5>1. x \in DOMAIN heap /\ x # e /\ heap[x] \in EdgeStruct
          BY <2>5 DEF HeapType
        <5>2. x = ptr <=> i = q
          BY <2>3, <2>5
        <5>3. x = p <=> i = q - 1
          <6>1. CASE q = 1
            BY <2>3, <2>4, <2>5, <6>1
          <6>2. CASE q # 1
            <7>1. q - 1 \in 1..n
              BY <2>3, <6>2
            <7> QED
              BY <2>4, <2>5, <6>2, <7>1
          <6> QED
            BY <6>1, <6>2
        <5> QED
          BY <5>1, <5>2, <5>3
      <4> HIDE DEF x
      <4>2. CASE i = q
        <5>1. heap'[x] = [heap[x] EXCEPT !.prev = e] /\ i # q - 1
          BY <2>1, <2>3, <4>1, <4>2
        <5> QED
          BY <4>1, <4>2, <5>1 DEF x, EdgeStruct
      <4>3. CASE i = q - 1
        <5>1. heap'[x] = [heap[x] EXCEPT !.next = e] /\ i # q
          BY <2>1, <2>3, <4>1, <4>3
        <5> QED
          BY <4>1, <4>3, <5>1 DEF x, EdgeStruct
      <4>4. CASE i # q /\ i # q - 1
        <5>1. heap'[x] = heap[x]
          BY <2>1, <4>1, <4>4
        <5> QED
          BY <4>4, <5>1 DEF x
      <4> QED
        BY <4>2, <4>3, <4>4
    <3> QED
      BY <2>3, <2>4, <3>1, <3>2, <3>3, <3>4 DEF Links, n
  <2>10. head' = (IF q = 1 THEN e ELSE head) /\ tail' = (IF q = n + 1 THEN e ELSE tail)
    <3>1. p = NULL <=> q = 1
      BY <2>3, <2>4, <2>5
    <3> QED
      BY <2>1, <2>3, <3>1
  <2> QED
    BY <2>1, <2>2, <2>3, <2>5, <2>8, <2>9, <2>10, InsertedInv DEF e, n
<1>9. ASSUME LinkLast PROVE Inv'
  <2>1. /\ pc = "search" /\ ptr = NULL
        /\ heap' = [x \in DOMAIN heap \cup {e} |->
                      CASE x = e -> NewEdge(tail, NULL)
                        [] x = tail -> [heap[x] EXCEPT !.next = e]
                        [] OTHER -> heap[x]]
        /\ tail' = e /\ pc' = "insert" /\ todo' = Tail(todo)
        /\ UNCHANGED <<head, wanted, ptr, chime, loEdge, hiEdge, added, answer, ranges, failures, before, asked>>
    BY <1>9 DEF LinkLast
  <2>2. PICK q \in 1..n + 1 :
          /\ ptr = At(q)
          /\ \A i \in 1..q - 1 : heap[Addresses[i]].value < Head(todo).value
    BY <1>1, <2>1 DEF SearchInv
  <2>3. /\ q = n + 1 /\ n \in 1..n /\ n \in Nat /\ tail = Addresses[n] /\ head # NULL
    <3>1. n \in Nat /\ q = n + 1 /\ head # NULL /\ n # 0
      BY <1>1, <2>1, <2>2, Pointers, ListEdges DEF SearchInv
    <3>2. n \in 1..n
      BY <3>1
    <3> QED
      BY <1>1, <2>1, <3>1, <3>2, Pointers
  <2>4. /\ todo # <<>> /\ e \in Node /\ e \notin DOMAIN heap /\ HeapType(heap)
        /\ \A i \in 1..n : Addresses[i] \in DOMAIN heap /\ Addresses[i] # NULL
        /\ \A i, j \in 1..n : Addresses[i] = Addresses[j] => i = j
    BY <1>1, <2>1, FreeNodeIsFree, ListEdges DEF SearchInv
  <2>5. Head(todo) \in EdgeOfValue
    <3>1. todo \in Seq(EdgeOfValue)
      BY <1>1 DEF TypeOK, EdgeOfValue
    <3> QED
      BY <2>4, <3>1
  <2> HIDE DEF e, n
  <2>6. tail \in DOMAIN heap /\ tail # e
    BY <2>3, <2>4
  <2>7. heap' \in [DOMAIN heap' -> EdgeStruct]
    <3>1. NewEdge(tail, NULL) \in EdgeStruct
      BY <2>4, <2>5, <2>6 DEF NewEdge, EdgeStruct, EdgeOfValue, HeapType
    <3>2. \A x \in DOMAIN heap : /\ heap[x] \in EdgeStruct
                                 /\ [heap[x] EXCEPT !.next = e] \in EdgeStruct
      BY <2>4 DEF EdgeStruct, HeapType
    <3>3. ASSUME NEW x \in DOMAIN heap \cup {e} PROVE heap'[x] \in EdgeStruct
      <4>1. CASE x = e
        BY <2>1, <2>6, <3>1, <4>1
      <4>2. CASE x # e /\ x = tail
        BY <2>1, <3>2, <4>2
      <4>3. CASE x # e /\ x # tail
        BY <2>1, <3>2, <4>3
      <4> QED
        BY <4>1, <4>2, <4>3
    <3> QED
      BY <2>1, <3>3
  <2>8. Links(heap, heap', Addresses, q, e, Head(todo))
    <3>1. DOMAIN heap' = DOMAIN heap \cup {e} /\ heap'[e] = NewEdge(tail, NULL)
      BY <2>1, <2>6
    <3>2. /\ NewEdge(tail, NULL).value = Head(todo).value
          /\ NewEdge(tail, NULL).chime = Head(todo).chime
          /\ NewEdge(tail, NULL).prev = tail /\ NewEdge(tail, NULL).next = NULL
      BY DEF NewEdge
    <3>3. q = Len(Addresses) + 1 /\ q # 1 /\ Addresses[q - 1] = tail
      BY <2>3 DEF n
    <3>4. ASSUME NEW i \in 1..n
          PROVE  /\ heap'[Addresses[i]].value = heap[Addresses[i]].value
                 /\ heap'[Addresses[i]].chime = heap[Addresses[i]].chime
                 /\ heap'[Addresses[i]].prev = IF i = q THEN e ELSE heap[Addresses[i]].prev
                 /\ heap'[Addresses[i]].next = IF i = q - 1 THEN e ELSE heap[Addresses[i]].next
      <4> DEFINE x == Addresses[i]
      <4>1. x \in DOMAIN heap /\ x # e /\ heap[x] \in EdgeStruct
        BY <2>4 DEF HeapType
      <4>2. (x = tail <=> i = q - 1) /\ i # q
        BY <2>3, <2>4
      <4> HIDE DEF x
      <4>3. CASE i = q - 1
        <5>1. heap'[x] = [heap[x] EXCEPT !.next = e]
          BY <2>1, <4>1, <4>2, <4>3
        <5> QED
          BY <4>1, <4>2, <4>3, <5>1 DEF x, EdgeStruct
      <4>4. CASE i # q - 1
        <5>1. heap'[x] = heap[x]
          BY <2>1, <4>1, <4>2, <4>4
        <5> QED
          BY <4>2, <4>4, <5>1 DEF x
      <4> QED
        BY <4>3, <4>4
    <3> QED
      BY <3>1, <3>2, <3>3, <3>4 DEF Links, n
  <2>9. head' = (IF q = 1 THEN e ELSE head) /\ tail' = (IF q = n + 1 THEN e ELSE tail)
    BY <2>1, <2>3
  <2> QED
    BY <2>1, <2>2, <2>3, <2>4, <2>7, <2>8, <2>9, InsertedInv DEF e, n
<1>10. ASSUME AddReturn PROVE Inv'
  <2>1. /\ pc = "insert" /\ todo = <<>> /\ wanted' = (wanted + 1) % UIntMod /\ added' = 1
        /\ pc' = "idle" /\ before' = <<>>
        /\ UNCHANGED <<heap, head, tail, todo, ptr, chime, loEdge, hiEdge, answer, ranges, failures, asked>>
    BY <1>10 DEF AddReturn, list, locals
  <2>2. Addresses' = Addresses
    BY <2>1, SameList
  <2>3. wanted' = wanted + 1 /\ wanted' \in 0..UIntMod - 1
    <3>1. /\ wanted \in Nat /\ Len(ranges) \in Nat /\ wanted < Len(ranges) /\ Len(ranges) <= MaxRanges
      BY <1>1, <2>1, UIntModAssumption DEF TypeOK, SizeInv
    <3> QED
      BY <2>1, <3>1, UIntModAssumption, MaxRangesAssumption
  <2>4. TypeOK'
    BY <1>1, <2>1, <2>3 DEF TypeOK
  <2>5. HeapInv' /\ SearchInv' /\ AddInv' /\ ScanInv' /\ FindInv'
    BY <1>1, <2>1, <2>2 DEF HeapInv, SearchInv, AddInv, ScanInv, FindInv
  <2>6. SizeInv'
    BY <1>1, <2>1, <2>3 DEF SizeInv, TypeOK
  <2> QED
    BY <2>4, <2>5, <2>6 DEF Inv
<1> QED
  BY <1>2, <1>3, <1>4, <1>5, <1>6, <1>7, <1>8, <1>9, <1>10 DEF AddStep

\* When a scan went past its last edge, the count was not reached.
LEMMA NotBothFound ==
  ASSUME Inv, pc = "test", ~BothFound
  PROVE  ReachedUp(Along, wanted) = {} \/ ReachedDown(Along, wanted) = {}
<1> DEFINE n == Len(Addresses)
<1>1. TypeOK /\ HeapInv /\ LowOver /\ HighOver
  BY DEF Inv, FindInv
<1>2. n \in Nat /\ DOMAIN Along = 1..n
  BY <1>1, ListEdges
<1>3. CASE loEdge = NULL
  <2>1. PICK q \in 1..n + 1 :
          /\ loEdge = At(q)
          /\ \A k \in 1..q - 1 : ~Reached(ChimeUp(Along, k), wanted)
    BY <1>1 DEF LowOver
  <2>2. q = n + 1
    BY <1>1, <1>2, <1>3, <2>1, Pointers
  <2>3. \A k \in 1..n : ~Reached(ChimeUp(Along, k), wanted)
    BY <1>2, <2>1, <2>2
  <2> QED
    BY <1>2, <2>3 DEF ReachedUp
<1>4. CASE hiEdge = NULL
  <2>1. PICK q \in 0..n :
          /\ hiEdge = At(q)
          /\ \A k \in q + 1..n : ~Reached(ChimeDown(Along, k), wanted)
    BY <1>1 DEF HighOver
  <2>2. q = 0
    BY <1>1, <1>2, <1>4, <2>1, Pointers
  <2>3. \A k \in 1..n : ~Reached(ChimeDown(Along, k), wanted)
    BY <1>2, <2>1, <2>2
  <2> QED
    BY <1>2, <2>3 DEF ReachedDown
<1> QED
  BY <1>3, <1>4 DEF BothFound

\* overlap_find takes one step.
LEMMA FindInvKept ==
  ASSUME Inv, FindStep \/ FindNothing \/ FindStart
  PROVE  Inv'
<1>1. TypeOK /\ HeapInv /\ SizeInv /\ SearchInv /\ AddInv /\ ScanInv /\ FindInv
  BY DEF Inv
<1> DEFINE n == Len(Addresses)
           Given(a, w) == \A m \in w + 1..a : ReachedUp(Along, m) = {} \/ ReachedDown(Along, m) = {}
<1>2. UNCHANGED <<heap, head, tail, todo, added, ranges, failures, before>>
  BY DEF FindStep, FindNothing, FindStart, LowStep, LowEnd, HighStep, HighEnd, Return, Retry, list, locals
<1>3. /\ pc \in {"idle", "low", "high", "test"} /\ pc' \in {"idle", "low", "high", "test"}
      /\ pc \notin {"del", "gone"}
  BY DEF FindStep, FindNothing, FindStart, LowStep, LowEnd, HighStep, HighEnd, Return, Retry
<1>4. Addresses' = Addresses /\ Along' = Along /\ \A q : At(q)' = At(q)
  BY <1>2, SameList
<1>5. /\ n \in Nat /\ Along \in Seq(EdgeType) /\ Len(Along) = n /\ DOMAIN Along = 1..n
      /\ \A i \in 1..n : /\ Along[i].chime = heap[Addresses[i]].chime
                         /\ heap[Addresses[i]].value \in Value /\ heap[Addresses[i]].chime \in {-1, 1}
  BY <1>1, <1>3, ListEdges
<1>6. wanted \in Nat /\ asked \in Nat /\ wanted < UIntMod /\ UIntMod \in Nat /\ chime \in Int
  BY <1>1, UIntModAssumption DEF TypeOK
<1>7. HeapInv' /\ SearchInv' /\ AddInv'
  BY <1>1, <1>2, <1>3, <1>4 DEF HeapInv, SearchInv, AddInv
<1>8. SizeInv' /\ wanted' \in 0..UIntMod - 1
  <2>1. wanted' \in Nat /\ wanted' <= wanted
    <3>1. CASE Retry
      <4>1. wanted' = wanted - 1 /\ wanted > 0
        BY <1>1, <3>1 DEF Retry, FindInv
      <4> QED
        BY <1>6, <4>1
    <3>2. CASE ~Retry
      BY <1>6, <3>2 DEF FindStep, FindNothing, FindStart, LowStep, LowEnd, HighStep, HighEnd, Return
    <3> QED
      BY <3>1, <3>2
  <2>2. Len(ranges) \in Nat
    BY <1>1 DEF TypeOK
  <2> QED
    BY <1>1, <1>2, <1>3, <1>6, <2>1, <2>2 DEF SizeInv
<1>9. ASSUME FindNothing PROVE Inv'
  <2>1. /\ pc = "idle" /\ pc' = "idle" /\ answer' = [answer EXCEPT !.count = 0]
        /\ UNCHANGED <<wanted, ptr, chime, loEdge, hiEdge, asked>>
    BY <1>9 DEF FindNothing, locals
  <2>2. answer' \in Answers
    BY <1>1, <2>1 DEF TypeOK, Answers
  <2>3. TypeOK'
    BY <1>1, <1>2, <2>1, <2>2 DEF TypeOK
  <2>4. ScanInv' /\ FindInv'
    BY <2>1 DEF ScanInv, FindInv
  <2> QED
    BY <1>7, <1>8, <2>3, <2>4 DEF Inv
<1>10. ASSUME pc' = "low", ptr' = head, chime' = 0, loEdge' = NULL,
              0 < wanted', wanted' <= asked', Given(asked', wanted'), asked' \in Nat,
              UNCHANGED <<hiEdge, answer>>
       PROVE  Inv'
  <2>1. TypeOK'
    BY <1>1, <1>2, <1>8, <1>10 DEF TypeOK
  <2>2. ScanInv'
    <3>1. ptr' = At(1)' /\ 1 \in 1..Len(Addresses') + 1
      BY <1>1, <1>3, <1>4, <1>5, <1>10, Pointers
    <3>2. chime' = ChimeUp(Along', 0)
      BY <1>4, <1>5, <1>10, ScanUp
    <3> QED
      BY <1>10, <3>1, <3>2 DEF ScanInv
  <2>3. FindInv'
    BY <1>4, <1>10 DEF FindInv
  <2> QED
    BY <1>7, <1>8, <2>1, <2>2, <2>3 DEF Inv
<1>11. ASSUME FindStart PROVE Inv'
  <2>1. /\ pc' = "low" /\ asked' = wanted /\ ptr' = head /\ chime' = 0 /\ loEdge' = NULL /\ wanted > 0
        /\ UNCHANGED <<wanted, hiEdge, answer>>
    BY <1>11 DEF FindStart
  <2>2. Given(asked', wanted') /\ asked' \in Nat /\ 0 < wanted' /\ wanted' <= asked'
    BY <1>6, <2>1
  <2> HIDE DEF Given
  <2> QED
    BY <1>10, <2>1, <2>2
<1>12. ASSUME LowStep PROVE Inv'
  <2>1. /\ pc = "low" /\ pc' = "low" /\ ptr # NULL /\ ~Reached(chime - heap[ptr].chime, wanted)
        /\ chime' = chime - heap[ptr].chime /\ ptr' = heap[ptr].next
        /\ UNCHANGED <<wanted, loEdge, hiEdge, answer, asked>>
    BY <1>12 DEF LowStep
  <2>2. PICK q \in 1..n + 1 :
          /\ ptr = At(q) /\ chime = ChimeUp(Along, q - 1)
          /\ \A k \in 1..q - 1 : ~Reached(ChimeUp(Along, k), wanted)
    BY <1>1, <2>1 DEF ScanInv
  <2>3. q \in 1..n /\ ptr = Addresses[q] /\ ptr' = At(q + 1)
    BY <1>1, <1>3, <2>1, <2>2, Pointers
  <2>4. chime' = ChimeUp(Along, q)
    BY <1>5, <2>1, <2>2, <2>3, ScanUp
  <2> HIDE DEF n
  <2>5. TypeOK'
    <3>1. chime' \in Int
      BY <1>5, <2>3, <2>4, ScanUp
    <3>2. ptr' \in Node \cup {NULL}
      BY <1>1, <1>3, <1>5, <2>3, Pointers
    <3> QED
      BY <1>1, <1>2, <1>8, <2>1, <3>1, <3>2 DEF TypeOK
  <2>6. ScanInv'
    <3>1. /\ q + 1 \in 1..n + 1 /\ ptr' = At(q + 1)' /\ chime' = ChimeUp(Along', (q + 1) - 1)
          /\ \A k \in 1..(q + 1) - 1 : ~Reached(ChimeUp(Along', k), wanted')
      BY <1>4, <1>5, <2>1, <2>2, <2>3, <2>4
    <3> QED
      BY <1>4, <2>1, <3>1 DEF ScanInv, n
  <2>7. FindInv'
    BY <1>1, <1>4, <2>1 DEF FindInv
  <2> QED
    BY <1>7, <1>8, <2>5, <2>6, <2>7 DEF Inv
<1>13. ASSUME LowEnd PROVE Inv'
  <2>1. /\ pc = "low" /\ pc' = "high" /\ (ptr # NULL => Reached(chime - heap[ptr].chime, wanted))
        /\ loEdge' = ptr /\ ptr' = tail /\ chime' = 0 /\ hiEdge' = NULL
        /\ UNCHANGED <<wanted, answer, asked>>
    BY <1>13 DEF LowEnd
  <2>2. PICK q \in 1..n + 1 :
          /\ ptr = At(q) /\ chime = ChimeUp(Along, q - 1)
          /\ \A k \in 1..q - 1 : ~Reached(ChimeUp(Along, k), wanted)
    BY <1>1, <2>1 DEF ScanInv
  <2>3. q \in 1..n => Reached(ChimeUp(Along, q), wanted)
    <3> SUFFICES ASSUME q \in 1..n PROVE Reached(ChimeUp(Along, q), wanted)
      OBVIOUS
    <3>1. ptr = Addresses[q] /\ ptr # NULL
      BY <1>1, <1>3, <2>2, Pointers
    <3>2. ChimeUp(Along, q) = chime - heap[ptr].chime
      BY <1>5, <2>2, <3>1, ScanUp
    <3> QED
      BY <2>1, <3>1, <3>2
  <2>4. TypeOK'
    BY <1>1, <1>2, <1>8, <2>1 DEF TypeOK
  <2>5. ScanInv'
    <3>1. n \in 0..n /\ ptr' = At(n)'
      BY <1>1, <1>3, <1>4, <1>5, <2>1, Pointers
    <3>2. chime' = ChimeDown(Along', n + 1)
      BY <1>4, <1>5, <2>1, ScanDown
    <3> QED
      BY <1>4, <1>5, <2>1, <3>1, <3>2 DEF ScanInv
  <2>6. LowOver'
    BY <1>4, <2>1, <2>2, <2>3 DEF LowOver
  <2>7. FindInv'
    BY <1>1, <1>4, <2>1, <2>6 DEF FindInv
  <2> QED
    BY <1>7, <1>8, <2>4, <2>5, <2>7 DEF Inv
<1>14. ASSUME HighStep PROVE Inv'
  <2>1. /\ pc = "high" /\ pc' = "high" /\ ptr # NULL /\ ~Reached(chime + heap[ptr].chime, wanted)
        /\ chime' = chime + heap[ptr].chime /\ ptr' = heap[ptr].prev
        /\ UNCHANGED <<wanted, loEdge, hiEdge, answer, asked>>
    BY <1>14 DEF HighStep
  <2>2. PICK q \in 0..n :
          /\ ptr = At(q) /\ chime = ChimeDown(Along, q + 1)
          /\ \A k \in q + 1..n : ~Reached(ChimeDown(Along, k), wanted)
    BY <1>1, <2>1 DEF ScanInv
  <2>3. q \in 1..n /\ ptr = Addresses[q] /\ ptr' = At(q - 1)
    BY <1>1, <1>3, <1>5, <2>1, <2>2, Pointers
  <2>4. chime' = ChimeDown(Along, q)
    BY <1>5, <2>1, <2>2, <2>3, ScanDown
  <2> HIDE DEF n
  <2>5. TypeOK'
    <3>1. chime' \in Int
      BY <1>5, <2>3, <2>4, ScanDown
    <3>2. ptr' \in Node \cup {NULL}
      BY <1>1, <1>3, <1>5, <2>3, Pointers
    <3> QED
      BY <1>1, <1>2, <1>8, <2>1, <3>1, <3>2 DEF TypeOK
  <2>6. ScanInv'
    <3>1. /\ q - 1 \in 0..n /\ ptr' = At(q - 1)' /\ chime' = ChimeDown(Along', (q - 1) + 1)
          /\ \A k \in (q - 1) + 1..n : ~Reached(ChimeDown(Along', k), wanted')
      BY <1>4, <1>5, <2>1, <2>2, <2>3, <2>4
    <3> QED
      BY <1>4, <2>1, <3>1 DEF ScanInv, n
  <2>7. FindInv'
    <3>1. LowOver'
      BY <1>1, <1>4, <2>1 DEF FindInv, LowOver
    <3> QED
      BY <1>1, <1>4, <2>1, <3>1 DEF FindInv
  <2> QED
    BY <1>7, <1>8, <2>5, <2>6, <2>7 DEF Inv
<1>15. ASSUME HighEnd PROVE Inv'
  <2>1. /\ pc = "high" /\ pc' = "test" /\ (ptr # NULL => Reached(chime + heap[ptr].chime, wanted))
        /\ hiEdge' = ptr
        /\ UNCHANGED <<wanted, ptr, chime, loEdge, answer, asked>>
    BY <1>15 DEF HighEnd
  <2>2. PICK q \in 0..n :
          /\ ptr = At(q) /\ chime = ChimeDown(Along, q + 1)
          /\ \A k \in q + 1..n : ~Reached(ChimeDown(Along, k), wanted)
    BY <1>1, <2>1 DEF ScanInv
  <2>3. q \in 1..n => Reached(ChimeDown(Along, q), wanted)
    <3> SUFFICES ASSUME q \in 1..n PROVE Reached(ChimeDown(Along, q), wanted)
      OBVIOUS
    <3>1. ptr = Addresses[q] /\ ptr # NULL
      BY <1>1, <1>3, <2>2, Pointers
    <3>2. ChimeDown(Along, q) = chime + heap[ptr].chime
      BY <1>5, <2>2, <3>1, ScanDown
    <3> QED
      BY <2>1, <3>1, <3>2
  <2>4. TypeOK'
    BY <1>1, <1>2, <1>8, <2>1 DEF TypeOK
  <2>5. ScanInv'
    BY <2>1 DEF ScanInv
  <2>6. LowOver' /\ HighOver'
    <3>1. LowOver'
      BY <1>1, <1>4, <2>1 DEF FindInv, LowOver
    <3>2. HighOver'
      BY <1>4, <2>1, <2>2, <2>3 DEF HighOver
    <3> QED
      BY <3>1, <3>2
  <2>7. FindInv'
    BY <1>1, <1>4, <2>1, <2>6 DEF FindInv
  <2> QED
    BY <1>7, <1>8, <2>4, <2>5, <2>7 DEF Inv
<1>16. ASSUME Return PROVE Inv'
  <2>1. /\ pc = "test" /\ loEdge # NULL /\ hiEdge # NULL /\ pc' = "idle" /\ asked' = 0
        /\ answer' = [count |-> wanted, lo |-> heap[loEdge].value, hi |-> heap[hiEdge].value]
        /\ UNCHANGED <<wanted, ptr, chime, loEdge, hiEdge>>
    BY <1>16 DEF Return, BothFound, locals
  <2>2. answer' \in Answers
    <3>1. LowOver /\ HighOver
      BY <1>1, <2>1 DEF FindInv
    <3>2. PICK q \in 1..n + 1 : loEdge = At(q)
      BY <3>1 DEF LowOver
    <3>3. PICK r \in 0..n : hiEdge = At(r)
      BY <3>1 DEF HighOver
    <3>4. q \in 1..n /\ r \in 1..n /\ loEdge = Addresses[q] /\ hiEdge = Addresses[r]
      BY <1>1, <1>3, <1>5, <2>1, <3>2, <3>3, Pointers
    <3> QED
      BY <1>5, <1>6, <2>1, <3>4 DEF Answers
  <2>3. TypeOK'
    BY <1>1, <1>2, <1>8, <2>1, <2>2 DEF TypeOK
  <2>4. ScanInv' /\ FindInv'
    BY <2>1 DEF ScanInv, FindInv
  <2> QED
    BY <1>7, <1>8, <2>3, <2>4 DEF Inv
<1>17. ASSUME Retry PROVE Inv'
  <2>1. pc = "test" /\ (loEdge = NULL \/ hiEdge = NULL) /\ wanted' = wanted - 1
    BY <1>17 DEF Retry, BothFound
  <2>2. /\ 0 < wanted /\ wanted <= asked /\ Given(asked, wanted) /\ LowOver /\ HighOver
    BY <1>1, <2>1 DEF FindInv
  <2>3. ReachedUp(Along, wanted) = {} \/ ReachedDown(Along, wanted) = {}
    BY <2>1, NotBothFound DEF BothFound
  <2>4. Given(asked, wanted')
    BY <1>6, <2>1, <2>2, <2>3
  <2>5. CASE wanted' = 0
    <3>1. /\ pc' = "idle" /\ asked' = 0 /\ answer' = [answer EXCEPT !.count = 0]
          /\ UNCHANGED <<ptr, chime, loEdge, hiEdge>>
      BY <1>17, <2>5 DEF Retry, locals
    <3>2. answer' \in Answers
      BY <1>1, <3>1 DEF TypeOK, Answers
    <3>3. TypeOK'
      BY <1>1, <1>2, <1>8, <3>1, <3>2 DEF TypeOK
    <3>4. ScanInv' /\ FindInv'
      BY <3>1 DEF ScanInv, FindInv
    <3> QED
      BY <1>7, <1>8, <3>3, <3>4 DEF Inv
  <2>6. CASE wanted' # 0
    <3>1. /\ pc' = "low" /\ ptr' = head /\ chime' = 0 /\ loEdge' = NULL
          /\ UNCHANGED <<hiEdge, answer, asked>>
      BY <1>17, <2>6 DEF Retry
    <3>2. 0 < wanted' /\ wanted' <= asked' /\ Given(asked', wanted') /\ asked' \in Nat
      BY <1>6, <2>1, <2>2, <2>4, <2>6, <3>1
    <3> HIDE DEF Given
    <3> QED
      BY <1>10, <3>1, <3>2
  <2> QED
    BY <2>5, <2>6
<1> QED
  BY <1>9, <1>11, <1>12, <1>13, <1>14, <1>15, <1>16, <1>17 DEF FindStep

\* Freeing the first edge leaves the chain of the others.
LEMMA ChainTail ==
  ASSUME NEW hp, NEW hd, NEW s, Chained(hp, hd, s), hd # NULL, NULL \notin Node
  PROVE  /\ hd \in DOMAIN hp
         /\ Chained([x \in DOMAIN hp \ {hd} |-> hp[x]], hp[hd].next, Tail(s))
<1> DEFINE hq == [x \in DOMAIN hp \ {hd} |-> hp[x]]
           t  == Tail(s)
           n  == Len(s)
<1>1. s \in Seq(Node) /\ n \in Nat /\ n # 0 /\ hd = s[1] /\ 1 \in 1..n
  BY DEF Chained
<1>2. /\ t \in Seq(Node) /\ Len(t) = n - 1
      /\ \A i \in 1..n - 1 : t[i] = s[i + 1]
  BY <1>1
<1>3. /\ \A i \in 1..n : s[i] \in DOMAIN hp
      /\ \A i, j \in 1..n : s[i] = s[j] => i = j
      /\ DOMAIN hp = {s[i] : i \in 1..n}
      /\ \A i \in 1..n : hp[s[i]].next = IF i = n THEN NULL ELSE s[i + 1]
  BY DEF Chained
<1> HIDE DEF n, t
<1>4. hd \in DOMAIN hp
  BY <1>1, <1>3
<1>5. ASSUME NEW i \in 1..n - 1
      PROVE  i + 1 \in 1..n /\ t[i] = s[i + 1] /\ t[i] \in DOMAIN hq /\ hq[t[i]] = hp[s[i + 1]]
  <2>1. i + 1 \in 1..n /\ t[i] = s[i + 1] /\ i + 1 # 1
    BY <1>1, <1>2
  <2>2. s[i + 1] \in DOMAIN hp /\ s[i + 1] # hd
    BY <1>1, <1>3, <2>1
  <2> QED
    BY <2>1, <2>2
<1>6. DOMAIN hq = {t[i] : i \in 1..n - 1}
  <2>1. ASSUME NEW x \in DOMAIN hq PROVE \E i \in 1..n - 1 : x = t[i]
    <3>1. PICK j \in 1..n : x = s[j]
      BY <1>3
    <3>2. j # 1
      BY <1>1, <3>1
    <3>3. j - 1 \in 1..n - 1 /\ t[j - 1] = s[(j - 1) + 1] /\ (j - 1) + 1 = j
      BY <1>1, <1>2, <3>2
    <3> QED
      BY <3>1, <3>3
  <2> HIDE DEF hq
  <2> QED
    BY <1>5, <2>1
<1>7. \A i, j \in 1..n - 1 : t[i] = t[j] => i = j
  <2> SUFFICES ASSUME NEW i \in 1..n - 1, NEW j \in 1..n - 1, t[i] = t[j] PROVE i = j
    OBVIOUS
  <2>1. s[i + 1] = s[j + 1] /\ i + 1 \in 1..n /\ j + 1 \in 1..n
    BY <1>5
  <2>2. i + 1 = j + 1
    BY ONLY <1>3, <2>1
  <2> QED
    BY <1>1, <2>2
<1>8. hp[hd].next = IF n - 1 = 0 THEN NULL ELSE t[1]
  <2>1. CASE n = 1
    BY <1>1, <1>3, <2>1
  <2>2. CASE n # 1
    <3>1. 1 \in 1..n - 1 /\ n - 1 # 0
      BY <1>1, <2>2
    <3>2. t[1] = s[1 + 1]
      BY <1>2, <3>1
    <3> QED
      BY <1>1, <1>3, <2>2, <3>1, <3>2
  <2> QED
    BY <2>1, <2>2
<1>9. \A i \in 1..n - 1 : hq[t[i]].next = IF i = n - 1 THEN NULL ELSE t[i + 1]
  <2> SUFFICES ASSUME NEW i \in 1..n - 1
               PROVE  hq[t[i]].next = IF i = n - 1 THEN NULL ELSE t[i + 1]
    OBVIOUS
  <2>1. hq[t[i]].next = IF i + 1 = n THEN NULL ELSE s[(i + 1) + 1]
    BY <1>3, <1>5
  <2>2. i # n - 1 => i + 1 \in 1..n - 1 /\ i + 1 # n
    BY <1>1
  <2>3. i = n - 1 => i + 1 = n
    BY <1>1
  <2> HIDE DEF hq
  <2> QED
    BY <1>5, <2>1, <2>2, <2>3
<1>10. Chained(hq, hp[hd].next, t)
  <2> HIDE DEF hq
  <2> QED
    BY <1>2, <1>6, <1>7, <1>8, <1>9 DEF Chained
<1> QED
  BY <1>4, <1>10 DEF t

\* overlap_del and overlap_new take one step.
LEMMA DelInvKept ==
  ASSUME Inv, DelStart \/ DelStep \/ DelEnd \/ New
  PROVE  Inv'
<1>1. TypeOK /\ HeapInv /\ SizeInv /\ SearchInv /\ AddInv /\ ScanInv /\ FindInv
  BY DEF Inv
<1>2. ASSUME DelStart PROVE Inv'
  <2>1. /\ pc = "idle" /\ pc' = "del" /\ answer' = NoOverlap
        /\ UNCHANGED <<heap, head, tail, wanted, todo, ptr, chime, loEdge, hiEdge, added, ranges,
                       failures, before, asked>>
    BY <1>2 DEF DelStart, list, locals
  <2>2. Addresses' = Addresses
    BY <2>1, SameList
  <2>3. TypeOK'
    BY <1>1, <2>1 DEF TypeOK, NoOverlap, Answers
  <2>4. HeapInv'
    BY <1>1, <2>1, <2>2 DEF HeapInv, Linked
  <2>5. SizeInv' /\ SearchInv' /\ AddInv' /\ ScanInv' /\ FindInv'
    BY <1>1, <2>1 DEF SizeInv, SearchInv, AddInv, ScanInv, FindInv
  <2> QED
    BY <2>3, <2>4, <2>5 DEF Inv
<1>3. ASSUME DelStep PROVE Inv'
  <2>1. /\ pc = "del" /\ pc' = "del" /\ head # NULL /\ head' = heap[head].next
        /\ heap' = [x \in DOMAIN heap \ {head} |-> heap[x]]
        /\ UNCHANGED <<tail, wanted, todo, ptr, chime, loEdge, hiEdge, added, answer, ranges,
                       failures, before, asked>>
    BY <1>3 DEF DelStep, locals
  <2>2. Chained(heap, head, Addresses)
    BY <1>1, <2>1 DEF HeapInv
  <2>3. head \in DOMAIN heap /\ Chained(heap', head', Tail(Addresses))
    BY <2>1, <2>2, ChainTail, NodeAssumption
  <2>4. Addresses' = Tail(Addresses) /\ Cardinality(DOMAIN heap') = Len(Tail(Addresses))
    BY <2>3, NodesIs, ChainSize DEF Addresses
  <2>5. /\ Addresses \in Seq(Node) /\ Cardinality(DOMAIN heap) = Len(Addresses)
        /\ Len(Addresses) # 0
    BY <2>1, <2>2, ChainSize DEF Chained
  <2>6. Cardinality(DOMAIN heap') = Cardinality(DOMAIN heap) - 1 /\ Cardinality(DOMAIN heap) \in Nat
    BY <2>4, <2>5
  <2>7. TypeOK'
    <3>1. heap[head] \in EdgeStruct
      BY <1>1, <2>3 DEF TypeOK
    <3>2. head' \in Node \cup {NULL}
      BY <2>1, <3>1 DEF EdgeStruct
    <3>3. DOMAIN heap' \subseteq Node /\ heap' \in [DOMAIN heap' -> EdgeStruct]
      BY <1>1, <2>1 DEF TypeOK
    <3> QED
      BY <1>1, <2>1, <3>2, <3>3 DEF TypeOK
  <2>8. HeapInv'
    BY <2>1, <2>3, <2>4 DEF HeapInv
  <2>9. SizeInv'
    <3>1. Len(todo) \in Nat /\ Len(ranges) \in Nat
      BY <1>1 DEF TypeOK
    <3> QED
      BY <1>1, <2>1, <2>6, <3>1 DEF SizeInv
  <2>10. SearchInv' /\ AddInv' /\ ScanInv' /\ FindInv'
    BY <1>1, <2>1 DEF SearchInv, AddInv, ScanInv, FindInv
  <2> QED
    BY <2>7, <2>8, <2>9, <2>10 DEF Inv
<1>4. ASSUME DelEnd PROVE Inv'
  <2>1. /\ pc = "del" /\ pc' = "gone" /\ head = NULL
        /\ UNCHANGED <<heap, head, tail, wanted, todo, ptr, chime, loEdge, hiEdge, added, answer,
                       ranges, failures, before, asked>>
    BY <1>4 DEF DelEnd, list, locals
  <2>2. TypeOK'
    BY <1>1, <2>1 DEF TypeOK
  <2>3. HeapInv'
    <3>1. Chained(heap, head, Addresses)
      BY <1>1, <2>1 DEF HeapInv
    <3>2. Len(Addresses) = 0
      <4> SUFFICES ASSUME Len(Addresses) # 0 PROVE FALSE
        OBVIOUS
      <4>1. Addresses \in Seq(Node) /\ head = Addresses[1]
        BY <3>1 DEF Chained
      <4>2. head \in Node
        BY <4>1
      <4> QED
        BY <2>1, <4>2, NodeAssumption
    <3>3. DOMAIN heap = {}
      BY <3>1, <3>2 DEF Chained
    <3> QED
      BY <2>1, <3>3 DEF HeapInv
  <2>4. SizeInv' /\ SearchInv' /\ AddInv' /\ ScanInv' /\ FindInv'
    BY <1>1, <2>1 DEF SizeInv, SearchInv, AddInv, ScanInv, FindInv
  <2> QED
    BY <2>2, <2>3, <2>4 DEF Inv
<1>5. ASSUME New PROVE Inv'
  <2>1. /\ pc = "gone" /\ pc' = "idle" /\ head' = NULL /\ tail' = NULL /\ wanted' = 0 /\ added' = 1
        /\ ranges' = <<>> /\ failures' = 0 /\ todo' = <<>> /\ ptr' = NULL /\ chime' = 0
        /\ loEdge' = NULL /\ hiEdge' = NULL
        /\ UNCHANGED <<heap, answer, before, asked>>
    BY <1>5 DEF New
  <2>2. DOMAIN heap' = {}
    BY <1>1, <2>1 DEF HeapInv
  <2>3. Chained(heap', head', <<>>)
    BY <2>1, <2>2 DEF Chained
  <2>4. Addresses' = <<>> /\ Cardinality(DOMAIN heap') = 0
    BY <2>3, NodesIs, ChainSize DEF Addresses
  <2>5. TypeOK'
    <3>1. 0 \in 0..UIntMod - 1 /\ 0 \in 0..MaxFailures
      BY UIntModAssumption, MaxRangesAssumption, MaxFailuresAssumption
    <3> QED
      BY <1>1, <2>1, <2>2, <3>1 DEF TypeOK
  <2>6. HeapInv'
    BY <2>1, <2>3, <2>4 DEF HeapInv, Linked
  <2>7. SizeInv'
    BY <2>1, <2>4, MaxRangesAssumption DEF SizeInv
  <2>8. SearchInv' /\ AddInv' /\ ScanInv' /\ FindInv'
    BY <2>1 DEF SearchInv, AddInv, ScanInv, FindInv
  <2> QED
    BY <2>5, <2>6, <2>7, <2>8 DEF Inv
<1> QED
  BY <1>2, <1>3, <1>4, <1>5

\* A step that changes nothing.
LEMMA StutterInvKept ==
  ASSUME Inv, UNCHANGED vars
  PROVE  Inv'
<1>1. UNCHANGED <<heap, head, tail, wanted, pc, todo, ptr, chime, loEdge, hiEdge, added, answer,
                  ranges, failures, before, asked>>
  BY DEF vars, list, locals
<1>2. Addresses' = Addresses /\ Along' = Along /\ \A q : At(q)' = At(q)
  BY <1>1, SameList
<1>3. LowOver' = LowOver /\ HighOver' = HighOver
  BY <1>1, <1>2 DEF LowOver, HighOver
<1>4. TypeOK /\ HeapInv /\ SizeInv /\ SearchInv /\ AddInv /\ ScanInv /\ FindInv
  BY DEF Inv
<1>5. TypeOK' /\ SizeInv'
  BY <1>1, <1>4 DEF TypeOK, SizeInv
<1>6. HeapInv' /\ SearchInv' /\ ScanInv'
  BY <1>1, <1>2, <1>4 DEF HeapInv, SearchInv, ScanInv
<1>7. AddInv'
  BY <1>1, <1>2, <1>4 DEF AddInv
<1>8. FindInv'
  BY <1>1, <1>2, <1>3, <1>4 DEF FindInv
<1> QED
  BY <1>5, <1>6, <1>7, <1>8 DEF Inv

\* Inv holds in every state.
THEOREM Invariance == Spec => []Inv
<1>1. Init => Inv
  BY InitInv
<1>2. Inv /\ [Next]_vars => Inv'
  <2> SUFFICES ASSUME Inv, [Next]_vars PROVE Inv'
    OBVIOUS
  <2>1. CASE Next
    BY <2>1, AddInvKept, FindInvKept, DelInvKept DEF Next, Step
  <2>2. CASE UNCHANGED vars
    BY <2>2, StutterInvKept
  <2> QED
    BY <2>1, <2>2
<1> QED
  BY <1>1, <1>2, PTL DEF Spec

\* Every variable of the algorithm holds a value of its type: _wanted does not
\* wrap around, however many adds there were.
THEOREM TypeCorrect == Spec => []TypeOK
<1>1. Inv => TypeOK
  BY DEF Inv
<1> QED
  BY <1>1, Invariance, PTL

\* Whichever allocations fail, the links of the list agree in both directions
\* and the values never fall (overlap_algo.c:47-74).
THEOREM ListStaysLinked == Spec => []ListOK
<1>1. ASSUME Inv PROVE ListOK
  <2> SUFFICES ASSUME pc \notin {"del", "gone"}
               PROVE /\ head = NULL <=> DOMAIN heap = {}
                     /\ tail = NULL <=> DOMAIN heap = {}
                     /\ head # NULL => head \in DOMAIN heap /\ heap[head].prev = NULL
                     /\ tail # NULL => tail \in DOMAIN heap /\ heap[tail].next = NULL
                     /\ \A x \in DOMAIN heap :
                          /\ IF heap[x].next = NULL THEN x = tail
                             ELSE /\ heap[x].next \in DOMAIN heap /\ heap[heap[x].next].prev = x
                                  /\ heap[x].value <= heap[heap[x].next].value
                          /\ IF heap[x].prev = NULL THEN x = head
                             ELSE heap[x].prev \in DOMAIN heap /\ heap[heap[x].prev].next = x
    BY DEF ListOK
  <2> DEFINE n == Len(Addresses)
  <2>1. TypeOK /\ HeapInv
    BY <1>1 DEF Inv
  <2>2. /\ head = At(1) /\ tail = At(n) /\ At(0) = NULL /\ At(n + 1) = NULL
        /\ \A q \in 1..n : /\ At(q) # NULL /\ At(q) \in DOMAIN heap /\ At(q) = Addresses[q]
                           /\ heap[At(q)].next = At(q + 1) /\ heap[At(q)].prev = At(q - 1)
    BY <2>1, Pointers
  <2>3. /\ n \in Nat /\ Linked(heap, head, tail, Addresses)
    BY <2>1, ListEdges
  <2>4. DOMAIN heap = {At(q) : q \in 1..n}
    <3>1. DOMAIN heap = {Addresses[q] : q \in 1..n}
      BY <2>3 DEF Linked, Chained
    <3>2. \A q \in 1..n : At(q) = Addresses[q]
      BY <2>2
    <3> HIDE DEF n
    <3> QED
      BY <3>1, <3>2
  <2>5. \A i, j \in 1..n : i < j => heap[At(i)].value <= heap[At(j)].value
    BY <2>2, <2>3 DEF Linked
  <2> HIDE DEF n
  <2>6. ASSUME n = 0 PROVE DOMAIN heap = {} /\ head = NULL /\ tail = NULL
    BY <2>2, <2>4, <2>6
  <2>7. ASSUME n # 0
        PROVE  /\ head \in DOMAIN heap /\ head # NULL /\ heap[head].prev = NULL
               /\ tail \in DOMAIN heap /\ tail # NULL /\ heap[tail].next = NULL
    <3>1. 1 \in 1..n /\ n \in 1..n
      BY <2>3, <2>7
    <3>2. At(1 - 1) = NULL /\ At(n + 1) = NULL
      BY <2>2
    <3> QED
      BY <2>2, <3>1, <3>2
  <2>8. ASSUME NEW x \in DOMAIN heap
        PROVE  /\ IF heap[x].next = NULL THEN x = tail
                  ELSE /\ heap[x].next \in DOMAIN heap /\ heap[heap[x].next].prev = x
                       /\ heap[x].value <= heap[heap[x].next].value
               /\ IF heap[x].prev = NULL THEN x = head
                  ELSE heap[x].prev \in DOMAIN heap /\ heap[heap[x].prev].next = x
    <3>1. PICK q \in 1..n : x = At(q)
      BY <2>4
    <3>2. heap[x].next = At(q + 1) /\ heap[x].prev = At(q - 1)
      BY <2>2, <3>1
    <3>3. IF heap[x].next = NULL THEN x = tail
          ELSE /\ heap[x].next \in DOMAIN heap /\ heap[heap[x].next].prev = x
               /\ heap[x].value <= heap[heap[x].next].value
      <4>1. CASE q = n
        BY <2>2, <3>1, <3>2, <4>1
      <4>2. CASE q # n
        <5>1. q + 1 \in 1..n /\ (q + 1) - 1 = q /\ q < q + 1
          BY <2>3, <4>2
        <5>2. /\ At(q + 1) # NULL /\ At(q + 1) \in DOMAIN heap /\ heap[At(q + 1)].prev = At(q)
              /\ heap[At(q)].value <= heap[At(q + 1)].value
          BY <2>2, <2>5, <5>1
        <5> QED
          BY <3>1, <3>2, <5>2
      <4> QED
        BY <4>1, <4>2
    <3>4. IF heap[x].prev = NULL THEN x = head
          ELSE heap[x].prev \in DOMAIN heap /\ heap[heap[x].prev].next = x
      <4>1. CASE q = 1
        BY <2>2, <3>1, <3>2, <4>1
      <4>2. CASE q # 1
        <5>1. q - 1 \in 1..n /\ (q - 1) + 1 = q
          BY <2>3, <4>2
        <5>2. At(q - 1) # NULL /\ At(q - 1) \in DOMAIN heap /\ heap[At(q - 1)].next = At(q)
          BY <2>2, <5>1
        <5> QED
          BY <3>1, <3>2, <5>2
      <4> QED
        BY <4>1, <4>2
    <3> QED
      BY <3>3, <3>4
  <2> QED
    BY <2>6, <2>7, <2>8
<1> QED
  BY <1>1, Invariance, PTL

\* No step of the algorithm follows a pointer to memory that was freed or never
\* allocated, and overlap_del frees every edge (C/README.md:13-14).
THEOREM NoBadPointer == Spec => []MemorySafe
<1>1. ASSUME Inv PROVE MemorySafe
  <2>1. TypeOK /\ HeapInv /\ SearchInv /\ ScanInv /\ FindInv
    BY <1>1 DEF Inv
  <2>2. pc \notin {"del", "gone"} =>
          /\ Len(Addresses) \in Nat
          /\ \A q \in Nat : At(q) \in DOMAIN heap \cup {NULL}
    BY <2>1, Pointers, ListEdges
  <2>3. pc \in {"search", "low", "high"} /\ ptr # NULL => ptr \in DOMAIN heap
    <3>1. CASE pc = "search"
      <4>1. PICK q \in 1..Len(Addresses) + 1 : ptr = At(q)
        BY <2>1, <3>1 DEF SearchInv
      <4> QED
        BY <2>2, <3>1, <4>1
    <3>2. CASE pc = "low"
      <4>1. PICK q \in 1..Len(Addresses) + 1 : ptr = At(q)
        BY <2>1, <3>2 DEF ScanInv
      <4> QED
        BY <2>2, <3>2, <4>1
    <3>3. CASE pc = "high"
      <4>1. PICK q \in 0..Len(Addresses) : ptr = At(q)
        BY <2>1, <3>3 DEF ScanInv
      <4> QED
        BY <2>2, <3>3, <4>1
    <3> QED
      BY <3>1, <3>2, <3>3
  <2>4. pc = "test" => {loEdge, hiEdge} \subseteq DOMAIN heap \cup {NULL}
    <3> SUFFICES ASSUME pc = "test" PROVE {loEdge, hiEdge} \subseteq DOMAIN heap \cup {NULL}
      OBVIOUS
    <3>1. LowOver /\ HighOver
      BY <2>1 DEF FindInv
    <3>2. PICK q \in 1..Len(Addresses) + 1 : loEdge = At(q)
      BY <3>1 DEF LowOver
    <3>3. PICK r \in 0..Len(Addresses) : hiEdge = At(r)
      BY <3>1 DEF HighOver
    <3> QED
      BY <2>2, <3>2, <3>3
  <2>5. pc = "del" /\ head # NULL => head \in DOMAIN heap
    BY <2>1, ChainTail, NodeAssumption DEF HeapInv
  <2>6. pc = "gone" => DOMAIN heap = {}
    BY <2>1 DEF HeapInv
  <2> QED
    BY <2>3, <2>4, <2>5, <2>6 DEF MemorySafe
<1> QED
  BY <1>1, Invariance, PTL

-----------------------------------------------------------------------------
(* The list that the pointers make *)

\* The operators of OverlapList are those of this module.
LEMMA SameAdd ==
  ASSUME NEW s, NEW l, NEW h, NEW kept
  PROVE  Listed!AddEdges(s, l, h, kept) = AddEdges(s, l, h, kept)
<1>1. \A t, e : Listed!InsertBefore(t, e) = InsertBefore(t, e)
  BY Zenon DEF Listed!InsertBefore, InsertBefore, Listed!PutAt, PutAt, Listed!Cardinality, Cardinality
<1>2. \A v, c : Listed!Edge(v, c) = Edge(v, c)
  BY DEF Listed!Edge, Edge
<1> QED
  BY <1>1, <1>2, Zenon DEF Listed!AddEdges, AddEdges

\* Both scans reach a count at the same edges.
LEMMA SameReached ==
  ASSUME NEW s, NEW w
  PROVE  Listed!ReachedUp(s, w) = ReachedUp(s, w) /\ Listed!ReachedDown(s, w) = ReachedDown(s, w)
<1>1. \A I : Listed!Lows(s, I) = Lows(s, I) /\ Listed!Highs(s, I) = Highs(s, I)
  BY DEF Listed!Lows, Lows, Listed!Highs, Highs
<1>2. \A S : Listed!Cardinality(S) = Cardinality(S)
  BY Zenon DEF Listed!Cardinality, Cardinality
<1>3. \A k : Listed!ChimeUp(s, k) = ChimeUp(s, k) /\ Listed!ChimeDown(s, k) = ChimeDown(s, k)
  BY <1>1, <1>2 DEF Listed!ChimeUp, ChimeUp, Listed!ChimeDown, ChimeDown
<1>4. \A c : Listed!Reached(c, w) = Reached(c, w)
  BY DEF Listed!Reached, Reached
<1> QED
  BY <1>3, <1>4 DEF Listed!ReachedUp, ReachedUp, Listed!ReachedDown, ReachedDown

\* A search of both finds the same.
LEMMA SameFound ==
  ASSUME NEW s, NEW w
  PROVE  /\ Listed!FoundCount(s, w) = FoundCount(s, w)
         /\ Listed!FoundLo(s, w) = FoundLo(s, w) /\ Listed!FoundHi(s, w) = FoundHi(s, w)
<1>1. \A n : Listed!ReachedUp(s, n) = ReachedUp(s, n) /\ Listed!ReachedDown(s, n) = ReachedDown(s, n)
  BY SameReached
<1> DEFINE W == {n \in 1..w : ReachedUp(s, n) # {} /\ ReachedDown(s, n) # {}}
           V == {n \in 1..w : Listed!ReachedUp(s, n) # {} /\ Listed!ReachedDown(s, n) # {}}
<1>2. V = W
  BY <1>1
<1>3. Listed!FoundCount(s, w) = IF V = {} THEN 0 ELSE CHOOSE n \in V : \A m \in V : m <= n
  BY DEF Listed!FoundCount
<1>4. FoundCount(s, w) = IF W = {} THEN 0 ELSE CHOOSE n \in W : \A m \in W : m <= n
  BY DEF FoundCount
<1> HIDE DEF V, W
<1>5. Listed!FoundCount(s, w) = FoundCount(s, w)
  BY <1>2, <1>3, <1>4
<1> DEFINE U == ReachedUp(s, w)
           D == ReachedDown(s, w)
<1>6. Listed!ReachedUp(s, w) = U /\ Listed!ReachedDown(s, w) = D
  BY <1>1
<1>7. FoundLo(s, w) = s[CHOOSE k \in U : \A m \in U : k <= m].value
  BY DEF FoundLo
<1>8. FoundHi(s, w) = s[CHOOSE k \in D : \A m \in D : m <= k].value
  BY DEF FoundHi
<1> HIDE DEF U, D
<1>9. Listed!FoundLo(s, w) = s[CHOOSE k \in U : \A m \in U : k <= m].value
  BY <1>6, Zenon DEF Listed!FoundLo
<1>10. Listed!FoundHi(s, w) = s[CHOOSE k \in D : \A m \in D : m <= k].value
  BY <1>6, Zenon DEF Listed!FoundHi
<1> QED
  BY <1>5, <1>7, <1>8, <1>9, <1>10

\* What the scans that ended at edges have found.
LEMMA ScansFound ==
  ASSUME Inv, pc = "test", BothFound
  PROVE  /\ FoundCount(Along, asked) = wanted /\ ReachedUp(Along, wanted) # {}
         /\ FoundLo(Along, wanted) = heap[loEdge].value
         /\ FoundHi(Along, wanted) = heap[hiEdge].value
<1> DEFINE n == Len(Addresses)
<1>1. TypeOK /\ HeapInv /\ FindInv
  BY DEF Inv
<1>2. /\ 0 < wanted /\ wanted <= asked /\ LowOver /\ HighOver /\ wanted \in Nat /\ asked \in Nat
      /\ \A m \in wanted + 1..asked : ReachedUp(Along, m) = {} \/ ReachedDown(Along, m) = {}
  BY <1>1, UIntModAssumption DEF FindInv, TypeOK
<1>3. /\ n \in Nat /\ DOMAIN Along = 1..n
      /\ \A i \in 1..n : Along[i].value = heap[Addresses[i]].value
  BY <1>1, ListEdges
<1>4. PICK q \in 1..n + 1 :
        /\ loEdge = At(q)
        /\ q \in 1..n => Reached(ChimeUp(Along, q), wanted)
        /\ \A k \in 1..q - 1 : ~Reached(ChimeUp(Along, k), wanted)
  BY <1>2 DEF LowOver
<1>5. PICK r \in 0..n :
        /\ hiEdge = At(r)
        /\ r \in 1..n => Reached(ChimeDown(Along, r), wanted)
        /\ \A k \in r + 1..n : ~Reached(ChimeDown(Along, k), wanted)
  BY <1>2 DEF HighOver
<1>6. q \in 1..n /\ r \in 1..n /\ loEdge = Addresses[q] /\ hiEdge = Addresses[r]
  BY <1>1, <1>3, <1>4, <1>5, Pointers DEF BothFound
<1> HIDE DEF n
<1>7. q \in ReachedUp(Along, wanted) /\ \A k \in ReachedUp(Along, wanted) : q <= k
  BY <1>3, <1>4, <1>6 DEF ReachedUp
<1>8. r \in ReachedDown(Along, wanted) /\ \A k \in ReachedDown(Along, wanted) : k <= r
  BY <1>3, <1>5, <1>6 DEF ReachedDown
<1>9. FoundCount(Along, asked) = wanted
  BY <1>2, <1>7, <1>8, FoundIs
<1>10. ReachedUp(Along, wanted) \subseteq Int /\ ReachedDown(Along, wanted) \subseteq Int
  BY <1>3 DEF ReachedUp, ReachedDown
<1>11. (CHOOSE k \in ReachedUp(Along, wanted) : \A m \in ReachedUp(Along, wanted) : k <= m) = q
  <2> DEFINE U == ReachedUp(Along, wanted)
  <2> HIDE DEF U
  <2>1. \A k \in U : (\A m \in U : k <= m) => k = q
    BY <1>7, <1>10 DEF U
  <2> QED
    BY <1>7, <2>1 DEF U
<1>12. (CHOOSE k \in ReachedDown(Along, wanted) : \A m \in ReachedDown(Along, wanted) : m <= k) = r
  <2> DEFINE U == ReachedDown(Along, wanted)
  <2> HIDE DEF U
  <2>1. \A k \in U : (\A m \in U : m <= k) => k = r
    BY <1>8, <1>10 DEF U
  <2> QED
    BY <1>8, <2>1 DEF U
<1>13. FoundLo(Along, wanted) = heap[loEdge].value
  BY <1>3, <1>6, <1>11 DEF FoundLo
<1>14. FoundHi(Along, wanted) = heap[hiEdge].value
  BY <1>3, <1>6, <1>12 DEF FoundHi
<1> QED
  BY <1>7, <1>9, <1>13, <1>14

\* _wanted as the list specification sees it.
Hope == IF pc \in {"del", "gone"} THEN 0
        ELSE IF pc \in {"low", "high", "test"} THEN asked ELSE wanted

\* The list of a heap without edges.
LEMMA EmptyList ==
  ASSUME DOMAIN heap = {}, head = NULL
  PROVE  Along = <<>>
<1>1. Chained(heap, head, <<>>)
  BY DEF Chained
<1>2. Addresses = <<>>
  BY <1>1, NodesIs DEF Addresses
<1> QED
  BY <1>2 DEF Along, EdgesAt, Addresses

\* A step of overlap_add inserts nothing that can be seen, or all that could be
\* allocated of the range.
LEMMA AddRefines ==
  ASSUME Inv, AddStep \/ \E l, h \in Value : AddRefused(l, h) \/ AddStart(l, h)
  PROVE  Listed!Next \/ UNCHANGED <<AsList, Hope, answer>>
<1>1. TypeOK /\ SizeInv /\ AddInv
  BY DEF Inv
<1>2. ASSUME NEW l \in Value, NEW h \in Value, AddRefused(l, h) \/ AddStart(l, h)
      PROVE  UNCHANGED <<AsList, Hope, answer>>
  <2>1. pc = "idle" /\ UNCHANGED <<heap, head, wanted, answer>>
    BY <1>2 DEF AddRefused, AddStart, list
  <2>2. Along' = Along
    BY <2>1, SameList
  <2>3. pc' = "idle" \/ (pc' = "insert" /\ before' = Along)
    BY <1>2, <2>1 DEF AddRefused, AddStart
  <2> QED
    BY <2>1, <2>2, <2>3 DEF AsList, Hope
<1>3. ASSUME AddStep, ~AddReturn
      PROVE  UNCHANGED <<AsList, Hope, answer>>
  <2>1. /\ pc \in {"insert", "search"} /\ pc' \in {"insert", "search"}
        /\ UNCHANGED <<before, wanted, answer>>
    BY <1>3 DEF AddStep, MallocFails, InsertFirst, SearchStart, SearchStep, LinkBefore, LinkLast
  <2> QED
    BY <2>1 DEF AsList, Hope
<1>4. ASSUME AddReturn
      PROVE  Listed!Next
  <2> DEFINE r == ranges[Len(ranges)]
  <2>1. /\ pc = "insert" /\ pc' = "idle" /\ todo = <<>> /\ wanted' = (wanted + 1) % UIntMod
        /\ UNCHANGED <<heap, head, answer>>
    BY <1>4 DEF AddReturn, list
  <2>2. PICK kept \in SUBSET {"lo", "hi"} : Along = AddEdges(before, r.lo, r.hi, kept)
    BY <1>1, <2>1 DEF AddInv
  <2>3. r.lo \in Value /\ r.hi \in Value /\ r.lo <= r.hi
    <3>1. ranges \in Seq(Interval) /\ Len(ranges) \in Nat /\ wanted \in Nat /\ wanted < Len(ranges)
      BY <1>1, <2>1, UIntModAssumption DEF TypeOK, SizeInv
    <3>2. Len(ranges) \in DOMAIN ranges
      BY <3>1
    <3>3. r \in Interval /\ r.lo <= r.hi
      BY <1>1, <3>1, <3>2 DEF SizeInv
    <3> QED
      BY <3>3 DEF Interval
  <2>4. Along' = Along
    BY <2>1, SameList
  <2>5. AsList = before /\ Hope = wanted
    BY <2>1 DEF AsList, Hope
  <2>6. AsList' = AddEdges(before, r.lo, r.hi, kept) /\ Hope' = wanted'
    BY <2>1, <2>2, <2>4 DEF AsList, Hope
  <2> HIDE DEF r
  <2>7. Listed!Add(r.lo, r.hi, kept)
    BY <2>1, <2>3, <2>5, <2>6, SameAdd DEF Listed!Add, Hope
  <2> QED
    BY <2>3, <2>7 DEF Listed!Next
<1> QED
  BY <1>2, <1>3, <1>4

\* A step of overlap_find finds nothing yet, or what the two scans find.
LEMMA FindRefines ==
  ASSUME Inv, FindStep \/ FindNothing \/ FindStart
  PROVE  Listed!Find \/ UNCHANGED <<AsList, Hope, answer>>
<1>1. TypeOK /\ FindInv
  BY DEF Inv
<1>2. /\ pc \in {"idle", "low", "high", "test"} /\ pc' \in {"idle", "low", "high", "test"}
      /\ UNCHANGED <<heap, head>>
  BY DEF FindStep, FindNothing, FindStart, LowStep, LowEnd, HighStep, HighEnd, Return, Retry, list
<1>3. Along' = Along /\ AsList = Along /\ AsList' = Along'
  BY <1>2, SameList DEF AsList
<1>4. wanted \in Nat /\ asked \in Nat
  BY <1>1, UIntModAssumption DEF TypeOK
<1> DEFINE n == Listed!FoundCount(AsList, Hope)
<1>5. Listed!Find <=>
        /\ Hope' = n
        /\ answer' = IF n = 0 THEN [answer EXCEPT !.count = 0]
                     ELSE [count |-> n, lo |-> Listed!FoundLo(AsList, n), hi |-> Listed!FoundHi(AsList, n)]
        /\ UNCHANGED AsList
  BY DEF Listed!Find, Hope
<1>6. n = FoundCount(Along, Hope) /\ Listed!FoundLo(AsList, n) = FoundLo(Along, n)
      /\ Listed!FoundHi(AsList, n) = FoundHi(Along, n)
  BY <1>3, SameFound
<1> HIDE DEF n
<1>7. ASSUME FindNothing PROVE Listed!Find
  <2>1. /\ pc = "idle" /\ pc' = "idle" /\ wanted = 0 /\ wanted' = 0
        /\ answer' = [answer EXCEPT !.count = 0]
    BY <1>7 DEF FindNothing
  <2>2. Hope = 0 /\ Hope' = 0
    BY <2>1 DEF Hope
  <2>3. n = 0
    BY <1>6, <2>2, FoundIs
  <2> QED
    BY <1>3, <1>5, <2>1, <2>2, <2>3
<1>8. ASSUME FindStart PROVE UNCHANGED <<AsList, Hope, answer>>
  <2>1. pc = "idle" /\ pc' = "low" /\ asked' = wanted /\ UNCHANGED <<wanted, answer>>
    BY <1>8 DEF FindStart
  <2> QED
    BY <1>3, <2>1 DEF Hope
<1>9. ASSUME LowStep \/ LowEnd \/ HighStep \/ HighEnd PROVE UNCHANGED <<AsList, Hope, answer>>
  <2>1. pc \in {"low", "high", "test"} /\ pc' \in {"low", "high", "test"} /\ UNCHANGED <<asked, answer>>
    BY <1>9 DEF LowStep, LowEnd, HighStep, HighEnd
  <2> QED
    BY <1>3, <2>1 DEF Hope
<1>10. ASSUME Return PROVE Listed!Find
  <2>1. /\ pc = "test" /\ pc' = "idle" /\ BothFound /\ wanted' = wanted
        /\ answer' = [count |-> wanted, lo |-> heap[loEdge].value, hi |-> heap[hiEdge].value]
    BY <1>10 DEF Return
  <2>2. Hope = asked /\ Hope' = wanted
    BY <2>1 DEF Hope
  <2>3. /\ n = wanted /\ FoundLo(Along, n) = heap[loEdge].value
        /\ FoundHi(Along, n) = heap[hiEdge].value /\ n # 0
    BY <1>1, <1>6, <2>1, <2>2, ScansFound DEF FindInv
  <2> QED
    BY <1>3, <1>5, <1>6, <2>1, <2>2, <2>3
<1>11. ASSUME Retry, wanted' # 0 PROVE UNCHANGED <<AsList, Hope, answer>>
  <2>1. pc = "test" /\ pc' = "low" /\ UNCHANGED <<asked, answer>>
    BY <1>11 DEF Retry
  <2> QED
    BY <1>3, <2>1 DEF Hope
<1>12. ASSUME Retry, wanted' = 0 PROVE Listed!Find
  <2>1. /\ pc = "test" /\ pc' = "idle" /\ wanted' = 0 /\ ~BothFound /\ wanted' = wanted - 1
        /\ answer' = [answer EXCEPT !.count = 0]
    BY <1>12 DEF Retry
  <2>2. Hope = asked /\ Hope' = 0
    BY <2>1 DEF Hope
  <2>3. \A m \in 1..asked : ReachedUp(Along, m) = {} \/ ReachedDown(Along, m) = {}
    <3>1. \A m \in wanted + 1..asked : ReachedUp(Along, m) = {} \/ ReachedDown(Along, m) = {}
      BY <1>1, <2>1 DEF FindInv
    <3>2. wanted = 1
      BY <1>4, <2>1
    <3>3. ReachedUp(Along, wanted) = {} \/ ReachedDown(Along, wanted) = {}
      BY <2>1, NotBothFound
    <3> QED
      BY <1>4, <3>1, <3>2, <3>3
  <2>4. n = 0
    BY <1>4, <1>6, <2>2, <2>3, FoundIs
  <2> QED
    BY <1>3, <1>5, <2>1, <2>2, <2>4
<1> QED
  BY <1>7, <1>8, <1>9, <1>10, <1>11, <1>12 DEF FindStep

\* A step of overlap_del or overlap_new empties the list at once.
LEMMA DelRefines ==
  ASSUME Inv, DelStart \/ DelStep \/ DelEnd \/ New
  PROVE  Listed!Renew \/ UNCHANGED <<AsList, Hope, answer>>
<1>1. ASSUME DelStart PROVE Listed!Renew
  <2>1. pc' = "del" /\ answer' = NoOverlap
    BY <1>1 DEF DelStart
  <2> QED
    BY <2>1 DEF AsList, Listed!Renew, NoOverlap
<1>2. ASSUME DelStep \/ DelEnd PROVE UNCHANGED <<AsList, Hope, answer>>
  <2>1. pc = "del" /\ pc' \in {"del", "gone"} /\ UNCHANGED answer
    BY <1>2 DEF DelStep, DelEnd
  <2> QED
    BY <2>1 DEF AsList, Hope
<1>3. ASSUME New PROVE UNCHANGED <<AsList, Hope, answer>>
  <2>1. pc = "gone" /\ pc' = "idle" /\ head' = NULL /\ wanted' = 0 /\ UNCHANGED <<heap, answer>>
    BY <1>3 DEF New
  <2>2. DOMAIN heap' = {}
    BY <2>1 DEF Inv, HeapInv
  <2>3. (DOMAIN heap = {} /\ head = NULL => Along = <<>>)'
    BY EmptyList, PTL
  <2>4. Along' = <<>>
    BY <2>1, <2>2, <2>3
  <2> QED
    BY <2>1, <2>4 DEF AsList, Hope
<1> QED
  BY <1>1, <1>2, <1>3

\* Whatever the pointers and the failing allocations, overlap_add inserts into
\* a sequence the edges that it could allocate, and overlap_find scans it from
\* both ends and keeps the count it found (overlap_algo.c:36-128).
THEOREM ImplementsList == Spec => RefinesList
<1>1. Init => Listed!Init
  <2> SUFFICES ASSUME Init PROVE Listed!Init
    OBVIOUS
  <2>1. Along = <<>>
    BY EmptyList DEF Init
  <2> QED
    BY <2>1 DEF Init, Listed!Init, AsList, NoOverlap
<1>2. Inv /\ [Next]_vars => [Listed!Next]_(Listed!vars)
  <2> SUFFICES ASSUME Inv, [Next]_vars PROVE Listed!Next \/ UNCHANGED <<AsList, Hope, answer>>
    BY DEF Listed!vars, Hope
  <2>1. CASE Next
    BY <2>1, AddRefines, FindRefines, DelRefines DEF Next, Step, Listed!Next
  <2>2. CASE UNCHANGED vars
    <3>1. UNCHANGED <<heap, head, wanted, pc, before, answer, asked>>
      BY <2>2 DEF vars, list
    <3>2. Along' = Along
      BY <3>1, SameList
    <3> QED
      BY <3>1, <3>2 DEF AsList, Hope
  <2> QED
    BY <2>1, <2>2
<1> QED
  BY <1>1, <1>2, Invariance, PTL DEF Spec, RefinesList, Listed!Spec

-----------------------------------------------------------------------------
(* The answers of the Python implementation *)

\* The ranges whose edges are in the list, the running overlap_add not counted.
Settled ==
  IF pc \in {"insert", "search"} THEN SubSeq(ranges, 1, Len(ranges) - 1) ELSE ranges

\* Unless a range ends where one begins or an edge is missing, the edges are in
\* the order of the Python implementation and _wanted is an upper bound.
PyInv ==
  failures = 0 /\ ~EndsAtLow /\ pc \notin {"del", "gone"} =>
    HoldsRanges(AsList, Settled) /\ \A x \in Value : Depth(Settled, x) <= wanted

\* A step that touches neither the edges of the list nor the ranges in it.
LEMMA PyInvSame ==
  ASSUME PyInv, UNCHANGED <<AsList, Settled, wanted>>,
         failures' = 0 /\ ~EndsAtLow' /\ pc' \notin {"del", "gone"} =>
           failures = 0 /\ ~EndsAtLow /\ pc \notin {"del", "gone"}
  PROVE  PyInv'
<1>1. \A x : Depth(Settled, x)' = Depth(Settled, x)
  BY DEF Depth
<1>2. HoldsRanges(AsList, Settled)' <=> HoldsRanges(AsList, Settled)
  BY DEF HoldsRanges, Sorted, CountsRanges, CountIn, IndicesIn, Balanced, LowsKnown, Depth
<1> QED
  BY <1>1, <1>2 DEF PyInv

\* A sequence without its last element.
LEMMA FrontShape ==
  ASSUME NEW S, NEW s \in Seq(S), Len(s) >= 1
  PROVE  LET f == SubSeq(s, 1, Len(s) - 1)
         IN  /\ f \in Seq(S) /\ Len(f) = Len(s) - 1
             /\ \A i \in 1..Len(s) - 1 : f[i] = s[i]
<1>1. ASSUME NEW p \in 1..Len(s)
      PROVE  /\ SubSeq(s, 1, p - 1) \in Seq(S) /\ Len(SubSeq(s, 1, p - 1)) = p - 1
             /\ \A i \in 1..p - 1 : SubSeq(s, 1, p - 1)[i] = s[i]
  OBVIOUS
<1>2. Len(s) \in 1..Len(s)
  OBVIOUS
<1> QED
  BY <1>1, <1>2

\* The ranges of the list are few enough for an unsigned to count their edges.
LEMMA GoodSize ==
  ASSUME Inv, HoldsRanges(AsList, Settled)
  PROVE  UIntMod \in Nat /\ Len(AsList) < UIntMod
<1>1. ranges \in Seq(Interval) /\ Len(ranges) \in Nat /\ Len(ranges) <= MaxRanges
  BY DEF Inv, TypeOK, SizeInv
<1>2. CASE pc \in {"insert", "search"}
  <2>1. wanted \in Nat /\ wanted < Len(ranges)
    BY <1>2, UIntModAssumption DEF Inv, TypeOK, SizeInv
  <2>2. Settled = SubSeq(ranges, 1, Len(ranges) - 1)
    BY <1>2 DEF Settled
  <2>3. Len(Settled) = Len(ranges) - 1
    <3>1. Len(ranges) >= 1
      BY <1>1, <2>1
    <3> QED
      BY <1>1, <2>2, <3>1, FrontShape
  <2> QED
    BY <1>1, <2>3, MaxRangesAssumption, UIntModAssumption DEF HoldsRanges
<1>3. CASE pc \notin {"insert", "search"}
  <2>1. Settled = ranges
    BY <1>3 DEF Settled
  <2> QED
    BY <1>1, <2>1, MaxRangesAssumption, UIntModAssumption DEF HoldsRanges
<1> QED
  BY <1>2, <1>3

\* The steps of overlap_add.
LEMMA PyAddKept ==
  ASSUME Inv, PyInv, AddStep \/ \E l, h \in Value : AddRefused(l, h) \/ AddStart(l, h)
  PROVE  PyInv'
<1>1. TypeOK /\ SizeInv /\ AddInv /\ ranges \in Seq(Interval) /\ Len(ranges) \in Nat
  BY DEF Inv, TypeOK
<1>2. ASSUME NEW l \in Value, NEW h \in Value, AddRefused(l, h)
      PROVE  PyInv'
  <2>1. pc = "idle" /\ UNCHANGED <<heap, head, wanted, pc, ranges, failures>>
    BY <1>2 DEF AddRefused, list
  <2>2. UNCHANGED <<AsList, Settled, EndsAtLow>>
    BY <2>1, SameList DEF AsList, Settled, EndsAtLow
  <2> QED
    BY <2>1, <2>2, PyInvSame
<1>3. ASSUME NEW l \in Value, NEW h \in Value, AddStart(l, h)
      PROVE  PyInv'
  <2> DEFINE r == [lo |-> l, hi |-> h]
  <2>1. /\ pc = "idle" /\ pc' = "insert" /\ before' = Along /\ ranges' = Append(ranges, r)
        /\ UNCHANGED <<wanted, failures>>
    BY <1>3 DEF AddStart
  <2>2. r \in Interval
    BY DEF Interval
  <2>3. /\ ranges' \in Seq(Interval) /\ Len(ranges') = Len(ranges) + 1
        /\ \A i \in 1..Len(ranges) : ranges'[i] = ranges[i]
    BY <1>1, <2>1, <2>2
  <2>4. SubSeq(ranges', 1, Len(ranges') - 1) = ranges
    <3> DEFINE q == SubSeq(ranges', 1, Len(ranges') - 1)
    <3>1. q \in Seq(Interval) /\ Len(q) = Len(ranges) /\ \A i \in 1..Len(q) : q[i] = ranges'[i]
      BY <1>1, <2>3
    <3> HIDE DEF q
    <3>2. \A i \in 1..Len(q) : q[i] = ranges[i]
      BY <2>3, <3>1
    <3>3. q = ranges
      BY <1>1, <3>1, <3>2
    <3> QED
      BY <3>3 DEF q
  <2>5. UNCHANGED <<AsList, Settled>>
    BY <2>1, <2>4 DEF AsList, Settled
  <2>6. EndsAtLow => EndsAtLow'
    BY <1>1, <2>3 DEF EndsAtLow
  <2> QED
    BY <2>1, <2>5, <2>6, PyInvSame
<1>4. ASSUME AddStep, ~AddReturn
      PROVE  PyInv'
  <2>1. /\ pc \in {"insert", "search"} /\ pc' \in {"insert", "search"}
        /\ UNCHANGED <<before, wanted, ranges>>
    BY <1>4 DEF AddStep, MallocFails, InsertFirst, SearchStart, SearchStep, LinkBefore, LinkLast
  <2>2. failures' = 0 => failures = 0
    <3>1. failures \in Nat
      BY <1>1, MaxFailuresAssumption DEF TypeOK
    <3> QED
      BY <1>4, <3>1 DEF AddStep, MallocFails, InsertFirst, SearchStart, SearchStep, LinkBefore, LinkLast
  <2>3. UNCHANGED <<AsList, Settled, EndsAtLow>>
    BY <2>1 DEF AsList, Settled, EndsAtLow
  <2> QED
    BY <2>1, <2>2, <2>3, PyInvSame
<1>5. ASSUME AddReturn
      PROVE  PyInv'
  <2> SUFFICES ASSUME failures' = 0, ~EndsAtLow'
               PROVE  HoldsRanges(AsList, Settled)' /\ \A x \in Value : Depth(Settled, x)' <= wanted'
    BY DEF PyInv
  <2> DEFINE n == Len(ranges)
             r == ranges[n]
             rs == SubSeq(ranges, 1, n - 1)
  <2>1. /\ pc = "insert" /\ pc' = "idle" /\ todo = <<>> /\ wanted' = (wanted + 1) % UIntMod
        /\ UNCHANGED <<heap, head, ranges, failures>>
    BY <1>5 DEF AddReturn, list
  <2>2. failures = 0 /\ ~EndsAtLow
    BY <2>1 DEF EndsAtLow
  <2>3. wanted \in Nat /\ n \in Nat /\ wanted < n /\ n \in DOMAIN ranges /\ n <= MaxRanges
    BY <1>1, <2>1, UIntModAssumption DEF TypeOK, SizeInv
  <2>4. r \in Interval /\ r.lo \in Value /\ r.hi \in Value /\ r = [lo |-> r.lo, hi |-> r.hi]
    <3>1. r \in Interval
      BY <1>1, <2>3
    <3> HIDE DEF r
    <3> QED
      BY <3>1 DEF Interval
  <2>5. /\ rs \in Seq(Interval) /\ Len(rs) = n - 1 /\ DOMAIN rs = 1..n - 1
        /\ \A i \in 1..n - 1 : rs[i] = ranges[i]
    <3>1. n >= 1
      BY <2>3
    <3>2. rs \in Seq(Interval) /\ Len(rs) = n - 1 /\ \A i \in 1..n - 1 : rs[i] = ranges[i]
      BY <1>1, <3>1, FrontShape
    <3> HIDE DEF rs
    <3> QED
      BY <3>2
  <2>6. ranges = Append(rs, r)
    <3> DEFINE q == Append(rs, r)
    <3> HIDE DEF rs, r
    <3>1. q \in Seq(Interval) /\ Len(q) = n /\ q[n] = r /\ \A i \in 1..n - 1 : q[i] = rs[i]
      BY <1>1, <2>4, <2>5
    <3> HIDE DEF q
    <3>2. \A i \in 1..n : q[i] = ranges[i]
      BY <1>1, <2>5, <3>1 DEF r
    <3>3. q = ranges
      BY <1>1, <3>1, <3>2
    <3> QED
      BY <3>3 DEF q
  <2>7. r.lo < r.hi /\ \A i \in DOMAIN rs : rs[i].lo # r.hi
    <3>1. r.lo <= r.hi
      BY <1>1, <2>3 DEF SizeInv
    <3>2. \A i \in 1..n : ranges[i].lo # r.hi
      BY <1>1, <2>2, <2>3 DEF EndsAtLow
    <3>3. r.lo # r.hi
      BY <2>3, <3>2
    <3>4. r.lo \in Int /\ r.hi \in Int
      BY <2>4, ValueAssumption
    <3> HIDE DEF rs, r
    <3>5. \A i \in DOMAIN rs : rs[i].lo # r.hi
      BY <1>1, <2>5, <3>2
    <3> QED
      BY <3>1, <3>3, <3>4, <3>5
  <2>8. HoldsRanges(before, rs) /\ \A x \in Value : Depth(rs, x) <= wanted
    BY <2>1, <2>2 DEF PyInv, AsList, Settled
  <2>9. Along = AddEdges(before, r.lo, r.hi, {"lo", "hi"})
    BY <1>1, <2>1, <2>2 DEF AddInv
  <2> HIDE DEF rs, r, n
  <2>10. HoldsRanges(Along, ranges)
    BY <2>4, <2>6, <2>7, <2>8, <2>9, AddKeeps
  <2>11. Along' = Along
    BY <2>1, SameList
  <2>12. AsList' = Along /\ Settled' = ranges
    BY <2>1, <2>11 DEF AsList, Settled
  <2>13. HoldsRanges(AsList, Settled)'
    BY <2>10, <2>12 DEF HoldsRanges, Sorted, CountsRanges, CountIn, IndicesIn, Balanced, LowsKnown, Depth
  <2>14. wanted' = wanted + 1
    BY <2>1, <2>3, MaxRangesAssumption, UIntModAssumption
  <2>15. ASSUME NEW x \in Value PROVE Depth(ranges, x) <= wanted + 1
    <3>1. Depth(rs, x) \in Nat /\ Depth(rs, x) <= wanted
      BY <2>5, <2>8, DepthType
    <3>2. Depth(ranges, x) = Depth(rs, x) + (IF r.lo <= x /\ x <= r.hi THEN 1 ELSE 0)
      BY <2>4, <2>5, <2>6, DepthAppend
    <3> QED
      BY <2>3, <3>1, <3>2
  <2>16. \A x \in Value : Depth(Settled, x)' = Depth(ranges, x)
    BY <2>12 DEF Depth
  <2> QED
    BY <2>13, <2>14, <2>15, <2>16
<1> QED
  BY <1>2, <1>3, <1>4, <1>5

\* The steps of overlap_find.
LEMMA PyFindKept ==
  ASSUME Inv, PyInv, FindStep \/ FindNothing \/ FindStart
  PROVE  PyInv'
<1>1. /\ pc \in {"idle", "low", "high", "test"} /\ pc' \in {"idle", "low", "high", "test"}
      /\ UNCHANGED <<heap, head, ranges, failures>>
  BY DEF FindStep, FindNothing, FindStart, LowStep, LowEnd, HighStep, HighEnd, Return, Retry, list
<1>2. Along' = Along /\ AsList = Along /\ AsList' = Along' /\ Settled = ranges /\ Settled' = ranges'
  BY <1>1, SameList DEF AsList, Settled
<1>3. UNCHANGED <<AsList, Settled, EndsAtLow>>
  BY <1>1, <1>2 DEF EndsAtLow
<1>4. ASSUME ~Retry PROVE PyInv'
  <2>1. wanted' = wanted
    BY <1>4 DEF FindStep, FindNothing, FindStart, LowStep, LowEnd, HighStep, HighEnd, Return
  <2> QED
    BY <1>1, <1>3, <2>1, PyInvSame
<1>5. ASSUME Retry PROVE PyInv'
  <2> SUFFICES ASSUME failures' = 0, ~EndsAtLow'
               PROVE  HoldsRanges(AsList, Settled)' /\ \A x \in Value : Depth(Settled, x)' <= wanted'
    BY DEF PyInv
  <2>1. HoldsRanges(AsList, Settled) /\ \A x \in Value : Depth(Settled, x) <= wanted
    BY <1>1, <1>3 DEF PyInv
  <2>2. pc = "test" /\ ~BothFound /\ wanted' = wanted - 1
    BY <1>5 DEF Retry
  <2>3. wanted \in Nat \ {0}
    BY <2>2, UIntModAssumption DEF Inv, TypeOK, FindInv
  <2>4. ~\E x \in Value : Depth(Settled, x) >= wanted
    <3>1. ReachedUp(Along, wanted) = {} \/ ReachedDown(Along, wanted) = {}
      BY <2>2, NotBothFound
    <3>2. UIntMod \in Nat /\ Len(AsList) < UIntMod
      BY <2>1, GoodSize
    <3> QED
      BY <1>2, <2>1, <2>3, <3>1, <3>2, ReachedIff
  <2>5. ASSUME NEW x \in Value PROVE Depth(Settled, x) <= wanted - 1
    <3>1. Depth(Settled, x) \in Nat
      BY <2>1, DepthType DEF HoldsRanges
    <3> QED
      BY <2>3, <2>4, <3>1
  <2>6. HoldsRanges(AsList, Settled)'
    BY <1>3, <2>1 DEF HoldsRanges, Sorted, CountsRanges, CountIn, IndicesIn, Balanced, LowsKnown, Depth
  <2>7. \A x \in Value : Depth(Settled, x)' = Depth(Settled, x)
    BY <1>3 DEF Depth
  <2> QED
    BY <2>2, <2>5, <2>6, <2>7
<1> QED
  BY <1>4, <1>5

\* The steps of overlap_del and overlap_new.
LEMMA PyDelKept ==
  ASSUME Inv, PyInv, DelStart \/ DelStep \/ DelEnd \/ New
  PROVE  PyInv'
<1>1. ASSUME DelStart \/ DelStep \/ DelEnd PROVE PyInv'
  BY <1>1 DEF DelStart, DelStep, DelEnd, PyInv
<1>2. ASSUME New PROVE PyInv'
  <2>1. pc = "gone" /\ pc' = "idle" /\ head' = NULL /\ wanted' = 0 /\ ranges' = <<>> /\ UNCHANGED heap
    BY <1>2 DEF New
  <2>2. DOMAIN heap' = {}
    BY <2>1 DEF Inv, HeapInv
  <2>3. (DOMAIN heap = {} /\ head = NULL => Along = <<>>)'
    BY EmptyList, PTL
  <2>4. AsList' = <<>> /\ Settled' = <<>>
    BY <2>1, <2>2, <2>3 DEF AsList, Settled
  <2>5. HoldsRanges(AsList, Settled)'
    BY <2>4, HoldsRangesEmpty DEF HoldsRanges, Sorted, CountsRanges, CountIn, IndicesIn, Balanced, LowsKnown, Depth
  <2>6. \A x \in Value : Depth(Settled, x)' = 0
    BY <2>4, HoldsRangesEmpty DEF Depth
  <2> QED
    BY <2>1, <2>5, <2>6 DEF PyInv
<1> QED
  BY <1>1, <1>2

\* PyInv holds in every state.
LEMMA PyInvariance == Spec => []PyInv
<1>1. Init => PyInv
  <2> SUFFICES ASSUME Init PROVE PyInv
    OBVIOUS
  <2>1. Along = <<>>
    BY EmptyList DEF Init
  <2>2. AsList = <<>> /\ Settled = <<>> /\ wanted = 0
    BY <2>1 DEF Init, AsList, Settled
  <2> QED
    BY <2>2, HoldsRangesEmpty DEF PyInv
<1>2. Inv /\ PyInv /\ [Next]_vars => PyInv'
  <2> SUFFICES ASSUME Inv, PyInv, [Next]_vars PROVE PyInv'
    OBVIOUS
  <2>1. CASE Next
    BY <2>1, PyAddKept, PyFindKept, PyDelKept DEF Next, Step
  <2>2. CASE UNCHANGED vars
    <3>1. UNCHANGED <<heap, head, wanted, pc, before, ranges, failures>>
      BY <2>2 DEF vars, list
    <3>2. UNCHANGED <<AsList, Settled, EndsAtLow>>
      BY <3>1, SameList DEF AsList, Settled, EndsAtLow
    <3> QED
      BY <3>1, <3>2, PyInvSame
  <2> QED
    BY <2>1, <2>2
<1> QED
  BY <1>1, <1>2, Invariance, PTL DEF Spec

\* overlap_find answers as the Python implementation does, the deepest overlap
\* and its outermost points, unless a range ends where one added before it, or
\* it, begins or an edge is missing (overlap_algo.c:92-128, C/README.md:3-4).
THEOREM AnswersAsPython == Spec => MatchesPython
<1> DEFINE Right == Answering /\ failures = 0 /\ ~EndsAtLow => answer' = Best(ranges)
<1>1. Inv /\ PyInv /\ [Next]_vars => [Right]_vars
  <2> SUFFICES ASSUME Inv, PyInv, Next, Answering, failures = 0, ~EndsAtLow
               PROVE  answer' = Best(ranges)
    OBVIOUS
  <2>1. pc = "test" /\ pc' = "idle"
    BY DEF Answering
  <2>2. AsList = Along /\ Settled = ranges
    BY <2>1 DEF AsList, Settled
  <2>3. /\ HoldsRanges(Along, ranges) /\ \A x \in Value : Depth(ranges, x) <= wanted
        /\ UIntMod \in Nat /\ Len(Along) < UIntMod
    BY <2>1, <2>2, GoodSize DEF PyInv
  <2>4. wanted \in Nat \ {0} /\ wanted <= Len(ranges) /\ ranges \in Seq(Interval)
    BY <2>1, UIntModAssumption DEF Inv, TypeOK, FindInv, SizeInv
  <2>5. CASE Return
    <3>1. /\ BothFound
          /\ answer' = [count |-> wanted, lo |-> heap[loEdge].value, hi |-> heap[hiEdge].value]
      BY <2>5 DEF Return
    <3>2. /\ ReachedUp(Along, wanted) # {}
          /\ FoundLo(Along, wanted) = heap[loEdge].value
          /\ FoundHi(Along, wanted) = heap[hiEdge].value
      BY <2>1, <3>1, ScansFound
    <3>3. \E x \in Value : Depth(ranges, x) >= wanted
      BY <2>3, <2>4, <3>2, ReachedIff
    <3>4. Best(ranges) = [count |-> wanted, lo |-> FoundLo(Along, wanted), hi |-> FoundHi(Along, wanted)]
      BY <2>3, <2>4, <3>3, FoundIsBest
    <3> QED
      BY <3>1, <3>2, <3>4
  <2>6. CASE Retry
    <3>1. ~BothFound /\ wanted' = wanted - 1 /\ wanted' = 0
      BY <2>1, <2>6 DEF Retry
    <3>2. wanted = 1
      BY <2>4, <3>1
    <3>3. ReachedUp(Along, wanted) = {} \/ ReachedDown(Along, wanted) = {}
      BY <2>1, <3>1, NotBothFound
    <3>4. 1 \in 1..Len(ranges) /\ ranges[1].lo <= ranges[1].hi
      BY <2>4, <3>2 DEF Inv, SizeInv
    <3>5. ranges[1].lo \in Value /\ Depth(ranges, ranges[1].lo) >= 1
      BY <2>4, <3>4, DepthOfOne
    <3>6. ReachedUp(Along, wanted) # {} /\ ReachedDown(Along, wanted) # {}
      BY <2>3, <2>4, <3>2, <3>5, ReachedIff
    <3> QED
      BY <3>3, <3>6
  <2>7. Return \/ Retry
    BY <2>1 DEF Next, Step, AddStep, FindStep, AddRefused, AddStart, MallocFails, InsertFirst,
                SearchStart, SearchStep, LinkBefore, LinkLast, AddReturn, FindNothing, FindStart,
                LowStep, LowEnd, HighStep, HighEnd, DelStart, DelStep, DelEnd, New
  <2> QED
    BY <2>5, <2>6, <2>7
<1> QED
  BY <1>1, Invariance, PyInvariance, PTL DEF Spec, MatchesPython

=============================================================================
