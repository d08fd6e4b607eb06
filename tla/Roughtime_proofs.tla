-------------------------- MODULE Roughtime_proofs --------------------------
(***************************************************************************)
(* What the clients of the roughtime protocol may conclude from a reply    *)
(* they accept, for any number of servers, queries, replies, delegations,  *)
(* and trees of any height.                                                *)
(*                                                                         *)
(* A reply is bound to the query by the tree only, of which the client     *)
(* sees one path: the first part is what this path shows of the tree.      *)
(***************************************************************************)
EXTENDS Roughtime, SequenceTheorems, WellFoundedInduction, TLAPS

-----------------------------------------------------------------------------
(* Powers of two *)

\* The first element of a set of natural numbers.
LEMMA FirstOf ==
  ASSUME NEW S \in SUBSET Nat, S # {}
  PROVE  \E x \in S : \A y \in S : x <= y
<1>1. PICK x \in S : \A y \in S : ~(<<y, x>> \in OpToRel(<, Nat))
  BY NatLessThanWellFounded, WFMin, Zenon
<1>2. \A y \in S : x <= y
  <2> SUFFICES ASSUME NEW y \in S PROVE x <= y
    OBVIOUS
  <2>1. ~(y < x)
    BY <1>1 DEF OpToRel
  <2> QED
    BY <2>1
<1> QED
  BY <1>2

\* g holds the powers of two up to 2^n.
Doubles(g, n) == g = [k \in 0..n |-> IF k = 0 THEN 1 ELSE 2 * g[k - 1]]

\* There is one such function for every n.
LEMMA DoublesExist ==
  ASSUME NEW n \in Nat
  PROVE  \E g : Doubles(g, n)
<1> DEFINE S == {m \in Nat : ~ \E g : Doubles(g, m)}
<1> SUFFICES ASSUME S # {} PROVE FALSE
  OBVIOUS
<1>1. PICK m \in S : \A k \in S : m <= k
  <2>1. S \in SUBSET Nat
    OBVIOUS
  <2> HIDE DEF S
  <2> QED BY <2>1, FirstOf
<1>2. CASE m = 0
  <2>1. Doubles([k \in 0..0 |-> 1], 0)
    BY DEF Doubles
  <2> QED BY <1>2, <2>1
<1>3. CASE m # 0
  <2>1. m - 1 \in Nat /\ m - 1 \notin S
    BY <1>1, <1>3
  <2>2. PICK g : Doubles(g, m - 1)
    BY <2>1
  <2> DEFINE h == [k \in 0..m |-> IF k = m THEN 2 * g[m - 1] ELSE g[k]]
  <2>3. \A k \in 0..m : h[k] = IF k = 0 THEN 1 ELSE 2 * h[k - 1]
    <3> SUFFICES ASSUME NEW k \in 0..m PROVE h[k] = IF k = 0 THEN 1 ELSE 2 * h[k - 1]
      OBVIOUS
    <3>1. CASE k = m
      BY <1>3, <2>1, <3>1
    <3>2. CASE k # m
      <4>1. k \in 0..m - 1
        BY <3>2
      <4>2. g[k] = IF k = 0 THEN 1 ELSE 2 * g[k - 1]
        BY <2>2, <4>1 DEF Doubles
      <4>3. h[k] = g[k] /\ (k # 0 => h[k - 1] = g[k - 1])
        BY <3>2, <4>1
      <4> QED BY <4>2, <4>3
    <3> QED BY <3>1, <3>2
  <2>4. Doubles(h, m)
    BY <2>3 DEF Doubles
  <2> QED BY <2>4
<1> QED BY <1>2, <1>3

\* Pow2 is what its definition says.
LEMMA Pow2Is ==
  /\ Pow2[0] = 1
  /\ \A k \in Nat : Pow2[k + 1] = 2 * Pow2[k]
  /\ \A k \in Nat : Pow2[k] \in Nat \ {0}
<1> DEFINE G(n) == CHOOSE g : Doubles(g, n)
           f == [n \in Nat |-> G(n)[n]]
<1>1. \A n \in Nat : Doubles(G(n), n)
  BY DoublesExist
<1>2. \A n \in Nat : \A k \in 0..n : G(n)[k] = IF k = 0 THEN 1 ELSE 2 * G(n)[k - 1]
  <2> SUFFICES ASSUME NEW n \in Nat, NEW k \in 0..n
               PROVE  G(n)[k] = IF k = 0 THEN 1 ELSE 2 * G(n)[k - 1]
    OBVIOUS
  <2>1. Doubles(G(n), n)
    BY <1>1
  <2> HIDE DEF G
  <2> QED BY <2>1 DEF Doubles
<1> HIDE DEF G
<1>3. \A n \in Nat : \A k \in 0..n : G(n + 1)[k] = G(n)[k]
  <2> SUFFICES ASSUME NEW n \in Nat, NEW j \in 0..n, G(n + 1)[j] # G(n)[j] PROVE FALSE
    OBVIOUS
  <2> DEFINE S == {k \in 0..n : G(n + 1)[k] # G(n)[k]}
  <2>1. PICK k \in S : \A i \in S : k <= i
    <3>1. S \in SUBSET Nat /\ j \in S
      OBVIOUS
    <3> HIDE DEF S
    <3> QED BY <3>1, FirstOf
  <2>2. k # 0
    BY <1>2, <2>1
  <2>3. k - 1 \in 0..n /\ k - 1 \notin S
    BY <2>1, <2>2
  <2>4. G(n + 1)[k - 1] = G(n)[k - 1]
    BY <2>3
  <2>5. G(n + 1)[k] = 2 * G(n + 1)[k - 1] /\ G(n)[k] = 2 * G(n)[k - 1]
    BY <1>2, <2>1, <2>2
  <2> QED BY <2>1, <2>4, <2>5
<1>4. \A n \in Nat : f[n] = IF n = 0 THEN 1 ELSE 2 * f[n - 1]
  <2> SUFFICES ASSUME NEW n \in Nat PROVE G(n)[n] = IF n = 0 THEN 1 ELSE 2 * G(n - 1)[n - 1]
    BY Z3
  <2>1. n # 0 => G(n)[n - 1] = G(n - 1)[n - 1]
    <3> SUFFICES ASSUME n # 0 PROVE G(n)[n - 1] = G(n - 1)[n - 1]
      OBVIOUS
    <3>1. n - 1 \in Nat /\ (n - 1) + 1 = n /\ n - 1 \in 0..n - 1
      OBVIOUS
    <3> QED BY <1>3, <3>1
  <2>2. n \in 0..n
    OBVIOUS
  <2> QED BY <1>2, <2>1, <2>2
<1>5. Pow2 = [k \in Nat |-> IF k = 0 THEN 1 ELSE 2 * Pow2[k - 1]]
  <2>1. f = [k \in Nat |-> IF k = 0 THEN 1 ELSE 2 * f[k - 1]]
    BY <1>4
  <2> HIDE DEF f
  <2> QED BY <2>1 DEF Pow2
<1>6. Pow2[0] = 1 /\ \A k \in Nat : Pow2[k + 1] = 2 * Pow2[k]
  <2> DEFINE p == Pow2
  <2>1. p = [k \in Nat |-> IF k = 0 THEN 1 ELSE 2 * p[k - 1]]
    BY <1>5
  <2> HIDE DEF p
  <2>2. p[0] = 1 /\ \A k \in Nat : p[k + 1] = 2 * p[k]
    BY <2>1
  <2> QED BY <2>2 DEF p
<1>7. \A k \in Nat : Pow2[k] \in Nat \ {0}
  <2> DEFINE S == {k \in Nat : Pow2[k] \notin Nat \ {0}}
  <2> SUFFICES ASSUME S # {} PROVE FALSE
    OBVIOUS
  <2>1. PICK k \in S : \A i \in S : k <= i
    <3>1. S \in SUBSET Nat
      OBVIOUS
    <3> HIDE DEF S
    <3> QED BY <3>1, FirstOf
  <2>2. k # 0
    BY <1>6, <2>1
  <2>3. k - 1 \in Nat /\ k - 1 \notin S /\ (k - 1) + 1 = k
    BY <2>1, <2>2
  <2>4. Pow2[k - 1] \in Nat \ {0} /\ Pow2[k] = 2 * Pow2[k - 1]
    BY <1>6, <2>3
  <2> QED BY <2>1, <2>4
<1> QED BY <1>6, <1>7

\* The order of a tree is that of its leaves, and there is room for them.
LEMMA OrderIs ==
  ASSUME NEW n \in Nat
  PROVE  Order(n) \in Nat /\ n <= Clp2(n)
<1>1. n <= Pow2[n]
  <2> DEFINE S == {k \in Nat : ~(k <= Pow2[k])}
  <2> SUFFICES ASSUME S # {} PROVE FALSE
    OBVIOUS
  <2>1. PICK k \in S : \A i \in S : k <= i
    <3>1. S \in SUBSET Nat
      OBVIOUS
    <3> HIDE DEF S
    <3> QED BY <3>1, FirstOf
  <2>2. k # 0
    BY <2>1, Pow2Is
  <2>3. k - 1 \in Nat /\ k - 1 \notin S /\ (k - 1) + 1 = k
    BY <2>1, <2>2
  <2>4. k - 1 <= Pow2[k - 1] /\ Pow2[k] = 2 * Pow2[k - 1] /\ Pow2[k - 1] \in Nat \ {0}
    BY <2>3, Pow2Is
  <2> QED BY <2>1, <2>4
<1> DEFINE R == {k \in 0..n : Pow2[k] >= n}
<1>2. R \in SUBSET Nat /\ n \in R
  BY <1>1
<1>3. \A k \in R : k \in Nat /\ n <= Pow2[k]
  BY Pow2Is
<1>4. Min(R) \in R
  <2> HIDE DEF R
  <2>1. \E x \in R : \A y \in R : x <= y
    BY <1>2, FirstOf
  <2> QED BY <2>1 DEF Min
<1> QED
  BY <1>3, <1>4 DEF Order, Clp2

LEMMA QuotientHalved ==
  ASSUME NEW i \in Nat, NEW p \in Nat \ {0}
  PROVE  (i \div p) \div 2 = i \div (2 * p)
OBVIOUS

-----------------------------------------------------------------------------
(* The tree and the path *)

\* The levels of the tree up to n.
Levels(g, nonces, n) ==
  g = [k \in 0..n |->
         IF k = 0 THEN Leaves(nonces)
         ELSE [i \in 0..(Pow2[Order(Len(nonces)) - k] - 1) |->
                 HashedNode(g[k - 1][2 * i], g[k - 1][2 * i + 1])]]

LEMMA LevelsExist ==
  ASSUME NEW nonces, NEW n \in Nat
  PROVE  \E g : Levels(g, nonces, n)
<1> DEFINE S == {m \in Nat : ~ \E g : Levels(g, nonces, m)}
           Up(g, k) == [i \in 0..(Pow2[Order(Len(nonces)) - k] - 1) |->
                          HashedNode(g[k - 1][2 * i], g[k - 1][2 * i + 1])]
<1> SUFFICES ASSUME S # {} PROVE FALSE
  OBVIOUS
<1>1. PICK m \in S : \A k \in S : m <= k
  <2>1. S \in SUBSET Nat
    OBVIOUS
  <2> HIDE DEF S
  <2> QED BY <2>1, FirstOf
<1>2. CASE m = 0
  <2>1. Levels([k \in 0..0 |-> Leaves(nonces)], nonces, 0)
    BY DEF Levels
  <2> QED BY <1>2, <2>1
<1>3. CASE m # 0
  <2>1. m - 1 \in Nat /\ m - 1 \notin S
    BY <1>1, <1>3
  <2>2. PICK g : Levels(g, nonces, m - 1)
    BY <2>1
  <2> DEFINE h == [k \in 0..m |-> IF k = m THEN Up(g, m) ELSE g[k]]
  <2>3. \A k \in 0..m : h[k] = IF k = 0 THEN Leaves(nonces) ELSE Up(h, k)
    <3> SUFFICES ASSUME NEW k \in 0..m
                 PROVE  h[k] = IF k = 0 THEN Leaves(nonces) ELSE Up(h, k)
      OBVIOUS
    <3>0. k # 0 => h[k - 1] = g[k - 1]
      BY <1>1
    <3>1. k # 0 => Up(h, k) = Up(g, k)
      <4> HIDE DEF h
      <4> QED BY <3>0
    <3>2. CASE k = m
      BY <1>3, <3>1, <3>2
    <3>3. CASE k # m
      <4>1. k \in 0..m - 1
        BY <3>3
      <4>2. g[k] = IF k = 0 THEN Leaves(nonces) ELSE Up(g, k)
        BY <2>2, <4>1 DEF Levels
      <4>3. h[k] = g[k]
        BY <3>3
      <4> HIDE DEF h, Up
      <4> QED BY <3>1, <4>2, <4>3
    <3> QED BY <3>2, <3>3
  <2>4. Levels(h, nonces, m)
    <3> HIDE DEF Up
    <3>1. h = [k \in 0..m |-> h[k]]
      OBVIOUS
    <3> HIDE DEF h
    <3>2. h = [k \in 0..m |-> IF k = 0 THEN Leaves(nonces) ELSE Up(h, k)]
      BY <2>3, <3>1
    <3> QED BY <3>2 DEF Levels, Up
  <2> QED BY <2>4
<1> QED BY <1>2, <1>3

\* Each level has a node for every two nodes of the level below.
LEMMA TreeIs ==
  ASSUME NEW nonces, Len(nonces) \in Nat
  PROVE  LET tree  == ConstructMerkle(nonces)
             order == Order(Len(nonces))
         IN  /\ tree[0] = Leaves(nonces)
             /\ \A k \in 1..order : \A i \in 0..(Pow2[order - k] - 1) :
                  tree[k][i] = HashedNode(tree[k - 1][2 * i], tree[k - 1][2 * i + 1])
<1> DEFINE tree  == ConstructMerkle(nonces)
           order == Order(Len(nonces))
<1>1. order \in Nat
  BY OrderIs
<1>2. Levels(tree, nonces, order)
  <2>1. \E g : Levels(g, nonces, order)
    <3> HIDE DEF order
    <3> QED BY <1>1, LevelsExist
  <2>2. tree = CHOOSE g : Levels(g, nonces, order)
    BY DEF ConstructMerkle, Levels
  <2> HIDE DEF tree, order
  <2> QED BY <2>1, <2>2
<1> HIDE DEF tree
<1>3. tree[0] = Leaves(nonces)
  BY <1>1, <1>2 DEF Levels
<1>4. \A k \in 1..order : \A i \in 0..(Pow2[order - k] - 1) :
        tree[k][i] = HashedNode(tree[k - 1][2 * i], tree[k - 1][2 * i + 1])
  <2> SUFFICES ASSUME NEW k \in 1..order
               PROVE  tree[k] = [i \in 0..(Pow2[order - k] - 1) |->
                                   HashedNode(tree[k - 1][2 * i], tree[k - 1][2 * i + 1])]
    OBVIOUS
  <2> HIDE DEF order
  <2>1. k \in 0..order /\ k # 0
    BY <1>1
  <2> QED BY <1>2, <2>1 DEF Levels, order
<1> QED
  BY <1>3, <1>4 DEF tree

\* What a client has hashed after n nodes of the path.
Climbs(g, nonce, indx, path, n) ==
  g = [k \in 0..n |->
         IF k = 0 THEN HashedLeaf(nonce)
         ELSE IF (indx \div Pow2[k - 1]) % 2 = 0 THEN HashedNode(g[k - 1], path[k])
                                                ELSE HashedNode(path[k], g[k - 1])]

LEMMA ClimbsExist ==
  ASSUME NEW nonce, NEW indx, NEW path, NEW n \in Nat
  PROVE  \E g : Climbs(g, nonce, indx, path, n)
<1> DEFINE S == {m \in Nat : ~ \E g : Climbs(g, nonce, indx, path, m)}
           Up(hash, k) == IF (indx \div Pow2[k - 1]) % 2 = 0 THEN HashedNode(hash, path[k])
                                                            ELSE HashedNode(path[k], hash)
<1> SUFFICES ASSUME S # {} PROVE FALSE
  OBVIOUS
<1>1. PICK m \in S : \A k \in S : m <= k
  <2>1. S \in SUBSET Nat
    OBVIOUS
  <2> HIDE DEF S
  <2> QED BY <2>1, FirstOf
<1>2. CASE m = 0
  <2>1. Climbs([k \in 0..0 |-> HashedLeaf(nonce)], nonce, indx, path, 0)
    BY DEF Climbs
  <2> QED BY <1>2, <2>1
<1>3. CASE m # 0
  <2>1. m - 1 \in Nat /\ m - 1 \notin S
    BY <1>1, <1>3
  <2>2. PICK g : Climbs(g, nonce, indx, path, m - 1)
    BY <2>1
  <2>3. g = [k \in 0..m - 1 |-> IF k = 0 THEN HashedLeaf(nonce) ELSE Up(g[k - 1], k)]
    BY <2>2 DEF Climbs
  <2> HIDE DEF Up
  <2> DEFINE h == [k \in 0..m |-> IF k = m THEN Up(g[m - 1], m) ELSE g[k]]
  <2>4. \A k \in 0..m : h[k] = IF k = 0 THEN HashedLeaf(nonce) ELSE Up(h[k - 1], k)
    <3> SUFFICES ASSUME NEW k \in 0..m
                 PROVE  h[k] = IF k = 0 THEN HashedLeaf(nonce) ELSE Up(h[k - 1], k)
      OBVIOUS
    <3>0. k # 0 => h[k - 1] = g[k - 1]
      BY <1>1
    <3>1. CASE k = m
      BY <1>3, <3>0, <3>1
    <3>2. CASE k # m
      <4>1. k \in 0..m - 1
        BY <3>2
      <4>2. g[k] = IF k = 0 THEN HashedLeaf(nonce) ELSE Up(g[k - 1], k)
        BY <2>3, <4>1
      <4>3. h[k] = g[k]
        BY <3>2
      <4> HIDE DEF h
      <4> QED BY <3>0, <4>2, <4>3
    <3> QED BY <3>1, <3>2
  <2>5. Climbs(h, nonce, indx, path, m)
    <3>1. h = [k \in 0..m |-> h[k]]
      OBVIOUS
    <3> HIDE DEF h
    <3>2. h = [k \in 0..m |-> IF k = 0 THEN HashedLeaf(nonce) ELSE Up(h[k - 1], k)]
      BY <2>4, <3>1
    <3> QED BY <3>2 DEF Climbs, Up
  <2> QED BY <2>5
<1> QED BY <1>2, <1>3

\* A client climbs from the leaf of its nonce, one node of the path at a time.
LEMMA ClimbIs ==
  ASSUME NEW nonce, NEW indx, NEW path, Len(path) \in Nat
  PROVE  \E hash :
           /\ Climb(nonce, indx, path) = hash[Len(path)]
           /\ hash[0] = HashedLeaf(nonce)
           /\ \A k \in 1..Len(path) :
                hash[k] = IF (indx \div Pow2[k - 1]) % 2 = 0 THEN HashedNode(hash[k - 1], path[k])
                                                            ELSE HashedNode(path[k], hash[k - 1])
<1> DEFINE n    == Len(path)
           hash == CHOOSE g : Climbs(g, nonce, indx, path, n)
<1>1. Climbs(hash, nonce, indx, path, n)
  <2> HIDE DEF n
  <2>1. n \in Nat
    BY DEF n
  <2> QED BY <2>1, ClimbsExist
<1>2. Climb(nonce, indx, path) = hash[n]
  BY DEF Climb, Climbs
<1> HIDE DEF hash
<1>3. /\ hash[0] = HashedLeaf(nonce)
      /\ \A k \in 1..n :
           hash[k] = IF (indx \div Pow2[k - 1]) % 2 = 0 THEN HashedNode(hash[k - 1], path[k])
                                                       ELSE HashedNode(path[k], hash[k - 1])
  BY <1>1 DEF Climbs
<1> QED
  BY <1>2, <1>3

\* A path that leads from a nonce to the root shows that the nonce is one of those
\* in the tree, whatever the index: the levels above the leaves hash nodes, so
\* that a path that is too long or too short leads nowhere.
LEMMA NonceInTree ==
  ASSUME NEW nonce, NEW indx \in Int, NEW path, Len(path) \in Nat,
         NEW nonces, Len(nonces) \in Nat,
         Climb(nonce, indx, path) = Root(nonces)
  PROVE  \E k \in 1..Len(nonces) : nonces[k] = nonce
<1> DEFINE n == Len(path)
           m == Order(Len(nonces))
           tree == ConstructMerkle(nonces)
<1>1. n \in Nat /\ m \in Nat
  BY OrderIs
<1>2. PICK hash :
        /\ Climb(nonce, indx, path) = hash[n]
        /\ hash[0] = HashedLeaf(nonce)
        /\ \A k \in 1..n :
             hash[k] = IF (indx \div Pow2[k - 1]) % 2 = 0 THEN HashedNode(hash[k - 1], path[k])
                                                         ELSE HashedNode(path[k], hash[k - 1])
  BY ClimbIs
<1>3. /\ tree[0] = Leaves(nonces)
      /\ \A k \in 1..m : \A i \in 0..(Pow2[m - k] - 1) :
           tree[k][i] = HashedNode(tree[k - 1][2 * i], tree[k - 1][2 * i + 1])
  BY TreeIs
<1>4. Root(nonces) = tree[m][0]
  BY DEF Root
<1> HIDE DEF tree, m, n
<1> DEFINE Meets(j) == \E i \in 0..(Pow2[j] - 1) : hash[n - j] = tree[m - j][i]
           S == {j \in Nat : j <= n /\ j <= m /\ ~Meets(j)}
<1>5. S = {}
  <2> SUFFICES ASSUME S # {} PROVE FALSE
    OBVIOUS
  <2>1. PICK j \in S : \A i \in S : j <= i
    <3>1. S \in SUBSET Nat
      OBVIOUS
    <3> HIDE DEF S
    <3> QED BY <3>1, FirstOf
  <2>2. Meets(0)
    <3>1. 0 \in 0..(Pow2[0] - 1)
      BY Pow2Is
    <3>2. n - 0 = n /\ m - 0 = m
      BY <1>1
    <3> QED BY <1>2, <1>4, <3>1, <3>2
  <2>3. j # 0
    BY <2>1, <2>2
  <2>4. j - 1 \in Nat /\ j - 1 \notin S /\ j <= n /\ j <= m
    BY <2>1, <2>3
  <2>5. PICK i \in 0..(Pow2[j - 1] - 1) : hash[n - (j - 1)] = tree[m - (j - 1)][i]
    BY <1>1, <2>4
  <2>6. i \in Nat /\ Pow2[j] = 2 * Pow2[j - 1] /\ Pow2[j - 1] \in Nat
    <3>1. (j - 1) + 1 = j
      BY <2>4
    <3>2. Pow2[j] = 2 * Pow2[j - 1] /\ Pow2[j - 1] \in Nat
      BY <2>4, <3>1, Pow2Is
    <3> QED BY <2>5, <3>2
  <2> DEFINE k == n - (j - 1)
             l == m - (j - 1)
  <2>7. k \in 1..n /\ l \in 1..m /\ m - l = j - 1 /\ k - 1 = n - j /\ l - 1 = m - j
    BY <1>1, <2>4
  <2>8. tree[l][i] = HashedNode(tree[l - 1][2 * i], tree[l - 1][2 * i + 1])
    BY <1>3, <2>5, <2>7
  <2>9. \E other : \/ hash[k] = HashedNode(hash[k - 1], other)
                   \/ hash[k] = HashedNode(other, hash[k - 1])
    BY <1>2, <2>7
  <2> HIDE DEF k, l
  <2>10. hash[k] = tree[l][i]
    BY <2>5 DEF k, l
  <2>11. hash[k - 1] = tree[l - 1][2 * i] \/ hash[k - 1] = tree[l - 1][2 * i + 1]
    BY <2>8, <2>9, <2>10 DEF HashedNode
  <2>12. 2 * i \in 0..(Pow2[j] - 1) /\ 2 * i + 1 \in 0..(Pow2[j] - 1)
    BY <2>5, <2>6
  <2>13. Meets(j)
    BY <2>7, <2>11, <2>12
  <2> QED BY <2>1, <2>13
<1>6. \A j \in Nat : j <= n /\ j <= m => Meets(j)
  BY <1>5
<1> HIDE DEF S
<1>7. ~(n < m)
  <2> SUFFICES ASSUME n < m PROVE FALSE
    OBVIOUS
  <2>1. PICK i \in 0..(Pow2[n] - 1) : hash[n - n] = tree[m - n][i]
    BY <1>1, <1>6
  <2>2. n - n = 0 /\ m - n \in 1..m /\ m - (m - n) = n
    BY <1>1
  <2>3. tree[m - n][i] = HashedNode(tree[m - n - 1][2 * i], tree[m - n - 1][2 * i + 1])
    BY <1>3, <2>1, <2>2
  <2>4. HashedLeaf(nonce) = HashedNode(tree[m - n - 1][2 * i], tree[m - n - 1][2 * i + 1])
    BY <1>2, <2>1, <2>2, <2>3
  <2> QED BY <2>4 DEF HashedLeaf, HashedNode
<1>8. \A i \in 0..(Pow2[m] - 1) :
        tree[0][i] = IF i < Len(nonces) THEN HashedLeaf(nonces[i + 1]) ELSE RandomNode(i)
  BY <1>3 DEF Leaves, Clp2, m
<1>9. ~(m < n)
  <2> SUFFICES ASSUME m < n PROVE FALSE
    OBVIOUS
  <2>1. PICK i \in 0..(Pow2[m] - 1) : hash[n - m] = tree[m - m][i]
    BY <1>1, <1>6
  <2>2. m - m = 0 /\ n - m \in 1..n
    BY <1>1
  <2>3. \E a, b : hash[n - m] = HashedNode(a, b)
    BY <1>2, <2>2
  <2>4. PICK a, b : HashedNode(a, b) = IF i < Len(nonces) THEN HashedLeaf(nonces[i + 1])
                                                         ELSE RandomNode(i)
    BY <1>8, <2>1, <2>2, <2>3
  <2> QED BY <2>4 DEF HashedLeaf, HashedNode, RandomNode
<1>10. PICK i \in 0..(Pow2[m] - 1) : hash[n - m] = tree[m - m][i]
  <2>1. m <= n /\ m <= m
    BY <1>1, <1>7
  <2> QED BY <1>1, <1>6, <2>1
<1>11. n - m = 0 /\ m - m = 0
  BY <1>1, <1>7, <1>9
<1>12. HashedLeaf(nonce) = IF i < Len(nonces) THEN HashedLeaf(nonces[i + 1]) ELSE RandomNode(i)
  BY <1>2, <1>8, <1>10, <1>11
<1>13. i < Len(nonces) /\ nonces[i + 1] = nonce
  BY <1>12 DEF HashedLeaf, RandomNode
<1> QED
  BY <1>10, <1>13

\* The path that the server cuts out leads back to the root, and uses up the index.
LEMMA PathLeadsToRoot ==
  ASSUME NEW nonces, Len(nonces) \in Nat, NEW index \in 0..(Len(nonces) - 1)
  PROVE  LET path  == ConstructMerklePath(nonces, index)
             order == Order(Len(nonces))
         IN  /\ Climb(nonces[index + 1], index, path) = Root(nonces)
             /\ index \div Pow2[order] = 0
             /\ order \in Nat /\ Len(path) = order
             /\ \E T : path \in Seq(T)
<1> DEFINE m == Order(Len(nonces))
           tree == ConstructMerkle(nonces)
           path == ConstructMerklePath(nonces, index)
           nonce == nonces[index + 1]
<1>1. m \in Nat /\ index \in Nat /\ index <= Pow2[m] - 1
  <2>1. m \in Nat /\ Len(nonces) <= Pow2[m] /\ Pow2[m] \in Nat
    BY OrderIs, Pow2Is DEF Clp2
  <2> QED BY <2>1
<1>2. path = [k \in 1..m |-> tree[k - 1][Sibling(index \div Pow2[k - 1])]]
  BY DEF ConstructMerklePath
<1>3. /\ tree[0] = Leaves(nonces)
      /\ \A k \in 1..m : \A i \in 0..(Pow2[m - k] - 1) :
           tree[k][i] = HashedNode(tree[k - 1][2 * i], tree[k - 1][2 * i + 1])
  BY TreeIs
<1>4. Root(nonces) = tree[m][0]
  BY DEF Root
<1>5. \A i \in 0..(Pow2[m] - 1) :
        tree[0][i] = IF i < Len(nonces) THEN HashedLeaf(nonces[i + 1]) ELSE RandomNode(i)
  BY <1>3 DEF Leaves, Clp2
<1> HIDE DEF m, tree, path
<1>6. Len(path) = m /\ \E T : path \in Seq(T)
  <2> DEFINE T == {path[k] : k \in 1..m}
  <2>1. path \in [1..m -> T]
    BY <1>2
  <2> HIDE DEF T
  <2>2. path \in Seq(T)
    BY <1>1, <2>1
  <2>3. DOMAIN path = 1..m
    BY <1>2
  <2>4. Len(path) = m
    BY <1>1, <2>2, <2>3
  <2> QED BY <2>2, <2>4
<1>7. PICK hash :
        /\ Climb(nonce, index, path) = hash[m]
        /\ hash[0] = HashedLeaf(nonce)
        /\ \A k \in 1..m :
             hash[k] = IF (index \div Pow2[k - 1]) % 2 = 0 THEN HashedNode(hash[k - 1], path[k])
                                                          ELSE HashedNode(path[k], hash[k - 1])
  <2>1. Len(path) \in Nat
    BY <1>1, <1>6
  <2> HIDE DEF nonce
  <2>2. \E hash :
          /\ Climb(nonce, index, path) = hash[Len(path)]
          /\ hash[0] = HashedLeaf(nonce)
          /\ \A k \in 1..Len(path) :
               hash[k] = IF (index \div Pow2[k - 1]) % 2 = 0
                           THEN HashedNode(hash[k - 1], path[k])
                           ELSE HashedNode(path[k], hash[k - 1])
    BY <2>1, ClimbIs
  <2> QED BY <1>6, <2>2
<1> DEFINE At(k) == index \div Pow2[k]
           Meets(k) == At(k) \in 0..(Pow2[m - k] - 1) /\ hash[k] = tree[k][At(k)]
           S == {k \in Nat : k <= m /\ ~Meets(k)}
<1>8. S = {}
  <2> SUFFICES ASSUME S # {} PROVE FALSE
    OBVIOUS
  <2>1. PICK k \in S : \A i \in S : k <= i
    <3>1. S \in SUBSET Nat
      OBVIOUS
    <3> HIDE DEF S
    <3> QED BY <3>1, FirstOf
  <2>2. Meets(0)
    <3>1. At(0) = index
      BY <1>1, Pow2Is
    <3>2. m - 0 = m /\ index \in 0..(Pow2[m] - 1) /\ index < Len(nonces)
      BY <1>1, Pow2Is
    <3>3. tree[0][index] = HashedLeaf(nonce)
      BY <1>5, <3>2
    <3> QED BY <1>7, <3>1, <3>2, <3>3
  <2>3. k # 0
    BY <2>1, <2>2
  <2>4. k - 1 \in Nat /\ k - 1 \notin S /\ k \in 1..m
    BY <1>1, <2>1, <2>3
  <2> DEFINE q == At(k - 1)
             p == Pow2[k - 1]
             d == Pow2[m - k]
  <2>5. q \in 0..(Pow2[m - (k - 1)] - 1) /\ hash[k - 1] = tree[k - 1][q]
    BY <1>1, <2>4
  <2>6. Pow2[k] = 2 * p /\ p \in Nat \ {0} /\ Pow2[m - (k - 1)] = 2 * d /\ d \in Nat \ {0}
    <3>1. (k - 1) + 1 = k /\ (m - k) + 1 = m - (k - 1) /\ m - k \in Nat
      BY <1>1, <2>4
    <3> QED BY <2>4, <3>1, Pow2Is
  <2>7. q \in Nat /\ q < 2 * d
    BY <2>5, <2>6
  <2>8. At(k) = q \div 2
    <3>1. At(k) = index \div (2 * p)
      BY <2>6
    <3>2. q = index \div p
      OBVIOUS
    <3> HIDE DEF p, q, At
    <3>3. (index \div p) \div 2 = index \div (2 * p)
      BY <1>1, <2>6, QuotientHalved
    <3> QED BY <3>1, <3>2, <3>3
  <2>9. path[k] = tree[k - 1][Sibling(q)]
    BY <1>2, <2>4
  <2>10. hash[k] = IF q % 2 = 0 THEN HashedNode(hash[k - 1], path[k])
                               ELSE HashedNode(path[k], hash[k - 1])
    BY <1>7, <2>4
  <2> DEFINE h == q \div 2
  <2> HIDE DEF q, d, At, p
  <2>11. h \in 0..(d - 1)
    BY <2>6, <2>7
  <2>12. tree[k][h] = HashedNode(tree[k - 1][2 * h], tree[k - 1][2 * h + 1])
    BY <1>3, <2>4, <2>11 DEF d
  <2>13. CASE q % 2 = 0
    <3>1. q = 2 * h /\ Sibling(q) = 2 * h + 1
      BY <2>7, <2>13 DEF Sibling
    <3> QED BY <2>1, <2>5, <2>8, <2>9, <2>10, <2>11, <2>12, <2>13, <3>1 DEF d
  <2>14. CASE q % 2 # 0
    <3>1. q = 2 * h + 1 /\ Sibling(q) = 2 * h
      BY <2>7, <2>14 DEF Sibling
    <3> QED BY <2>1, <2>5, <2>8, <2>9, <2>10, <2>11, <2>12, <2>14, <3>1 DEF d
  <2> QED BY <2>13, <2>14
<1>9. Meets(m)
  BY <1>1, <1>8
<1>10. At(m) = 0
  <2>1. m - m = 0 /\ Pow2[0] = 1
    BY <1>1, Pow2Is
  <2> HIDE DEF At
  <2> QED BY <1>9, <2>1
<1>11. Climb(nonce, index, path) = Root(nonces)
  BY <1>4, <1>7, <1>9, <1>10
<1> QED
  BY <1>1, <1>6, <1>10, <1>11 DEF m, path

-----------------------------------------------------------------------------
(* Times *)

\* A time is stored as its day and the time of day, in the order of the times, and
\* is read as it was stored.
LEMMA StoredTime ==
  ASSUME NEW t \in Nat
  PROVE  ToTime(Timestamp(t)) = t
<1> DEFINE q == t \div Day
           r == t % Day
<1>1. q \in Nat /\ r \in 0..(Day - 1) /\ t = q * Day + r
  BY FormatAssumption
<1> HIDE DEF q, r
<1>2. DayWord \in Nat \ {0} /\ r < DayWord /\ Day \in Nat
  BY <1>1, FormatAssumption
<1>3. (q * DayWord + r) \div DayWord = q /\ (q * DayWord + r) % DayWord = r
  BY <1>1, <1>2
<1> QED
  BY <1>1, <1>3 DEF ToTime, Timestamp, q, r

LEMMA StoredOrder ==
  ASSUME NEW t \in Nat, NEW u \in Nat, t <= u
  PROVE  Timestamp(t) <= Timestamp(u)
<1> DEFINE q == t \div Day
           r == t % Day
           p == u \div Day
           s == u % Day
<1>1. q \in Nat /\ r \in 0..(Day - 1) /\ t = q * Day + r
  BY FormatAssumption
<1>2. p \in Nat /\ s \in 0..(Day - 1) /\ u = p * Day + s
  BY FormatAssumption
<1> HIDE DEF q, r, p, s
<1>3. Day \in Nat \ {0} /\ DayWord \in Nat /\ Day <= DayWord
  BY FormatAssumption
<1>4. CASE q = p
  <2>1. r <= s
    BY <1>1, <1>2, <1>3, <1>4
  <2>2. q * DayWord + r <= p * DayWord + s
    BY <1>1, <1>2, <1>3, <1>4, <2>1
  <2> QED BY <2>2 DEF Timestamp, q, r, p, s
<1>5. CASE q < p
  <2>1. \E k \in Nat : p = q + 1 + k
    <3>1. p - q - 1 \in Nat /\ p = q + 1 + (p - q - 1)
      BY <1>1, <1>2, <1>5
    <3> QED BY <3>1
  <2>2. PICK k \in Nat : p = q + 1 + k
    BY <2>1
  <2>3. p * DayWord = q * DayWord + DayWord + k * DayWord
    BY <1>1, <1>3, <2>2
  <2>4. k * DayWord \in Nat /\ q * DayWord \in Nat
    BY <1>1, <1>3, <2>2
  <2>5. q * DayWord + r <= p * DayWord + s
    BY <1>1, <1>2, <1>3, <2>3, <2>4
  <2> QED BY <2>5 DEF Timestamp, q, r, p, s
<1>6. CASE p < q
  <2>1. PICK k \in Nat : q = p + 1 + k
    <3>1. q - p - 1 \in Nat /\ q = p + 1 + (q - p - 1)
      BY <1>1, <1>2, <1>6
    <3> QED BY <3>1
  <2>2. q * Day = p * Day + Day + k * Day
    BY <1>2, <1>3, <2>1
  <2>3. k * Day \in Nat /\ p * Day \in Nat
    BY <1>2, <1>3, <2>1
  <2> QED BY <1>1, <1>2, <1>3, <2>2, <2>3
<1> QED BY <1>1, <1>2, <1>4, <1>5, <1>6

-----------------------------------------------------------------------------
(* The invariant *)

\* The nonces a tree is built of: of the others it is only known that they are
\* none of the client's.
Nonces(nonce, size, index) == [k \in 1..size |-> IF k = index + 1 THEN nonce ELSE -k]

\* The time that s tells at time t.
Told(s, t) == IF s \in Falsetickers THEN t + Lie ELSE t

\* The server s had this delegation at time t.
DelegatedBy(s, dele, t) == \E n \in Nat, begun \in 0..t : dele = Delegation(s, n, begun)

\* What s replies at time t to the nonce with this index.
RepliedBy(s, msg, nonces, index, t) ==
  /\ DelegatedBy(s, msg.dele, t)
  /\ msg.dsig = Sign(RootKey(s), msg.dele)
  /\ msg.srep = [root |-> Root(nonces), midp |-> Timestamp(Told(s, t)), radi |-> Radi]
  /\ msg.sig = Sign(msg.dele.pubk, msg.srep)
  /\ msg.nonc = nonces[index + 1]
  /\ msg.indx = index
  /\ msg.path = ConstructMerklePath(nonces, index)
  /\ DOMAIN msg = Parts

\* A reply was made by its sender for a query of the client, and if that is the
\* present one not before it was begun.
Genuine(r) ==
  \E nonce \in 1..client.nonce, size \in BatchSizes \cup {1}, t \in 0..now :
    \E index \in 0..(size - 1) :
      /\ RepliedBy(r.from, r.msg, Nonces(nonce, size, index), index, t)
      /\ nonce = client.nonce => client.sent <= t

\* Whatever the network made of a message, each of its signatures is one that a
\* server has made.
Composed(msg) ==
  /\ \E r \in replies : msg.dsig = r.msg.dsig
  /\ \E r \in replies : msg.sig = r.msg.sig
  /\ msg.indx \in Int
  /\ \E T : msg.path \in Seq(T)
  /\ DOMAIN msg = Parts

Asking == client.pc \in {"connect", "wait", "measure"}

ClientInv ==
  /\ DOMAIN client = DOMAIN Idle
  /\ client.pc \in {"idle", "connect", "wait", "measure", "done"}
  /\ client.nonce \in Nat /\ (Asking => client.nonce # 0)
  /\ client.sent \in 0..now /\ client.start \in 0..now
  /\ client.outcome = "accepted" => client.pc = "done"

ServersInv ==
  /\ DOMAIN server = Servers
  /\ \A s \in Servers : server[s].keys \in Nat /\ DelegatedBy(s, server[s].dele, now)

NetInv ==
  /\ \A request \in requests : request.nonce \in 1..client.nonce
  /\ \A r \in replies : Genuine(r)

\* What has been received in time.
DataInv ==
  client.pc = "measure" => now - client.start >= Timeout \/ Composed(client.data)

\* The time that a reply in history tells, and whether that is the truth.
Time(k)     == ToTime(history[k].msg.srep.midp)
Truthful(k) == history[k].server \notin Falsetickers

\* The times of the truthful servers are in the order in which they were asked.
HistoryInv ==
  /\ \E T : history \in Seq(T)
  /\ \A k \in DOMAIN history : Truthful(k) =>
       /\ history[k].msg.srep.radi = Radi
       /\ Time(k) \in 0..now
       /\ Asking => Time(k) <= client.sent
  /\ \A k, l \in DOMAIN history : k < l /\ Truthful(k) /\ Truthful(l) => Time(k) <= Time(l)

\* What has been accepted was told during the query.
FreshInv ==
  client.outcome = "accepted" /\ client.server \notin Falsetickers =>
    ToTime(client.data.srep.midp) \in client.sent..now

Inv ==
  /\ now \in Nat
  /\ ClientInv /\ ServersInv /\ NetInv /\ DataInv /\ HistoryInv
  /\ FreshInv

-----------------------------------------------------------------------------
(* What a client that accepts a reply knows *)

\* The nonces of a tree, one of which is that of the client.
LEMMA NoncesIs ==
  ASSUME NEW nonce \in Int, NEW size \in BatchSizes \cup {1}, NEW index \in 0..(size - 1)
  PROVE  LET nonces == Nonces(nonce, size, index)
         IN  /\ size \in Nat /\ Len(nonces) = size
             /\ nonces[index + 1] = nonce
<1>1. size \in Nat
  BY BatchAssumption
<1> DEFINE nonces == Nonces(nonce, size, index)
<1>2. nonces \in Seq(Int)
  BY <1>1 DEF Nonces
<1>3. DOMAIN nonces = 1..size
  BY DEF Nonces
<1>4. nonces[index + 1] = nonce
  BY <1>1 DEF Nonces
<1> HIDE DEF nonces
<1>5. Len(nonces) = size
  BY <1>1, <1>2, <1>3
<1> QED BY <1>1, <1>4, <1>5 DEF nonces

\* A message whose signatures hold, and whose tree holds the nonce of the query the
\* client is in, tells the time and the accuracy that the server told while the
\* query was under way.
LEMMA SignedNow ==
  ASSUME Inv, Asking, NEW msg, Composed(msg), NEW s,
         DelegationSigned(s, msg), ReplySigned(msg),
         NEW path, Len(path) \in Nat,
         Climb(client.nonce, msg.indx, path) = msg.srep.root
  PROVE  \E t \in client.sent..now : msg.srep.midp = Timestamp(Told(s, t)) /\ msg.srep.radi = Radi
<1>1. PICK r \in replies : msg.dsig = r.msg.dsig
  BY DEF Composed
<1>2. PICK q \in replies : msg.sig = q.msg.sig
  BY DEF Composed
<1>3. Genuine(r) /\ Genuine(q)
  BY DEF Inv, NetInv
<1>4. r.msg.dsig = Sign(RootKey(r.from), r.msg.dele) /\ DelegatedBy(r.from, r.msg.dele, now)
  <2>1. PICK t \in 0..now : /\ DelegatedBy(r.from, r.msg.dele, t)
                            /\ r.msg.dsig = Sign(RootKey(r.from), r.msg.dele)
    BY <1>3 DEF Genuine, RepliedBy
  <2>2. 0..t \subseteq 0..now
    BY <2>1 DEF Inv
  <2> QED BY <2>1, <2>2 DEF DelegatedBy
<1>5. r.from = s /\ msg.dele = r.msg.dele
  BY <1>1, <1>4 DEF DelegationSigned, Sign, RootKey
<1>6. PICK n \in Nat : msg.dele.pubk = DelegateKey(s, n)
  BY <1>4, <1>5 DEF DelegatedBy, Delegation
<1>7. PICK nonce \in 1..client.nonce, size \in BatchSizes \cup {1}, t \in 0..now :
        \E index \in 0..(size - 1) :
          /\ RepliedBy(q.from, q.msg, Nonces(nonce, size, index), index, t)
          /\ nonce = client.nonce => client.sent <= t
  BY <1>3 DEF Genuine
<1>8. PICK index \in 0..(size - 1) :
        /\ RepliedBy(q.from, q.msg, Nonces(nonce, size, index), index, t)
        /\ nonce = client.nonce => client.sent <= t
  BY <1>7
<1> DEFINE nonces == Nonces(nonce, size, index)
<1>9. PICK m \in Nat : q.msg.dele.pubk = DelegateKey(q.from, m)
  BY <1>8 DEF RepliedBy, DelegatedBy, Delegation
<1>10. q.from = s /\ msg.srep = q.msg.srep
  <2>1. q.msg.sig = Sign(q.msg.dele.pubk, q.msg.srep)
    BY <1>8 DEF RepliedBy
  <2> QED BY <1>2, <1>6, <1>9, <2>1 DEF ReplySigned, Sign, DelegateKey
<1>11. /\ msg.srep.root = Root(nonces) /\ msg.srep.radi = Radi
       /\ msg.srep.midp = Timestamp(Told(s, t))
  BY <1>8, <1>10 DEF RepliedBy
<1>12. size \in Nat /\ Len(nonces) = size
  <2>1. client.nonce \in Nat
    BY DEF Inv, ClientInv
  <2> QED BY <1>7, <2>1, NoncesIs
<1>13. PICK k \in 1..size : nonces[k] = client.nonce
  <2> HIDE DEF nonces
  <2>1. msg.indx \in Int /\ Len(nonces) \in Nat
    BY <1>12 DEF Composed
  <2>2. Climb(client.nonce, msg.indx, path) = Root(nonces)
    BY <1>11
  <2> QED BY <1>12, <2>1, <2>2, NonceInTree
<1>14. nonce = client.nonce
  <2>1. client.nonce \in Nat /\ client.nonce # 0
    BY DEF Inv, ClientInv
  <2>2. -k # client.nonce
    BY <1>12, <1>13, <2>1
  <2> QED BY <1>13, <2>2 DEF Nonces
<1>15. t \in client.sent..now
  BY <1>7, <1>8, <1>14 DEF Inv, ClientInv
<1> QED
  BY <1>11, <1>15

\* So it is whichever client accepts it.
LEMMA AcceptedNow ==
  ASSUME Inv, Asking, NEW impl, NEW s, NEW msg, Composed(msg),
         Accepts(impl, s, client.nonce, msg)
  PROVE  \E t \in client.sent..now : msg.srep.midp = Timestamp(Told(s, t)) /\ msg.srep.radi = Radi
<1>1. PICK T : msg.path \in Seq(T)
  BY DEF Composed
<1>2. CASE impl = "python"
  <2>1. PyAccepts(s, client.nonce, msg)
    BY <1>2 DEF Accepts
  <2>2. Len(msg.path) \in Nat
    BY <1>1
  <2> QED BY <2>1, <2>2, SignedNow DEF PyAccepts, InTree
<1>3. CASE impl # "python"
  <2>1. CAccepts(s, client.nonce, msg)
    BY <1>3 DEF Accepts
  <2> DEFINE n    == Min({Len(msg.path), MaxPath})
             path == SubSeq(msg.path, 1, n)
  <2>2. n \in 0..Len(msg.path)
    <3>1. Len(msg.path) \in Nat /\ MaxPath \in Nat
      BY <1>1, LengthAssumption
    <3>2. \E x \in {Len(msg.path), MaxPath} : \A y \in {Len(msg.path), MaxPath} : x <= y
      BY <3>1
    <3>3. /\ n \in {Len(msg.path), MaxPath}
          /\ \A y \in {Len(msg.path), MaxPath} : n <= y
      BY <3>2 DEF Min
    <3> QED BY <3>1, <3>3
  <2> HIDE DEF n
  <2>3. Len(path) \in Nat
    BY <1>1, <2>2
  <2>4. Climb(client.nonce, msg.indx, path) = msg.srep.root
    BY <2>1 DEF CAccepts, InTree, n, Composed, Parts
  <2> HIDE DEF path
  <2> QED BY <2>1, <2>3, <2>4, SignedNow DEF CAccepts
<1> QED
  BY <1>2, <1>3

-----------------------------------------------------------------------------
(* Steps *)

LEMMA InvInit == Init => Inv
<1> SUFFICES ASSUME Init PROVE Inv
  OBVIOUS
<1> USE DEF Init
<1>1. ClientInv
  BY DEF ClientInv, Idle, Asking
<1>2. ServersInv
  <2> SUFFICES ASSUME NEW s \in Servers PROVE server[s].keys \in Nat /\ DelegatedBy(s, server[s].dele, 0)
    BY DEF ServersInv
  <2>1. server[s].keys = 1 /\ server[s].dele = Delegation(s, 1, 0)
    OBVIOUS
  <2>2. 1 \in Nat /\ 0 \in 0..0
    OBVIOUS
  <2> QED BY <2>1, <2>2 DEF DelegatedBy
<1>3. NetInv /\ DataInv /\ FreshInv
  BY DEF NetInv, DataInv, FreshInv, Idle
<1>4. HistoryInv
  <2>1. history \in Seq({}) /\ DOMAIN history = {}
    OBVIOUS
  <2> QED BY <2>1 DEF HistoryInv
<1> QED
  BY <1>1, <1>2, <1>3, <1>4 DEF Inv

\* Time goes on, and the client either stays in its query, leaves it or begins the
\* next one.
Forward ==
  /\ now \in Nat /\ now' \in Nat /\ now <= now'
  /\ client.nonce \in Nat /\ client.sent \in Nat
  /\ \/ client'.nonce = client.nonce /\ client'.sent \in {client.sent, 0}
     \/ client'.nonce = client.nonce + 1

LEMMA GenuineKept ==
  ASSUME Forward, NEW r, Genuine(r)
  PROVE  Genuine(r)'
<1>1. PICK nonce \in 1..client.nonce, size \in BatchSizes \cup {1}, t \in 0..now :
        \E index \in 0..(size - 1) :
          /\ RepliedBy(r.from, r.msg, Nonces(nonce, size, index), index, t)
          /\ nonce = client.nonce => client.sent <= t
  BY DEF Genuine
<1>2. nonce \in 1..client'.nonce /\ t \in 0..now'
  BY <1>1 DEF Forward
<1>3. nonce = client'.nonce => nonce = client.nonce /\ (client.sent <= t => client'.sent <= t)
  BY <1>1 DEF Forward
<1>4. \E index \in 0..(size - 1) :
          /\ RepliedBy(r.from, r.msg, Nonces(nonce, size, index), index, t)
          /\ nonce = client'.nonce => client'.sent <= t
  BY <1>1, <1>3
<1> QED
  BY <1>2, <1>4 DEF Genuine

\* The shape of a reply is that of a message from a server.
LEMMA ReplyShape ==
  ASSUME Inv, NEW r \in replies
  PROVE  /\ DOMAIN r.msg = Parts /\ r.msg.indx \in Int
         /\ \E T : r.msg.path \in Seq(T)
<1>1. Genuine(r)
  BY DEF Inv, NetInv
<1>2. PICK nonce \in 1..client.nonce, size \in BatchSizes \cup {1}, t \in 0..now :
        \E index \in 0..(size - 1) :
          RepliedBy(r.from, r.msg, Nonces(nonce, size, index), index, t)
  BY <1>1 DEF Genuine
<1> PICK index \in 0..(size - 1) :
      RepliedBy(r.from, r.msg, Nonces(nonce, size, index), index, t)
  BY <1>2
<1> DEFINE nonces == Nonces(nonce, size, index)
<1>3. size \in Nat /\ Len(nonces) = size
  <2>1. client.nonce \in Nat
    BY DEF Inv, ClientInv
  <2> QED BY <2>1, NoncesIs
<1> HIDE DEF nonces
<1>4. \E T : ConstructMerklePath(nonces, index) \in Seq(T)
  BY <1>3, PathLeadsToRoot
<1> QED
  BY <1>3, <1>4 DEF RepliedBy, nonces

\* The network composes messages of what was sent.
LEMMA ArrivalComposed ==
  ASSUME Inv, NEW r \in replies, NEW msg \in Arrivals(r.msg)
  PROVE  Composed(msg)
<1>0. /\ DOMAIN r.msg = Parts /\ r.msg.indx \in Int
      /\ \E T : r.msg.path \in Seq(T)
  BY ReplyShape
<1>1. ASSUME NEW q \in replies, NEW parts \in Mixes, msg = Mixed(r.msg, q.msg, parts)
      PROVE  Composed(msg)
  <2>1. q.msg.indx \in Int /\ \E T : q.msg.path \in Seq(T)
    BY ReplyShape
  <2>2. {"dsig", "sig", "indx", "path"} \subseteq Parts
    BY DEF Parts
  <2>3. msg = [p \in Parts |-> IF p \in parts THEN q.msg[p] ELSE r.msg[p]]
    BY <1>1 DEF Mixed
  <2>4. /\ msg.dsig = q.msg.dsig \/ msg.dsig = r.msg.dsig
        /\ msg.sig = q.msg.sig \/ msg.sig = r.msg.sig
        /\ msg.indx = q.msg.indx \/ msg.indx = r.msg.indx
        /\ msg.path = q.msg.path \/ msg.path = r.msg.path
        /\ DOMAIN msg = Parts
    BY <2>2, <2>3
  <2> QED BY <1>0, <2>1, <2>4 DEF Composed
<1>2. CASE msg = [r.msg EXCEPT !.srep.midp = Timestamp(now + Lie)]
  <2>1. /\ msg.dsig = r.msg.dsig /\ msg.sig = r.msg.sig /\ msg.indx = r.msg.indx
        /\ msg.path = r.msg.path /\ DOMAIN msg = Parts
    BY <1>0, <1>2 DEF Parts
  <2> QED BY <1>0, <2>1 DEF Composed
<1>3. CASE msg = [r.msg EXCEPT !.indx = @ + Pow2[Len(r.msg.path)]]
  <2>1. Len(r.msg.path) \in Nat
    BY <1>0
  <2>2. Pow2[Len(r.msg.path)] \in Nat
    BY <2>1, Pow2Is
  <2>3. /\ msg.dsig = r.msg.dsig /\ msg.sig = r.msg.sig
        /\ msg.indx = r.msg.indx + Pow2[Len(r.msg.path)]
        /\ msg.path = r.msg.path /\ DOMAIN msg = Parts
    BY <1>0, <1>3 DEF Parts
  <2> QED BY <1>0, <2>2, <2>3 DEF Composed
<1> QED
  BY <1>1, <1>2, <1>3 DEF Arrivals

\* A server's reply to a query on its way is genuine.
LEMMA ReplyGenuine ==
  ASSUME Inv, NEW s \in Servers, NEW request \in requests,
         NEW size \in BatchSizes \cup {1}, NEW index \in 0..(size - 1)
  PROVE  Genuine([from |-> s,
                  msg  |-> Reply(s, Nonces(request.nonce, size, index), index)])
<1> DEFINE nonces == Nonces(request.nonce, size, index)
           msg    == Reply(s, nonces, index)
<1>1. request.nonce \in 1..client.nonce /\ client.sent <= now /\ now \in 0..now
  BY DEF Inv, NetInv, ClientInv
<1>2. DelegatedBy(s, server[s].dele, now)
  BY DEF Inv, ServersInv
<1>3. Clock(s) = Told(s, now)
  BY DEF Clock, Told
<1>4. RepliedBy(s, msg, nonces, index, now)
  <2> HIDE DEF nonces
  <2>1. DOMAIN msg = Parts
    BY DEF Reply, Parts
  <2> QED BY <1>2, <1>3, <2>1 DEF RepliedBy, Reply
<1> HIDE DEF msg
<1>5. \E i \in 0..(size - 1) :
        /\ RepliedBy(s, msg, Nonces(request.nonce, size, i), i, now)
        /\ request.nonce = client.nonce => client.sent <= now
  BY <1>1, <1>4
<1> QED
  BY <1>1, <1>5 DEF Genuine, msg

\* What does not concern the client: it stays as it is, and nothing is taken back.
LEMMA OthersInv ==
  ASSUME Inv, now' \in Nat, now <= now', UNCHANGED <<client, history>>,
         ServersInv', \A request \in requests' : request \in requests,
         replies \subseteq replies', \A r \in replies' \ replies : Genuine(r)'
  PROVE  Inv'
<1>0. Forward
  BY DEF Forward, Inv, ClientInv
<1>1. ClientInv'
  BY DEF Inv, ClientInv, Asking
<1>2. NetInv'
  <2>1. \A r \in replies : Genuine(r)'
    BY <1>0, GenuineKept DEF Inv, NetInv
  <2> QED BY <2>1 DEF Inv, NetInv
<1>3. DataInv'
  <2> SUFFICES ASSUME client.pc = "measure" /\ ~(now' - client.start >= Timeout)
               PROVE  Composed(client.data)'
    BY DEF DataInv
  <2>1. Composed(client.data)
    <3>1. now \in Int /\ now' \in Int /\ client.start \in Int /\ Timeout \in Int
      BY TimeAssumption DEF Inv, ClientInv
    <3> QED BY <3>1 DEF Inv, DataInv
  <2> QED BY <2>1 DEF Composed
<1>4. HistoryInv'
  <2>1. now \in Nat
    BY DEF Inv
  <2>2. \A k : Time(k)' = Time(k) /\ (Truthful(k)' <=> Truthful(k))
    BY DEF Time, Truthful
  <2>3. Asking' <=> Asking
    BY DEF Asking
  <2> QED BY <2>1, <2>2, <2>3 DEF Inv, HistoryInv
<1>5. FreshInv'
  <2>1. now \in Int /\ now' \in Int /\ client.sent \in Int
    BY DEF Inv, ClientInv
  <2> QED BY <2>1 DEF Inv, FreshInv
<1> QED
  BY <1>1, <1>2, <1>3, <1>4, <1>5 DEF Inv

\* A step of a server.
LEMMA ServerStepInv ==
  ASSUME Inv, NEW s \in Servers, ServerStep(s)
  PROVE  Inv'
<1>0. now \in Nat
  BY DEF Inv
<1>1. CASE Answer(s)
  <2>1. PICK request \in requests :
          /\ request.server = s /\ requests' = requests \ {request}
          /\ replies' = replies \cup {[from |-> s, msg |-> Reply(s, <<request.nonce>>, 0)]}
          /\ UNCHANGED <<now, server, client, history>>
    BY <1>1 DEF Answer, Receive, Send
  <2>2. <<request.nonce>> = Nonces(request.nonce, 1, 0)
    BY DEF Nonces
  <2>3. Genuine([from |-> s, msg |-> Reply(s, <<request.nonce>>, 0)])
    <3>1. 1 \in BatchSizes \cup {1} /\ 0 \in 0..(1 - 1)
      OBVIOUS
    <3> QED BY <2>2, <3>1, ReplyGenuine
  <2>4. \A r \in replies' \ replies : Genuine(r)'
    BY <2>1, <2>3 DEF Genuine
  <2>5. ServersInv'
    BY <2>1 DEF Inv, ServersInv
  <2> QED BY <1>0, <2>1, <2>4, <2>5, OthersInv
<1>2. CASE AnswerBatch(s)
  <2>1. PICK request \in requests, size \in BatchSizes :
          \E index \in 0..(size - 1) :
            /\ requests' = requests \ {request}
            /\ replies' = replies \cup
                 {[from |-> s, msg |-> Reply(s, Nonces(request.nonce, size, index), index)]}
            /\ UNCHANGED <<now, server, client, history>>
    BY <1>2 DEF AnswerBatch, Receive, Send, Nonces
  <2>2. PICK index \in 0..(size - 1) :
          /\ requests' = requests \ {request}
          /\ replies' = replies \cup
               {[from |-> s, msg |-> Reply(s, Nonces(request.nonce, size, index), index)]}
          /\ UNCHANGED <<now, server, client, history>>
    BY <2>1
  <2>3. Genuine([from |-> s, msg |-> Reply(s, Nonces(request.nonce, size, index), index)])
    BY ReplyGenuine
  <2>4. \A r \in replies' \ replies : Genuine(r)'
    BY <2>2, <2>3 DEF Genuine
  <2>5. ServersInv'
    BY <2>2 DEF Inv, ServersInv
  <2> QED BY <1>0, <2>2, <2>4, <2>5, OthersInv
<1>3. CASE Redelegate(s)
  <2>1. /\ requests' \subseteq requests
        /\ server' = [server EXCEPT ![s] = [keys |-> server[s].keys + 1,
                                            dele |-> Delegation(s, server[s].keys + 1, now)]]
        /\ UNCHANGED <<now, replies, client, history>>
    BY <1>3 DEF Redelegate
  <2>2. ServersInv'
    <3> SUFFICES ASSUME NEW t \in Servers
                 PROVE  server'[t].keys \in Nat /\ DelegatedBy(t, server'[t].dele, now)
      BY <2>1 DEF ServersInv, Inv
    <3>1. CASE t = s
      <4>1. /\ server'[t].keys = server[s].keys + 1
            /\ server'[t].dele = Delegation(s, server[s].keys + 1, now)
        BY <2>1, <3>1 DEF Inv, ServersInv
      <4>2. server[s].keys + 1 \in Nat /\ now \in 0..now
        BY <1>0 DEF Inv, ServersInv
      <4> QED BY <3>1, <4>1, <4>2 DEF DelegatedBy
    <3>2. CASE t # s
      BY <2>1, <3>2 DEF Inv, ServersInv
    <3> QED BY <3>1, <3>2
  <2> QED BY <1>0, <2>1, <2>2, OthersInv
<1> QED
  BY <1>1, <1>2, <1>3 DEF ServerStep

\* Time goes on.
LEMMA TickInv ==
  ASSUME Inv, Tick
  PROVE  Inv'
<1>1. now \in Nat /\ now' = now + 1 /\ UNCHANGED <<server, requests, replies, client, history>>
  BY DEF Inv, Tick
<1>2. ServersInv'
  <2>1. 0..now \subseteq 0..now'
    BY <1>1
  <2> QED BY <1>1, <2>1 DEF Inv, ServersInv, DelegatedBy
<1> QED
  BY <1>1, <1>2, OthersInv

\* A step of the client that does not end its query.
LEMMA AskingInv ==
  ASSUME Inv, UNCHANGED <<now, server, replies, history>>, ClientInv', DataInv',
         Asking, Asking', client'.sent = client.sent, client'.nonce = client.nonce,
         \A request \in requests' : request \in requests \/ request.nonce = client.nonce
  PROVE  Inv'
<1>1. Forward
  BY DEF Forward, Inv, ClientInv
<1>2. ServersInv'
  BY DEF Inv, ServersInv
<1>3. NetInv'
  <2>1. \A r \in replies' : Genuine(r)'
    BY <1>1, GenuineKept DEF Inv, NetInv
  <2>2. client.nonce \in 1..client.nonce
    BY DEF Inv, ClientInv
  <2> QED BY <2>1, <2>2 DEF Inv, NetInv
<1>4. HistoryInv'
  <2>1. \A k : Time(k)' = Time(k) /\ (Truthful(k)' <=> Truthful(k))
    BY DEF Time, Truthful
  <2> QED BY <2>1 DEF Inv, HistoryInv
<1>5. FreshInv'
  <2>1. client'.outcome # "accepted"
    BY DEF ClientInv, Asking
  <2> QED BY <2>1 DEF FreshInv
<1> QED
  BY <1>2, <1>3, <1>4, <1>5 DEF Inv

\* The client ends a query, or begins the next one, with an empty record.
LEMMA IdleInv ==
  ASSUME Inv, UNCHANGED <<now, server, requests, replies, history>>, ClientInv',
         Forward, client'.outcome # "accepted", client'.pc # "measure",
         client'.sent = now \/ ~Asking'
  PROVE  Inv'
<1>1. ServersInv'
  BY DEF Inv, ServersInv
<1>2. NetInv'
  <2>1. \A r \in replies' : Genuine(r)'
    BY GenuineKept DEF Inv, NetInv
  <2>2. client.nonce <= client'.nonce /\ client'.nonce \in Nat /\ client.nonce \in Nat
    BY DEF Forward, ClientInv
  <2> QED BY <2>1, <2>2 DEF Inv, NetInv
<1>3. HistoryInv'
  <2>1. \A k : Time(k)' = Time(k) /\ (Truthful(k)' <=> Truthful(k))
    BY DEF Time, Truthful
  <2>2. now \in Nat
    BY DEF Inv
  <2> QED BY <2>1, <2>2 DEF Inv, HistoryInv
<1>4. FreshInv' /\ DataInv'
  BY DEF FreshInv, DataInv
<1> QED
  BY <1>1, <1>2, <1>3, <1>4 DEF Inv

\* The last elements of a sequence are in the order they had.
LEMMA LastNIs ==
  ASSUME NEW T, NEW h \in Seq(T), NEW n \in Nat
  PROVE  /\ LastN(h, n) \in Seq(T)
         /\ \E d \in Nat : \A k \in DOMAIN LastN(h, n) :
              k + d \in DOMAIN h /\ LastN(h, n)[k] = h[k + d]
<1> DEFINE first == Max({1, Len(h) - n + 1})
<1>1. first \in Nat /\ first >= 1
  <2>1. Len(h) - n + 1 \in Int
    OBVIOUS
  <2>2. \E x \in {1, Len(h) - n + 1} : \A y \in {1, Len(h) - n + 1} : x >= y
    BY <2>1
  <2>3. first \in {1, Len(h) - n + 1} /\ \A y \in {1, Len(h) - n + 1} : first >= y
    BY <2>2 DEF Max
  <2> QED BY <2>1, <2>3
<1>2. LastN(h, n) = SubSeq(h, first, Len(h))
  BY DEF LastN
<1> HIDE DEF first
<1>3. SubSeq(h, first, Len(h)) \in Seq(T)
  BY <1>1
<1>4. \A k \in DOMAIN SubSeq(h, first, Len(h)) :
        k + (first - 1) \in DOMAIN h /\ SubSeq(h, first, Len(h))[k] = h[k + (first - 1)]
  BY <1>1
<1> QED
  BY <1>1, <1>2, <1>3, <1>4

\* The next reply in history is no earlier than those before it.
LEMMA HistoryGrows ==
  ASSUME Inv, Asking, NEW s, NEW msg,
         s \notin Falsetickers => /\ msg.srep.radi = Radi
                                  /\ ToTime(msg.srep.midp) \in client.sent..now,
         now' = now, ~Asking',
         history' = LastN(Append(history, [server |-> s, msg |-> msg]), MaxHistoryLen)
  PROVE  HistoryInv'
<1>1. PICK T : history \in Seq(T)
  BY DEF Inv, HistoryInv
<1> DEFINE entry == [server |-> s, msg |-> msg]
           all   == Append(history, entry)
           Tell(h) == ToTime(h.msg.srep.midp)
           True(h) == h.server \notin Falsetickers
<1>2. all \in Seq(T \cup {entry})
  BY <1>1
<1>3. Len(all) = Len(history) + 1 /\ Len(history) \in Nat /\ DOMAIN all = 1..Len(history) + 1
  BY <1>1
<1>4. \A k \in 1..Len(history) : k \in DOMAIN history /\ all[k] = history[k]
  BY <1>1
<1>5. all[Len(history) + 1] = entry
  BY <1>1
<1>6. True(entry) => entry.msg.srep.radi = Radi /\ Tell(entry) \in client.sent..now
  OBVIOUS
<1>7. client.sent \in 0..now /\ now \in Nat
  BY DEF Inv, ClientInv
<1> HIDE DEF all, entry
<1>8. \A k \in DOMAIN history : True(history[k]) =>
        /\ history[k].msg.srep.radi = Radi
        /\ Tell(history[k]) \in 0..client.sent
  BY <1>7 DEF Inv, HistoryInv, Time, Truthful
<1>9. \A k, l \in DOMAIN history : k < l /\ True(history[k]) /\ True(history[l]) =>
        Tell(history[k]) <= Tell(history[l])
  BY DEF Inv, HistoryInv, Time, Truthful
<1> HIDE DEF Tell, True
<1>10. \A k \in DOMAIN all : True(all[k]) =>
         all[k].msg.srep.radi = Radi /\ Tell(all[k]) \in 0..now
  <2> SUFFICES ASSUME NEW k \in DOMAIN all, True(all[k])
               PROVE  all[k].msg.srep.radi = Radi /\ Tell(all[k]) \in 0..now
    OBVIOUS
  <2>1. CASE k = Len(history) + 1
    BY <1>5, <1>6, <1>7, <2>1
  <2>2. CASE k # Len(history) + 1
    <3>1. k \in 1..Len(history)
      BY <1>3, <2>2
    <3> QED BY <1>4, <1>7, <1>8, <3>1
  <2> QED BY <2>1, <2>2
<1>11. \A k, l \in DOMAIN all : k < l /\ True(all[k]) /\ True(all[l]) =>
         Tell(all[k]) <= Tell(all[l])
  <2> SUFFICES ASSUME NEW k \in DOMAIN all, NEW l \in DOMAIN all,
                      k < l, True(all[k]), True(all[l])
               PROVE  Tell(all[k]) <= Tell(all[l])
    OBVIOUS
  <2>1. k \in 1..Len(history)
    BY <1>3
  <2>2. CASE l = Len(history) + 1
    <3>1. Tell(all[k]) \in 0..client.sent
      BY <1>4, <1>8, <2>1
    <3>2. Tell(all[l]) \in client.sent..now
      BY <1>5, <1>6, <2>2
    <3> QED BY <1>7, <3>1, <3>2
  <2>3. CASE l # Len(history) + 1
    <3>1. l \in 1..Len(history)
      BY <1>3, <2>3
    <3> QED BY <1>4, <1>9, <2>1, <3>1
  <2> QED BY <2>2, <2>3
<1>12. history' \in Seq(T \cup {entry})
  <2>1. MaxHistoryLen \in Nat
    BY LengthAssumption
  <2>2. history' = LastN(all, MaxHistoryLen)
    BY DEF all, entry
  <2> QED BY <1>2, <2>1, <2>2, LastNIs
<1>13. PICK d \in Nat : \A k \in DOMAIN history' : k + d \in DOMAIN all /\ history'[k] = all[k + d]
  <2>1. MaxHistoryLen \in Nat
    BY LengthAssumption
  <2>2. history' = LastN(all, MaxHistoryLen)
    BY DEF all, entry
  <2>3. \E d \in Nat : \A k \in DOMAIN LastN(all, MaxHistoryLen) :
          k + d \in DOMAIN all /\ LastN(all, MaxHistoryLen)[k] = all[k + d]
    BY <1>2, <2>1, LastNIs
  <2> QED BY <2>2, <2>3
<1>14. DOMAIN history' \subseteq Nat
  BY <1>12
<1>15. \A k \in DOMAIN history' : True(history'[k]) =>
         history'[k].msg.srep.radi = Radi /\ Tell(history'[k]) \in 0..now
  BY <1>10, <1>13
<1>16. \A k, l \in DOMAIN history' : k < l /\ True(history'[k]) /\ True(history'[l]) =>
         Tell(history'[k]) <= Tell(history'[l])
  <2> SUFFICES ASSUME NEW k \in DOMAIN history', NEW l \in DOMAIN history',
                      k < l, True(history'[k]), True(history'[l])
               PROVE  Tell(history'[k]) <= Tell(history'[l])
    OBVIOUS
  <2>1. k + d < l + d
    BY <1>14
  <2> QED BY <1>11, <1>13, <2>1
<1> QED
  BY <1>12, <1>15, <1>16 DEF HistoryInv, Time, Truthful, Tell, True

\* The client judges what it has received.
LEMMA VerifyInv ==
  ASSUME Inv, Verify
  PROVE  Inv'
<1> USE DEF Verify
<1>1. Asking /\ UNCHANGED <<now, server, requests, replies>>
  BY DEF Asking
<1>2. DOMAIN client = DOMAIN Idle /\ client.nonce \in Nat /\ now \in Nat /\ client.sent \in 0..now
  BY DEF Inv, ClientInv
<1>3. CASE Accepts(client.impl, client.server, client.nonce, client.data)
  <2>1. client' = [client EXCEPT !.pc = "done", !.outcome = "accepted", !.addresses = 0, !.start = 0]
    BY <1>3 DEF Returns
  <2>2. /\ client'.pc = "done" /\ client'.start = 0 /\ client'.nonce = client.nonce
        /\ client'.sent = client.sent /\ client'.server = client.server
        /\ client'.data = client.data /\ DOMAIN client' = DOMAIN Idle
    BY <1>2, <2>1 DEF Idle
  <2>3. Composed(client.data)
    <3>1. now \in Int /\ client.start \in Int /\ Timeout \in Int
      BY TimeAssumption DEF Inv, ClientInv
    <3> QED BY <3>1 DEF Inv, DataInv
  <2>4. PICK t \in client.sent..now :
          /\ client.data.srep.midp = Timestamp(Told(client.server, t))
          /\ client.data.srep.radi = Radi
    BY <1>1, <1>3, <2>3, AcceptedNow
  <2>5. client.server \notin Falsetickers => /\ client.data.srep.radi = Radi
                                             /\ ToTime(client.data.srep.midp) \in client.sent..now
    <3> SUFFICES ASSUME client.server \notin Falsetickers
                 PROVE  ToTime(client.data.srep.midp) \in client.sent..now
      BY <2>4
    <3>1. t \in Nat /\ client.data.srep.midp = Timestamp(t)
      BY <1>2, <2>4 DEF Told
    <3> QED BY <2>4, <3>1, StoredTime
  <2>6. ~Asking'
    BY <2>2 DEF Asking
  <2>7. HistoryInv'
    <3>1. CASE client.impl = "C"
      <4>1. history' = history
        BY <1>3, <3>1
      <4>2. \A k : Time(k)' = Time(k) /\ (Truthful(k)' <=> Truthful(k))
        BY <4>1 DEF Time, Truthful
      <4> QED BY <1>1, <2>6, <4>1, <4>2 DEF Inv, HistoryInv
    <3>2. CASE client.impl # "C"
      <4>1. history' = LastN(Append(history, [server |-> client.server, msg |-> client.data]),
                             MaxHistoryLen)
        BY <1>3, <3>2
      <4> QED BY <1>1, <2>5, <2>6, <4>1, HistoryGrows
    <3> QED BY <3>1, <3>2
  <2>8. ClientInv'
    BY <1>1, <1>2, <2>2, <2>6 DEF ClientInv
  <2>9. ServersInv'
    BY <1>1 DEF Inv, ServersInv
  <2>10. NetInv'
    <3>1. Forward
      BY <1>1, <1>2, <2>2 DEF Forward
    <3>2. \A r \in replies' : Genuine(r)'
      BY <1>1, <3>1, GenuineKept DEF Inv, NetInv
    <3> QED BY <1>1, <2>2, <3>2 DEF Inv, NetInv
  <2>11. DataInv' /\ FreshInv'
    BY <1>1, <2>2, <2>5 DEF DataInv, FreshInv
  <2> QED BY <1>1, <1>2, <2>7, <2>8, <2>9, <2>10, <2>11 DEF Inv
<1>4. CASE ~Accepts(client.impl, client.server, client.nonce, client.data)
  <2>1. /\ client' = [Idle EXCEPT !.pc = "done", !.outcome = "RoughtimeError", !.nonce = client.nonce]
        /\ history' = history
    BY <1>4 DEF Raises
  <2>2. /\ client'.pc = "done" /\ client'.outcome = "RoughtimeError" /\ client'.sent = 0
        /\ client'.start = 0 /\ client'.nonce = client.nonce /\ DOMAIN client' = DOMAIN Idle
    BY <2>1 DEF Idle
  <2>3. ClientInv' /\ Forward /\ ~Asking'
    BY <1>1, <1>2, <2>2 DEF ClientInv, Asking, Forward
  <2> QED BY <1>1, <2>1, <2>2, <2>3, IdleInv
<1> QED
  BY <1>3, <1>4

\* The other steps of the client.
LEMMA ClientStepInv ==
  ASSUME Inv, ClientStep
  PROVE  Inv'
<1>0. /\ DOMAIN client = DOMAIN Idle /\ client.nonce \in Nat /\ now \in Nat
      /\ client.sent \in 0..now /\ client.start \in 0..now
  BY DEF Inv, ClientInv
<1>1. CASE Query
  <2>1. UNCHANGED <<now, server, requests, replies, history>>
    BY <1>1 DEF Query
  <2>2. /\ client'.pc = "connect" /\ client'.outcome = "none" /\ client'.sent = now
        /\ client'.start = 0 /\ client'.nonce = client.nonce + 1 /\ DOMAIN client' = DOMAIN Idle
    BY <1>1 DEF Query, Idle
  <2>3. ClientInv' /\ Forward
    BY <1>0, <2>1, <2>2 DEF ClientInv, Asking, Forward
  <2> QED BY <2>1, <2>2, <2>3, IdleInv
<1>2. CASE NoAddressLeft
  <2>1. UNCHANGED <<now, server, requests, replies, history>>
    BY <1>2 DEF NoAddressLeft
  <2>2. PICK error \in {"RoughtimeError", "UnboundLocalError"} :
          client' = [Idle EXCEPT !.pc = "done", !.outcome = error, !.nonce = client.nonce]
    BY <1>2 DEF NoAddressLeft, Raises
  <2>3. /\ client'.pc = "done" /\ client'.outcome # "accepted" /\ client'.sent = 0
        /\ client'.start = 0 /\ client'.nonce = client.nonce /\ DOMAIN client' = DOMAIN Idle
    BY <2>2 DEF Idle
  <2>4. ClientInv' /\ Forward /\ ~Asking'
    BY <1>0, <2>1, <2>3 DEF ClientInv, Asking, Forward
  <2> QED BY <2>1, <2>3, <2>4, IdleInv
<1>3. CASE Finished
  <2>1. UNCHANGED <<now, server, requests, replies, history>>
    BY <1>3 DEF Finished
  <2>2. client' = [Idle EXCEPT !.nonce = client.nonce]
    BY <1>3 DEF Finished
  <2>3. /\ client'.pc = "idle" /\ client'.outcome = "none" /\ client'.sent = 0
        /\ client'.start = 0 /\ client'.nonce = client.nonce /\ DOMAIN client' = DOMAIN Idle
    BY <2>2 DEF Idle
  <2>4. ClientInv' /\ Forward /\ ~Asking'
    BY <1>0, <2>1, <2>3 DEF ClientInv, Asking, Forward
  <2> QED BY <2>1, <2>3, <2>4, IdleInv
<1>4. CASE Verify
  BY <1>4, VerifyInv
<1>5. CASE SendFails
  <2>1. UNCHANGED <<now, server, requests, replies, history>> /\ client.pc = "connect"
    BY <1>5 DEF SendFails
  <2>2. client' = [client EXCEPT !.addresses = client.addresses - 1]
    BY <1>5 DEF SendFails
  <2>3. /\ client'.pc = client.pc /\ client'.outcome = client.outcome /\ client'.sent = client.sent
        /\ client'.start = client.start /\ client'.nonce = client.nonce
        /\ DOMAIN client' = DOMAIN Idle
    BY <1>0, <2>2 DEF Idle
  <2>4. Asking /\ Asking' /\ ClientInv' /\ DataInv'
    BY <2>1, <2>3 DEF ClientInv, Asking, DataInv, Inv
  <2> QED BY <2>1, <2>3, <2>4, AskingInv
<1>6. CASE SendQuery
  <2>1. /\ UNCHANGED <<now, server, replies, history>> /\ client.pc = "connect"
        /\ requests' = requests \cup {[server |-> client.server, nonce |-> client.nonce]}
        /\ client' = [client EXCEPT !.pc = "wait", !.addresses = client.addresses - 1, !.start = now]
    BY <1>6 DEF SendQuery
  <2>2. /\ client'.pc = "wait" /\ client'.outcome = client.outcome /\ client'.sent = client.sent
        /\ client'.start = now /\ client'.nonce = client.nonce
        /\ DOMAIN client' = DOMAIN Idle
    BY <1>0, <2>1 DEF Idle
  <2>3. Asking /\ Asking' /\ ClientInv' /\ DataInv'
    BY <1>0, <2>1, <2>2 DEF ClientInv, Asking, DataInv, Inv
  <2> QED BY <2>1, <2>2, <2>3, AskingInv
<1>7. CASE ReceiveReply
  <2>1. UNCHANGED <<now, server, requests, replies, history>> /\ client.pc = "wait"
    BY <1>7 DEF ReceiveReply
  <2>2. PICK r \in replies : \E msg \in Arrivals(r.msg) :
          client' = [client EXCEPT !.pc = "measure", !.data = msg]
    BY <1>7 DEF ReceiveReply
  <2>3. PICK msg \in Arrivals(r.msg) : client' = [client EXCEPT !.pc = "measure", !.data = msg]
    BY <2>2
  <2>4. Composed(msg)
    BY ArrivalComposed
  <2>5. /\ client'.pc = "measure" /\ client'.outcome = client.outcome /\ client'.sent = client.sent
        /\ client'.start = client.start /\ client'.nonce = client.nonce /\ client'.data = msg
        /\ DOMAIN client' = DOMAIN Idle
    BY <1>0, <2>3 DEF Idle
  <2>6. DataInv'
    BY <2>1, <2>4, <2>5 DEF DataInv, Composed
  <2>7. Asking /\ Asking' /\ ClientInv'
    BY <2>1, <2>5 DEF ClientInv, Asking, Inv
  <2> QED BY <2>1, <2>5, <2>6, <2>7, AskingInv
<1>8. CASE WaitIsOver
  <2>1. /\ UNCHANGED <<now, server, requests, replies, history>> /\ client.pc = "wait"
        /\ now - client.start >= Timeout
        /\ client' = [client EXCEPT !.pc = "measure"]
    BY <1>8 DEF WaitIsOver
  <2>2. /\ client'.pc = "measure" /\ client'.outcome = client.outcome /\ client'.sent = client.sent
        /\ client'.start = client.start /\ client'.nonce = client.nonce
        /\ DOMAIN client' = DOMAIN Idle
    BY <1>0, <2>1 DEF Idle
  <2>3. Asking /\ Asking' /\ ClientInv' /\ DataInv'
    BY <2>1, <2>2 DEF ClientInv, Asking, DataInv, Inv
  <2> QED BY <2>1, <2>2, <2>3, AskingInv
<1>9. CASE TooLate
  <2>1. /\ UNCHANGED <<now, server, requests, replies, history>> /\ client.pc = "measure"
        /\ client' = [client EXCEPT !.pc = "connect", !.measured = TRUE, !.data = <<>>]
    BY <1>9 DEF TooLate
  <2>2. /\ client'.pc = "connect" /\ client'.outcome = client.outcome /\ client'.sent = client.sent
        /\ client'.start = client.start /\ client'.nonce = client.nonce
        /\ DOMAIN client' = DOMAIN Idle
    BY <1>0, <2>1 DEF Idle
  <2>3. Asking /\ Asking' /\ ClientInv' /\ DataInv'
    BY <2>1, <2>2 DEF ClientInv, Asking, DataInv, Inv
  <2> QED BY <2>1, <2>2, <2>3, AskingInv
<1> QED
  BY <1>1, <1>2, <1>3, <1>4, <1>5, <1>6, <1>7, <1>8, <1>9 DEF ClientStep

LEMMA Invariance == Spec => []Inv
<1>1. Inv /\ [Next]_vars => Inv'
  <2> SUFFICES ASSUME Inv, [Next]_vars PROVE Inv'
    OBVIOUS
  <2>1. CASE UNCHANGED vars
    <3>1. now \in Nat /\ now <= now'
      BY <2>1 DEF vars, Inv
    <3>2. ServersInv'
      BY <2>1 DEF vars, Inv, ServersInv
    <3> QED BY <2>1, <3>1, <3>2, OthersInv DEF vars
  <2>2. CASE ClientStep
    BY <2>2, ClientStepInv
  <2>3. CASE Tick
    BY <2>3, TickInv
  <2>4. ASSUME NEW s \in Servers, ServerStep(s) PROVE Inv'
    BY <2>4, ServerStepInv
  <2> QED
    BY <2>1, <2>2, <2>3, <2>4 DEF Next, Horizon
<1> QED
  BY InvInit, <1>1, PTL DEF Spec

-----------------------------------------------------------------------------
(* Theorems *)

\* A time that a client accepts from a server that tells the truth was taken while
\* the query was under way: no delayed, repeated, garbled or composed reply passes
\* the checks of query or of vrt_parse_response with another time.
THEOREM AcceptedFresh == Spec => []AcceptedIsFresh
<1>1. Inv => AcceptedIsFresh
  <2> SUFFICES ASSUME Inv, client.outcome = "accepted", client.server \notin Falsetickers
               PROVE  LET t == ToTime(client.data.srep.midp)
                      IN  client.sent <= t /\ t <= now
    BY DEF AcceptedIsFresh
  <2> QED BY DEF Inv, FreshInv, ClientInv
<1> QED
  BY Invariance, <1>1, PTL

\* verify_replies accuses no two servers that tell the truth, however long the
\* history is and whatever the other servers reply.
THEOREM NoFalseAccusation == Spec => []TruthfulNotAccused
<1>1. Inv => TruthfulNotAccused
  <2> SUFFICES ASSUME Inv, NEW pair \in InvalidPairs, Truthful(pair[1]), Truthful(pair[2])
               PROVE  FALSE
    BY DEF TruthfulNotAccused, Truthful
  <2>1. /\ pair[1] \in DOMAIN history /\ pair[2] \in DOMAIN history /\ pair[1] < pair[2]
        /\ Contradict(history[pair[1]], history[pair[2]])
    BY DEF InvalidPairs
  <2>2. /\ Time(pair[1]) \in 0..now /\ history[pair[1]].msg.srep.radi = Radi
        /\ Time(pair[2]) \in 0..now /\ history[pair[2]].msg.srep.radi = Radi
        /\ Time(pair[1]) <= Time(pair[2])
    BY <2>1 DEF Inv, HistoryInv
  <2>3. Time(pair[1]) - Radi > Time(pair[2]) + Radi
    BY <2>1, <2>2 DEF Contradict, Time
  <2> QED BY <2>2, <2>3, TimeAssumption DEF Inv
<1> QED
  BY Invariance, <1>1, PTL

\* A reply that arrives as it was sent is accepted: the path cut out of a tree of any
\* size leads both clients from their nonce to the root that was signed.
THEOREM GenuineAccepted == Spec => []GenuineIsAccepted
<1>1. Inv => GenuineIsAccepted
  <2> SUFFICES ASSUME Inv, client.pc = "wait", NEW r \in replies,
                      r.from = client.server, r.msg.nonc = client.nonce
               PROVE  LET msg == r.msg
                      IN  /\ /\ r.from \in Falsetickers => msg.dele.mint <= msg.srep.midp
                             /\ msg.srep.midp <= msg.dele.maxt
                             => PyAccepts(client.server, client.nonce, msg)
                          /\ msg.dele.mint < msg.srep.midp /\ msg.srep.midp < msg.dele.maxt =>
                               CAccepts(client.server, client.nonce, msg)
    BY DEF GenuineIsAccepted
  <2> DEFINE msg == r.msg
  <2>1. PICK nonce \in 1..client.nonce, size \in BatchSizes \cup {1}, t \in 0..now :
          \E index \in 0..(size - 1) :
            RepliedBy(r.from, msg, Nonces(nonce, size, index), index, t)
    BY DEF Inv, NetInv, Genuine
  <2>2. PICK index \in 0..(size - 1) :
          RepliedBy(r.from, msg, Nonces(nonce, size, index), index, t)
    BY <2>1
  <2> DEFINE nonces == Nonces(nonce, size, index)
             order  == Order(Len(nonces))
             path   == ConstructMerklePath(nonces, index)
  <2>3. size \in Nat /\ Len(nonces) = size /\ nonces[index + 1] = nonce
    <3>1. client.nonce \in Nat
      BY DEF Inv, ClientInv
    <3> QED BY <3>1, NoncesIs
  <2>4. msg.nonc = nonce /\ nonce = client.nonce /\ msg.indx = index /\ msg.path = path
    BY <2>2, <2>3 DEF RepliedBy
  <2>5. msg.srep.root = Root(nonces) /\ DOMAIN msg = Parts
    BY <2>2 DEF RepliedBy
  <2>6. DelegationSigned(client.server, msg) /\ ReplySigned(msg)
    BY <2>2 DEF RepliedBy, DelegationSigned, ReplySigned
  <2>7. /\ Climb(nonces[index + 1], index, path) = Root(nonces)
        /\ index \div Pow2[order] = 0
        /\ order \in Nat /\ Len(path) = order
        /\ \E T : path \in Seq(T)
    <3> HIDE DEF nonces
    <3> QED BY <2>3, PathLeadsToRoot
  <2>8. order <= MaxPath /\ MaxPath \in Nat
    <3>1. CASE size \in BatchSizes
      BY <2>3, <3>1, BatchAssumption, LengthAssumption
    <3>2. CASE size = 1
      <4>1. Order(1) \in 0..1 /\ Order(1) <= 0
        <5> DEFINE R == {k \in 0..1 : Pow2[k] >= 1}
        <5>1. 0 \in R /\ \A k \in R : 0 <= k /\ k \in Int
          BY Pow2Is
        <5>2. Min(R) \in R /\ Min(R) <= 0
          <6> HIDE DEF R
          <6>1. \E x \in R : \A y \in R : x <= y
            BY <5>1
          <6> QED BY <5>1, <6>1 DEF Min
        <5> QED BY <5>2 DEF Order
      <4> QED BY <2>3, <3>2, <4>1, LengthAssumption
    <3> QED BY <3>1, <3>2
  <2> HIDE DEF nonces, path, msg
  <2>9. InTree(client.nonce, msg)
    BY <2>3, <2>4, <2>5, <2>7 DEF InTree
  <2>10. r.from \notin Falsetickers => msg.dele.mint <= msg.srep.midp
    <3> SUFFICES ASSUME r.from \notin Falsetickers PROVE msg.dele.mint <= msg.srep.midp
      OBVIOUS
    <3>1. PICK n \in Nat, begun \in 0..t : msg.dele = Delegation(r.from, n, begun)
      BY <2>2 DEF RepliedBy, DelegatedBy
    <3>2. msg.dele.mint = Timestamp(begun) /\ msg.srep.midp = Timestamp(t)
      BY <2>2, <3>1 DEF RepliedBy, Told, Delegation
    <3>3. begun \in Nat /\ t \in Nat /\ begun <= t
      BY <2>1, <3>1 DEF Inv
    <3> QED BY <3>2, <3>3, StoredOrder
  <2>11. msg.indx \div Pow2[Len(msg.path)] = 0 /\ Len(msg.path) <= MaxPath
    BY <2>4, <2>7, <2>8
  <2>12. /\ r.from \in Falsetickers => msg.dele.mint <= msg.srep.midp
         /\ msg.srep.midp <= msg.dele.maxt
         => PyAccepts(client.server, client.nonce, msg)
    BY <2>4, <2>6, <2>9, <2>10, <2>11 DEF PyAccepts
  <2>13. InTree(client.nonce, [msg EXCEPT !.path = SubSeq(msg.path, 1, Min({Len(msg.path), MaxPath}))])
    <3>1. Min({Len(path), MaxPath}) = Len(path)
      <4>1. \A y \in {Len(path), MaxPath} : Len(path) <= y /\ y \in Nat
        BY <2>7, <2>8
      <4>2. /\ Min({Len(path), MaxPath}) \in {Len(path), MaxPath}
            /\ \A y \in {Len(path), MaxPath} : Min({Len(path), MaxPath}) <= y
        BY <4>1 DEF Min
      <4> QED BY <2>7, <2>8, <4>1, <4>2
    <3>2. SubSeq(path, 1, Len(path)) = path
      BY <2>7
    <3> DEFINE cut == [msg EXCEPT !.path = path]
    <3>3. cut.path = path /\ cut.indx = msg.indx /\ cut.srep = msg.srep
      BY <2>5 DEF Parts
    <3> HIDE DEF cut
    <3>4. InTree(client.nonce, cut)
      BY <2>4, <2>9, <3>3 DEF InTree
    <3> QED BY <2>4, <3>1, <3>2, <3>4 DEF cut
  <2>14. msg.dele.mint < msg.srep.midp /\ msg.srep.midp < msg.dele.maxt =>
           CAccepts(client.server, client.nonce, msg)
    BY <2>6, <2>13 DEF CAccepts
  <2> QED BY <2>12, <2>14 DEF msg
<1> QED
  BY Invariance, <1>1, PTL
=============================================================================
