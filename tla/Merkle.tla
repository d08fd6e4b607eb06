------------------------------- MODULE Merkle -------------------------------
(***************************************************************************)
(* The Merkle tree of a reply: how the server builds it and cuts out the   *)
(* path of a nonce (__construct_merkle and __construct_merkle_path in      *)
(* examples/python/pyroughtime.py), and how a client climbs it again.      *)
(*                                                                         *)
(* The hashes are a parameter: Roughtime takes SHA-512 as injective, and   *)
(* ServerReply counts the bytes of a node.                                 *)
(***************************************************************************)
EXTENDS Integers, Sequences, FiniteSetsExt

CONSTANTS
  Leaf(_),        \* the hash of a nonce
  Node(_, _),     \* the hash of two nodes
  Random(_)       \* os.urandom(32)

\* 1 << k
Pow2[k \in Nat] == IF k = 0 THEN 1 ELSE 2 * Pow2[k - 1]

\* __clp2, for the numbers that occur: the next power of two.
Order(n) == Min({k \in 0..n : Pow2[k] >= n})
Clp2(n)  == Pow2[Order(n)]

\* The levels of the tree, from the leaves to the root; numbered from 0.
Leaves(nonces) ==
  [n \in 0..(Clp2(Len(nonces)) - 1) |->
     IF n < Len(nonces) THEN Leaf(nonces[n + 1]) ELSE Random(n)]

ConstructMerkle(nonces) ==
  LET order == Order(Len(nonces))
      level[k \in 0..order] ==
        IF k = 0 THEN Leaves(nonces)
        ELSE [n \in 0..(Pow2[order - k] - 1) |->
                Node(level[k - 1][2 * n], level[k - 1][2 * n + 1])]
  IN  level

Root(nonces) == ConstructMerkle(nonces)[Order(Len(nonces))][0]

\* Variation of Sibling: the node itself.
SiblingItself(index) == index

\* index ^ 1
Sibling(index) == IF index % 2 = 0 THEN index + 1 ELSE index - 1

\* __construct_merkle_path: on every level below the root, the other child.
ConstructMerklePath(nonces, index) ==
  [k \in 1..Order(Len(nonces)) |->
     ConstructMerkle(nonces)[k - 1][Sibling(index \div Pow2[k - 1])]]

\* The hash a client arrives at: bit k of indx says on which side level k is.
Climb(nonce, indx, path) ==
  LET hash[k \in 0..Len(path)] ==
        IF k = 0 THEN Leaf(nonce)
        ELSE IF (indx \div Pow2[k - 1]) % 2 = 0 THEN Node(hash[k - 1], path[k])
                                               ELSE Node(path[k], hash[k - 1])
  IN  hash[Len(path)]
=============================================================================
