------------------------------- MODULE MCWire -------------------------------
(* Values for Wire: words are 8 bits wide, a query has 40 bytes, a day 20   *)
(* microseconds, and a hash two words.                                      *)
EXTENDS Wire

MCMagic == <<126, 125>>

\* A change of any one word changes both words of the hash.
MCHash(words) ==
  FoldLeft(LAMBDA h, w : <<(3 * h[1] + w + 1) % Mod, (5 * h[2] + h[1] + w) % Mod>>,
           <<7, Len(words)>>, words)

MCContextCert == <<11>>
MCContextResp == <<12>>
MCRootKey     == <<201>>
MCDeleKey     == <<202>>

MCTrees == {[levels |-> 0, index |-> 0], [levels |-> 1, index |-> 1],
            [levels |-> 2, index |-> 1], [levels |-> 2, index |-> 2]}
=============================================================================
