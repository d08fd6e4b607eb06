---------------------------- MODULE ServerReply ----------------------------
(***************************************************************************)
(* The reply of a server, word by word: __recv_thread of RoughtimeServer   *)
(* in examples/python/pyroughtime.py.  That server answers every nonce on  *)
(* its own and sends no header; the servers that the clients are pointed   *)
(* at also answer several nonces with one signature, send the header, and  *)
(* speak the format from before the IETF drafts.                           *)
(***************************************************************************)
EXTENDS Packet

CONSTANTS
  RootKey, DeleKey,       \* the long term key of the server and the delegated one
  DeleFrom, DeleUntil,    \* MINT and MAXT of its certificate
  Radius                  \* RADI

NewLeaf(nonce)       == SubSeq(Hash(<<0>> \o nonce), 1, NodeWords(TRUE))
NewNode(left, right) == SubSeq(Hash(<<1>> \o left \o right), 1, NodeWords(TRUE))
OldLeaf(nonce)       == SubSeq(Hash(<<0>> \o nonce), 1, NodeWords(FALSE))
OldNode(left, right) == SubSeq(Hash(<<1>> \o left \o right), 1, NodeWords(FALSE))
NoRandom(n)          == <<>>     \* no list of nonces has to be filled up here

NewTree == INSTANCE Merkle WITH Leaf <- NewLeaf, Node <- NewNode, Random <- NoRandom
OldTree == INSTANCE Merkle WITH Leaf <- OldLeaf, Node <- OldNode, Random <- NoRandom

TreeRoot(newver, nonces) ==
  IF newver THEN NewTree!Root(nonces) ELSE OldTree!Root(nonces)

TreePath(newver, nonces, index) ==
  FlattenSeq(IF newver THEN NewTree!ConstructMerklePath(nonces, index)
                       ELSE OldTree!ConstructMerklePath(nonces, index))

\* set_value_uint64
Long(value) == <<value % Mod, value \div Mod>>

\* A packet with these tags, given as pairs of a key and a value.
PacketOf(pairs) ==
  FoldLeft(LAMBDA ts, pair : WithTag(ts, pair[1], pair[2]), <<>>, pairs)

SignOver(key, context, ts) ==
  Signature(key, context, Content(4 * Len(Encode(ts)), Encode(ts)))

\* create_delegate_key, and the CERT that __init__ reads back.
Dele == PacketOf(<<<<PUBK, DeleKey>>, <<MINT, Long(DeleFrom)>>, <<MAXT, Long(DeleUntil)>>>>)
Cert == PacketOf(<<<<SIG, SignOver(RootKey, ContextCert, Dele)>>, <<DELE, Encode(Dele)>>>>)

Srep(newver, nonces, midp) ==
  PacketOf(<<<<ROOT, TreeRoot(newver, nonces)>>, <<MIDP, Long(midp)>>, <<RADI, <<Radius>>>>>>)

\* The reply to the nonce with this index, from 0.
Reply(newver, version, nonces, index, midp) ==
  LET srep   == Srep(newver, nonces, midp)
      common == <<<<CERT, Encode(Cert)>>, <<INDX, <<index>>>>,
                  <<PATH, TreePath(newver, nonces, index)>>, <<SREP, Encode(srep)>>,
                  <<SIG, SignOver(DeleKey, ContextResp, srep)>>>>
  IN  PacketOf(IF newver THEN common \o <<<<NONC, nonces[index + 1]>>, <<VER, <<version>>>>>>
                         ELSE common)
=============================================================================
