------------------------------ MODULE Protocol ------------------------------
(***************************************************************************)
(* What the implementations of the wire format have in common: the         *)
(* constants of examples/C/vrt.h, which examples/esp32/roughtime/vrt.h     *)
(* repeats and examples/python/pyroughtime.py spells out where it uses     *)
(* them.  A packet is a sequence of 32 bit words, a tag is the word that   *)
(* stands for it, and sizes are in bytes.                                  *)
(***************************************************************************)
EXTENDS Integers, Sequences

CONSTANTS
  Mod,                        \* 2^32: unsigned arithmetic is done modulo Mod
  Magic,                      \* the two words of the header "ROUGHTIM"
  QueryLen,                   \* VRT_QUERY_LEN, 1024: queries are padded to this many bytes
  SIG, VER, NONC, DELE, PATH, RADI, PUBK, MIDP, SREP,
  MINT, ROOT, CERT, MAXT, INDX, PAD,
  SigSize,                    \* ED25519_SIG_SIZE: 64
  PubkSize,                   \* the size of a public key: 32
  ShortNode, LongNode,        \* the size of a node of the tree and of a nonce: 32 bytes, and
                              \* 64 in the format from before variant 5
  ContextCert, ContextResp,   \* what a certificate and a response are signed with
  Hash(_)                     \* SHA-512: LongNode bytes, for any sequence of words

ASSUME ModAssumption == Mod \in Nat /\ Mod > 0
\* A packet has room for its first nine words.
ASSUME QueryLenAssumption == QueryLen \in Nat /\ QueryLen >= 24
\* The magic, taken for a number of tags, is more than fit in any packet.
ASSUME MagicAssumption == Magic[1] \in Nat /\ 4 * Magic[1] >= Mod
ASSUME SizeAssumption ==
  /\ SigSize \in Nat /\ PubkSize \in Nat /\ ShortNode \in Nat /\ LongNode \in Nat
  /\ ShortNode <= LongNode

\* VRT_QUERY_PACKET_LEN: the query with its header.
PacketLen == 12 + QueryLen

\* CERT_DELE_SIZE: a DELE holds PUBK, MINT and MAXT.
CertDeleSize == 24 + PubkSize + 8 + 8

\* MAX_SREP_SIZE: a SREP holds RADI, MIDP and ROOT.
MaxSrepSize == 36 + LongNode

\* Ed25519, reduced to one key for both ends: the signature of a content, which
\* is a number of bytes and the words that hold them.
Signature(key, context, content) ==
  SubSeq(Hash(key \o context \o <<content.size>> \o content.words), 1, SigSize \div 4)

Content(size, words) == [size |-> size, words |-> words]

\* crypto_sign_open; VerifyingKey.verify
SignOpen(signature, context, content, key) ==
  /\ signature.size = SigSize
  /\ signature.words = Signature(key, context, content)
=============================================================================
