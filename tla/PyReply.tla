------------------------------- MODULE PyReply -------------------------------
(***************************************************************************)
(* How the Python client judges a reply: query of RoughtimeClient in       *)
(* examples/python/pyroughtime.py, from the received packet on, over the   *)
(* words of the packet.  A client is newver, or speaks the format from     *)
(* before the IETF drafts.                                                 *)
(***************************************************************************)
EXTENDS Packet

CONSTANT Byte           \* 256: four bytes make a word

ASSUME ByteAssumption == Byte \in Nat \ {0} /\ Mod = Byte * Byte * Byte * Byte

Whole(length) == [at |-> 0, size |-> length]

Has(p, r, key) == PyGetTag(p, r, key) # {}
Get(p, r, key) == RangeOf(CHOOSE t \in PyGetTag(p, r, key) : TRUE)

\* The word that starts at this byte, which may lie within a word of the packet.
WordAt(p, at) ==
  LET k   == at \div 4 + 1
      low == Byte^(at % 4)
  IN  IF at % 4 = 0 THEN p[k] ELSE p[k] \div low + (Mod \div low) * (p[k + 1] % low)

\* get_value_bytes, or get_received of a parent tag
Bytes(p, r) == [k \in 1..(r.size \div 4) |-> WordAt(p, r.at + 4 * (k - 1))]
GetReceived(p, r) == Content(r.size, Bytes(p, r))

\* to_int raises unless there are four or eight bytes.
IsInt(r)    == r.size \in {4, 8}
ToInt(p, r) == IF r.size = 4 THEN Bytes(p, r)[1] ELSE Bytes(p, r)[1] + Mod * Bytes(p, r)[2]

\* The tags that query wants, once there are SREP, CERT and DELE.
Complete(p, length) ==
  LET whole == Whole(length)
  IN  /\ Has(p, whole, SREP) /\ Has(p, whole, CERT)
      /\ Has(p, Get(p, whole, CERT), DELE)
      /\ LET srep == Get(p, whole, SREP)
             cert == Get(p, whole, CERT)
             dele == Get(p, cert, DELE)
         IN  /\ Has(p, cert, SIG) /\ Has(p, whole, SIG)
             /\ \A key \in {MIDP, RADI, ROOT} : Has(p, srep, key)
             /\ \A key \in {INDX, PATH} : Has(p, whole, key)
             /\ \A key \in {PUBK, MINT, MAXT} : Has(p, dele, key)
             /\ \A r \in {Get(p, srep, MIDP), Get(p, srep, RADI), Get(p, whole, INDX),
                          Get(p, dele, MINT), Get(p, dele, MAXT)} : IsInt(r)

\* The hash at the end of the path, whose nodes are node words each.
PyClimbed(path, indx, nonce, node) ==
  LET hash[k \in 0..(Len(path) \div node)] ==
        IF k = 0 THEN SubSeq(Hash(<<0>> \o nonce), 1, node)
        ELSE LET other == SubSeq(path, (k - 1) * node + 1, k * node)
             IN  SubSeq(Hash(<<1>> \o IF (indx \div 2^(k - 1)) % 2 = 0
                                        THEN hash[k - 1] \o other ELSE other \o hash[k - 1]),
                        1, node)
  IN  hash[Len(path) \div node]

PyMidp(p, length) == ToInt(p, Get(p, Get(p, Whole(length), SREP), MIDP))
PyRadi(p, length) == ToInt(p, Get(p, Get(p, Whole(length), SREP), RADI))

\* query returns and does not raise.
PyVerifies(p, length, nonce, pubkey, newver) ==
  /\ Parses(p, length)
  /\ Complete(p, length)
  /\ newver => Has(p, Whole(length), NONC) /\ Bytes(p, Get(p, Whole(length), NONC)) = nonce
  /\ LET whole == Whole(length)
         srep  == Get(p, whole, SREP)
         cert  == Get(p, whole, CERT)
         dele  == Get(p, cert, DELE)
         path  == Bytes(p, Get(p, whole, PATH))
         indx  == ToInt(p, Get(p, whole, INDX))
         midp  == PyMidp(p, length)
         node  == NodeWords(newver)
     IN  /\ SignOpen(GetReceived(p, Get(p, cert, SIG)), ContextCert, GetReceived(p, dele), pubkey)
         /\ ToInt(p, Get(p, dele, MINT)) <= midp /\ midp <= ToInt(p, Get(p, dele, MAXT))
         /\ Len(path) % node = 0 /\ Len(path) \div node <= 32
         /\ indx \div 2^(Len(path) \div node) = 0
         /\ PyClimbed(path, indx, nonce, node) = Bytes(p, Get(p, srep, ROOT))
         /\ SignOpen(GetReceived(p, Get(p, whole, SIG)), ContextResp, GetReceived(p, srep),
                     Bytes(p, Get(p, dele, PUBK)))
=============================================================================
