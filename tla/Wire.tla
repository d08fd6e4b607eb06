-------------------------------- MODULE Wire --------------------------------
(***************************************************************************)
(* The wire format, across the three implementations: a packet is put      *)
(* together by class RoughtimePacket of examples/python/pyroughtime.py, or *)
(* is a query of one of the clients or a reply to one; it may be damaged   *)
(* or cut short on its way, and is read by all: by vrt_get_tag (module     *)
(* Blob), by the parser of RoughtimePacket (module Packet), and, if it is  *)
(* a reply, by the clients that judge it (Response, EspVrt and PyReply).   *)
(***************************************************************************)
EXTENDS EspVrt, PyReply, ServerReply

CONSTANTS
  BuildKeys,              \* keys of the leaf tags that packets are built of
  Trees,                  \* the trees of replies: levels, and the index of the nonce
  Midpoints,              \* the times the servers tell
  MaxTags,                \* tags in a packet, at most
  MaxWords,               \* words in the value of a tag, at most
  OutLens,                \* the sizes of out_query tried
  DamagedWords,           \* what a word may be damaged to
  MaxFaults               \* words damaged in a packet, at most

VARIABLES
  stage,    \* "build", "sent" or "failed"
  tags,     \* RoughtimePacket.tags of the packet being built
  inner,    \* the tags of the packet in its SREP
  query,    \* the nonce if this is a query, <<>> otherwise
  reply,    \* what a reply tells: its format, whether it has the header, the time
  packet,   \* the packet as it arrives: a sequence of words
  length,   \* its length in bytes
  top,      \* the end of what vrt_make_query wrote
  outLen,   \* and the size of the buffer it was given
  faults    \* what happened to the packet on the way

vars == <<stage, tags, inner, query, reply, packet, length, top, outLen, faults>>

Keys == LeafTags \cup ParentTags

NoReply == [told |-> FALSE]

Init ==
  /\ stage = "build" /\ tags = <<>> /\ inner = <<>> /\ query = <<>> /\ reply = NoReply
  /\ packet = <<>> /\ length = 0 /\ top = 0 /\ outLen = 0 /\ faults = 0

\* The contents of a value, different for every key.
Fill(key, n) == [k \in 1..n |-> key + 40]

\* What the clients ask with: a new format takes the first half of it.
SentNonce == Fill(NONC, LongNode \div 4)
Nonce(newver) == SubSeq(SentNonce, 1, NodeWords(newver))

-----------------------------------------------------------------------------
(* RoughtimePacket                                                         *)

\* add_tag with a leaf tag.
AddLeaf ==
  /\ stage = "build" /\ query = <<>> /\ Len(tags) < MaxTags
  /\ \E key \in BuildKeys, n \in 0..MaxWords :
       /\ ~ContainsTag(tags, key)
       /\ tags' = WithTag(tags, key, Fill(key, n))
  /\ UNCHANGED <<stage, inner, query, reply, packet, length, top, outLen, faults>>

\* add_tag with a packet of tags as the value.
AddPacket ==
  /\ stage = "build" /\ query = <<>> /\ Len(tags) < MaxTags
  /\ ~ContainsTag(tags, SREP)
  /\ \E sub \in SUBSET BuildKeys, n \in 0..MaxWords :
       /\ Cardinality(sub) \in 1..(MaxTags - 1)
       /\ inner' = FoldSet(LAMBDA key, ts : WithTag(ts, key, Fill(key, n)), <<>>, sub)
       /\ tags' = WithTag(tags, SREP, Encode(inner'))
  /\ UNCHANGED <<stage, query, reply, packet, length, top, outLen, faults>>

Send(words, bytes) ==
  stage' = "sent" /\ packet' = words /\ length' = bytes

\* get_value_bytes, for any packet that was built.
Encoded ==
  /\ stage = "build" /\ query = <<>>
  /\ \E words \in {Encode(tags), EncodeWithHeader(tags)} : Send(words, 4 * Len(words))
  /\ UNCHANGED <<tags, inner, query, reply, top, outLen, faults>>

\* The query of RoughtimeClient.query over UDP.
PyQuery ==
  /\ stage = "build" /\ tags = <<>>
  /\ \E newver \in BOOLEAN :
       LET version == IF newver THEN WithTag(<<>>, VER, <<Version>>) ELSE <<>>
           padded  == WithPadding(WithTag(version, NONC, Nonce(newver)))
           words   == IF newver THEN EncodeWithHeader(padded) ELSE Encode(padded)
       IN  /\ query' = IF newver THEN Nonce(newver) ELSE <<>>
           /\ tags' = padded /\ Send(words, 4 * Len(words))
  /\ UNCHANGED <<inner, reply, top, outLen, faults>>

\* vrt_make_query
CQuery ==
  /\ stage = "build" /\ tags = <<>>
  /\ \E size \in OutLens, variant \in {0, 5}, words \in 0..(LongNode \div 4) :
       LET nonce == SubSeq(SentNonce, 1, words)
           made  == MakeQuery(nonce, size, variant)
       IN  /\ top' = made.builder.top /\ outLen' = size
           /\ IF made.ret = "success"
                THEN /\ query' = IF variant >= 5 THEN Nonce(TRUE) ELSE <<>>
                     /\ Send(SubSeq(made.builder.buffer, 1, made.len \div 4), made.len)
                ELSE /\ stage' = IF made.ret = "abort" THEN "aborted" ELSE "failed"
                     /\ UNCHANGED <<query, packet, length>>
  /\ UNCHANGED <<tags, inner, reply, faults>>

\* doit of the sketch: all of the buffer is sent, in both formats.
EspQuery ==
  /\ stage = "build" /\ tags = <<>>
  /\ \E variant \in {0, 1} :
       LET made == EspMakeQuery(SentNonce, PacketLen, variant)
       IN  /\ top' = made.builder.top /\ outLen' = PacketLen
           /\ IF made.ret = "success"
                THEN /\ query' = IF variant = 1 THEN Nonce(TRUE) ELSE <<>>
                     /\ Send(made.builder.buffer, PacketLen)
                ELSE stage' = "aborted" /\ UNCHANGED <<query, packet, length>>
  /\ UNCHANGED <<tags, inner, reply, faults>>

-----------------------------------------------------------------------------
(* Servers                                                                 *)

SendReply(newver, header, nonces, index, midp) ==
  LET ts    == Reply(newver, Version, nonces, index, midp)
      words == IF header THEN EncodeWithHeader(ts) ELSE Encode(ts)
  IN  /\ stage = "build" /\ tags = <<>>
      /\ tags' = ts /\ inner' = Srep(newver, nonces, midp)
      /\ reply' = [told |-> TRUE, newver |-> newver, header |-> header, midp |-> midp]
      /\ Send(words, 4 * Len(words))
      /\ UNCHANGED <<query, top, outLen, faults>>

\* __recv_thread: a tree of one nonce, and no header.
ServerReplies ==
  \E midp \in Midpoints : SendReply(TRUE, FALSE, <<Nonce(TRUE)>>, 0, midp)

\* Other servers: the header in the new format, and the nonces of other clients.
OthersReply ==
  \E newver \in BOOLEAN, tree \in Trees, midp \in Midpoints :
    LET nonces == [k \in 1..2^tree.levels |-> IF k = tree.index + 1 THEN Nonce(newver)
                                                                    ELSE <<k>>]
    IN  SendReply(newver, newver, nonces, tree.index, midp)

-----------------------------------------------------------------------------
(* The way to the receiver                                                 *)

Damage ==
  /\ stage = "sent" /\ faults < MaxFaults /\ length = 4 * Len(packet)
  /\ \E k \in DOMAIN packet : \E w \in DamagedWords \cup {packet[k] - 4, packet[k] + 4} :
       w # packet[k] /\ w \in 0..(Mod - 1) /\ packet' = [packet EXCEPT ![k] = w]
  /\ faults' = faults + 1
  /\ UNCHANGED <<stage, tags, inner, query, reply, length, top, outLen>>

CutShort ==
  /\ stage = "sent" /\ faults = 0
  /\ \E bytes \in 0..(length - 1) :
       length' = bytes /\ packet' = SubSeq(packet, 1, (bytes + 3) \div 4)
  /\ faults' = MaxFaults
  /\ UNCHANGED <<stage, tags, inner, query, reply, top, outLen>>

Received ==
  stage # "build" /\ UNCHANGED vars

Next ==
  \/ AddLeaf \/ AddPacket \/ Encoded \/ PyQuery \/ CQuery \/ EspQuery
  \/ ServerReplies \/ OthersReply \/ Damage \/ CutShort \/ Received

Spec == Init /\ [][Next]_vars

-----------------------------------------------------------------------------
(* The readers                                                             *)

CRead(variant, key)          == GetTagOf(packet, Opened(packet, length, variant), key)
CReadIn(variant, outer, key) == GetTagOf(packet, CRead(variant, outer), key)

\* A lookup for each of the keys, in what the one before returned, as long as
\* that lies in the packet.
Lookups(variant, keys) ==
  LET found[k \in 0..Len(keys)] ==
        IF k = 0 THEN Opened(packet, length, variant)
        ELSE IF Inside(found[k - 1].blob, length) THEN GetTagOf(packet, found[k - 1], keys[k])
                                                  ELSE found[k - 1]
  IN  {found[k] : k \in 0..Len(keys)}

\* The lookups of vrt_parse_response, or those of the keys packets are built of, at
\* the top and in SREP.
Chains ==
  IF reply.told
    THEN {<<SREP, ROOT>>, <<SREP, MIDP>>, <<SREP, RADI>>, <<SIG>>, <<CERT, SIG>>, <<INDX>>,
          <<PATH>>, <<CERT, DELE, PUBK>>, <<CERT, DELE, MINT>>, <<CERT, DELE, MAXT>>}
    ELSE {<<key>> : key \in BuildKeys} \cup {<<SREP, key>> : key \in BuildKeys \cup {SREP}}

\* RoughtimeServer.__recv_thread takes the packet for a query with this nonce.
ServerTakes(nonce) ==
  LET whole == [at |-> 0, size |-> length]
  IN  /\ length >= QueryLen
      /\ Parses(packet, length)
      /\ PyGetTag(packet, whole, VER) # {}
      /\ \E t \in PyGetTag(packet, whole, NONC) :
           /\ t.size = ShortNode
           /\ Bytes(packet, RangeOf(t)) = nonce

-----------------------------------------------------------------------------
(* Properties                                                              *)

ContentsOf(blob) == SubSeq(packet, blob.at + 1, blob.at + blob.size \div 4)

\* What arrives is a sequence of words that holds as many bytes as it says.
Arrived ==
  packet \in Seq(0..(Mod - 1)) /\ length \in 0..(Mod - 1) /\ length <= 4 * Len(packet)

\* However a packet was damaged, every blob that vrt_get_tag returns, at the top
\* or within other tags, lies in the bytes that were received.
InBounds ==
  /\ Arrived
  /\ stage = "sent" => \A variant \in {0, 5}, keys \in Chains :
       \A result \in Lookups(variant, keys) :
         result.ret = "success" => Inside(result.blob, length)

\* What Python wrote, with or without a header, C reads back: the value of every
\* tag of the packet and of the packet in its SREP, and no other tag.
ReadBack(read(_), written) ==
  \A key \in Keys :
    LET result == read(key)
    IN  IF ContainsTag(written, key)
          THEN /\ result.ret = "success"
               /\ \E k \in DOMAIN written : /\ written[k].key = key
                                            /\ written[k].value = ContentsOf(result.blob)
          ELSE result.ret = "tag not found"

RoundTrip ==
  stage = "sent" /\ faults = 0 /\ outLen = 0 =>
    LET variant == IF IsPrefix(Magic, packet) THEN 5 ELSE 0
    IN  /\ ReadBack(LAMBDA key : CRead(variant, key), tags)
        /\ ContainsTag(tags, SREP) =>
             ReadBack(LAMBDA key : CReadIn(variant, SREP, key), inner)

\* Where the Python parser accepts a packet, damaged or not, the two readers see
\* the same: C finds every tag whose value starts at a word and does not end
\* before it starts, and finds it at the same bytes; it finds no others.
SameBytes ==
  stage = "sent" /\ Parses(packet, length) =>
    LET whole   == [at |-> 0, size |-> length]
        variant == IF HasHeader(packet, whole) THEN 5 ELSE 0
    IN  \A key \in Keys :
          LET result == CRead(variant, key)
              found  == PyGetTag(packet, whole, key)
          IN  /\ found = {} => result.ret = "tag not found"
              /\ \A t \in found :
                   t.at % 4 = 0 =>
                     IF t.at <= t.end
                       THEN /\ result.ret = "success"
                            /\ result.blob = [at |-> t.at \div 4, size |-> t.size]
                       ELSE result.ret = "malformed"

\* Every query that a client of variant 5 or later builds, in C or in Python, is
\* one that the server in this repository answers, with the nonce it was given.
QueryServed ==
  /\ stage # "aborted"
  /\ stage = "sent" /\ faults = 0 /\ query # <<>> => ServerTakes(query)

-----------------------------------------------------------------------------
(* The verdicts on a reply, by a client that asked in one of the formats   *)

CVerdict(newver) ==
  ParseResponse(packet, length, SentNonce, RootKey, IF newver THEN 5 ELSE 0)
EspVerdict(newver) ==
  EspParseResponse(packet, length, SentNonce, RootKey, IF newver THEN 1 ELSE 0)
PyAccepts(newver) ==
  PyVerifies(packet, length, Nonce(newver), RootKey, newver)

Accepted(verdict) == verdict.ret = "success"
Microseconds(midp, newver) == ToMicroseconds(midp, IF newver THEN 5 ELSE 0)

Judged == stage = "sent" /\ reply.told

CHeader(newver)   == HeaderChecked(packet, length, IF newver THEN 5 ELSE 0)
EspHeader(newver) == EspHeaderChecked(packet, length, IF newver THEN 1 ELSE 0)

\* The accesses of a client that made this of the header.
StaysInside(verdict, header) ==
  \A a \in verdict.accesses :
    /\ a.size <= a.room
    /\ 4 * a.at + a.size <=
         IF a = LengthShown /\ header.ret # "success" THEN PacketLen ELSE length

\* Whatever arrives, the checks of a reply read only bytes that were received,
\* and copy no more of them than there is room for.  The message for a wrong
\* length alone reads a word that may lie behind them (vrt.c:413), but not behind
\* the buffer of VRT_QUERY_PACKET_LEN bytes that both clients receive in.
NoStrayAccess ==
  Judged => \A newver \in BOOLEAN :
    /\ StaysInside(CVerdict(newver), CHeader(newver))
    /\ StaysInside(EspVerdict(newver), EspHeader(newver))

\* What the C client and the ESP32 make of the same bytes.  A time before 1970
\* they count in 64 and in 32 bits.
CopiesAgree(c, esp, newver) ==
  /\ Accepted(esp) => Accepted(c)
  /\ Accepted(c) => (Accepted(esp) <=> (newver => packet[3] = length - 12))
  /\ Accepted(esp) =>
       /\ c.radi = esp.radi
       /\ (newver => esp.midp \div DayWord >= Epoch) =>
            c.midp = SketchTime(esp.midp, IF newver THEN 1 ELSE 0)

\* What the C client and Python are told.  C takes a value that starts within a
\* word for one that starts with it, and the first half of a RADI of eight bytes.
ToldAlike(c, newver) ==
  LET srep == Get(packet, Whole(length), SREP)
      midp == Get(packet, srep, MIDP)
      radi == Get(packet, srep, RADI)
  IN  Accepted(c) /\ PyAccepts(newver) =>
        /\ radi.at % 4 = 0 /\ radi.size = 4 => c.radi = PyRadi(packet, length)
        /\ midp.at % 4 = 0 => c.midp = Microseconds(PyMidp(packet, length), newver)

\* The two copies of vrt.c judge alike, damaged or not, but for the bytes that
\* may follow a packet; and where C and Python accept, they are told the same.
SameVerdict ==
  Judged => \A newver \in BOOLEAN :
    /\ CopiesAgree(CVerdict(newver), EspVerdict(newver), newver)
    /\ ToldAlike(CVerdict(newver), newver)

\* A reply that arrives as it was sent is accepted by the client it answers: by
\* the Python client up to the ends of the delegation, by the C clients between
\* them and, in the new format, only with the header.
ReplyTaken ==
  Judged /\ faults = 0 =>
    LET newver == reply.newver
        taken  == /\ newver => reply.header
                  /\ DeleFrom < reply.midp /\ reply.midp < DeleUntil
    IN  /\ PyAccepts(newver) <=> DeleFrom <= reply.midp /\ reply.midp <= DeleUntil
        /\ Accepted(CVerdict(newver)) <=> taken
        /\ Accepted(EspVerdict(newver)) <=> taken

\* Whatever happened to a reply, a client that accepts it is told the time and
\* the accuracy that the server signed.
AcceptedIsSigned ==
  Judged => \A newver \in BOOLEAN :
    /\ Accepted(CVerdict(newver)) =>
         /\ CVerdict(newver).midp = Microseconds(reply.midp, newver)
         /\ CVerdict(newver).radi = Radius
    /\ PyAccepts(newver) =>
         PyMidp(packet, length) = reply.midp /\ PyRadi(packet, length) = Radius

\* vrt_make_query writes no further than the end of out_query.
WithinBuffer == top <= outLen
=============================================================================
