------------------------------- MODULE Packet -------------------------------
(***************************************************************************)
(* Class RoughtimePacket of examples/python/pyroughtime.py: how a packet   *)
(* is written (get_value_bytes, add_tag, add_padding) and how a received   *)
(* one is parsed (__init__).                                               *)
(*                                                                         *)
(* A packet is a sequence of 32 bit words.  A value that was parsed is the *)
(* range of bytes it has in the packet.                                    *)
(***************************************************************************)
EXTENDS Protocol, SequencesExt, FiniteSetsExt

\* leaf_tags, and parent_tags, whose values are packets.
LeafTags   == {SIG, INDX, PATH, ROOT, MIDP, RADI, PAD, NONC, MINT, MAXT, PUBK, VER}
ParentTags == {SREP, CERT, DELE}

\* node_size, in words.
NodeWords(newver) == (IF newver THEN ShortNode ELSE LongNode) \div 4

-----------------------------------------------------------------------------
(* Writing.  The tags of a packet are a sequence of keys and values.       *)

\* contains_tag
ContainsTag(tags, key) == \E k \in DOMAIN tags : tags[k].key = key

\* add_tag: appended, then sorted by key.  (A key that is there raises.)
WithTag(tags, key, value) ==
  SortSeq(Append(tags, [key |-> key, value |-> value]), LAMBDA s, t : s.key < t.key)

Values(tags) == FlattenSeq([k \in DOMAIN tags |-> tags[k].value])

\* Every tag but the last is followed by one at this offset.
Offsets(tags) ==
  [k \in 1..(Len(tags) - 1) |-> 4 * Len(Values(SubSeq(tags, 1, k)))]

\* get_value_bytes
Encode(tags) ==
  <<Len(tags)>> \o Offsets(tags) \o [k \in DOMAIN tags |-> tags[k].key] \o Values(tags)

EncodeWithHeader(tags) ==
  Magic \o <<4 * Len(Encode(tags))>> \o Encode(tags)

\* add_padding: a tag that brings the packet to QueryLen bytes.
WithPadding(tags) ==
  LET packetlen == 4 * Len(Encode(tags))
      padlen    == QueryLen - 8 - packetlen
  IN  IF packetlen >= QueryLen THEN tags
      ELSE WithTag(tags, PAD, [k \in 1..(padlen \div 4) |-> 0])

-----------------------------------------------------------------------------
(* Parsing the range r of bytes of packet p.  "unaligned" stands for a     *)
(* parent tag that starts within a word, which is not looked into.         *)

PyWord(p, r, i) == p[r.at \div 4 + i + 1]

HasHeader(p, r) == PyWord(p, r, 0) = Magic[1] /\ PyWord(p, r, 1) = Magic[2]

\* The range without the header.
Body(p, r) ==
  IF HasHeader(p, r) THEN [at |-> r.at + 12, size |-> r.size - 12] ELSE r

HeaderOK(p, r) ==
  /\ r.size % 4 = 0
  /\ r.size >= 8
  /\ HasHeader(p, r) => r.size >= 16 /\ r.size - 12 = PyWord(p, r, 2)

\* The i-th tag of a packet without header.  A value that ends before it
\* starts is empty in Python.
PyTag(p, b, i) ==
  LET num_tags == PyWord(p, b, 0)
      offset   == 8 * num_tags + IF i = 0 THEN 0 ELSE PyWord(p, b, i)
      end      == IF i = num_tags - 1 THEN b.size
                                      ELSE 8 * num_tags + PyWord(p, b, i + 1)
  IN  [key  |-> PyWord(p, b, num_tags + i), at |-> b.at + offset,
       size |-> Max({0, end - offset}), end |-> b.at + end]

PyTags(p, b) == {PyTag(p, b, i) : i \in 0..(PyWord(p, b, 0) - 1)}

\* No key comes twice: add_tag and contains_tag.
NeighboursDiffer(p, b) ==   \* Variation: only neighbours are compared.
  \A i \in 1..(PyWord(p, b, 0) - 1) : PyTag(p, b, i).key # PyTag(p, b, i - 1).key

KeysDiffer(p, b) ==
  \A i, j \in 0..(PyWord(p, b, 0) - 1) : PyTag(p, b, i).key = PyTag(p, b, j).key => i = j

\* What one level of the parser refuses: a packet too short for its tags, a
\* value that ends outside of the packet or is no whole number of words, and
\* a key that comes twice or is unknown.
LevelOK(p, r) ==
  LET b == Body(p, r)
  IN  /\ HeaderOK(p, r)
      /\ 8 * PyWord(p, b, 0) <= b.size
      /\ \A t \in PyTags(p, b) :
           /\ t.at <= b.at + b.size /\ t.end <= b.at + b.size
           /\ t.size % 4 = 0
           /\ t.key \in LeafTags \cup ParentTags
      /\ KeysDiffer(p, b)

\* The ranges of bytes in a packet of this length.
Ranges(length) ==
  {r \in [at : 0..length, size : 0..length] : r.at + r.size <= length}

RangeOf(t) == [at |-> t.at, size |-> t.size]

\* RoughtimePacket(packet = p[:length]) returns and does not raise.
Parses(p, length) ==
  LET Parse[r \in Ranges(length)] ==
        /\ r.at % 4 = 0
        /\ LevelOK(p, r)
        /\ \A t \in PyTags(p, Body(p, r)) :
             t.key \in ParentTags => Parse[RangeOf(t)]
  IN  Parse[[at |-> 0, size |-> length]]

\* get_tag on a packet that parsed: the tags with this key, one at most.
PyGetTag(p, r, key) == {t \in PyTags(p, Body(p, r)) : t.key = key}
=============================================================================
