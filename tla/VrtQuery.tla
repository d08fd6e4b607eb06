------------------------------ MODULE VrtQuery ------------------------------
(***************************************************************************)
(* The writer of queries in examples/C/vrt.c: struct vrt_builder and       *)
(* vrt_query_init, vrt_query_add_tag, vrt_query_finish, vrt_make_query.    *)
(*                                                                         *)
(* The pointers of the builder are word indices into out_query.  What is   *)
(* written past the end of the buffer is not kept, but top remembers the   *)
(* end of the highest byte that was written.                               *)
(***************************************************************************)
EXTENDS Protocol, FiniteSetsExt

CONSTANT Version    \* the word 0x08000003; Python sends 0x80000003, and no receiver reads it

Written(b, at, words) ==
  [b EXCEPT !.buffer = [k \in DOMAIN @ |-> IF k \in (at + 1)..(at + Len(words))
                                             THEN words[k - at] ELSE @[k]],
            !.top    = Max({@, 4 * (at + Len(words))})]

Zeroes(n) == [k \in 1..n |-> 0]

\* memset(out_query, 0, *out_query_len)
Builder(out_query_len, max_size) ==
  [buffer |-> Zeroes(out_query_len \div 4), top |-> out_query_len, max_size |-> max_size,
   num_tags |-> 0, current_tag |-> 0, size_ptr |-> 0, tag_ptr |-> 0, data_ptr |-> 0,
   offset |-> 0, aborted |-> FALSE]

\* Variation of QueryInit: the header counts its own size too.
QueryInitCountsHeader(b, num_tags, variant) ==
  LET header == IF variant >= 5 THEN Append(Magic, PacketLen) ELSE <<>>
      start  == Len(header)
  IN  [Written(b, 0, Append(header, num_tags)) EXCEPT
         !.num_tags = num_tags,
         !.size_ptr = start + 1,
         !.tag_ptr  = start + 1 + (num_tags - 1),
         !.data_ptr = start + 1 + (num_tags - 1) + num_tags]

\* vrt_query_init
QueryInit(b, num_tags, variant) ==
  LET header == IF variant >= 5 THEN Append(Magic, QueryLen) ELSE <<>>
      start  == Len(header)
  IN  [Written(b, 0, Append(header, num_tags)) EXCEPT
         !.num_tags = num_tags,
         !.size_ptr = start + 1,
         !.tag_ptr  = start + 1 + (num_tags - 1),
         !.data_ptr = start + 1 + (num_tags - 1) + num_tags]

\* The assertions of vrt_query_add_tag
MayAdd(b, tag, data) ==
  /\ b.current_tag <= b.num_tags
  /\ 4 * b.data_ptr + 4 * Len(data) <= b.max_size
  /\ b.current_tag > 0 => b.buffer[b.tag_ptr + b.current_tag] < tag

\* vrt_query_add_tag: every tag but the first records where it starts.
AddTag(b, tag, data) ==
  LET sized  == IF b.current_tag = 0 THEN b
                ELSE Written(b, b.size_ptr + b.current_tag - 1, <<b.offset>>)
      tagged == Written(sized, b.tag_ptr + b.current_tag, <<tag>>)
      filled == Written(tagged, b.data_ptr + b.offset \div 4, data)
  IN  IF b.aborted \/ ~MayAdd(b, tag, data) THEN [b EXCEPT !.aborted = TRUE]
      ELSE [filled EXCEPT !.current_tag = @ + 1, !.offset = @ + 4 * Len(data)]

\* vrt_query_finish: everything up to max_size is cleared.
Finish(b) ==
  LET end == b.data_ptr + b.offset \div 4
  IN  IF b.aborted \/ b.current_tag # b.num_tags THEN [b EXCEPT !.aborted = TRUE]
      ELSE Written(b, end, Zeroes(b.max_size \div 4 - end))

\* The nonce is a sequence of words; the first ones of it are sent.
NonceTag(nonce, size) == SubSeq(nonce, 1, size \div 4)

WrongSize(b)   == [ret |-> "wrong size", builder |-> b, len |-> 0]
Made(b, len)   == [ret |-> IF b.aborted THEN "abort" ELSE "success", builder |-> b, len |-> len]

\* vrt_make_query, the branches for variant >= 5 and for the variants before.
MakeNewQuery(nonce, out_query_len, variant) ==
  LET start   == Builder(out_query_len, 12 + PacketLen)
      started == AddTag(QueryInit(start, 3, variant), VER, <<Version>>)
      nonced  == AddTag(started, NONC, NonceTag(nonce, ShortNode))
  IN  CASE out_query_len < PacketLen      -> WrongSize(start)
        [] /\ out_query_len >= PacketLen
           /\ 4 * Len(nonce) < ShortNode -> WrongSize(started)
        [] OTHER -> Made(Finish(AddTag(nonced, PAD, <<>>)), PacketLen)

MakeOldQuery(nonce, out_query_len, variant) ==
  LET start   == Builder(out_query_len, QueryLen)
      started == QueryInit(start, 2, variant)
      nonced  == AddTag(started, NONC, NonceTag(nonce, LongNode))
  IN  CASE out_query_len < QueryLen       -> WrongSize(start)
        [] /\ out_query_len >= QueryLen
           /\ 4 * Len(nonce) < LongNode  -> WrongSize(started)
        [] OTHER -> Made(Finish(AddTag(nonced, PAD, <<>>)), QueryLen)

MakeQuery(nonce, out_query_len, variant) ==
  IF variant >= 5 THEN MakeNewQuery(nonce, out_query_len, variant)
                  ELSE MakeOldQuery(nonce, out_query_len, variant)
=============================================================================
