-------------------------------- MODULE Blob --------------------------------
(***************************************************************************)
(* The reader of roughtime packets in examples/C/vrt.c: vrt_blob_init,     *)
(* vrt_blob_r32, vrt_blob_slice and vrt_get_tag.                           *)
(*                                                                         *)
(* A packet is a sequence of 32 bit words; a blob is the part of it that   *)
(* starts at the word with index at (from 0) and has size bytes.  Offsets  *)
(* and sizes are uint32_t in the code, so that they are kept modulo Mod.   *)
(***************************************************************************)
EXTENDS Protocol, FiniteSetsExt

Blobs == [at : Nat, size : Nat]

NoBlob == [at |-> 0, size |-> 0]

\* What the functions return: a return code and the blob they filled in.
Success(blob)  == [ret |-> "success", blob |-> blob]
Failure(error) == [ret |-> error, blob |-> NoBlob]

\* vrt_blob_init: a size that is no multiple of four is refused.
BlobInit(at, size) ==
  IF size % 4 = 0 THEN Success([at |-> at, size |-> size]) ELSE Failure("malformed")

\* The check of vrt_blob_r32, and the word it reads.
Readable(blob, i)  == i < blob.size \div 4
Word(p, blob, i)   == p[blob.at + i + 1]

\* Variation of SliceFits: the end is only looked at in 32 bits.
SliceFits32(blob, offset, size) == (4 * offset + size) % Mod <= blob.size

\* The two checks of vrt_blob_slice: the end of the slice, counted in 32 bits,
\* is its true end, and lies in the blob.
SliceFits(blob, offset, size) ==
  LET end64 == 4 * offset + size
      end   == end64 % Mod
  IN  end64 = end /\ end <= blob.size

Slice(blob, offset, size) ==
  IF SliceFits(blob, offset, size)
    THEN Success([at |-> blob.at + offset, size |-> size])
    ELSE Failure("malformed")

-----------------------------------------------------------------------------
(* vrt_get_tag.  The tags follow the number of tags and the num_tags - 1   *)
(* offsets, so that the word with index num_tags + i is the i-th tag.      *)

TagEnd(p, in, num_tags, i) ==
  IF i = num_tags - 1 THEN (in.size - 8 * num_tags) % Mod ELSE Word(p, in, i + 1)

\* Variation of TagOffset: the offset of the first tag is read like the others.
TagOffsetRead(p, in, i) == Word(p, in, i)

TagOffset(p, in, i) == IF i = 0 THEN 0 ELSE Word(p, in, i)

\* Where the loop over the tags ends early: at the wanted one, or at one that
\* is not in the blob.
StopsAt(p, in, tag_wanted, num_tags, i) ==
  LET at == (i + num_tags) % Mod
  IN  Readable(in, at) => Word(p, in, at) = tag_wanted

GetTag(p, in, tag_wanted) ==
  LET num_tags == Word(p, in, 0)
      stops    == {i \in 0..(num_tags - 1) : StopsAt(p, in, tag_wanted, num_tags, i)}
      i        == Min(stops)
      offset   == TagOffset(p, in, i)
  IN  CASE ~Readable(in, 0)                     -> Failure("malformed")
        [] Readable(in, 0) /\ stops = {}        -> Failure("tag not found")
        [] Readable(in, 0) /\ stops # {}        ->
             IF Readable(in, (i + num_tags) % Mod)
               THEN Slice(in, (2 * num_tags + offset \div 4) % Mod,
                          (TagEnd(p, in, num_tags, i) - offset) % Mod)
               ELSE Failure("malformed")

\* The tag of a blob that another vrt_get_tag returned.
GetTagOf(p, result, tag_wanted) ==
  IF result.ret = "success" THEN GetTag(p, result.blob, tag_wanted) ELSE result

-----------------------------------------------------------------------------
\* The blob lies in a packet of length bytes.
Inside(blob, length) == 4 * blob.at + blob.size <= length
=============================================================================
