------------------------------- MODULE EspVrt -------------------------------
(***************************************************************************)
(* examples/esp32/roughtime/vrt.c, an older copy of examples/C/vrt.c.  The *)
(* reader and the checks of the parts of a reply are the same text, so     *)
(* that they are the operators of Blob and Response; the writer has one    *)
(* buffer size for all variants and tests no sizes; vrt_parse_response     *)
(* checks in another order, wants the exact length and converts no time.   *)
(*                                                                         *)
(* The variants are numbered RT_PRE_IETF = 0 and RT_IETF_DRAFT_05 = 1.     *)
(***************************************************************************)
EXTENDS VrtQuery, Response

Draft05(variant)  == variant >= 1
CVariant(variant) == IF Draft05(variant) THEN 5 ELSE 0

-----------------------------------------------------------------------------
(* The writer: struct rt_builder.  max_size is RT_MAX_PACKET_SIZE.         *)

EspBuilder(buffer_len) == Builder(buffer_len, PacketLen)

\* rt_query_init, rt_query_add_tag, rt_query_finish
EspQueryInit(b, num_tags, variant) == QueryInit(b, num_tags, CVariant(variant))
EspAddTag(b, tag, data)            == AddTag(b, tag, data)
EspFinish(b)                       == Finish(b)

\* rt_query_make
EspQueryMake(b, nonc, variant) ==
  LET started == EspAddTag(EspQueryInit(b, 3, variant), VER, <<Version>>)
      old     == EspQueryInit(b, 2, variant)
      nonced  == IF Draft05(variant) THEN EspAddTag(started, NONC, NonceTag(nonc, ShortNode))
                                     ELSE EspAddTag(old, NONC, NonceTag(nonc, LongNode))
  IN  EspFinish(EspAddTag(nonced, PAD, <<>>))

\* vrt_make_query: neither nonce_len nor out_query_len is looked at.
EspMakeQuery(nonce, out_query_len, variant) ==
  Made(EspQueryMake(EspBuilder(out_query_len), nonce, variant), out_query_len)

-----------------------------------------------------------------------------
(* The reader, the text of examples/C/vrt.c.                               *)

\* vrt_blob_init
EspBlobInit(at, size) == BlobInit(at, size)

\* vrt_blob_r32, vrt_blob_r64, vrt_blob_slice and vrt_get_tag, which calls them
EspGetTag(p, result, tag) == GetTagOf(p, result, tag)

\* vrt_verify_dele
EspVerifyDele(p, cert_sig, cert_dele, key) == VerifyDele(p, cert_sig, cert_dele, key)

\* vrt_verify_pubk
EspVerifyPubk(p, sig, srep, pubk) == VerifyPubk(p, sig, srep, pubk)

\* vrt_hash_leaf, vrt_hash_node and vrt_verify_nonce, which calls them
EspVerifyNonce(p, srep, indx, path, nonce, variant) ==
  VerifyNonce(p, srep, indx, path, nonce, CVariant(variant))

\* vrt_verify_bounds
EspVerifyBounds(p, srep, dele) == VerifyBounds(p, srep, dele)

-----------------------------------------------------------------------------
(* vrt_parse_response                                                      *)

\* Variation of EspHeaderChecked: bytes behind the packet are accepted, as in C.
EspHeaderAtLeast(p, length, variant) == HeaderChecked(p, length, CVariant(variant))

EspHeaderChecked(p, length, variant) ==
  CASE ~Draft05(variant)                  -> Step("success", {})
    [] Draft05(variant) /\ length < 12    -> Step("wrong size", {})
    [] Draft05(variant) /\ length >= 12   -> HeaderRead(p, length - 12 = p[3])

EspOpened(p, length, variant) ==
  LET header == EspHeaderChecked(p, length, variant).ret
  IN  CASE header # "success"                        -> Failure(header)
        [] header = "success" /\ ~Draft05(variant)   -> EspBlobInit(0, length)
        [] header = "success" /\ Draft05(variant)    -> EspBlobInit(3, length - 12)

EspTags(p, opened) ==
  LET cert      == EspGetTag(p, opened, CERT)
      cert_dele == EspGetTag(p, cert, DELE)
  IN  [opened |-> opened,
       srep |-> EspGetTag(p, opened, SREP), sig |-> EspGetTag(p, opened, SIG),
       cert |-> cert, cert_sig |-> EspGetTag(p, cert, SIG), cert_dele |-> cert_dele,
       pubk |-> EspGetTag(p, cert_dele, PUBK),
       indx |-> EspGetTag(p, opened, INDX), path |-> EspGetTag(p, opened, PATH)]

EspChecked(p, length, nonce, pk, variant, tags) ==
  Run(<<EspHeaderChecked(p, length, variant),
        Step(Check(4 * Len(nonce) >= LongNode, "wrong size"), {}),
        TagsFound(tags),
        EspVerifyDele(p, tags.cert_sig.blob, tags.cert_dele.blob, pk),
        PubkSized(tags.pubk.blob),
        EspVerifyPubk(p, tags.sig.blob, tags.srep.blob, tags.pubk.blob),
        EspVerifyNonce(p, tags.srep.blob, tags.indx.blob, tags.path.blob, nonce, variant),
        EspVerifyBounds(p, tags.srep.blob, tags.cert_dele.blob)>>)

EspParseResponse(p, length, nonce, pk, variant) ==
  LET tags == EspTags(p, EspOpened(p, length, variant))
  IN  Verdict(EspChecked(p, length, nonce, pk, variant, tags),
              Midp(p, tags.srep.blob), Radi(p, tags.srep.blob))

\* The conversion that doit of the sketch makes of an accepted time: mjd is an
\* unsigned of 32 bits.
SketchTime(midp, variant) ==
  IF variant = 0 THEN midp
  ELSE (((midp \div DayWord - Epoch) % Mod) * DayLen + (midp % DayWord)) % (Mod * Mod)
=============================================================================
