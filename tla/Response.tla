------------------------------ MODULE Response ------------------------------
(***************************************************************************)
(* How a C client judges a reply: vrt_parse_response of examples/C/vrt.c   *)
(* and the functions it calls, over the words that were received.          *)
(*                                                                         *)
(* Each step returns a code and the accesses it made to the packet outside *)
(* of vrt_blob_r32: the word it starts at, its bytes, and how many bytes   *)
(* there is room for at the destination.  What lies behind the packet is   *)
(* taken as zero; how little of it is looked at is a property of Wire.     *)
(***************************************************************************)
EXTENDS Blob

CONSTANTS DayWord, Epoch, DayLen      \* 2^40, 40587 and 86400000000

ASSUME DayAssumption ==
  DayWord \in Nat /\ DayWord >= Mod /\ Epoch \in Nat /\ DayLen \in Nat

WordsAt(p, at, size) ==
  [k \in 1..((size + 3) \div 4) |-> IF at + k \in DOMAIN p THEN p[at + k] ELSE 0]

\* The bytes of a blob.
Data(p, blob) == Content(blob.size, WordsAt(p, blob.at, blob.size))

Access(at, size, room) == [at |-> at, size |-> size, room |-> room]

Step(ret, accesses) == [ret |-> ret, accesses |-> accesses]

\* CHECK_TRUE
Check(holds, error) == IF holds THEN "success" ELSE error

\* CHECK: of several checks in a row, the first that fails tells the outcome.
FirstError(codes) ==
  LET failed == {k \in DOMAIN codes : codes[k] # "success"}
  IN  IF failed = {} THEN "success" ELSE codes[Min(failed)]

Run(steps) ==
  LET failed == {k \in DOMAIN steps : steps[k].ret # "success"}
      last   == IF failed = {} THEN Len(steps) ELSE Min(failed)
  IN  Step(steps[last].ret, UNION {steps[k].accesses : k \in 1..last})

-----------------------------------------------------------------------------
(* Reading                                                                 *)

\* vrt_blob_r64
LongReadable(blob, i) == Readable(blob, i) /\ Readable(blob, i + 1)
LongWord(p, blob, i)  == Word(p, blob, i) + Mod * Word(p, blob, i + 1)

\* The magic and the length in the header, and what the message for a wrong length
\* prints as the length: reply is a pointer to words, so that reply+8 is not byte 8.
MagicRead   == Access(0, 8, 8)
LengthRead  == Access(2, 4, 4)
LengthShown == Access(8, 4, 4)

\* A header in which the length, if it is read, fits or not.
HeaderRead(p, fits) ==
  LET magic == p[1] = Magic[1] /\ p[2] = Magic[2]
  IN  Step(Check(magic /\ fits, "malformed"),
           {MagicRead} \cup (IF magic THEN {LengthRead} ELSE {})
                       \cup (IF magic /\ ~fits THEN {LengthShown} ELSE {}))

\* Replies have a header from variant 5 on.
HeaderChecked(p, length, variant) ==
  CASE variant < 5                   -> Step("success", {})
    [] variant >= 5 /\ length < 12   -> Step("wrong size", {})
    [] variant >= 5 /\ length >= 12  -> HeaderRead(p, length - 12 >= p[3])

Opened(p, length, variant) ==
  LET header == HeaderChecked(p, length, variant).ret
  IN  CASE header # "success"                   -> Failure(header)
        [] header = "success" /\ variant < 5    -> BlobInit(0, length)
        [] header = "success" /\ variant >= 5   -> BlobInit(3, length - 12)

\* The lookups of vrt_parse_response, from the blob that was opened.
Tags(p, opened) ==
  LET cert      == GetTagOf(p, opened, CERT)
      cert_dele == GetTagOf(p, cert, DELE)
  IN  [opened |-> opened,
       srep |-> GetTagOf(p, opened, SREP), sig |-> GetTagOf(p, opened, SIG),
       cert |-> cert, cert_sig |-> GetTagOf(p, cert, SIG), cert_dele |-> cert_dele,
       pubk |-> GetTagOf(p, cert_dele, PUBK),
       indx |-> GetTagOf(p, opened, INDX), path |-> GetTagOf(p, opened, PATH)]

TagsFound(tags) ==
  Step(FirstError(<<tags.opened.ret, tags.srep.ret, tags.sig.ret, tags.cert.ret,
                    tags.cert_sig.ret, tags.cert_dele.ret, tags.pubk.ret,
                    tags.indx.ret, tags.path.ret>>), {})

-----------------------------------------------------------------------------
(* Signatures: msg holds the signature, the context and the content.       *)

Signed(p, sig, context, content, key) ==
  SignOpen(Data(p, sig), context, Data(p, content), key)

\* Variation of VerifyDele: the sizes are not looked at.
VerifyDeleUnsized(p, cert_sig, cert_dele, root_public_key) ==
  Step(Check(Signed(p, cert_sig, ContextCert, cert_dele, root_public_key), "dele"),
       {Access(cert_sig.at, cert_sig.size, SigSize + CertDeleSize),
        Access(cert_dele.at, cert_dele.size, SigSize + CertDeleSize - cert_sig.size)})

\* vrt_verify_dele
VerifyDele(p, cert_sig, cert_dele, root_public_key) ==
  IF cert_sig.size # SigSize \/ cert_dele.size # CertDeleSize THEN Step("wrong size", {})
  ELSE Step(Check(Signed(p, cert_sig, ContextCert, cert_dele, root_public_key), "dele"),
            {Access(cert_sig.at, cert_sig.size, SigSize + CertDeleSize),
             Access(cert_dele.at, cert_dele.size, SigSize + CertDeleSize - cert_sig.size)})

PubkSized(pubk) == Step(Check(pubk.size = PubkSize, "malformed"), {})

\* Variation of VerifyPubk: the result of crypto_sign_open is not looked at.
VerifyPubkUnsigned(p, sig, srep, pubk) ==
  Step(Check(sig.size = SigSize /\ srep.size <= MaxSrepSize, "wrong size"), {})

\* vrt_verify_pubk
VerifyPubk(p, sig, srep, pubk) ==
  IF sig.size # SigSize \/ srep.size > MaxSrepSize THEN Step("wrong size", {})
  ELSE Step(Check(Signed(p, sig, ContextResp, srep, WordsAt(p, pubk.at, PubkSize)), "pubk"),
            {Access(sig.at, sig.size, SigSize + MaxSrepSize),
             Access(srep.at, srep.size, SigSize + MaxSrepSize - sig.size),
             Access(pubk.at, PubkSize, PubkSize)})

-----------------------------------------------------------------------------
(* The tree                                                                *)

\* vrt_hash_leaf and vrt_hash_node: a label, and as much of each as a node has.
HashLeaf(nonce, nodesize) == Hash(<<0>> \o SubSeq(nonce, 1, nodesize \div 4))

HashNode(left, right, nodesize) ==
  Hash(<<1>> \o SubSeq(left, 1, nodesize \div 4) \o SubSeq(right, 1, nodesize \div 4))

\* The loop ends where no further node fits in path, and after 32 of them.
Levels(path, nodesize) ==
  Min({i \in 0..32 : i = 32 \/ ~SliceFits(path, i * (nodesize \div 4), nodesize)})

NodeAt(path, i, nodesize) == path.at + i * (nodesize \div 4)

\* Variation of Climbed: the sides are exchanged.
ClimbedOnWrongSide(p, path, index, nonce, nodesize) ==
  LET levels == Levels(path, nodesize)
      hash[i \in 0..levels] ==
        IF i = 0 THEN HashLeaf(nonce, nodesize)
        ELSE LET node == WordsAt(p, NodeAt(path, i - 1, nodesize), nodesize)
             IN  IF (index \div 2^(i - 1)) % 2 = 0 THEN HashNode(node, hash[i - 1], nodesize)
                                                   ELSE HashNode(hash[i - 1], node, nodesize)
  IN  hash[levels]

Climbed(p, path, index, nonce, nodesize) ==
  LET levels == Levels(path, nodesize)
      hash[i \in 0..levels] ==
        IF i = 0 THEN HashLeaf(nonce, nodesize)
        ELSE LET node == WordsAt(p, NodeAt(path, i - 1, nodesize), nodesize)
             IN  IF (index \div 2^(i - 1)) % 2 = 1 THEN HashNode(node, hash[i - 1], nodesize)
                                                   ELSE HashNode(hash[i - 1], node, nodesize)
  IN  hash[levels]

NodeSize(variant) == IF variant >= 5 THEN ShortNode ELSE LongNode

\* vrt_verify_nonce
VerifyNonce(p, srep, indx, path, sent_nonce, variant) ==
  LET root     == GetTag(p, srep, ROOT)
      nodesize == NodeSize(variant)
      checked  == FirstError(<<root.ret, Check(srep.size <= MaxSrepSize, "wrong size"),
                               Check(Readable(indx, 0), "malformed")>>)
      nodes    == {Access(NodeAt(path, i, nodesize), nodesize, LongNode) :
                     i \in 0..(Levels(path, nodesize) - 1)}
      sized    == root.blob.size = nodesize
      hash     == Climbed(p, path, Word(p, indx, 0), sent_nonce, nodesize)
      equal    == WordsAt(p, root.blob.at, nodesize) = SubSeq(hash, 1, nodesize \div 4)
  IN  CASE checked # "success"            -> Step(checked, {})
        [] checked = "success" /\ ~sized  -> Step("wrong size", nodes)
        [] checked = "success" /\ sized   ->
             Step(Check(equal, "tree"), nodes \cup {Access(root.blob.at, nodesize, nodesize)})

-----------------------------------------------------------------------------
(* The time                                                                *)

Midp(p, srep) == LongWord(p, GetTag(p, srep, MIDP).blob, 0)
Radi(p, srep) == Word(p, GetTag(p, srep, RADI).blob, 0)
Mint(p, dele) == LongWord(p, GetTag(p, dele, MINT).blob, 0)
Maxt(p, dele) == LongWord(p, GetTag(p, dele, MAXT).blob, 0)

\* vrt_verify_bounds: the ends of the delegation are not part of it.
VerifyBounds(p, srep, dele) ==
  LET midp == GetTag(p, srep, MIDP)
      radi == GetTag(p, srep, RADI)
      mint == GetTag(p, dele, MINT)
      maxt == GetTag(p, dele, MAXT)
      read == FirstError(<<midp.ret, radi.ret, mint.ret, maxt.ret,
                           Check(LongReadable(midp.blob, 0), "malformed"),
                           Check(Readable(radi.blob, 0), "malformed"),
                           Check(LongReadable(mint.blob, 0), "malformed"),
                           Check(LongReadable(maxt.blob, 0), "malformed")>>)
      inside == Mint(p, dele) < Midp(p, srep) /\ Midp(p, srep) < Maxt(p, dele)
  IN  Step(IF read = "success" THEN Check(inside, "bounds") ELSE read, {})

\* From variant 5 on, a time is a number of days and the time of day.
ToMicroseconds(midp, variant) ==
  IF variant >= 5
    THEN ((midp \div DayWord - Epoch) * DayLen + (midp % DayWord)) % (Mod * Mod)
    ELSE midp

-----------------------------------------------------------------------------
(* vrt_parse_response                                                      *)

Checked(p, length, nonce, pk, variant, tags) ==
  Run(<<HeaderChecked(p, length, variant),
        Step(Check(4 * Len(nonce) >= LongNode, "wrong size"), {}),
        TagsFound(tags),
        PubkSized(tags.pubk.blob),
        VerifyDele(p, tags.cert_sig.blob, tags.cert_dele.blob, pk),
        VerifyNonce(p, tags.srep.blob, tags.indx.blob, tags.path.blob, nonce, variant),
        VerifyBounds(p, tags.srep.blob, tags.cert_dele.blob),
        VerifyPubk(p, tags.sig.blob, tags.srep.blob, tags.pubk.blob)>>)

\* What is left in *out_midpoint and *out_radii on failure is looked at by
\* neither of the callers.
Verdict(run, midp, radi) ==
  [ret |-> run.ret, accesses |-> run.accesses,
   midp |-> IF run.ret = "success" THEN midp ELSE 0,
   radi |-> IF run.ret = "success" THEN radi ELSE 0]

ParseResponse(p, length, nonce, pk, variant) ==
  LET tags == Tags(p, Opened(p, length, variant))
  IN  Verdict(Checked(p, length, nonce, pk, variant, tags),
              ToMicroseconds(Midp(p, tags.srep.blob), variant), Radi(p, tags.srep.blob))
=============================================================================
