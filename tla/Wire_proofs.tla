----------------------------- MODULE Wire_proofs -----------------------------
(***************************************************************************)
(* However a packet looks, who reads it in C or on the ESP32 stays in it:  *)
(* the words vrt_get_tag reads belong to the blob it was given, and so     *)
(* does the blob it returns, although num_tags, offsets and ends are       *)
(* unsigned words of the packet and the arithmetic on them wraps around;   *)
(* and what the two copies of vrt_parse_response copy, hash and compare    *)
(* was received, and fits where it is copied to.                           *)
(*                                                                         *)
(* Where the parser in Python accepts a packet, C finds the same values in *)
(* it; the two copies come to the same verdict; and a client in C and one  *)
(* in Python that both accept are told the same time and radius.           *)
(*                                                                         *)
(* This holds for every packet, every width of a word and all sizes of     *)
(* signatures, keys and nodes, and so in every behaviour of Wire in which  *)
(* what arrives is words.                                                  *)
(***************************************************************************)
EXTENDS Wire, SequenceTheorems, WellFoundedInduction, TLAPS

-----------------------------------------------------------------------------
(* The reader of packets: Blob *)

\* A packet of the given length in bytes, and a blob in it.
IsPacket(p, bytes) ==
  p \in Seq(0..(Mod - 1)) /\ bytes \in Nat /\ bytes <= 4 * Len(p)

BlobIn(blob, bytes) == blob \in Blobs /\ Inside(blob, bytes)

-----------------------------------------------------------------------------
(* Words, and reading a tag *)

\* Unsigned arithmetic yields a word, and leaves a word as it is.
LEMMA Unsigned ==
  ASSUME NEW x \in Int
  PROVE  x % Mod \in 0..(Mod - 1) /\ (x \in 0..(Mod - 1) => x % Mod = x)
  BY ModAssumption

\* A number of bytes holds this many whole words.
LEMMA Quarter ==
  ASSUME NEW x \in Nat
  PROVE  x \div 4 \in Nat /\ 4 * (x \div 4) <= x
  OBVIOUS

\* The first element of a set of natural numbers.
LEMMA MinIsLeast ==
  ASSUME NEW S \in SUBSET Nat, S # {}
  PROVE  Min(S) \in S /\ \A y \in S : Min(S) <= y
<1>1. PICK x \in S : \A y \in S : ~(<<y, x>> \in OpToRel(<, Nat))
  BY NatLessThanWellFounded, WFMin, Zenon
<1>2. \A y \in S : x <= y
  <2> SUFFICES ASSUME NEW y \in S PROVE x <= y
    OBVIOUS
  <2>1. x \in Nat /\ y \in Nat
    OBVIOUS
  <2>2. ~(y < x)
    BY <1>1, <2>1 DEF OpToRel
  <2> QED
    BY <2>1, <2>2
<1> QED
  BY <1>2 DEF Min

\* vrt_blob_r32: a word that may be read is a word of the packet.
LEMMA WordIsRead ==
  ASSUME NEW p, NEW bytes, IsPacket(p, bytes),
         NEW blob, BlobIn(blob, bytes),
         NEW i \in Nat, Readable(blob, i)
  PROVE  Word(p, blob, i) \in 0..(Mod - 1) /\ 4 * (blob.at + i) + 4 <= bytes
<1>1. /\ blob.at \in Nat /\ blob.size \in Nat /\ bytes \in Nat
      /\ 4 * blob.at + blob.size <= bytes
  BY DEF BlobIn, Blobs, Inside, IsPacket
<1>2. 4 * i + 4 <= blob.size
  BY <1>1, Quarter DEF Readable
<1>3. blob.at + i + 1 \in 1..Len(p)
  BY <1>1, <1>2 DEF IsPacket
<1>4. p[blob.at + i + 1] \in 0..(Mod - 1)
  BY <1>3, ElementOfSeq DEF IsPacket
<1>5. 4 * (blob.at + i) + 4 <= bytes
  BY <1>1, <1>2
<1> QED
  BY <1>4, <1>5 DEF Word

\* vrt_blob_slice: the sum of offset and size may wrap around in 32 bits, but
\* what is returned is part of the blob.
LEMMA SliceInBlob ==
  ASSUME NEW bytes \in Nat, NEW blob, BlobIn(blob, bytes),
         NEW offset \in Nat, NEW size \in Nat, Slice(blob, offset, size).ret = "success"
  PROVE  BlobIn(Slice(blob, offset, size).blob, bytes)
<1>1. SliceFits(blob, offset, size)
  BY DEF Slice, Success, Failure
<1>2. Slice(blob, offset, size).blob = [at |-> blob.at + offset, size |-> size]
  BY <1>1 DEF Slice, Success
<1>3. 4 * offset + size <= blob.size
  BY <1>1 DEF SliceFits
<1>4. blob.at \in Nat /\ blob.size \in Nat /\ 4 * blob.at + blob.size <= bytes
  BY DEF BlobIn, Blobs, Inside
<1> QED
  BY <1>2, <1>3, <1>4 DEF BlobIn, Blobs, Inside

-----------------------------------------------------------------------------
(* vrt_get_tag *)

\* Where the loop ends, the first word behind the offsets is in the blob, so that
\* the offsets are too: the tag found is the first one, or the loop went past it.
LEMMA FoundBehindOffsets ==
  ASSUME NEW p, NEW bytes, IsPacket(p, bytes), NEW in, BlobIn(in, bytes),
         NEW tag_wanted, NEW num_tags \in 0..(Mod - 1), NEW i \in 0..(num_tags - 1),
         Readable(in, (i + num_tags) % Mod),
         \A j \in 0..(num_tags - 1) :
           StopsAt(p, in, tag_wanted, num_tags, j) => i <= j
  PROVE  Readable(in, num_tags)
<1>1. (0 + num_tags) % Mod = num_tags
  BY Unsigned, ModAssumption
<1>2. CASE i = 0
  BY <1>1, <1>2
<1>3. CASE i # 0
  <2>1. ~StopsAt(p, in, tag_wanted, num_tags, 0)
    BY <1>3
  <2> QED
    BY <2>1, <1>1 DEF StopsAt
<1> QED
  BY <1>2, <1>3

\* The blob vrt_get_tag returns lies in the packet.
THEOREM GetTagInBounds ==
  ASSUME NEW p, NEW bytes, IsPacket(p, bytes), NEW in, BlobIn(in, bytes),
         NEW tag_wanted, GetTag(p, in, tag_wanted).ret = "success"
  PROVE  BlobIn(GetTag(p, in, tag_wanted).blob, bytes)
<1> DEFINE num_tags == Word(p, in, 0)
           stops    == {i \in 0..(num_tags - 1) : StopsAt(p, in, tag_wanted, num_tags, i)}
           i        == Min(stops)
           offset   == TagOffset(p, in, i)
           at       == (2 * num_tags + offset \div 4) % Mod
           size     == (TagEnd(p, in, num_tags, i) - offset) % Mod
<1>1. /\ Readable(in, 0) /\ stops # {} /\ Readable(in, (i + num_tags) % Mod)
      /\ GetTag(p, in, tag_wanted) = Slice(in, at, size)
  BY DEF GetTag, Failure
<1> HIDE DEF i
<1>2. num_tags \in 0..(Mod - 1)
  BY <1>1, WordIsRead
<1>3. i \in stops /\ \A j \in stops : i <= j
  <2>1. stops \in SUBSET Nat
    BY <1>2
  <2> HIDE DEF stops
  <2> QED
    BY <1>1, <2>1, MinIsLeast DEF i
<1>4. Readable(in, num_tags)
  BY <1>1, <1>2, <1>3, FoundBehindOffsets
<1>5. in.size \in Nat /\ bytes \in Nat
  BY DEF BlobIn, Blobs, IsPacket
<1>6. \A k \in 0..num_tags : Readable(in, k)
  BY <1>2, <1>4, <1>5, Quarter DEF Readable
<1>7. offset \in Nat
  <2>1. CASE i = 0
    BY <2>1 DEF TagOffset
  <2>2. CASE i # 0
    <3>1. i \in Nat /\ Readable(in, i)
      BY <1>2, <1>3, <1>6
    <3> QED
      BY <2>2, <3>1, WordIsRead, ModAssumption DEF TagOffset
  <2> QED
    BY <2>1, <2>2
<1>8. TagEnd(p, in, num_tags, i) \in Int
  <2>1. CASE i = num_tags - 1
    BY <2>1, <1>2, <1>5, Unsigned DEF TagEnd
  <2>2. CASE i # num_tags - 1
    <3>1. i + 1 \in Nat /\ Readable(in, i + 1)
      BY <1>2, <1>3, <1>6
    <3> QED
      BY <2>2, <3>1, WordIsRead, ModAssumption DEF TagEnd
  <2> QED
    BY <2>1, <2>2
<1>9. at \in Nat /\ size \in Nat
  BY <1>2, <1>7, <1>8, Unsigned, Quarter
<1> QED
  BY <1>1, <1>5, <1>9, SliceInBlob

\* The same for a tag within a tag: SIG, DELE and PUBK of the certificate.
THEOREM NestedTagInBounds ==
  ASSUME NEW p, NEW bytes, IsPacket(p, bytes), NEW in, BlobIn(in, bytes),
         NEW outer, NEW tag_wanted,
         GetTagOf(p, GetTag(p, in, outer), tag_wanted).ret = "success"
  PROVE  BlobIn(GetTagOf(p, GetTag(p, in, outer), tag_wanted).blob, bytes)
<1>1. GetTag(p, in, outer).ret = "success"
  BY DEF GetTagOf
<1>2. BlobIn(GetTag(p, in, outer).blob, bytes)
  BY <1>1, GetTagInBounds
<1> QED
  BY <1>1, <1>2, GetTagInBounds DEF GetTagOf

-----------------------------------------------------------------------------
(* The checks of a reply: Response and EspVrt *)

\* An access that reads no byte behind the packet and writes none behind its
\* destination: what NoStrayAccess of Wire asks of every access but one.
Good(a, bytes) == 4 * a.at + a.size <= bytes /\ a.size <= a.room

\* The tags of a packet, each of which lies in it if it was found.
TagNames == {"opened", "srep", "sig", "cert", "cert_sig", "cert_dele", "pubk", "indx", "path"}

ResultIn(result, bytes) == result.ret = "success" => BlobIn(result.blob, bytes)

-----------------------------------------------------------------------------
(* Codes, steps and tags *)

\* Of several codes, the outcome is "success" only if all of them are.
LEMMA AllSucceed ==
  ASSUME NEW codes, FirstError(codes) = "success", DOMAIN codes \in SUBSET Nat
  PROVE  \A k \in DOMAIN codes : codes[k] = "success"
<1> DEFINE failed == {k \in DOMAIN codes : codes[k] # "success"}
<1>1. failed = {}
  <2> SUFFICES ASSUME failed # {} PROVE FALSE
    OBVIOUS
  <2>1. failed \in SUBSET Nat
    OBVIOUS
  <2>2. Min(failed) \in failed
    <3> HIDE DEF failed
    <3> QED BY <2>1, MinIsLeast
  <2>3. FirstError(codes) = codes[Min(failed)]
    BY DEF FirstError
  <2> QED
    BY <2>2, <2>3
<1> QED
  BY <1>1

\* An access is made by one of the steps, and the steps before it succeeded.
LEMMA RunAccess ==
  ASSUME NEW steps, NEW n \in Nat, n > 0, DOMAIN steps = 1..n, Len(steps) = n,
         NEW a \in Run(steps).accesses
  PROVE  \E k \in 1..n : /\ a \in steps[k].accesses
                         /\ \A j \in 1..(k - 1) : steps[j].ret = "success"
<1> DEFINE failed == {k \in DOMAIN steps : steps[k].ret # "success"}
           last   == IF failed = {} THEN Len(steps) ELSE Min(failed)
<1>1. Run(steps).accesses = UNION {steps[k].accesses : k \in 1..last}
  BY DEF Run, Step
<1>2. last \in 1..n /\ \A j \in 1..(last - 1) : j \notin failed
  <2>1. CASE failed = {}
    BY <2>1
  <2>2. CASE failed # {}
    <3>1. failed \in SUBSET Nat
      OBVIOUS
    <3>2. Min(failed) \in failed /\ \A j \in failed : Min(failed) <= j
      <4> HIDE DEF failed
      <4> QED BY <2>2, <3>1, MinIsLeast
    <3>3. last = Min(failed)
      BY <2>2
    <3>4. failed \subseteq 1..n
      OBVIOUS
    <3> HIDE DEF failed, last
    <3>5. last \in 1..n /\ last \in failed
      BY <3>2, <3>3, <3>4
    <3>6. \A j \in failed : last <= j
      BY <3>2, <3>3
    <3> QED
      BY <3>5, <3>6
  <2> QED
    BY <2>1, <2>2
<1> HIDE DEF last
<1>3. PICK k \in 1..last : a \in steps[k].accesses
  BY <1>1
<1>4. k \in 1..n /\ \A j \in 1..(k - 1) : j \in 1..n /\ j \in 1..(last - 1)
  BY <1>2
<1>5. \A j \in 1..(k - 1) : steps[j].ret = "success"
  BY <1>2, <1>4
<1> QED
  BY <1>3, <1>4, <1>5

\* A tag looked up in what another lookup returned.
LEMMA GetTagOfIn ==
  ASSUME NEW p, NEW bytes, IsPacket(p, bytes), NEW result, ResultIn(result, bytes), NEW tag
  PROVE  ResultIn(GetTagOf(p, result, tag), bytes)
<1>1. CASE result.ret = "success"
  BY <1>1, GetTagInBounds DEF ResultIn, GetTagOf
<1>2. CASE result.ret # "success"
  BY <1>2 DEF ResultIn, GetTagOf
<1> QED
  BY <1>1, <1>2

\* The blob the packet is opened as.
LEMMA BlobInitIn ==
  ASSUME NEW at \in Nat, NEW size \in Nat, NEW bytes \in Nat, 4 * at + size <= bytes
  PROVE  ResultIn(BlobInit(at, size), bytes)
  BY DEF ResultIn, BlobInit, Success, Failure, BlobIn, Blobs, Inside

\* The packet as a blob, behind its header if it has one.
LEMMA OpenedIn ==
  ASSUME NEW p, NEW bytes \in Nat, NEW variant \in Nat
  PROVE  ResultIn(Opened(p, bytes, variant), bytes)
<1> DEFINE header == HeaderChecked(p, bytes, variant).ret
<1>1. CASE header # "success"
  BY <1>1 DEF Opened, Failure, ResultIn
<1>2. CASE header = "success" /\ variant < 5
  <2>1. Opened(p, bytes, variant) = BlobInit(0, bytes)
    BY <1>2 DEF Opened
  <2> QED
    BY <2>1, BlobInitIn
<1>3. CASE header = "success" /\ ~(variant < 5)
  <2>1. variant >= 5
    BY <1>3
  <2>2. bytes >= 12
    BY <1>3, <2>1 DEF HeaderChecked, Step
  <2>3. Opened(p, bytes, variant) = BlobInit(3, bytes - 12)
    BY <1>3, <2>1 DEF Opened
  <2> QED
    BY <2>2, <2>3, BlobInitIn
<1> QED
  BY <1>1, <1>2, <1>3

\* The same for the ESP32.
LEMMA EspOpenedIn ==
  ASSUME NEW p, NEW bytes \in Nat, NEW variant \in Nat
  PROVE  ResultIn(EspOpened(p, bytes, variant), bytes)
<1> DEFINE header == EspHeaderChecked(p, bytes, variant).ret
<1>1. CASE header # "success"
  BY <1>1 DEF EspOpened, Failure, ResultIn
<1>2. CASE header = "success" /\ ~Draft05(variant)
  <2>1. EspOpened(p, bytes, variant) = BlobInit(0, bytes)
    BY <1>2 DEF EspOpened, EspBlobInit, Draft05
  <2> QED
    BY <2>1, BlobInitIn
<1>3. CASE header = "success" /\ Draft05(variant)
  <2>1. bytes >= 12
    BY <1>3 DEF EspHeaderChecked, Draft05, Step
  <2>2. EspOpened(p, bytes, variant) = BlobInit(3, bytes - 12)
    BY <1>3 DEF EspOpened, EspBlobInit, Draft05
  <2> QED
    BY <2>1, <2>2, BlobInitIn
<1> QED
  BY <1>1, <1>2, <1>3

\* The lookups of vrt_parse_response stay in the packet.
LEMMA TagsIn ==
  ASSUME NEW p, NEW bytes, IsPacket(p, bytes), NEW opened, ResultIn(opened, bytes),
         NEW name \in TagNames
  PROVE  ResultIn(Tags(p, opened)[name], bytes) /\ EspTags(p, opened) = Tags(p, opened)
<1> DEFINE cert      == GetTagOf(p, opened, CERT)
           cert_dele == GetTagOf(p, cert, DELE)
<1>1. ResultIn(cert, bytes) /\ ResultIn(cert_dele, bytes)
  BY GetTagOfIn
<1>2. \A tag : /\ ResultIn(GetTagOf(p, opened, tag), bytes)
               /\ ResultIn(GetTagOf(p, cert, tag), bytes)
               /\ ResultIn(GetTagOf(p, cert_dele, tag), bytes)
  BY <1>1, GetTagOfIn
<1> HIDE DEF cert, cert_dele
<1>3. Tags(p, opened) =
        [opened |-> opened, srep |-> GetTagOf(p, opened, SREP), sig |-> GetTagOf(p, opened, SIG),
         cert |-> cert, cert_sig |-> GetTagOf(p, cert, SIG), cert_dele |-> cert_dele,
         pubk |-> GetTagOf(p, cert_dele, PUBK),
         indx |-> GetTagOf(p, opened, INDX), path |-> GetTagOf(p, opened, PATH)]
  BY DEF Tags, cert, cert_dele
<1>4. EspTags(p, opened) = Tags(p, opened)
  BY DEF EspTags, Tags, EspGetTag
<1> QED
  BY <1>1, <1>2, <1>3, <1>4 DEF TagNames

\* Behind TagsFound, every tag is a blob of the packet.
LEMMA FoundIn ==
  ASSUME NEW p, NEW bytes, IsPacket(p, bytes), NEW opened, ResultIn(opened, bytes),
         TagsFound(Tags(p, opened)).ret = "success",
         NEW name \in TagNames
  PROVE  BlobIn(Tags(p, opened)[name].blob, bytes)
<1> DEFINE got  == Tags(p, opened)
           codes == <<got.opened.ret, got.srep.ret, got.sig.ret, got.cert.ret,
                      got.cert_sig.ret, got.cert_dele.ret, got.pubk.ret,
                      got.indx.ret, got.path.ret>>
<1> HIDE DEF got
<1>1. FirstError(codes) = "success"
  BY DEF TagsFound, Step, got
<1>2. \A k \in 1..9 : codes[k] = "success"
  <2>1. DOMAIN codes = 1..9
    OBVIOUS
  <2>2. DOMAIN codes \in SUBSET Nat
    BY <2>1
  <2> HIDE DEF codes
  <2> QED
    BY <1>1, <2>1, <2>2, AllSucceed
<1>3. /\ codes[1] = "success" /\ codes[2] = "success" /\ codes[3] = "success"
      /\ codes[4] = "success" /\ codes[5] = "success" /\ codes[6] = "success"
      /\ codes[7] = "success" /\ codes[8] = "success" /\ codes[9] = "success"
  BY <1>2
<1>4. got[name].ret = "success"
  BY <1>3 DEF TagNames
<1>5. ResultIn(got[name], bytes)
  BY TagsIn DEF got
<1> QED
  BY <1>4, <1>5 DEF ResultIn, got

-----------------------------------------------------------------------------
(* The accesses of each check *)

\* The two memcpy of vrt_verify_dele.
LEMMA DeleAccess ==
  ASSUME NEW p, NEW bytes \in Nat, NEW key,
         NEW cert_sig, BlobIn(cert_sig, bytes), NEW cert_dele, BlobIn(cert_dele, bytes),
         NEW a \in VerifyDele(p, cert_sig, cert_dele, key).accesses
  PROVE  Good(a, bytes)
<1>1. cert_sig.size = SigSize /\ cert_dele.size = CertDeleSize
  BY DEF VerifyDele, Step
<1>2. a \in {Access(cert_sig.at, cert_sig.size, SigSize + CertDeleSize),
            Access(cert_dele.at, cert_dele.size, SigSize + CertDeleSize - cert_sig.size)}
  BY <1>1 DEF VerifyDele, Step
<1>3. SigSize \in Nat /\ CertDeleSize \in Nat
  BY SizeAssumption DEF CertDeleSize
<1>4. a.at \in Nat /\ 4 * a.at + a.size <= bytes /\ a.size <= a.room
  BY <1>1, <1>2, <1>3 DEF Access, BlobIn, Blobs, Inside
<1> QED
  BY <1>4 DEF Good

\* The two memcpy of vrt_verify_pubk, and the key it is given.
LEMMA PubkAccess ==
  ASSUME NEW p, NEW bytes \in Nat, NEW sig, BlobIn(sig, bytes), NEW srep, BlobIn(srep, bytes),
         NEW pubk, BlobIn(pubk, bytes), PubkSized(pubk).ret = "success",
         NEW a \in VerifyPubk(p, sig, srep, pubk).accesses
  PROVE  Good(a, bytes)
<1>1. sig.size = SigSize /\ ~(srep.size > MaxSrepSize)
  BY DEF VerifyPubk, Step
<1>2. pubk.size = PubkSize
  BY DEF PubkSized, Step, Check
<1>3. a \in {Access(sig.at, sig.size, SigSize + MaxSrepSize),
            Access(srep.at, srep.size, SigSize + MaxSrepSize - sig.size),
            Access(pubk.at, PubkSize, PubkSize)}
  BY <1>1 DEF VerifyPubk, Step
<1>4. SigSize \in Nat /\ MaxSrepSize \in Nat /\ PubkSize \in Nat
  BY SizeAssumption DEF MaxSrepSize
<1>5. /\ sig.at \in Nat /\ sig.size \in Nat /\ 4 * sig.at + sig.size <= bytes
      /\ srep.at \in Nat /\ srep.size \in Nat /\ 4 * srep.at + srep.size <= bytes
      /\ pubk.at \in Nat /\ 4 * pubk.at + pubk.size <= bytes
  BY DEF BlobIn, Blobs, Inside
<1>6. 4 * a.at + a.size <= bytes /\ a.size <= a.room
  BY <1>1, <1>2, <1>3, <1>4, <1>5 DEF Access
<1> QED
  BY <1>6 DEF Good

\* The loop of vrt_verify_nonce ends before a node that does not fit.
LEMMA NodeFits ==
  ASSUME NEW path, NEW nodesize, NEW i \in 0..(Levels(path, nodesize) - 1)
  PROVE  i \in 0..31 /\ SliceFits(path, i * (nodesize \div 4), nodesize)
<1> DEFINE ends == {k \in 0..32 : k = 32 \/ ~SliceFits(path, k * (nodesize \div 4), nodesize)}
<1>1. 32 \in ends /\ ends \in SUBSET Nat
  OBVIOUS
<1>2. Levels(path, nodesize) = Min(ends)
  BY DEF Levels
<1>3. i \in 0..32 /\ i \notin ends => i \in 0..31 /\ SliceFits(path, i * (nodesize \div 4), nodesize)
  OBVIOUS
<1> HIDE DEF ends
<1>4. Min(ends) \in Nat /\ \A k \in ends : Min(ends) <= k
  <2>1. ends # {}
    BY <1>1
  <2> QED
    BY <1>1, <2>1, MinIsLeast
<1>5. i \in 0..32 /\ i \notin ends
  BY <1>1, <1>2, <1>4
<1> QED
  BY <1>3, <1>5

\* The nodes of the path that are hashed, and the root they are compared with.
LEMMA NonceAccess ==
  ASSUME NEW p, NEW bytes, IsPacket(p, bytes), NEW variant, NEW nonce, NEW indx,
         NEW srep, BlobIn(srep, bytes), NEW path, BlobIn(path, bytes),
         NEW a \in VerifyNonce(p, srep, indx, path, nonce, variant).accesses
  PROVE  Good(a, bytes)
<1> DEFINE root     == GetTag(p, srep, ROOT)
           nodesize == NodeSize(variant)
           nodes    == {Access(NodeAt(path, i, nodesize), nodesize, LongNode) :
                          i \in 0..(Levels(path, nodesize) - 1)}
           checked  == FirstError(<<root.ret, Check(srep.size <= MaxSrepSize, "wrong size"),
                                    Check(Readable(indx, 0), "malformed")>>)
           whole    == Access(root.blob.at, nodesize, nodesize)
<1>1. nodesize \in Nat /\ nodesize <= LongNode /\ LongNode \in Nat /\ bytes \in Nat
  BY SizeAssumption DEF NodeSize, IsPacket
<1>2. checked = "success" /\ (a \in nodes \/ (a = whole /\ root.blob.size = nodesize))
  BY DEF VerifyNonce, Step
<1>3. ASSUME a \in nodes PROVE Good(a, bytes)
  <2> HIDE DEF nodesize
  <2>1. PICK i \in 0..(Levels(path, nodesize) - 1) :
               a = Access(NodeAt(path, i, nodesize), nodesize, LongNode)
    BY <1>3
  <2>2. i \in 0..31 /\ SliceFits(path, i * (nodesize \div 4), nodesize)
    BY <2>1, NodeFits
  <2> DEFINE offset == i * (nodesize \div 4)
  <2>3. offset \in Nat
    BY <1>1, <2>2, Quarter
  <2>4. 4 * offset + nodesize <= path.size
    BY <2>2 DEF SliceFits
  <2> HIDE DEF offset
  <2>5. a.at = path.at + offset /\ a.size = nodesize /\ a.room = LongNode
    BY <2>1 DEF Access, NodeAt, offset
  <2>6. path.at \in Nat /\ path.size \in Nat /\ 4 * path.at + path.size <= bytes
    BY DEF BlobIn, Blobs, Inside
  <2> QED
    BY <1>1, <2>3, <2>4, <2>5, <2>6 DEF Good
<1>4. ASSUME a = whole, root.blob.size = nodesize PROVE Good(a, bytes)
  <2>1. root.ret = "success"
    <3> DEFINE codes == <<root.ret, Check(srep.size <= MaxSrepSize, "wrong size"),
                          Check(Readable(indx, 0), "malformed")>>
    <3>1. DOMAIN codes = 1..3 /\ codes[1] = root.ret
      OBVIOUS
    <3>2. FirstError(codes) = "success"
      BY <1>2
    <3> HIDE DEF codes
    <3>3. codes[1] = "success"
      BY <3>1, <3>2, AllSucceed
    <3> QED
      BY <3>1, <3>3
  <2>2. BlobIn(root.blob, bytes)
    BY <2>1, GetTagInBounds
  <2> HIDE DEF root, nodesize
  <2> QED
    BY <1>1, <1>4, <2>2 DEF Good, Access, BlobIn, Blobs, Inside
<1> QED
  BY <1>2, <1>3, <1>4

-----------------------------------------------------------------------------
(* vrt_parse_response *)

\* What is read of a header: nothing behind it, but for the word that the message
\* for a wrong length shows.
LEMMA HeaderReadAccess ==
  ASSUME NEW p, NEW bytes \in Nat, bytes >= 12, NEW fits,
         NEW a \in HeaderRead(p, fits).accesses
  PROVE  Good(a, bytes) \/ (a = LengthShown /\ HeaderRead(p, fits).ret # "success")
<1>1. Good(MagicRead, bytes) /\ Good(LengthRead, bytes)
  BY DEF Good, MagicRead, LengthRead, Access
<1>2. ~fits => HeaderRead(p, fits).ret # "success"
  BY DEF HeaderRead, Step, Check
<1>3. a \in {MagicRead, LengthRead} \/ (a = LengthShown /\ ~fits)
  BY DEF HeaderRead, Step
<1> QED
  BY <1>1, <1>2, <1>3

\* In C.
LEMMA HeaderAccess ==
  ASSUME NEW p, NEW bytes \in Nat, NEW variant \in Nat,
         NEW a \in HeaderChecked(p, bytes, variant).accesses
  PROVE  Good(a, bytes) \/ (a = LengthShown /\ HeaderChecked(p, bytes, variant).ret # "success")
<1>1. variant >= 5 /\ bytes >= 12
  BY DEF HeaderChecked, Step
<1>2. ~(variant < 5) /\ ~(bytes < 12)
  BY <1>1
<1>3. HeaderChecked(p, bytes, variant) = HeaderRead(p, bytes - 12 >= p[3])
  BY <1>1, <1>2, Zenon DEF HeaderChecked
<1> QED
  BY <1>1, <1>3, HeaderReadAccess

\* On the ESP32.
LEMMA EspHeaderAccess ==
  ASSUME NEW p, NEW bytes \in Nat, NEW variant \in Nat,
         NEW a \in EspHeaderChecked(p, bytes, variant).accesses
  PROVE  Good(a, bytes) \/ (a = LengthShown /\ EspHeaderChecked(p, bytes, variant).ret # "success")
<1>1. Draft05(variant) /\ bytes >= 12
  BY DEF EspHeaderChecked, Step, Draft05
<1>2. ~(bytes < 12)
  BY <1>1
<1>3. EspHeaderChecked(p, bytes, variant) = HeaderRead(p, bytes - 12 = p[3])
  BY <1>1, <1>2, Zenon DEF EspHeaderChecked
<1> QED
  BY <1>1, <1>3, HeaderReadAccess

\* In C, every access is to the bytes received, or shows the length of a header that
\* was refused.
THEOREM AccessesInPacket ==
  ASSUME NEW p, NEW bytes, IsPacket(p, bytes), NEW nonce, NEW pk, NEW variant \in Nat,
         NEW a \in ParseResponse(p, bytes, nonce, pk, variant).accesses
  PROVE  \/ Good(a, bytes)
         \/ a = LengthShown /\ HeaderChecked(p, bytes, variant).ret # "success"
<1> DEFINE opened == Opened(p, bytes, variant)
           got   == Tags(p, opened)
           dele   == VerifyDele(p, got.cert_sig.blob, got.cert_dele.blob, pk)
           tree   == VerifyNonce(p, got.srep.blob, got.indx.blob, got.path.blob, nonce, variant)
           bounds == VerifyBounds(p, got.srep.blob, got.cert_dele.blob)
           signed == VerifyPubk(p, got.sig.blob, got.srep.blob, got.pubk.blob)
           steps  == <<HeaderChecked(p, bytes, variant),
                       Step(Check(4 * Len(nonce) >= LongNode, "wrong size"), {}),
                       TagsFound(got), PubkSized(got.pubk.blob), dele, tree, bounds, signed>>
<1>1. a \in Run(steps).accesses
  BY DEF ParseResponse, Checked, Verdict
<1>2. bytes \in Nat /\ ResultIn(opened, bytes)
  BY OpenedIn DEF IsPacket
<1> HIDE DEF opened, got
<1>3. /\ DOMAIN steps = 1..8 /\ Len(steps) = 8
      /\ steps[1] = HeaderChecked(p, bytes, variant)
      /\ steps[2] = Step(Check(4 * Len(nonce) >= LongNode, "wrong size"), {})
      /\ steps[3] = TagsFound(got) /\ steps[4] = PubkSized(got.pubk.blob)
      /\ steps[5] = dele /\ steps[6] = tree /\ steps[7] = bounds /\ steps[8] = signed
  OBVIOUS
<1> HIDE DEF steps
<1>4. \A j \in {2, 3, 4, 7} : steps[j].accesses = {}
  <2>1. \A ret : Step(ret, {}).accesses = {}
    BY DEF Step
  <2>2. TagsFound(got).accesses = {} /\ PubkSized(got.pubk.blob).accesses = {}
    BY <2>1 DEF TagsFound, PubkSized
  <2>3. bounds.accesses = {}
    BY <2>1 DEF VerifyBounds
  <2> QED
    BY <1>3, <2>1, <2>2, <2>3
<1>5. PICK k \in 1..8 : /\ a \in steps[k].accesses
                        /\ \A j \in 1..(k - 1) : steps[j].ret = "success"
  <2>1. 8 \in Nat /\ 8 > 0
    OBVIOUS
  <2> QED
    BY <1>1, <1>3, <2>1, RunAccess, Zenon
<1> SUFFICES ASSUME k # 1 PROVE Good(a, bytes)
  BY <1>2, <1>3, <1>5, HeaderAccess
<1>6. k \in {5, 6, 8} /\ 3 \in 1..(k - 1) /\ 4 \in 1..(k - 1)
  <2>1. k \notin {2, 3, 4, 7}
    BY <1>4, <1>5
  <2> QED
    BY <1>5, <2>1
<1>7. TagsFound(got).ret = "success" /\ PubkSized(got.pubk.blob).ret = "success"
  BY <1>3, <1>5, <1>6
<1>8. /\ BlobIn(got.cert_sig.blob, bytes) /\ BlobIn(got.cert_dele.blob, bytes)
      /\ BlobIn(got.srep.blob, bytes) /\ BlobIn(got.path.blob, bytes)
      /\ BlobIn(got.sig.blob, bytes) /\ BlobIn(got.pubk.blob, bytes)
  <2>1. \A name \in TagNames : BlobIn(got[name].blob, bytes)
    BY <1>2, <1>7, FoundIn DEF got
  <2> QED
    BY <2>1 DEF TagNames
<1>9. CASE k = 5
  BY <1>2, <1>3, <1>5, <1>8, <1>9, DeleAccess
<1>10. CASE k = 6
  BY <1>3, <1>5, <1>8, <1>10, NonceAccess
<1>11. CASE k = 8
  BY <1>2, <1>3, <1>5, <1>7, <1>8, <1>11, PubkAccess
<1> QED
  BY <1>6, <1>9, <1>10, <1>11

\* The same on the ESP32, where the checks come in another order.
THEOREM EspAccessesInPacket ==
  ASSUME NEW p, NEW bytes, IsPacket(p, bytes), NEW nonce, NEW pk, NEW variant \in Nat,
         NEW a \in EspParseResponse(p, bytes, nonce, pk, variant).accesses
  PROVE  \/ Good(a, bytes)
         \/ a = LengthShown /\ EspHeaderChecked(p, bytes, variant).ret # "success"
<1> DEFINE opened == EspOpened(p, bytes, variant)
           got   == EspTags(p, opened)
           dele   == EspVerifyDele(p, got.cert_sig.blob, got.cert_dele.blob, pk)
           tree   == EspVerifyNonce(p, got.srep.blob, got.indx.blob, got.path.blob, nonce,
                                    variant)
           bounds == EspVerifyBounds(p, got.srep.blob, got.cert_dele.blob)
           signed == EspVerifyPubk(p, got.sig.blob, got.srep.blob, got.pubk.blob)
           steps  == <<EspHeaderChecked(p, bytes, variant),
                       Step(Check(4 * Len(nonce) >= LongNode, "wrong size"), {}),
                       TagsFound(got), dele, PubkSized(got.pubk.blob), signed, tree, bounds>>
<1>1. a \in Run(steps).accesses
  BY DEF EspParseResponse, EspChecked, Verdict
<1>2. bytes \in Nat /\ ResultIn(opened, bytes)
  BY EspOpenedIn DEF IsPacket
<1> HIDE DEF opened, got
<1>3. /\ DOMAIN steps = 1..8 /\ Len(steps) = 8
      /\ steps[1] = EspHeaderChecked(p, bytes, variant)
      /\ steps[2] = Step(Check(4 * Len(nonce) >= LongNode, "wrong size"), {})
      /\ steps[3] = TagsFound(got) /\ steps[4] = dele
      /\ steps[5] = PubkSized(got.pubk.blob)
      /\ steps[6] = signed /\ steps[7] = tree /\ steps[8] = bounds
  OBVIOUS
<1> HIDE DEF steps
<1>4. \A j \in {2, 3, 5, 8} : steps[j].accesses = {}
  <2>1. \A ret : Step(ret, {}).accesses = {}
    BY DEF Step
  <2>2. TagsFound(got).accesses = {} /\ PubkSized(got.pubk.blob).accesses = {}
    BY <2>1 DEF TagsFound, PubkSized
  <2>3. bounds.accesses = {}
    BY <2>1 DEF EspVerifyBounds, VerifyBounds
  <2> QED
    BY <1>3, <2>1, <2>2, <2>3
<1>5. PICK k \in 1..8 : /\ a \in steps[k].accesses
                        /\ \A j \in 1..(k - 1) : steps[j].ret = "success"
  <2>1. 8 \in Nat /\ 8 > 0
    OBVIOUS
  <2> QED
    BY <1>1, <1>3, <2>1, RunAccess, Zenon
<1> SUFFICES ASSUME k # 1 PROVE Good(a, bytes)
  BY <1>2, <1>3, <1>5, EspHeaderAccess
<1>6. k \in {4, 6, 7} /\ 3 \in 1..(k - 1) /\ (k # 4 => 5 \in 1..(k - 1))
  <2>1. k \notin {2, 3, 5, 8}
    BY <1>4, <1>5
  <2> QED
    BY <1>5, <2>1
<1>7. TagsFound(got).ret = "success" /\ (k # 4 => PubkSized(got.pubk.blob).ret = "success")
  BY <1>3, <1>5, <1>6
<1>8. /\ BlobIn(got.cert_sig.blob, bytes) /\ BlobIn(got.cert_dele.blob, bytes)
      /\ BlobIn(got.srep.blob, bytes) /\ BlobIn(got.path.blob, bytes)
      /\ BlobIn(got.sig.blob, bytes) /\ BlobIn(got.pubk.blob, bytes)
  <2>1. \A name \in TagNames : BlobIn(got[name].blob, bytes)
    <3>1. "srep" \in TagNames
      BY DEF TagNames
    <3>2. got = Tags(p, opened)
      BY <1>2, <3>1, TagsIn DEF got
    <3> QED
      BY <1>2, <1>7, <3>2, FoundIn
  <2> QED
    BY <2>1 DEF TagNames
<1>9. CASE k = 4
  BY <1>2, <1>3, <1>5, <1>8, <1>9, DeleAccess DEF EspVerifyDele
<1>10. CASE k = 7
  BY <1>3, <1>5, <1>8, <1>10, NonceAccess DEF EspVerifyNonce
<1>11. CASE k = 6
  <2>1. a \in VerifyPubk(p, got.sig.blob, got.srep.blob, got.pubk.blob).accesses
    BY <1>3, <1>5, <1>11 DEF EspVerifyPubk
  <2>2. PubkSized(got.pubk.blob).ret = "success"
    BY <1>7, <1>11
  <2> QED
    BY <1>2, <1>8, <2>1, <2>2, PubkAccess
<1> QED
  BY <1>6, <1>9, <1>10, <1>11

-----------------------------------------------------------------------------
(* The two clients: Wire *)

\* The verdicts of the two clients on what arrived.
LEMMA VerdictsStayInside ==
  ASSUME Arrived
  PROVE  NoStrayAccess
<1>0. IsPacket(packet, length)
  BY DEF Arrived, IsPacket
<1>1. 4 * LengthShown.at + LengthShown.size <= PacketLen /\ LengthShown.size <= LengthShown.room
  BY QueryLenAssumption DEF LengthShown, Access, PacketLen
<1> SUFFICES ASSUME NEW newver \in BOOLEAN
             PROVE  /\ StaysInside(CVerdict(newver), CHeader(newver))
                    /\ StaysInside(EspVerdict(newver), EspHeader(newver))
  BY DEF NoStrayAccess
<1>2. StaysInside(CVerdict(newver), CHeader(newver))
  <2> DEFINE variant == IF newver THEN 5 ELSE 0
  <2>1. variant \in Nat
    OBVIOUS
  <2>2. /\ CVerdict(newver) = ParseResponse(packet, length, SentNonce, RootKey, variant)
        /\ CHeader(newver) = HeaderChecked(packet, length, variant)
    BY DEF CVerdict, CHeader
  <2> HIDE DEF variant
  <2>3. ASSUME NEW a \in CVerdict(newver).accesses
        PROVE  Good(a, length) \/ (a = LengthShown /\ CHeader(newver).ret # "success")
    BY <1>0, <2>1, <2>2, AccessesInPacket
  <2> QED
    BY <1>1, <2>3 DEF StaysInside, Good
<1>3. StaysInside(EspVerdict(newver), EspHeader(newver))
  <2> DEFINE variant == IF newver THEN 1 ELSE 0
  <2>1. variant \in Nat
    OBVIOUS
  <2>2. /\ EspVerdict(newver) = EspParseResponse(packet, length, SentNonce, RootKey, variant)
        /\ EspHeader(newver) = EspHeaderChecked(packet, length, variant)
    BY DEF EspVerdict, EspHeader
  <2> HIDE DEF variant
  <2>3. ASSUME NEW a \in EspVerdict(newver).accesses
        PROVE  Good(a, length) \/ (a = LengthShown /\ EspHeader(newver).ret # "success")
    BY <1>0, <2>1, <2>2, EspAccessesInPacket
  <2> QED
    BY <1>1, <2>3 DEF StaysInside, Good
<1> QED
  BY <1>2, <1>3

\* As long as what arrives is a sequence of words that is as long as it says, no
\* client copies, hashes or compares anything behind it, nor more of it than there is
\* room for, whoever sent it and whatever happened to it on the way; only the message
\* for a wrong length may read on, in the buffer: vrt_parse_response, in C and on the
\* ESP32.
THEOREM ReadersStayInside ==
  []Arrived => []NoStrayAccess
<1>1. Arrived => NoStrayAccess
  BY VerdictsStayInside
<1> QED
  BY <1>1, PTL

-----------------------------------------------------------------------------
(* The parser in Python: Packet *)

\* The body of a range that the parser accepts: the number of tags, the offsets
\* and the tags are words of the packet.
IsBody(p, b, bytes) ==
  /\ b \in [at : Nat, size : Nat] /\ b.at % 4 = 0 /\ b.size % 4 = 0
  /\ b.size >= 4 /\ b.at + b.size <= bytes
  /\ 8 * PyWord(p, b, 0) <= b.size

\* What the parser finds out about the tags of a body.
TagsOK(p, b) ==
  /\ \A t \in PyTags(p, b) :
       t.at <= b.at + b.size /\ t.end <= b.at + b.size /\ t.size % 4 = 0
  /\ KeysDiffer(p, b)

\* Where the values start and end, counted from behind the tags.
PyOffset(p, b, i) == IF i = 0 THEN 0 ELSE PyWord(p, b, i)
PyEnd(p, b, i) ==
  IF i = PyWord(p, b, 0) - 1 THEN b.size - 8 * PyWord(p, b, 0) ELSE PyWord(p, b, i + 1)

\* The size of a value: a negative one counts as zero.
LEMMA MaxOfZero ==
  ASSUME NEW d \in Int
  PROVE  Max({0, d}) = IF d >= 0 THEN d ELSE 0
<1> DEFINE m == IF d >= 0 THEN d ELSE 0
<1>1. m \in {0, d} /\ \A y \in {0, d} : m >= y
  OBVIOUS
<1>2. \A x \in {0, d} : (\A y \in {0, d} : x >= y) => x = m
  OBVIOUS
<1> HIDE DEF m
<1>3. Max({0, d}) \in {0, d} /\ \A y \in {0, d} : Max({0, d}) >= y
  BY <1>1 DEF Max
<1>4. Max({0, d}) = m
  BY <1>2, <1>3
<1> QED
  BY <1>4 DEF m

\* The words of a body are words.
LEMMA BodyWord ==
  ASSUME NEW p, NEW bytes, IsPacket(p, bytes), NEW b \in [at : Nat, size : Nat],
         b.at % 4 = 0, b.at + b.size <= bytes, NEW k \in Nat, 4 * k + 4 <= b.size
  PROVE  PyWord(p, b, k) \in 0..(Mod - 1)
<1>1. b.at \in Nat /\ b.size \in Nat /\ bytes \in Nat /\ bytes <= 4 * Len(p) /\ Len(p) \in Nat
  BY DEF IsPacket
<1>2. 4 * (b.at \div 4) = b.at /\ b.at \div 4 \in Nat
  BY <1>1
<1>3. b.at \div 4 + k + 1 \in 1..Len(p)
  <2> DEFINE q == b.at \div 4
  <2>1. q \in Nat /\ 4 * q = b.at
    BY <1>2
  <2> HIDE DEF q
  <2>2. q + k + 1 \in 1..Len(p)
    BY <1>1, <2>1
  <2> QED
    BY <2>2 DEF q
<1> QED
  BY <1>3, ElementOfSeq DEF PyWord, IsPacket

\* The number of tags, and the words of offsets and tags.
LEMMA BodyWords ==
  ASSUME NEW p, NEW bytes, IsPacket(p, bytes), NEW b, IsBody(p, b, bytes)
  PROVE  /\ PyWord(p, b, 0) \in 0..(Mod - 1)
         /\ \A k \in 0..(2 * PyWord(p, b, 0) - 1) : PyWord(p, b, k) \in 0..(Mod - 1)
<1>1. /\ b \in [at : Nat, size : Nat] /\ b.at % 4 = 0 /\ b.size >= 4
      /\ b.at + b.size <= bytes /\ 8 * PyWord(p, b, 0) <= b.size
  BY DEF IsBody
<1>2. PyWord(p, b, 0) \in 0..(Mod - 1)
  BY <1>1, BodyWord
<1>3. ASSUME NEW k \in 0..(2 * PyWord(p, b, 0) - 1)
      PROVE  PyWord(p, b, k) \in 0..(Mod - 1)
  <2>1. k \in Nat /\ 4 * k + 4 <= b.size
    BY <1>1, <1>2, ModAssumption
  <2> QED
    BY <1>1, <2>1, BodyWord
<1> QED
  BY <1>2, <1>3

\* A tag, as the parser reads it.
LEMMA TagRead ==
  ASSUME NEW p, NEW bytes, IsPacket(p, bytes), NEW b, IsBody(p, b, bytes),
         NEW i \in 0..(PyWord(p, b, 0) - 1)
  PROVE  LET num == PyWord(p, b, 0)  off == PyOffset(p, b, i)  end == PyEnd(p, b, i)
         IN  /\ off \in Nat /\ end \in Nat
             /\ PyTag(p, b, i) =
                  [key |-> PyWord(p, b, num + i), at |-> b.at + 8 * num + off,
                   size |-> IF end >= off THEN end - off ELSE 0, end |-> b.at + 8 * num + end]
<1> DEFINE num == PyWord(p, b, 0)
           off == PyOffset(p, b, i)
           end == PyEnd(p, b, i)
<1>1. b.at \in Nat /\ b.size \in Nat /\ num \in Nat /\ i \in Nat /\ 8 * num <= b.size
  BY BodyWords, ModAssumption DEF IsBody
<1>2. \A k \in 0..(2 * num - 1) : PyWord(p, b, k) \in Nat
  BY BodyWords, ModAssumption
<1>3. off \in Nat
  BY <1>1, <1>2 DEF PyOffset
<1>4. end \in Nat
  <2>1. CASE i = num - 1
    BY <1>1, <2>1 DEF PyEnd
  <2>2. CASE i # num - 1
    <3>1. i + 1 \in 0..(2 * num - 1)
      BY <1>1, <2>2
    <3> QED
      BY <1>2, <2>2, <3>1 DEF PyEnd
  <2> QED
    BY <2>1, <2>2
<1> DEFINE pyoff == 8 * num + (IF i = 0 THEN 0 ELSE PyWord(p, b, i))
           pyend == IF i = num - 1 THEN b.size ELSE 8 * num + PyWord(p, b, i + 1)
<1>5. PyTag(p, b, i) = [key |-> PyWord(p, b, num + i), at |-> b.at + pyoff,
                        size |-> Max({0, pyend - pyoff}), end |-> b.at + pyend]
  BY DEF PyTag
<1>6. pyoff = 8 * num + off
  BY DEF PyOffset
<1>7. pyend = 8 * num + end
  <2>1. CASE i = num - 1
    BY <1>1, <2>1 DEF PyEnd
  <2>2. CASE i # num - 1
    BY <2>2 DEF PyEnd
  <2> QED
    BY <2>1, <2>2
<1> HIDE DEF pyoff, pyend, num, off, end
<1>8. pyend - pyoff = end - off /\ end - off \in Int
  BY <1>1, <1>3, <1>4, <1>6, <1>7
<1>9. Max({0, pyend - pyoff}) = IF end >= off THEN end - off ELSE 0
  <2>1. Max({0, end - off}) = IF end - off >= 0 THEN end - off ELSE 0
    BY <1>8, MaxOfZero
  <2> QED
    BY <1>3, <1>4, <1>8, <2>1
<1>10. b.at + pyoff = b.at + 8 * num + off /\ b.at + pyend = b.at + 8 * num + end
  BY <1>1, <1>3, <1>4, <1>6, <1>7
<1>11. PyTag(p, b, i) = [key |-> PyWord(p, b, num + i), at |-> b.at + 8 * num + off,
                         size |-> IF end >= off THEN end - off ELSE 0,
                         end |-> b.at + 8 * num + end]
  BY <1>5, <1>9, <1>10
<1> QED
  BY <1>3, <1>4, <1>11 DEF num, off, end

\* A range that one level of the parser accepts has a body whose tags are in order.
LEMMA LevelBody ==
  ASSUME NEW p, NEW bytes, IsPacket(p, bytes), NEW r \in Ranges(bytes), r.at % 4 = 0,
         LevelOK(p, r)
  PROVE  IsBody(p, Body(p, r), bytes) /\ TagsOK(p, Body(p, r))
<1>1. r.at \in Nat /\ r.size \in Nat /\ bytes \in Nat /\ r.at + r.size <= bytes
  BY DEF IsPacket, Ranges
<1>2. HeaderOK(p, r) /\ 8 * PyWord(p, Body(p, r), 0) <= Body(p, r).size
  BY DEF LevelOK
<1>3. CASE HasHeader(p, r)
  <2>1. Body(p, r) = [at |-> r.at + 12, size |-> r.size - 12] /\ r.size >= 16 /\ r.size % 4 = 0
    BY <1>2, <1>3 DEF Body, HeaderOK
  <2>2. /\ r.at + 12 \in Nat /\ r.size - 12 \in Nat /\ (r.at + 12) % 4 = 0
        /\ (r.size - 12) % 4 = 0 /\ r.size - 12 >= 4 /\ r.at + 12 + (r.size - 12) <= bytes
    BY <1>1, <2>1
  <2> QED
    BY <1>2, <2>1, <2>2 DEF IsBody, TagsOK, LevelOK
<1>4. CASE ~HasHeader(p, r)
  <2>1. Body(p, r) = r /\ r.size >= 8 /\ r.size % 4 = 0
    BY <1>2, <1>4 DEF Body, HeaderOK
  <2>2. r \in [at : Nat, size : Nat]
    BY <1>1 DEF Ranges
  <2> QED
    BY <1>1, <1>2, <2>1, <2>2 DEF IsBody, TagsOK, LevelOK
<1> QED
  BY <1>3, <1>4

\* The value of a tag is a range of the packet.
LEMMA ValueInPacket ==
  ASSUME NEW p, NEW bytes, IsPacket(p, bytes), NEW b, IsBody(p, b, bytes), TagsOK(p, b),
         NEW t \in PyTags(p, b)
  PROVE  RangeOf(t) \in Ranges(bytes) /\ t.end \in Nat
<1>1. PICK i \in 0..(PyWord(p, b, 0) - 1) : t = PyTag(p, b, i)
  BY DEF PyTags
<1> DEFINE num == PyWord(p, b, 0)
           off == PyOffset(p, b, i)
           end == PyEnd(p, b, i)
<1>2. /\ off \in Nat /\ end \in Nat
      /\ t.at = b.at + 8 * num + off /\ t.end = b.at + 8 * num + end
      /\ t.size = IF end >= off THEN end - off ELSE 0
  BY <1>1, TagRead
<1>3. num \in Nat /\ b.at \in Nat /\ b.size \in Nat /\ bytes \in Nat /\ b.at + b.size <= bytes
  <2>1. num \in Nat
    BY BodyWords, ModAssumption
  <2> QED
    BY <2>1 DEF IsBody, IsPacket
<1>4. t.at <= b.at + b.size /\ t.end <= b.at + b.size
  BY DEF TagsOK
<1> HIDE DEF num, off, end
<1>5. t.at \in Nat /\ t.size \in Nat /\ t.end \in Nat /\ t.at + t.size <= bytes
  BY <1>2, <1>3, <1>4
<1>6. t.at \in 0..bytes /\ t.size \in 0..bytes
  BY <1>3, <1>5
<1>7. RangeOf(t) \in [at : 0..bytes, size : 0..bytes] /\ RangeOf(t).at + RangeOf(t).size <= bytes
  BY <1>5, <1>6 DEF RangeOf
<1> QED
  BY <1>5, <1>7 DEF Ranges

-----------------------------------------------------------------------------
(* The parser as a whole: what it accepts is the greatest set of ranges that *)
(* are as they should be and whose parent tags hold ranges of the set.       *)

\* The ranges of which all parent tags hold ranges of S.
Accepts(p, bytes, S) ==
  {r \in Ranges(bytes) :
     /\ r.at % 4 = 0
     /\ LevelOK(p, r)
     /\ \A t \in PyTags(p, Body(p, r)) : t.key \in ParentTags => RangeOf(t) \in S}

\* The ranges the parser accepts.
Parsed(p, bytes) == UNION {S \in SUBSET Ranges(bytes) : S \subseteq Accepts(p, bytes, S)}

\* The greatest such set is closed: it is all that it accepts.
LEMMA AcceptedIsFixed ==
  ASSUME NEW p, NEW bytes
  PROVE  Parsed(p, bytes) = Accepts(p, bytes, Parsed(p, bytes))
<1> DEFINE G == Parsed(p, bytes)
<1>1. ASSUME NEW S, NEW T, S \subseteq T PROVE Accepts(p, bytes, S) \subseteq Accepts(p, bytes, T)
  BY <1>1 DEF Accepts
<1>2. G \subseteq Accepts(p, bytes, G)
  <2> SUFFICES ASSUME NEW r \in G PROVE r \in Accepts(p, bytes, G)
    OBVIOUS
  <2>1. PICK S \in SUBSET Ranges(bytes) : S \subseteq Accepts(p, bytes, S) /\ r \in S
    BY DEF Parsed
  <2>2. S \subseteq G
    BY <2>1 DEF Parsed
  <2>3. Accepts(p, bytes, S) \subseteq Accepts(p, bytes, G)
    BY <1>1, <2>2
  <2> QED
    BY <2>1, <2>3
<1>3. Accepts(p, bytes, G) \in SUBSET Ranges(bytes)
  BY DEF Accepts
<1>4. Accepts(p, bytes, G) \subseteq Accepts(p, bytes, Accepts(p, bytes, G))
  BY <1>1, <1>2
<1>5. Accepts(p, bytes, G) \subseteq G
  BY <1>3, <1>4 DEF Parsed
<1> QED
  BY <1>2, <1>5

\* Equivalent truth values are equal.
LEMMA SameTruth ==
  ASSUME NEW a \in BOOLEAN, NEW b \in BOOLEAN, a <=> b
  PROVE  a = b
  OBVIOUS

\* The recursive function of the parser exists, so that it is what its equation says.
LEMMA ParsesIs ==
  ASSUME NEW p, NEW bytes, IsPacket(p, bytes), Parses(p, bytes)
  PROVE  \E f : /\ f = [r \in Ranges(bytes) |->
                          /\ r.at % 4 = 0
                          /\ LevelOK(p, r)
                          /\ \A t \in PyTags(p, Body(p, r)) :
                               t.key \in ParentTags => f[RangeOf(t)]]
                /\ f[[at |-> 0, size |-> bytes]]
<1> DEFINE G     == Parsed(p, bytes)
           R     == Ranges(bytes)
           Of(f) == [r \in R |-> /\ r.at % 4 = 0
                                 /\ LevelOK(p, r)
                                 /\ \A t \in PyTags(p, Body(p, r)) :
                                      t.key \in ParentTags => f[RangeOf(t)]]
           g     == [r \in R |-> r \in G]
<1>1. ASSUME NEW r \in R
      PROVE  r \in G <=> (/\ r.at % 4 = 0
                          /\ LevelOK(p, r)
                          /\ \A t \in PyTags(p, Body(p, r)) :
                               t.key \in ParentTags => g[RangeOf(t)])
  <2>1. r \in G <=> /\ r.at % 4 = 0
                    /\ LevelOK(p, r)
                    /\ \A t \in PyTags(p, Body(p, r)) : t.key \in ParentTags => RangeOf(t) \in G
    BY AcceptedIsFixed DEF Accepts
  <2>2. ASSUME r.at % 4 = 0, LevelOK(p, r), NEW t \in PyTags(p, Body(p, r))
        PROVE  g[RangeOf(t)] <=> RangeOf(t) \in G
    BY <2>2, LevelBody, ValueInPacket
  <2> HIDE DEF g, G
  <2>3. CASE r.at % 4 = 0 /\ LevelOK(p, r)
    <3>1. \A t \in PyTags(p, Body(p, r)) : g[RangeOf(t)] <=> RangeOf(t) \in G
      BY <2>2, <2>3
    <3> QED
      BY <2>1, <2>3, <3>1, Zenon
  <2>4. CASE ~(r.at % 4 = 0 /\ LevelOK(p, r))
    BY <2>1, <2>4, Zenon
  <2> QED
    BY <2>3, <2>4, Zenon
<1>2. g = Of(g)
  <2>1. \A r \in R : (r \in G) = (/\ r.at % 4 = 0
                                  /\ LevelOK(p, r)
                                  /\ \A t \in PyTags(p, Body(p, r)) :
                                       t.key \in ParentTags => g[RangeOf(t)])
    <3> HIDE DEF g, G, R
    <3> SUFFICES ASSUME NEW r \in R
                 PROVE  (r \in G) = (/\ r.at % 4 = 0
                                     /\ LevelOK(p, r)
                                     /\ \A t \in PyTags(p, Body(p, r)) :
                                          t.key \in ParentTags => g[RangeOf(t)])
      OBVIOUS
    <3>1. r \in G <=> (/\ r.at % 4 = 0
                       /\ LevelOK(p, r)
                       /\ \A t \in PyTags(p, Body(p, r)) :
                            t.key \in ParentTags => g[RangeOf(t)])
      BY <1>1
    <3>2. (r \in G) \in BOOLEAN
      OBVIOUS
    <3>3. (/\ r.at % 4 = 0
           /\ LevelOK(p, r)
           /\ \A t \in PyTags(p, Body(p, r)) :
                t.key \in ParentTags => g[RangeOf(t)]) \in BOOLEAN
      OBVIOUS
    <3> QED
      BY <3>1, <3>2, <3>3, SameTruth, Zenon
  <2> DEFINE h == g
  <2>2. g = [r \in R |-> r \in G]
    OBVIOUS
  <2> HIDE DEF g, h, G, R
  <2> QED
    BY <2>1, <2>2, Zenon
<1> DEFINE f == CHOOSE f : f = Of(f)
<1>3. f = Of(f)
  <2> HIDE DEF g, Of
  <2> QED
    BY <1>2
<1>4. f[[at |-> 0, size |-> bytes]]
  BY DEF Parses
<1> HIDE DEF f
<1> QED
  BY <1>3, <1>4

\* What it means that a packet parses: the packet itself, and the values of its
\* parent tags, are in order.
LEMMA ParsesMeans ==
  ASSUME NEW p, NEW bytes, IsPacket(p, bytes), Parses(p, bytes)
  PROVE  /\ Whole(bytes) \in Ranges(bytes) /\ LevelOK(p, Whole(bytes))
         /\ \A t \in PyTags(p, Body(p, Whole(bytes))) : t.key \in ParentTags =>
              t.at % 4 = 0 /\ LevelOK(p, RangeOf(t)) /\ RangeOf(t) \in Ranges(bytes)
<1> DEFINE w == Whole(bytes)
<1>1. w = [at |-> 0, size |-> bytes] /\ w \in Ranges(bytes)
  BY DEF Whole, Ranges, IsPacket
<1>2. PICK f : /\ f = [r \in Ranges(bytes) |->
                          /\ r.at % 4 = 0
                          /\ LevelOK(p, r)
                          /\ \A t \in PyTags(p, Body(p, r)) :
                               t.key \in ParentTags => f[RangeOf(t)]]
               /\ f[[at |-> 0, size |-> bytes]]
  BY ParsesIs
<1> HIDE DEF w
<1>3. \A r \in Ranges(bytes) : f[r] =
         (/\ r.at % 4 = 0
          /\ LevelOK(p, r)
          /\ \A t \in PyTags(p, Body(p, r)) : t.key \in ParentTags => f[RangeOf(t)])
  BY <1>2, Zenon
<1>4. /\ w.at % 4 = 0 /\ LevelOK(p, w)
      /\ \A t \in PyTags(p, Body(p, w)) : t.key \in ParentTags => f[RangeOf(t)]
  BY <1>1, <1>2, <1>3
<1>5. ASSUME NEW t \in PyTags(p, Body(p, w)), t.key \in ParentTags
      PROVE  t.at % 4 = 0 /\ LevelOK(p, RangeOf(t)) /\ RangeOf(t) \in Ranges(bytes)
  <2>1. RangeOf(t) \in Ranges(bytes)
    BY <1>1, <1>4, LevelBody, ValueInPacket
  <2>2. RangeOf(t).at % 4 = 0 /\ LevelOK(p, RangeOf(t))
    BY <1>3, <1>4, <1>5, <2>1
  <2>3. RangeOf(t).at = t.at
    BY DEF RangeOf
  <2> QED
    BY <2>1, <2>2, <2>3
<1> QED
  BY <1>1, <1>4, <1>5 DEF w

-----------------------------------------------------------------------------
(* C and Python read the same *)

\* The blob of C for a range of Python.
BlobOf(r) == [at |-> r.at \div 4, size |-> r.size]

\* What vrt_get_tag makes of the tags of a body that Python accepts.
ReadAlike(p, b, key) ==
  LET result == GetTag(p, BlobOf(b), key)
      found  == {t \in PyTags(p, b) : t.key = key}
  IN  /\ found = {} => result.ret = "tag not found"
      /\ \A t \in found :
           t.at % 4 = 0 =>
             IF t.at <= t.end
               THEN /\ result.ret = "success"
                    /\ result.blob = [at |-> t.at \div 4, size |-> t.size]
               ELSE result.ret = "malformed"

\* Unsigned arithmetic of which the outcome is a word, or is one word too little.
LEMMA UnsignedBelow ==
  ASSUME NEW x \in Int, -Mod <= x, x < 0
  PROVE  x % Mod = x + Mod
  BY ModAssumption

\* The value: its start and size are counted as unsigned words.
LEMMA ValueAlike ==
  ASSUME NEW at \in Nat, NEW n \in Nat, n % 4 = 0, n < Mod,
         NEW num \in Nat, 8 * num <= n,
         NEW off \in Nat, off % 4 = 0, 8 * num + off <= n,
         NEW end \in Nat, 8 * num + end <= n
  PROVE  LET result == Slice([at |-> at, size |-> n], (2 * num + off \div 4) % Mod, (end - off) % Mod)
         IN  IF off <= end
               THEN /\ result.ret = "success"
                    /\ result.blob = [at |-> at + 2 * num + off \div 4, size |-> end - off]
               ELSE result.ret = "malformed"
<1> DEFINE q    == off \div 4
           blob == [at |-> at, size |-> n]
           o    == (2 * num + q) % Mod
           s    == (end - off) % Mod
<1>1. q \in Nat /\ 4 * q = off
  OBVIOUS
<1>2. Mod \in Nat /\ Mod > 0
  BY ModAssumption
<1> HIDE DEF q
<1>3. 2 * num + q \in 0..(Mod - 1)
  BY <1>1, <1>2
<1>4. o = 2 * num + q
  BY <1>3, Unsigned
<1>5. CASE off <= end
  <2>1. end - off \in 0..(Mod - 1)
    BY <1>2, <1>5
  <2>2. s = end - off
    BY <2>1, Unsigned
  <2> HIDE DEF o, s
  <2>3. 4 * o + s = 8 * num + end
    BY <1>1, <1>4, <2>2
  <2>4. 4 * o + s \in 0..(Mod - 1) /\ 4 * o + s <= n
    BY <1>2, <2>3
  <2>5. (4 * o + s) % Mod = 4 * o + s
    BY <2>4, Unsigned
  <2>6. SliceFits(blob, o, s)
    BY <2>4, <2>5 DEF SliceFits
  <2>7. Slice(blob, o, s) = Success([at |-> at + o, size |-> s])
    BY <2>6 DEF Slice
  <2>8. at + o = at + 2 * num + q
    BY <1>1, <1>4
  <2> QED
    BY <1>5, <2>2, <2>7, <2>8 DEF Success, o, s, q
<1>6. CASE ~(off <= end)
  <2>1. end - off \in Int /\ -Mod <= end - off /\ end - off < 0
    BY <1>2, <1>6
  <2>2. s = end - off + Mod
    BY <2>1, UnsignedBelow
  <2> HIDE DEF o, s
  <2>3. 4 * o + s = 8 * num + end + Mod
    BY <1>1, <1>2, <1>4, <2>2
  <2>4. 4 * o + s >= Mod /\ 4 * o + s \in Int
    BY <1>2, <2>3
  <2>5. (4 * o + s) % Mod # 4 * o + s
    BY <1>2, <2>4, Unsigned
  <2>6. ~SliceFits(blob, o, s)
    BY <2>5 DEF SliceFits
  <2>7. Slice(blob, o, s) = Failure("malformed")
    BY <2>6 DEF Slice
  <2> QED
    BY <1>6, <2>7 DEF Failure, o, s, q
<1> QED
  BY <1>5, <1>6

\* Of a body that Python accepts, C finds the same tags at the same bytes.
LEMMA BodyReadAlike ==
  ASSUME NEW p, NEW bytes, IsPacket(p, bytes), bytes < Mod,
         NEW b, IsBody(p, b, bytes), TagsOK(p, b), NEW key
  PROVE  ReadAlike(p, b, key)
<1> DEFINE in    == BlobOf(b)
           num   == PyWord(p, b, 0)
           stops == {i \in 0..(num - 1) : StopsAt(p, in, key, num, i)}
<1>1. /\ b.at \in Nat /\ b.size \in Nat /\ b.at % 4 = 0 /\ b.size % 4 = 0 /\ b.size >= 4
      /\ b.size < Mod /\ Mod \in Nat /\ Mod > 0
  BY ModAssumption DEF IsBody, IsPacket
<1>2. num \in 0..(Mod - 1) /\ num \in Nat /\ 8 * num <= b.size
  BY <1>1, BodyWords DEF IsBody
<1>3. \A k : Word(p, in, k) = PyWord(p, b, k)
  BY DEF Word, PyWord, BlobOf
<1>4. in.size = b.size /\ in.at = b.at \div 4
  BY DEF BlobOf
<1>5. \A k \in Nat : 4 * k + 4 <= b.size => Readable(in, k)
  BY <1>1, <1>4 DEF Readable
<1> HIDE DEF in, num
<1>6. \A i \in 0..(num - 1) : (i + num) % Mod = i + num /\ Readable(in, i + num)
  <2> SUFFICES ASSUME NEW i \in 0..(num - 1)
               PROVE  (i + num) % Mod = i + num /\ Readable(in, i + num)
    OBVIOUS
  <2>1. i + num \in 0..(Mod - 1) /\ 4 * (i + num) + 4 <= b.size
    BY <1>1, <1>2
  <2> QED
    BY <1>5, <2>1, Unsigned
<1>7. Readable(in, 0) /\ Word(p, in, 0) = num
  BY <1>1, <1>3, <1>5 DEF num
<1>8. \A i \in 0..(num - 1) : StopsAt(p, in, key, num, i) <=> PyTag(p, b, i).key = key
  <2> SUFFICES ASSUME NEW i \in 0..(num - 1)
               PROVE  StopsAt(p, in, key, num, i) <=> PyTag(p, b, i).key = key
    OBVIOUS
  <2>1. PyTag(p, b, i).key = PyWord(p, b, num + i)
    BY DEF PyTag, num
  <2>2. num + i = i + num
    BY <1>2
  <2> QED
    BY <1>3, <1>6, <2>1, <2>2 DEF StopsAt
<1>9. PyTags(p, b) = {PyTag(p, b, i) : i \in 0..(num - 1)}
  BY DEF PyTags, num
<1>10. CASE \A t \in PyTags(p, b) : t.key # key
  <2>1. stops = {}
    BY <1>8, <1>9, <1>10
  <2>2. GetTag(p, in, key) = Failure("tag not found")
    BY <1>7, <2>1 DEF GetTag
  <2>3. {t \in PyTags(p, b) : t.key = key} = {}
    BY <1>10
  <2>4. GetTag(p, in, key).ret = "tag not found"
    <3>1. Failure("tag not found").ret = "tag not found"
      BY DEF Failure
    <3> QED
      BY <2>2, <3>1
  <2>5. GetTag(p, BlobOf(b), key).ret = "tag not found"
    BY <2>4 DEF in
  <2> QED
    BY <2>3, <2>5 DEF ReadAlike
<1>11. ASSUME NEW t \in PyTags(p, b), t.key = key, t.at % 4 = 0
       PROVE  IF t.at <= t.end
                THEN /\ GetTag(p, in, key).ret = "success"
                     /\ GetTag(p, in, key).blob = [at |-> t.at \div 4, size |-> t.size]
                ELSE GetTag(p, in, key).ret = "malformed"
  <2>1. PICK i \in 0..(num - 1) : t = PyTag(p, b, i)
    BY <1>9
  <2>2. \A j \in 0..(num - 1) : PyTag(p, b, j).key = key => j = i
    BY <1>11, <2>1 DEF TagsOK, KeysDiffer, num
  <2>3. stops = {i}
    BY <1>8, <1>11, <2>1, <2>2
  <2>4. Min(stops) = i
    <3>1. i \in Nat
      OBVIOUS
    <3>2. {i} \in SUBSET Nat /\ {i} # {}
      BY <3>1
    <3>3. Min({i}) \in {i}
      BY <3>2, MinIsLeast
    <3> QED
      BY <2>3, <3>3
  <2> DEFINE off == PyOffset(p, b, i)
             end == PyEnd(p, b, i)
  <2>5. /\ off \in Nat /\ end \in Nat
        /\ t.at = b.at + 8 * num + off /\ t.end = b.at + 8 * num + end
        /\ t.size = IF end >= off THEN end - off ELSE 0
    BY <2>1, TagRead DEF num
  <2>6. TagOffset(p, in, i) = off
    BY <1>3 DEF TagOffset, PyOffset
  <2>7. TagEnd(p, in, num, i) = end
    <3>1. b.size - 8 * num \in 0..(Mod - 1)
      BY <1>1, <1>2
    <3>2. (b.size - 8 * num) % Mod = b.size - 8 * num
      BY <3>1, Unsigned
    <3> QED
      BY <1>3, <1>4, <3>2 DEF TagEnd, PyEnd, num
  <2>8. 8 * num + off <= b.size /\ 8 * num + end <= b.size /\ off % 4 = 0
    <3>1. t.at <= b.at + b.size /\ t.end <= b.at + b.size
      BY DEF TagsOK
    <3> HIDE DEF off, end
    <3>2. off % 4 = 0
      BY <1>1, <1>2, <1>11, <2>5
    <3> QED
      BY <1>1, <1>2, <2>5, <3>1, <3>2
  <2> HIDE DEF off, end
  <2> DEFINE result == Slice(in, (2 * num + off \div 4) % Mod, (end - off) % Mod)
  <2>9. GetTag(p, in, key) = result
    <3>1. stops # {} /\ Readable(in, (i + num) % Mod)
      BY <1>6, <2>3
    <3> HIDE DEF stops
    <3> QED
      BY <1>7, <2>4, <2>6, <2>7, <3>1 DEF GetTag, stops
  <2>10. in = [at |-> in.at, size |-> b.size] /\ in.at \in Nat
    BY <1>1 DEF in, BlobOf
  <2>11. IF off <= end
           THEN /\ result.ret = "success"
                /\ result.blob = [at |-> in.at + 2 * num + off \div 4, size |-> end - off]
           ELSE result.ret = "malformed"
    BY <1>1, <1>2, <2>5, <2>8, <2>10, ValueAlike
  <2>12. t.at <= t.end <=> off <= end
    BY <1>1, <1>2, <2>5
  <2>13. t.at \div 4 = in.at + 2 * num + off \div 4
    BY <1>1, <1>2, <1>4, <2>5, <2>8
  <2> HIDE DEF result
  <2>14. off <= end => t.size = end - off
    BY <2>5
  <2> QED
    BY <2>9, <2>11, <2>12, <2>13, <2>14
<1> QED
  BY <1>10, <1>11 DEF ReadAlike, in

\* What arrives is a packet whose length is a word.
LEMMA PacketArrived ==
  ASSUME Arrived
  PROVE  IsPacket(packet, length) /\ length < Mod /\ length \in Nat
  BY ModAssumption DEF Arrived, IsPacket

\* How C opens a packet that Python accepts.
LEMMA OpenedAlike ==
  ASSUME NEW p, NEW bytes \in Nat, LevelOK(p, Whole(bytes)), NEW variant \in Nat,
         variant >= 5 <=> HasHeader(p, Whole(bytes))
  PROVE  Opened(p, bytes, variant) = Success(BlobOf(Body(p, Whole(bytes))))
<1> DEFINE w == Whole(bytes)
<1>1. w.at = 0 /\ w.size = bytes /\ HeaderOK(p, w)
  BY DEF Whole, LevelOK
<1>2. PyWord(p, w, 0) = p[1] /\ PyWord(p, w, 1) = p[2] /\ PyWord(p, w, 2) = p[3]
  BY <1>1 DEF PyWord
<1>3. CASE variant >= 5
  <2>1. /\ p[1] = Magic[1] /\ p[2] = Magic[2] /\ bytes >= 16 /\ bytes % 4 = 0
        /\ bytes - 12 = p[3] /\ Body(p, w) = [at |-> 12, size |-> bytes - 12]
    BY <1>1, <1>2, <1>3 DEF HasHeader, HeaderOK, Body
  <2>2. HeaderChecked(p, bytes, variant).ret = "success"
    BY <1>3, <2>1 DEF HeaderChecked, HeaderRead, Step, Check
  <2>3. Opened(p, bytes, variant) = BlobInit(3, bytes - 12)
    BY <1>3, <2>2 DEF Opened
  <2>4. (bytes - 12) % 4 = 0 /\ 12 \div 4 = 3
    BY <2>1
  <2> QED
    BY <2>1, <2>3, <2>4 DEF BlobInit, BlobOf
<1>4. CASE ~(variant >= 5)
  <2>1. bytes % 4 = 0 /\ Body(p, w) = w /\ variant < 5
    BY <1>1, <1>4 DEF HeaderOK, Body
  <2>2. Opened(p, bytes, variant) = BlobInit(0, bytes)
    <3>1. HeaderChecked(p, bytes, variant).ret = "success"
      BY <2>1 DEF HeaderChecked, Step
    <3> QED
      BY <2>1, <3>1 DEF Opened
  <2>3. BlobOf(w) = [at |-> 0, size |-> bytes]
    BY <1>1 DEF BlobOf
  <2> QED
    BY <2>1, <2>2, <2>3 DEF BlobInit
<1> QED
  BY <1>3, <1>4

\* Where the Python parser accepts a packet, C reads the same tags.
THEOREM ReadersAgree ==
  []Arrived => []SameBytes
<1>1. ASSUME Arrived PROVE SameBytes
  <2> DEFINE whole   == Whole(length)
             variant == IF HasHeader(packet, whole) THEN 5 ELSE 0
  <2> SUFFICES ASSUME Parses(packet, length), NEW key \in Keys
               PROVE  LET result == CRead(variant, key)
                          found  == PyGetTag(packet, whole, key)
                      IN  /\ found = {} => result.ret = "tag not found"
                          /\ \A t \in found :
                               t.at % 4 = 0 =>
                                 IF t.at <= t.end
                                   THEN /\ result.ret = "success"
                                        /\ result.blob = [at |-> t.at \div 4, size |-> t.size]
                                   ELSE result.ret = "malformed"
    BY DEF SameBytes, Whole
  <2>1. IsPacket(packet, length) /\ length < Mod /\ length \in Nat
    BY <1>1, PacketArrived
  <2>2. whole \in Ranges(length) /\ LevelOK(packet, whole) /\ whole.at % 4 = 0
    BY <2>1, ParsesMeans DEF Whole
  <2>3. variant \in Nat /\ (variant >= 5 <=> HasHeader(packet, whole))
    OBVIOUS
  <2> HIDE DEF variant
  <2>4. Opened(packet, length, variant) = Success(BlobOf(Body(packet, whole)))
    BY <2>1, <2>2, <2>3, OpenedAlike
  <2>5. CRead(variant, key) = GetTag(packet, BlobOf(Body(packet, whole)), key)
    BY <2>4 DEF CRead, GetTagOf, Success
  <2>6. ReadAlike(packet, Body(packet, whole), key)
    BY <2>1, <2>2, LevelBody, BodyReadAlike
  <2> QED
    BY <2>5, <2>6 DEF ReadAlike, PyGetTag
<1> QED
  BY <1>1, PTL

-----------------------------------------------------------------------------
(* Chains of lookups *)

\* What the lookups of a chain return, one after the other.
Chain(f, variant, keys, n) ==
  f = [k \in 0..n |->
         IF k = 0 THEN Opened(packet, length, variant)
         ELSE IF Inside(f[k - 1].blob, length) THEN GetTagOf(packet, f[k - 1], keys[k])
                                               ELSE f[k - 1]]

\* A chain of any length exists, so that it is what its equation says.
LEMMA ChainExists ==
  ASSUME NEW variant, NEW keys, NEW n \in Nat
  PROVE  \E f : Chain(f, variant, keys, n)
<1> DEFINE S == {m \in Nat : ~ \E f : Chain(f, variant, keys, m)}
           Start == Opened(packet, length, variant)
           After(b, k) == IF Inside(b.blob, length) THEN GetTagOf(packet, b, keys[k]) ELSE b
<1> SUFFICES ASSUME S # {} PROVE FALSE
  OBVIOUS
<1>1. PICK m \in S : \A k \in S : m <= k
  <2>1. S \in SUBSET Nat
    OBVIOUS
  <2> HIDE DEF S
  <2> QED
    BY <2>1, MinIsLeast
<1>2. CASE m = 0
  <2>1. Chain([k \in 0..0 |-> Start], variant, keys, 0)
    BY DEF Chain
  <2> QED
    BY <1>1, <1>2, <2>1
<1>3. CASE m # 0
  <2>1. m - 1 \in Nat /\ m - 1 \notin S
    BY <1>1, <1>3
  <2>2. PICK g : Chain(g, variant, keys, m - 1)
    BY <2>1
  <2>3. g = [k \in 0..m - 1 |-> IF k = 0 THEN Start ELSE After(g[k - 1], k)]
    BY <2>2 DEF Chain
  <2> HIDE DEF After, Start
  <2> DEFINE h == [k \in 0..m |-> IF k = m THEN After(g[m - 1], m) ELSE g[k]]
  <2>4. \A k \in 0..m : h[k] = IF k = 0 THEN Start ELSE After(h[k - 1], k)
    <3> SUFFICES ASSUME NEW k \in 0..m
                 PROVE  h[k] = IF k = 0 THEN Start ELSE After(h[k - 1], k)
      OBVIOUS
    <3>1. k # 0 => h[k - 1] = g[k - 1]
      BY <1>1
    <3>2. CASE k = m
      BY <1>3, <3>1, <3>2
    <3>3. CASE k # m
      <4>1. k \in 0..m - 1
        BY <3>3
      <4>2. g[k] = IF k = 0 THEN Start ELSE After(g[k - 1], k)
        BY <2>3, <4>1
      <4>3. h[k] = g[k]
        BY <3>3
      <4> HIDE DEF h
      <4> QED
        BY <3>1, <4>2, <4>3
    <3> QED
      BY <3>2, <3>3
  <2>5. Chain(h, variant, keys, m)
    <3>1. h = [k \in 0..m |-> h[k]]
      OBVIOUS
    <3> HIDE DEF h
    <3>2. h = [k \in 0..m |-> IF k = 0 THEN Start ELSE After(h[k - 1], k)]
      BY <2>4, <3>1
    <3> QED
      BY <3>2 DEF Chain, After, Start
  <2> QED
    BY <1>1, <2>5
<1> QED
  BY <1>2, <1>3

\* Every lookup of a chain returns a blob in the packet, or none.
LEMMA LookupsStayInside ==
  ASSUME IsPacket(packet, length), NEW variant \in Nat, NEW keys, Len(keys) \in Nat,
         NEW result \in Lookups(variant, keys)
  PROVE  ResultIn(result, length)
<1> DEFINE n == Len(keys)
           f == CHOOSE f : Chain(f, variant, keys, n)
<1>1. Chain(f, variant, keys, n)
  BY ChainExists
<1>2. (\E i \in 0..n : result = f[i]) /\ n \in Nat
  BY DEF Lookups, Chain
<1> HIDE DEF f, n
<1>3. \A k \in 0..n : f[k] = IF k = 0 THEN Opened(packet, length, variant)
                             ELSE IF Inside(f[k - 1].blob, length)
                                    THEN GetTagOf(packet, f[k - 1], keys[k])
                                    ELSE f[k - 1]
  BY <1>1 DEF Chain
<1> DEFINE S == {k \in 0..n : ~ResultIn(f[k], length)}
<1>4. S = {}
  <2> SUFFICES ASSUME S # {} PROVE FALSE
    OBVIOUS
  <2>1. PICK k \in S : \A m \in S : k <= m
    <3>1. S \in SUBSET Nat
      OBVIOUS
    <3> HIDE DEF S
    <3> QED
      BY <3>1, MinIsLeast
  <2>2. CASE k = 0
    <3>1. f[k] = Opened(packet, length, variant) /\ length \in Nat
      BY <1>3, <2>2 DEF IsPacket
    <3> QED
      BY <2>1, <3>1, OpenedIn
  <2>3. CASE k # 0
    <3>1. k - 1 \in 0..n /\ k - 1 \notin S
      <4>1. k \in 0..n /\ k - 1 < k
        BY <2>1
      <4>2. k - 1 \in 0..n
        BY <1>2, <2>3, <4>1
      <4> HIDE DEF S
      <4> QED
        BY <2>1, <4>1, <4>2
    <3>2. ResultIn(f[k - 1], length)
      BY <3>1
    <3>3. f[k] = GetTagOf(packet, f[k - 1], keys[k]) \/ f[k] = f[k - 1]
      BY <1>3, <2>1, <2>3
    <3> QED
      BY <2>1, <3>2, <3>3, GetTagOfIn
  <2> QED
    BY <2>2, <2>3
<1> QED
  BY <1>2, <1>4

\* However a packet was damaged, every blob that vrt_get_tag returns, at the top or
\* within other tags, lies in the bytes that were received.
THEOREM LookupsInBounds ==
  []Arrived => []InBounds
<1>1. ASSUME Arrived PROVE InBounds
  <2> SUFFICES ASSUME NEW variant \in {0, 5}, NEW keys \in Chains,
                      NEW result \in Lookups(variant, keys), result.ret = "success"
               PROVE  Inside(result.blob, length)
    BY <1>1 DEF InBounds
  <2>1. IsPacket(packet, length) /\ variant \in Nat
    BY <1>1, PacketArrived
  <2>2. Len(keys) \in Nat
    <3>1. CASE reply.told
      BY <3>1 DEF Chains
    <3>2. CASE ~reply.told
      BY <3>2 DEF Chains
    <3> QED
      BY <3>1, <3>2
  <2>3. ResultIn(result, length)
    BY <2>1, <2>2, LookupsStayInside
  <2> QED
    BY <2>3 DEF ResultIn, BlobIn
<1> QED
  BY <1>1, PTL

-----------------------------------------------------------------------------
(* Verdicts *)

\* Eight steps in a row succeed if each of them does.
LEMMA EightSucceed ==
  ASSUME NEW s1, NEW s2, NEW s3, NEW s4, NEW s5, NEW s6, NEW s7, NEW s8
  PROVE  Run(<<s1, s2, s3, s4, s5, s6, s7, s8>>).ret = "success" <=>
           /\ s1.ret = "success" /\ s2.ret = "success" /\ s3.ret = "success"
           /\ s4.ret = "success" /\ s5.ret = "success" /\ s6.ret = "success"
           /\ s7.ret = "success" /\ s8.ret = "success"
<1> DEFINE steps  == <<s1, s2, s3, s4, s5, s6, s7, s8>>
           failed == {k \in DOMAIN steps : steps[k].ret # "success"}
<1>1. DOMAIN steps = 1..8 /\ Len(steps) = 8
  OBVIOUS
<1>2. (\A k \in 1..8 : steps[k].ret = "success") <=>
           /\ s1.ret = "success" /\ s2.ret = "success" /\ s3.ret = "success"
           /\ s4.ret = "success" /\ s5.ret = "success" /\ s6.ret = "success"
           /\ s7.ret = "success" /\ s8.ret = "success"
  <2>1. /\ steps[1] = s1 /\ steps[2] = s2 /\ steps[3] = s3 /\ steps[4] = s4
        /\ steps[5] = s5 /\ steps[6] = s6 /\ steps[7] = s7 /\ steps[8] = s8
    OBVIOUS
  <2>2. \A k \in 1..8 : k = 1 \/ k = 2 \/ k = 3 \/ k = 4 \/ k = 5 \/ k = 6 \/ k = 7 \/ k = 8
    OBVIOUS
  <2> HIDE DEF steps
  <2> QED
    BY <2>1, <2>2
<1> HIDE DEF steps
<1>3. CASE failed = {}
  <2>1. Run(steps).ret = steps[8].ret
    BY <1>1, <1>3 DEF Run, Step
  <2>2. \A k \in 1..8 : steps[k].ret = "success"
    BY <1>1, <1>3
  <2> QED
    BY <1>2, <2>1, <2>2 DEF steps
<1>4. CASE failed # {}
  <2>1. Run(steps).ret = steps[Min(failed)].ret
    BY <1>4 DEF Run, Step
  <2>2. Min(failed) \in failed
    <3>1. failed \in SUBSET Nat
      BY <1>1
    <3> HIDE DEF failed
    <3> QED
      BY <1>4, <3>1, MinIsLeast
  <2>3. Min(failed) \in 1..8 /\ steps[Min(failed)].ret # "success"
    BY <1>1, <2>2
  <2> HIDE DEF failed
  <2>4. ~(\A k \in 1..8 : steps[k].ret = "success")
    BY <2>3
  <2> QED
    BY <1>2, <2>1, <2>3, <2>4 DEF steps
<1> QED
  BY <1>3, <1>4

\* What the two copies of vrt_parse_response check besides the header.
RestChecked(p, nonce, pk, variant, got) ==
  /\ Check(4 * Len(nonce) >= LongNode, "wrong size") = "success"
  /\ TagsFound(got).ret = "success"
  /\ PubkSized(got.pubk.blob).ret = "success"
  /\ VerifyDele(p, got.cert_sig.blob, got.cert_dele.blob, pk).ret = "success"
  /\ VerifyNonce(p, got.srep.blob, got.indx.blob, got.path.blob, nonce, variant).ret = "success"
  /\ VerifyBounds(p, got.srep.blob, got.cert_dele.blob).ret = "success"
  /\ VerifyPubk(p, got.sig.blob, got.srep.blob, got.pubk.blob).ret = "success"

\* A client accepts if the header and the rest are in order.
LEMMA AcceptsIf ==
  ASSUME NEW p, NEW bytes, NEW nonce, NEW pk, NEW variant
  PROVE  LET c    == ParseResponse(p, bytes, nonce, pk, variant)
             srep == Tags(p, Opened(p, bytes, variant)).srep.blob
         IN  /\ c.ret = "success" <=>
                  /\ HeaderChecked(p, bytes, variant).ret = "success"
                  /\ RestChecked(p, nonce, pk, variant, Tags(p, Opened(p, bytes, variant)))
             /\ c.ret = "success" =>
                  c.midp = ToMicroseconds(Midp(p, srep), variant) /\ c.radi = Radi(p, srep)
<1> DEFINE got == Tags(p, Opened(p, bytes, variant))
           run == Checked(p, bytes, nonce, pk, variant, got)
           c   == ParseResponse(p, bytes, nonce, pk, variant)
<1>1. c = Verdict(run, ToMicroseconds(Midp(p, got.srep.blob), variant), Radi(p, got.srep.blob))
  BY DEF ParseResponse
<1> HIDE DEF got
<1>2. run.ret = "success" <=>
        /\ HeaderChecked(p, bytes, variant).ret = "success"
        /\ RestChecked(p, nonce, pk, variant, got)
  <2> DEFINE header == HeaderChecked(p, bytes, variant)
             sized  == Step(Check(4 * Len(nonce) >= LongNode, "wrong size"), {})
             dele   == VerifyDele(p, got.cert_sig.blob, got.cert_dele.blob, pk)
             tree   == VerifyNonce(p, got.srep.blob, got.indx.blob, got.path.blob, nonce, variant)
             bounds == VerifyBounds(p, got.srep.blob, got.cert_dele.blob)
             signed == VerifyPubk(p, got.sig.blob, got.srep.blob, got.pubk.blob)
  <2>1. header.ret = HeaderChecked(p, bytes, variant).ret
    OBVIOUS
  <2>2. sized.ret = Check(4 * Len(nonce) >= LongNode, "wrong size")
    BY DEF Step
  <2>3. run = Run(<<header, sized, TagsFound(got), PubkSized(got.pubk.blob),
                    dele, tree, bounds, signed>>)
    BY DEF Checked
  <2> HIDE DEF header, sized, run
  <2>4. run.ret = "success" <=>
          /\ header.ret = "success" /\ sized.ret = "success" /\ TagsFound(got).ret = "success"
          /\ PubkSized(got.pubk.blob).ret = "success" /\ dele.ret = "success"
          /\ tree.ret = "success" /\ bounds.ret = "success" /\ signed.ret = "success"
    BY <2>3, EightSucceed
  <2> QED
    BY <2>1, <2>2, <2>4 DEF RestChecked
<1> HIDE DEF run
<1>3. /\ c.ret = run.ret
      /\ run.ret = "success" => /\ c.midp = ToMicroseconds(Midp(p, got.srep.blob), variant)
                                /\ c.radi = Radi(p, got.srep.blob)
  BY <1>1 DEF Verdict
<1> QED
  BY <1>2, <1>3 DEF got

\* The same for the ESP32.
LEMMA EspAcceptsIf ==
  ASSUME NEW p, NEW bytes, NEW nonce, NEW pk, NEW variant
  PROVE  LET c    == EspParseResponse(p, bytes, nonce, pk, variant)
             srep == EspTags(p, EspOpened(p, bytes, variant)).srep.blob
         IN  /\ c.ret = "success" <=>
                  /\ EspHeaderChecked(p, bytes, variant).ret = "success"
                  /\ RestChecked(p, nonce, pk, CVariant(variant),
                                 EspTags(p, EspOpened(p, bytes, variant)))
             /\ c.ret = "success" => c.midp = Midp(p, srep) /\ c.radi = Radi(p, srep)
<1> DEFINE got == EspTags(p, EspOpened(p, bytes, variant))
           run == EspChecked(p, bytes, nonce, pk, variant, got)
           c   == EspParseResponse(p, bytes, nonce, pk, variant)
<1>1. c = Verdict(run, Midp(p, got.srep.blob), Radi(p, got.srep.blob))
  BY DEF EspParseResponse
<1> HIDE DEF got
<1>2. run.ret = "success" <=>
        /\ EspHeaderChecked(p, bytes, variant).ret = "success"
        /\ RestChecked(p, nonce, pk, CVariant(variant), got)
  <2> DEFINE header == EspHeaderChecked(p, bytes, variant)
             sized  == Step(Check(4 * Len(nonce) >= LongNode, "wrong size"), {})
             dele   == VerifyDele(p, got.cert_sig.blob, got.cert_dele.blob, pk)
             tree   == VerifyNonce(p, got.srep.blob, got.indx.blob, got.path.blob, nonce,
                                   CVariant(variant))
             bounds == VerifyBounds(p, got.srep.blob, got.cert_dele.blob)
             signed == VerifyPubk(p, got.sig.blob, got.srep.blob, got.pubk.blob)
  <2>1. header.ret = EspHeaderChecked(p, bytes, variant).ret
    OBVIOUS
  <2>2. sized.ret = Check(4 * Len(nonce) >= LongNode, "wrong size")
    BY DEF Step
  <2>3. run = Run(<<header, sized, TagsFound(got), dele, PubkSized(got.pubk.blob),
                    signed, tree, bounds>>)
    BY DEF EspChecked, EspVerifyDele, EspVerifyNonce, EspVerifyBounds, EspVerifyPubk
  <2> HIDE DEF header, sized, run
  <2>4. run.ret = "success" <=>
          /\ header.ret = "success" /\ sized.ret = "success" /\ TagsFound(got).ret = "success"
          /\ dele.ret = "success" /\ PubkSized(got.pubk.blob).ret = "success"
          /\ signed.ret = "success" /\ tree.ret = "success" /\ bounds.ret = "success"
    BY <2>3, EightSucceed
  <2> QED
    BY <2>1, <2>2, <2>4 DEF RestChecked
<1> HIDE DEF run
<1>3. /\ c.ret = run.ret
      /\ run.ret = "success" => c.midp = Midp(p, got.srep.blob) /\ c.radi = Radi(p, got.srep.blob)
  BY <1>1 DEF Verdict
<1> QED
  BY <1>2, <1>3 DEF got

\* A client that accepts a packet has found its times, and could read them.
LEMMA TimesRead ==
  ASSUME NEW p, NEW nonce, NEW pk, NEW variant, NEW got,
         RestChecked(p, nonce, pk, variant, got)
  PROVE  /\ GetTag(p, got.srep.blob, MIDP).ret = "success"
         /\ GetTag(p, got.srep.blob, RADI).ret = "success"
         /\ LongReadable(GetTag(p, got.srep.blob, MIDP).blob, 0)
         /\ Readable(GetTag(p, got.srep.blob, RADI).blob, 0)
<1> DEFINE srep  == got.srep.blob
           dele  == got.cert_dele.blob
           midp  == GetTag(p, srep, MIDP)
           radi  == GetTag(p, srep, RADI)
           mint  == GetTag(p, dele, MINT)
           maxt  == GetTag(p, dele, MAXT)
           codes == <<midp.ret, radi.ret, mint.ret, maxt.ret,
                      Check(LongReadable(midp.blob, 0), "malformed"),
                      Check(Readable(radi.blob, 0), "malformed"),
                      Check(LongReadable(mint.blob, 0), "malformed"),
                      Check(LongReadable(maxt.blob, 0), "malformed")>>
<1> HIDE DEF midp, radi, mint, maxt
<1>1. VerifyBounds(p, srep, dele).ret = "success"
  BY DEF RestChecked
<1> HIDE DEF srep, dele
<1>2. FirstError(codes) = "success"
  BY <1>1 DEF VerifyBounds, Step, midp, radi, mint, maxt
<1>3. \A k \in 1..8 : codes[k] = "success"
  <2>1. DOMAIN codes = 1..8
    OBVIOUS
  <2>2. DOMAIN codes \in SUBSET Nat
    BY <2>1
  <2> HIDE DEF codes
  <2> QED
    BY <1>2, <2>1, <2>2, AllSucceed
<1>4. codes[1] = "success" /\ codes[2] = "success" /\ codes[5] = "success" /\ codes[6] = "success"
  BY <1>3
<1>5. /\ midp.ret = "success" /\ radi.ret = "success"
      /\ LongReadable(midp.blob, 0) /\ Readable(radi.blob, 0)
  BY <1>4 DEF Check
<1> QED
  BY <1>5 DEF midp, radi, srep

\* The tags of a packet a client accepts.
LEMMA TagRets ==
  ASSUME NEW p, NEW opened, TagsFound(Tags(p, opened)).ret = "success"
  PROVE  opened.ret = "success" /\ Tags(p, opened).srep = GetTag(p, opened.blob, SREP)
                                /\ Tags(p, opened).srep.ret = "success"
<1> DEFINE got  == Tags(p, opened)
           codes == <<got.opened.ret, got.srep.ret, got.sig.ret, got.cert.ret,
                      got.cert_sig.ret, got.cert_dele.ret, got.pubk.ret,
                      got.indx.ret, got.path.ret>>
<1> HIDE DEF got
<1>1. FirstError(codes) = "success"
  BY DEF TagsFound, Step, got
<1>2. \A k \in 1..9 : codes[k] = "success"
  <2>1. DOMAIN codes = 1..9
    OBVIOUS
  <2>2. DOMAIN codes \in SUBSET Nat
    BY <2>1
  <2> HIDE DEF codes
  <2> QED
    BY <1>1, <2>1, <2>2, AllSucceed
<1>3. codes[1] = "success" /\ codes[2] = "success"
  BY <1>2
<1>4. got.opened.ret = "success" /\ got.srep.ret = "success"
  BY <1>3
<1>5. got.opened = opened /\ got.srep = GetTagOf(p, opened, SREP)
  BY DEF got, Tags
<1> QED
  BY <1>4, <1>5 DEF GetTagOf, got

-----------------------------------------------------------------------------
(* The time *)

\* A product grows with its second factor.
LEMMA Monotone ==
  ASSUME NEW a \in Nat, NEW b \in Nat, NEW c \in Nat, a <= b
  PROVE  c * a <= c * b
<1>1. b - a \in Nat
  OBVIOUS
<1>2. c * (b - a) >= 0
  BY <1>1
<1>3. c * (b - a) = c * b - c * a
  OBVIOUS
<1> QED
  BY <1>2, <1>3

\* The day of a time is a word.
LEMMA DayIsWord ==
  ASSUME NEW lo \in 0..(Mod - 1), NEW hi \in 0..(Mod - 1)
  PROVE  (lo + Mod * hi) \div DayWord \in 0..(Mod - 1)
<1> DEFINE time == lo + Mod * hi
           day  == time \div DayWord
<1>1. Mod \in Nat /\ Mod > 0 /\ DayWord \in Nat /\ DayWord > 0 /\ Mod <= DayWord
  BY ModAssumption, DayAssumption
<1>2. time \in Nat /\ time < Mod * Mod
  <2>1. Mod - 1 \in Nat /\ hi \in Nat /\ hi <= Mod - 1
    BY <1>1
  <2>2. Mod * hi <= Mod * (Mod - 1)
    BY <1>1, <2>1, Monotone
  <2>3. Mod * (Mod - 1) = Mod * Mod - Mod
    BY <1>1
  <2>4. Mod * hi \in Nat /\ Mod * Mod \in Nat
    BY <1>1, <2>1
  <2> QED
    BY <1>1, <2>2, <2>3, <2>4
<1> HIDE DEF time
<1>3. day \in Nat /\ DayWord * day <= time
  BY <1>1, <1>2
<1> HIDE DEF day
<1>4. day < Mod
  <2> SUFFICES ASSUME Mod <= day PROVE FALSE
    BY <1>1, <1>3
  <2>1. DayWord * Mod <= DayWord * day
    BY <1>1, <1>3, Monotone
  <2>2. Mod * Mod <= Mod * DayWord /\ Mod * DayWord = DayWord * Mod
    BY <1>1, Monotone
  <2>3. Mod * Mod \in Int /\ DayWord * Mod \in Int /\ DayWord * day \in Int
    BY <1>1, <1>3
  <2> QED
    BY <1>2, <1>3, <2>1, <2>2, <2>3
<1> QED
  BY <1>1, <1>3, <1>4 DEF day, time

\* From 1970 on, the two conversions of a time agree.
LEMMA TimeAlike ==
  ASSUME NEW lo \in 0..(Mod - 1), NEW hi \in 0..(Mod - 1), NEW newver \in BOOLEAN,
         newver => (lo + Mod * hi) \div DayWord >= Epoch
  PROVE  ToMicroseconds(lo + Mod * hi, IF newver THEN 5 ELSE 0)
           = SketchTime(lo + Mod * hi, IF newver THEN 1 ELSE 0)
<1> DEFINE time == lo + Mod * hi
           day  == time \div DayWord
<1>1. day \in 0..(Mod - 1) /\ Epoch \in Nat /\ Mod \in Nat
  BY DayIsWord, DayAssumption, ModAssumption
<1>2. CASE newver
  <2>1. day >= Epoch
    BY <1>2
  <2> HIDE DEF day
  <2>2. day - Epoch \in 0..(Mod - 1)
    BY <1>1, <2>1
  <2>3. (day - Epoch) % Mod = day - Epoch
    BY <2>2, Unsigned
  <2> HIDE DEF time
  <2>4. ToMicroseconds(time, 5) = ((day - Epoch) * DayLen + (time % DayWord)) % (Mod * Mod)
    BY DEF ToMicroseconds, day
  <2>5. SketchTime(time, 1) = (((day - Epoch) % Mod) * DayLen + (time % DayWord)) % (Mod * Mod)
    BY DEF SketchTime, day
  <2>6. ToMicroseconds(time, 5) = SketchTime(time, 1)
    BY <2>3, <2>4, <2>5
  <2> QED
    BY <1>2, <2>6 DEF time
<1>3. CASE ~newver
  BY <1>3 DEF ToMicroseconds, SketchTime
<1> QED
  BY <1>2, <1>3

-----------------------------------------------------------------------------
(* C and the ESP32 *)

\* The time of a packet that was accepted is made of two of its words.
LEMMA MidpWords ==
  ASSUME NEW p, NEW bytes, IsPacket(p, bytes), NEW srep, BlobIn(srep, bytes),
         GetTag(p, srep, MIDP).ret = "success",
         LongReadable(GetTag(p, srep, MIDP).blob, 0)
  PROVE  \E lo, hi \in 0..(Mod - 1) : Midp(p, srep) = lo + Mod * hi
<1> DEFINE midp == GetTag(p, srep, MIDP).blob
<1>1. BlobIn(midp, bytes)
  BY GetTagInBounds
<1> HIDE DEF midp
<1>2. Readable(midp, 0) /\ Readable(midp, 1)
  BY DEF LongReadable, midp
<1>3. Word(p, midp, 0) \in 0..(Mod - 1) /\ Word(p, midp, 1) \in 0..(Mod - 1)
  BY <1>1, <1>2, WordIsRead
<1>4. Midp(p, srep) = Word(p, midp, 0) + Mod * Word(p, midp, 1)
  BY DEF Midp, LongWord, midp
<1> QED
  BY <1>3, <1>4

\* SREP of a packet that C accepts lies in it.
LEMMA SrepIn ==
  ASSUME NEW p, NEW bytes, IsPacket(p, bytes), NEW variant \in Nat, NEW nonce, NEW pk, NEW v,
         RestChecked(p, nonce, pk, v, Tags(p, Opened(p, bytes, variant)))
  PROVE  BlobIn(Tags(p, Opened(p, bytes, variant)).srep.blob, bytes)
<1> DEFINE opened == Opened(p, bytes, variant)
<1>1. TagsFound(Tags(p, opened)).ret = "success"
  BY DEF RestChecked
<1>2. ResultIn(opened, bytes)
  BY OpenedIn DEF IsPacket
<1>3. "srep" \in TagNames
  BY DEF TagNames
<1> HIDE DEF opened
<1>4. BlobIn(Tags(p, opened)["srep"].blob, bytes)
  BY <1>1, <1>2, <1>3, FoundIn
<1> QED
  BY <1>4 DEF opened

\* The headers the two copies accept.
LEMMA HeadersAlike ==
  ASSUME NEW p, NEW bytes \in Nat, NEW newver \in BOOLEAN
  PROVE  LET c   == HeaderChecked(p, bytes, IF newver THEN 5 ELSE 0).ret
             esp == EspHeaderChecked(p, bytes, IF newver THEN 1 ELSE 0).ret
         IN  /\ esp = "success" => c = "success"
             /\ c = "success" => (esp = "success" <=> (newver => p[3] = bytes - 12))
<1>1. CASE ~newver
  <2>1. HeaderChecked(p, bytes, 0).ret = "success"
    BY DEF HeaderChecked, Step
  <2>2. EspHeaderChecked(p, bytes, 0).ret = "success"
    BY DEF EspHeaderChecked, Draft05, Step
  <2> QED
    BY <1>1, <2>1, <2>2
<1>2. CASE newver
  <2>1. HeaderChecked(p, bytes, 5).ret = "success" <=>
          bytes >= 12 /\ p[1] = Magic[1] /\ p[2] = Magic[2] /\ bytes - 12 >= p[3]
    <3>1. CASE bytes < 12
      BY <3>1 DEF HeaderChecked, Step
    <3>2. CASE bytes >= 12
      BY <3>2 DEF HeaderChecked, HeaderRead, Step, Check
    <3> QED
      BY <3>1, <3>2
  <2>2. EspHeaderChecked(p, bytes, 1).ret = "success" <=>
          bytes >= 12 /\ p[1] = Magic[1] /\ p[2] = Magic[2] /\ bytes - 12 = p[3]
    <3>1. CASE bytes < 12
      BY <3>1 DEF EspHeaderChecked, Draft05, Step
    <3>2. CASE bytes >= 12
      BY <3>2 DEF EspHeaderChecked, HeaderRead, Step, Check, Draft05
    <3> QED
      BY <3>1, <3>2
  <2>3. bytes - 12 = p[3] => bytes - 12 >= p[3]
    OBVIOUS
  <2> QED
    BY <1>2, <2>1, <2>2, <2>3
<1> QED
  BY <1>1, <1>2

\* Behind headers they both accept, they read the same.
LEMMA OpenedByBoth ==
  ASSUME NEW p, NEW bytes \in Nat, NEW newver \in BOOLEAN,
         HeaderChecked(p, bytes, IF newver THEN 5 ELSE 0).ret = "success",
         EspHeaderChecked(p, bytes, IF newver THEN 1 ELSE 0).ret = "success"
  PROVE  EspOpened(p, bytes, IF newver THEN 1 ELSE 0) = Opened(p, bytes, IF newver THEN 5 ELSE 0)
<1>1. CASE newver
  <2>1. Opened(p, bytes, 5) = BlobInit(3, bytes - 12)
    BY <1>1 DEF Opened
  <2>2. EspOpened(p, bytes, 1) = BlobInit(3, bytes - 12)
    BY <1>1 DEF EspOpened, EspBlobInit, Draft05
  <2> QED
    BY <1>1, <2>1, <2>2
<1>2. CASE ~newver
  <2>1. Opened(p, bytes, 0) = BlobInit(0, bytes)
    BY <1>2 DEF Opened
  <2>2. EspOpened(p, bytes, 0) = BlobInit(0, bytes)
    BY <1>2 DEF EspOpened, EspBlobInit, Draft05
  <2> QED
    BY <1>2, <2>1, <2>2
<1> QED
  BY <1>1, <1>2

\* The two copies accept the same packets and tell the same of them, but for the
\* bytes behind a packet and the times before 1970.
LEMMA VerdictsAgree ==
  ASSUME Arrived, NEW newver \in BOOLEAN
  PROVE  CopiesAgree(CVerdict(newver), EspVerdict(newver), newver)
<1> DEFINE cv      == IF newver THEN 5 ELSE 0
           ev      == IF newver THEN 1 ELSE 0
           c       == CVerdict(newver)
           esp     == EspVerdict(newver)
           opened  == Opened(packet, length, cv)
           eopened == EspOpened(packet, length, ev)
           cheader == HeaderChecked(packet, length, cv).ret = "success"
           eheader == EspHeaderChecked(packet, length, ev).ret = "success"
           rest(o) == RestChecked(packet, SentNonce, RootKey, cv, Tags(packet, o))
           srep    == Tags(packet, opened).srep.blob
<1>1. IsPacket(packet, length) /\ length \in Nat
  BY PacketArrived
<1>2. /\ eheader => cheader
      /\ cheader => (eheader <=> (newver => packet[3] = length - 12))
  BY <1>1, HeadersAlike
<1>3. eheader => eopened = opened
  BY <1>1, <1>2, OpenedByBoth
<1>4. EspTags(packet, eopened) = Tags(packet, eopened)
  BY DEF EspTags, Tags, EspGetTag
<1>5. CVariant(ev) = cv /\ cv \in Nat
  BY DEF CVariant, Draft05
<1> HIDE DEF cv, ev
<1>6. /\ c.ret = "success" <=> cheader /\ rest(opened)
      /\ c.ret = "success" => c.midp = ToMicroseconds(Midp(packet, srep), cv)
                              /\ c.radi = Radi(packet, srep)
  BY AcceptsIf DEF CVerdict, cv
<1>7. /\ esp.ret = "success" <=> eheader /\ rest(eopened)
      /\ esp.ret = "success" =>
           /\ esp.midp = Midp(packet, Tags(packet, eopened).srep.blob)
           /\ esp.radi = Radi(packet, Tags(packet, eopened).srep.blob)
  <2> HIDE DEF eopened
  <2>1. EspVerdict(newver) = EspParseResponse(packet, length, SentNonce, RootKey, ev)
    BY DEF EspVerdict, ev
  <2> QED
    BY <1>4, <1>5, <2>1, EspAcceptsIf DEF eopened
<1> HIDE DEF c, esp, opened, eopened, cheader, eheader, rest, srep
<1>8. esp.ret = "success" => /\ c.ret = "success" /\ esp.midp = Midp(packet, srep)
                             /\ esp.radi = Radi(packet, srep)
  BY <1>2, <1>3, <1>6, <1>7 DEF srep
<1>9. c.ret = "success" => (esp.ret = "success" <=> (newver => packet[3] = length - 12))
  BY <1>2, <1>3, <1>6, <1>7
<1>10. ASSUME esp.ret = "success", newver => esp.midp \div DayWord >= Epoch
       PROVE  c.midp = SketchTime(esp.midp, ev)
  <2>1. rest(opened)
    BY <1>6, <1>8, <1>10
  <2>2. BlobIn(srep, length)
    BY <1>1, <1>5, <2>1, SrepIn DEF rest, opened, srep
  <2>3. GetTag(packet, srep, MIDP).ret = "success" /\ LongReadable(GetTag(packet, srep, MIDP).blob, 0)
    BY <2>1, TimesRead DEF rest, srep
  <2>4. PICK lo \in 0..(Mod - 1), hi \in 0..(Mod - 1) : Midp(packet, srep) = lo + Mod * hi
    BY <1>1, <2>2, <2>3, MidpWords
  <2>5. ToMicroseconds(lo + Mod * hi, cv) = SketchTime(lo + Mod * hi, ev)
    BY <1>8, <1>10, <2>4, TimeAlike DEF cv, ev
  <2> QED
    BY <1>6, <1>8, <1>10, <2>4, <2>5
<1>11. /\ esp.ret = "success" => c.ret = "success"
       /\ c.ret = "success" => (esp.ret = "success" <=> (newver => packet[3] = length - 12))
       /\ esp.ret = "success" =>
            /\ c.radi = esp.radi
            /\ (newver => esp.midp \div DayWord >= Epoch) => c.midp = SketchTime(esp.midp, ev)
  BY <1>6, <1>8, <1>9, <1>10
<1> QED
  BY <1>11 DEF CopiesAgree, Accepted, c, esp, ev

-----------------------------------------------------------------------------
(* C and Python *)

\* The magic is not a number of tags that fit in a packet.
LEMMA MagicIsNoCount ==
  ASSUME NEW p, NEW bytes, IsPacket(p, bytes), bytes < Mod, NEW in, BlobIn(in, bytes),
         Word(p, in, 0) = Magic[1], NEW key
  PROVE  GetTag(p, in, key).ret # "success"
<1> DEFINE num   == Word(p, in, 0)
           stops == {i \in 0..(num - 1) : StopsAt(p, in, key, num, i)}
<1>1. in.size \in Nat /\ in.size < Mod /\ bytes \in Nat
  BY ModAssumption DEF BlobIn, Blobs, Inside, IsPacket
<1>2. CASE ~Readable(in, 0)
  BY <1>2 DEF GetTag, Failure
<1>3. CASE Readable(in, 0)
  <2>1. num \in 0..(Mod - 1)
    BY <1>3, WordIsRead
  <2>2. num > 0 /\ 4 * num >= Mod
    BY MagicAssumption, ModAssumption
  <2> HIDE DEF num
  <2>3. ~Readable(in, num)
    <3>1. num \in Nat /\ 4 * num > in.size
      BY <1>1, <2>1, <2>2, ModAssumption
    <3> QED
      BY <1>1, <3>1 DEF Readable
  <2>4. (0 + num) % Mod = num
    BY <2>1, Unsigned
  <2>5. 0 \in stops
    BY <2>1, <2>2, <2>3, <2>4 DEF StopsAt
  <2>6. Min(stops) = 0
    <3>1. stops \in SUBSET Nat
      BY <2>1, ModAssumption
    <3> HIDE DEF stops
    <3>2. Min(stops) \in Nat /\ Min(stops) <= 0
      BY <2>5, <3>1, MinIsLeast
    <3> QED
      BY <3>2
  <2>7. GetTag(p, in, key) = Failure("malformed")
    <3>1. ~Readable(in, (Min(stops) + num) % Mod) /\ stops # {}
      BY <2>3, <2>4, <2>5, <2>6
    <3> HIDE DEF stops
    <3> QED
      BY <1>3, <3>1 DEF GetTag, stops, num
  <2> QED
    BY <2>7 DEF Failure
<1> QED
  BY <1>2, <1>3

\* The tag that get_tag returns.
LEMMA GotTag ==
  ASSUME NEW p, NEW r, NEW key, Has(p, r, key)
  PROVE  \E t \in PyGetTag(p, r, key) : Get(p, r, key) = RangeOf(t)
  BY DEF Has, Get

\* A tag that both readers found in a range that Python accepts.
LEMMA FoundAlike ==
  ASSUME NEW p, NEW bytes, IsPacket(p, bytes), bytes < Mod,
         NEW r \in Ranges(bytes), r.at % 4 = 0, LevelOK(p, r),
         NEW in, in = BlobOf(Body(p, r)), NEW key, GetTag(p, in, key).ret = "success",
         Has(p, r, key), Get(p, r, key).at % 4 = 0
  PROVE  /\ GetTag(p, in, key).blob = BlobOf(Get(p, r, key))
         /\ \E t \in PyTags(p, Body(p, r)) : t.key = key /\ Get(p, r, key) = RangeOf(t)
<1>1. PICK t \in PyTags(p, Body(p, r)) : t.key = key /\ Get(p, r, key) = RangeOf(t)
  BY GotTag DEF PyGetTag
<1>2. ReadAlike(p, Body(p, r), key)
  BY LevelBody, BodyReadAlike
<1>3. t.at % 4 = 0 /\ Get(p, r, key).at = t.at /\ Get(p, r, key).size = t.size
  BY <1>1 DEF RangeOf
<1>4. GetTag(p, in, key).blob = [at |-> t.at \div 4, size |-> t.size]
  BY <1>1, <1>2, <1>3 DEF ReadAlike
<1> QED
  BY <1>1, <1>3, <1>4 DEF BlobOf

\* Of a packet that both accept they open the same body.
LEMMA OpenedByPython ==
  ASSUME NEW p, NEW bytes, IsPacket(p, bytes), bytes < Mod, NEW newver \in BOOLEAN,
         Parses(p, bytes), NEW nonce, NEW pk, NEW v,
         HeaderChecked(p, bytes, IF newver THEN 5 ELSE 0).ret = "success",
         RestChecked(p, nonce, pk, v, Tags(p, Opened(p, bytes, IF newver THEN 5 ELSE 0)))
  PROVE  Opened(p, bytes, IF newver THEN 5 ELSE 0) = Success(BlobOf(Body(p, Whole(bytes))))
<1> DEFINE whole  == Whole(bytes)
           cv     == IF newver THEN 5 ELSE 0
           opened == Opened(p, bytes, cv)
<1>1. LevelOK(p, whole) /\ bytes \in Nat /\ whole.at = 0
  BY ParsesMeans DEF IsPacket, Whole
<1>2. PyWord(p, whole, 0) = p[1] /\ PyWord(p, whole, 1) = p[2]
  BY <1>1 DEF PyWord
<1>3. cv \in Nat
  OBVIOUS
<1>4. newver => HasHeader(p, whole)
  <2> SUFFICES ASSUME newver PROVE HasHeader(p, whole)
    OBVIOUS
  <2>1. HeaderChecked(p, bytes, 5).ret = "success"
    OBVIOUS
  <2>2. p[1] = Magic[1] /\ p[2] = Magic[2]
    <3>1. CASE bytes < 12
      BY <1>1, <2>1, <3>1 DEF HeaderChecked, Step
    <3>2. CASE bytes >= 12
      BY <1>1, <2>1, <3>2 DEF HeaderChecked, HeaderRead, Step, Check
    <3> QED
      BY <1>1, <3>1, <3>2
  <2> QED
    BY <1>2, <2>2 DEF HasHeader
<1>5. HasHeader(p, whole) => newver
  <2> SUFFICES ASSUME HasHeader(p, whole), ~newver PROVE FALSE
    OBVIOUS
  <2>1. bytes % 4 = 0
    BY <1>1 DEF LevelOK, HeaderOK, Whole
  <2>2. Opened(p, bytes, 0) = BlobInit(0, bytes)
    <3>1. HeaderChecked(p, bytes, 0).ret = "success"
      BY DEF HeaderChecked, Step
    <3> QED
      BY <3>1 DEF Opened
  <2> DEFINE in == [at |-> 0, size |-> bytes]
  <2>3. opened = Success(in)
    BY <2>1, <2>2 DEF BlobInit
  <2>4. TagsFound(Tags(p, opened)).ret = "success"
    BY DEF RestChecked
  <2>5. GetTag(p, in, SREP).ret = "success"
    <3>1. opened.blob = in
      BY <2>3 DEF Success
    <3> HIDE DEF opened, in
    <3> QED
      BY <2>4, <3>1, TagRets
  <2>6. Word(p, in, 0) = Magic[1]
    BY <1>2 DEF Word, HasHeader
  <2>7. BlobIn(in, bytes)
    BY <1>1 DEF BlobIn, Blobs, Inside
  <2> HIDE DEF in
  <2> QED
    BY <2>5, <2>6, <2>7, MagicIsNoCount
<1>6. cv >= 5 <=> HasHeader(p, whole)
  BY <1>4, <1>5
<1> HIDE DEF cv
<1>7. opened = Success(BlobOf(Body(p, whole)))
  BY <1>1, <1>3, <1>6, OpenedAlike
<1> QED
  BY <1>7 DEF cv

\* SREP of a packet that both accept: C and Python have the same bytes of it, and
\* no level of Python takes a header off them.
LEMMA SrepAlike ==
  ASSUME NEW p, NEW bytes, IsPacket(p, bytes), bytes < Mod, NEW newver \in BOOLEAN,
         Parses(p, bytes), Complete(p, bytes), NEW nonce, NEW pk, NEW v,
         HeaderChecked(p, bytes, IF newver THEN 5 ELSE 0).ret = "success",
         RestChecked(p, nonce, pk, v, Tags(p, Opened(p, bytes, IF newver THEN 5 ELSE 0)))
  PROVE  LET r    == Get(p, Whole(bytes), SREP)
             srep == Tags(p, Opened(p, bytes, IF newver THEN 5 ELSE 0)).srep.blob
         IN  /\ r \in Ranges(bytes) /\ r.at % 4 = 0 /\ LevelOK(p, r)
             /\ srep = BlobOf(r) /\ Body(p, r) = r
<1> DEFINE whole  == Whole(bytes)
           opened == Opened(p, bytes, IF newver THEN 5 ELSE 0)
           got    == Tags(p, opened)
           r      == Get(p, whole, SREP)
           srep   == got.srep.blob
           in     == BlobOf(Body(p, whole))
<1>1. opened = Success(in)
  BY OpenedByPython
<1>2. RestChecked(p, nonce, pk, v, got)
  OBVIOUS
<1> HIDE DEF opened, in
<1>3. got.srep = GetTag(p, in, SREP) /\ got.srep.ret = "success"
  <2>1. TagsFound(got).ret = "success"
    BY <1>2 DEF RestChecked
  <2>2. opened.blob = in
    BY <1>1 DEF Success
  <2> QED
    BY <2>1, <2>2, TagRets
<1>4. /\ whole \in Ranges(bytes) /\ LevelOK(p, whole) /\ whole.at % 4 = 0
      /\ \A t \in PyTags(p, Body(p, whole)) : t.key \in ParentTags =>
              t.at % 4 = 0 /\ LevelOK(p, RangeOf(t)) /\ RangeOf(t) \in Ranges(bytes)
  BY ParsesMeans DEF Whole
<1>5. Has(p, whole, SREP)
  BY DEF Complete
<1> HIDE DEF whole
<1>6. PICK t \in PyGetTag(p, whole, SREP) : r = RangeOf(t)
  BY <1>5, GotTag
<1>7. t \in PyTags(p, Body(p, whole)) /\ t.key \in ParentTags
  BY DEF PyGetTag, ParentTags
<1>8. r \in Ranges(bytes) /\ LevelOK(p, r) /\ r.at % 4 = 0
  BY <1>4, <1>6, <1>7 DEF RangeOf
<1> HIDE DEF r
<1>9. GetTag(p, in, SREP).blob = BlobOf(r)
  BY <1>3, <1>4, <1>5, <1>8, FoundAlike DEF in, r
<1>10. srep = BlobOf(r)
  BY <1>3, <1>9
<1>11. GetTag(p, srep, MIDP).ret = "success"
  BY <1>2, TimesRead
<1> HIDE DEF srep
<1>12. Body(p, r) = r
  <2> SUFFICES ASSUME HasHeader(p, r) PROVE FALSE
    BY DEF Body
  <2>1. Word(p, srep, 0) = Magic[1]
    BY <1>10 DEF HasHeader, PyWord, Word, BlobOf
  <2>2. BlobIn(srep, bytes)
    <3>1. r.at \in Nat /\ r.size \in Nat /\ bytes \in Nat /\ r.at + r.size <= bytes
      BY <1>8 DEF Ranges, IsPacket
    <3>2. srep.at = r.at \div 4 /\ srep.size = r.size /\ srep = [at |-> r.at \div 4, size |-> r.size]
      BY <1>10 DEF BlobOf
    <3>3. r.at \div 4 \in Nat /\ 4 * (r.at \div 4) = r.at
      BY <1>8, <3>1
    <3> QED
      BY <3>1, <3>2, <3>3 DEF BlobIn, Blobs, Inside
  <2> QED
    BY <1>11, <2>1, <2>2, MagicIsNoCount
<1> QED
  BY <1>8, <1>10, <1>12 DEF r, srep, whole, opened

\* The first two words of a value.
LEMMA ValueWords ==
  ASSUME NEW p, NEW r, r.at \in Nat, r.at % 4 = 0
  PROVE  /\ r.size = 4 => ToInt(p, r) = Word(p, BlobOf(r), 0)
         /\ r.size = 8 => ToInt(p, r) = LongWord(p, BlobOf(r), 0)
<1>1. WordAt(p, r.at) = Word(p, BlobOf(r), 0)
  <2>1. WordAt(p, r.at) = p[r.at \div 4 + 1]
    BY DEF WordAt
  <2>2. r.at \div 4 + 0 + 1 = r.at \div 4 + 1
    OBVIOUS
  <2> QED
    BY <2>1, <2>2 DEF Word, BlobOf
<1>2. WordAt(p, r.at + 4) = Word(p, BlobOf(r), 1)
  <2>1. (r.at + 4) % 4 = 0 /\ (r.at + 4) \div 4 = r.at \div 4 + 1
    OBVIOUS
  <2>2. WordAt(p, r.at + 4) = p[r.at \div 4 + 1 + 1]
    BY <2>1 DEF WordAt
  <2> QED
    BY <2>2 DEF Word, BlobOf
<1>3. ASSUME r.size = 4 PROVE Bytes(p, r)[1] = WordAt(p, r.at)
  BY <1>3 DEF Bytes
<1>4. ASSUME r.size = 8
      PROVE  Bytes(p, r)[1] = WordAt(p, r.at) /\ Bytes(p, r)[2] = WordAt(p, r.at + 4)
  BY <1>4 DEF Bytes
<1> QED
  BY <1>1, <1>2, <1>3, <1>4 DEF ToInt, LongWord

\* A value of SREP that both have read.
LEMMA LeafAlike ==
  ASSUME NEW p, NEW bytes, IsPacket(p, bytes), bytes < Mod,
         NEW r \in Ranges(bytes), r.at % 4 = 0, LevelOK(p, r), Body(p, r) = r,
         NEW key, Has(p, r, key), GetTag(p, BlobOf(r), key).ret = "success",
         Get(p, r, key).at % 4 = 0
  PROVE  /\ GetTag(p, BlobOf(r), key).blob = BlobOf(Get(p, r, key))
         /\ Get(p, r, key).at \in Nat /\ Get(p, r, key).size \in Nat
<1>1. /\ GetTag(p, BlobOf(r), key).blob = BlobOf(Get(p, r, key))
      /\ \E t \in PyTags(p, Body(p, r)) : t.key = key /\ Get(p, r, key) = RangeOf(t)
  BY FoundAlike
<1>2. PICK t \in PyTags(p, Body(p, r)) : Get(p, r, key) = RangeOf(t)
  BY <1>1
<1>3. RangeOf(t) \in Ranges(bytes)
  BY LevelBody, ValueInPacket
<1>4. Get(p, r, key) \in Ranges(bytes)
  BY <1>2, <1>3
<1> QED
  BY <1>1, <1>4 DEF Ranges, IsPacket

\* Where a client in C and one in Python accept, both read the radius and the time
\* from the same words.
LEMMA ToldTheSame ==
  ASSUME Arrived, NEW newver \in BOOLEAN
  PROVE  ToldAlike(CVerdict(newver), newver)
<1> DEFINE cv   == IF newver THEN 5 ELSE 0
           c    == CVerdict(newver)
           got  == Tags(packet, Opened(packet, length, cv))
           srep == got.srep.blob
           r    == Get(packet, Whole(length), SREP)
           midp == Get(packet, r, MIDP)
           radi == Get(packet, r, RADI)
<1> SUFFICES ASSUME Accepted(c), PyAccepts(newver)
             PROVE  /\ radi.at % 4 = 0 /\ radi.size = 4 => c.radi = PyRadi(packet, length)
                    /\ midp.at % 4 = 0 => c.midp = Microseconds(PyMidp(packet, length), newver)
  BY DEF ToldAlike
<1>1. IsPacket(packet, length) /\ length < Mod /\ length \in Nat
  BY PacketArrived
<1>2. Parses(packet, length) /\ Complete(packet, length)
  BY DEF PyAccepts, PyVerifies
<1>3. c.ret = "success"
  BY DEF Accepted
<1>4. /\ HeaderChecked(packet, length, cv).ret = "success"
      /\ RestChecked(packet, SentNonce, RootKey, cv, got)
      /\ c.midp = ToMicroseconds(Midp(packet, srep), cv) /\ c.radi = Radi(packet, srep)
  BY <1>3, AcceptsIf DEF CVerdict
<1>5. /\ r \in Ranges(length) /\ r.at % 4 = 0 /\ LevelOK(packet, r)
      /\ srep = BlobOf(r) /\ Body(packet, r) = r
  BY <1>1, <1>2, <1>4, SrepAlike
<1>6. /\ GetTag(packet, srep, MIDP).ret = "success"
      /\ GetTag(packet, srep, RADI).ret = "success"
      /\ LongReadable(GetTag(packet, srep, MIDP).blob, 0)
  BY <1>4, TimesRead
<1>7. Has(packet, r, MIDP) /\ Has(packet, r, RADI) /\ IsInt(midp)
  BY <1>2 DEF Complete
<1> HIDE DEF c, got, srep
<1>8. PyRadi(packet, length) = ToInt(packet, radi) /\ PyMidp(packet, length) = ToInt(packet, midp)
  BY DEF PyRadi, PyMidp
<1> HIDE DEF r, midp, radi
<1>9. ASSUME radi.at % 4 = 0, radi.size = 4
      PROVE  c.radi = PyRadi(packet, length)
  <2>1. GetTag(packet, srep, RADI).blob = BlobOf(radi) /\ radi.at \in Nat
    BY <1>1, <1>5, <1>6, <1>7, <1>9, LeafAlike DEF radi
  <2>2. ToInt(packet, radi) = Word(packet, BlobOf(radi), 0)
    BY <1>9, <2>1, ValueWords
  <2> QED
    BY <1>4, <1>8, <2>1, <2>2 DEF Radi
<1>10. ASSUME midp.at % 4 = 0
       PROVE  c.midp = Microseconds(PyMidp(packet, length), newver)
  <2>1. GetTag(packet, srep, MIDP).blob = BlobOf(midp) /\ midp.at \in Nat
    BY <1>1, <1>5, <1>6, <1>7, <1>10, LeafAlike DEF midp
  <2>2. midp.size = 8
    <3>1. midp.size \in {4, 8}
      BY <1>7 DEF IsInt
    <3>2. Readable(BlobOf(midp), 1)
      BY <1>6, <2>1 DEF LongReadable
    <3>3. 1 < midp.size \div 4
      BY <3>2 DEF Readable, BlobOf
    <3> QED
      BY <3>1, <3>3
  <2>3. ToInt(packet, midp) = LongWord(packet, BlobOf(midp), 0)
    BY <1>10, <2>1, <2>2, ValueWords
  <2>4. Midp(packet, srep) = PyMidp(packet, length)
    BY <1>8, <2>1, <2>3 DEF Midp
  <2> QED
    BY <1>4, <2>4 DEF Microseconds
<1> QED
  BY <1>9, <1>10

\* Whatever arrives: the two copies of vrt.c judge a reply alike, but for the bytes
\* that may follow it, and where C and Python accept, they are told the same.
THEOREM VerdictsAlike ==
  []Arrived => []SameVerdict
<1>1. Arrived => SameVerdict
  BY VerdictsAgree, ToldTheSame DEF SameVerdict
<1> QED
  BY <1>1, PTL
=============================================================================
