--------------------------- MODULE Agreement_proofs ---------------------------
(***************************************************************************)
(* The two implementations of verify, verify-chain, sign and               *)
(* a2a-artifact-hash compute the same, for every registry and for receipts *)
(* and artifacts of every length, on the inputs that Interoperable,        *)
(* PlainPolicy, PlainRegistry, PlainParentClaim, FollowsSchema and         *)
(* WellFormedArtifact describe.  Outside them they differ, as the runs of MCConformance and   *)
(* MCLineage with unusual inputs show.                                     *)
(***************************************************************************)
EXTENDS VerifyChain, Signing, A2AArtifact, WellFoundedInduction, TLAPS

\* A set of numbers that is not empty has a least element.
LEMMA LeastElement ==
    ASSUME NEW T, T \subseteq Nat, T # {}
    PROVE  \E x \in T : \A y \in T : x <= y
  <1> DEFINE R == OpToRel(<, Nat)
  <1>1. IsWellFoundedOn(R, Nat)
    BY NatLessThanWellFounded
  <1>2. \A x, y \in T : <<y, x>> \in R <=> y < x
    BY DEF OpToRel
  <1> HIDE DEF R
  <1>3. \E x \in T : \A y \in T : ~(<<y, x>> \in R)
    BY <1>1, WFMin
  <1>4. \A x, y \in T : ~(y < x) => x <= y
    OBVIOUS
  <1> QED BY <1>2, <1>3, <1>4

\* The policy of every hop but the leaf is plain, and the leaf's is the caller's.
LEMMA HopPolicyPlain ==
    ASSUME NEW policy, PlainPolicy(policy), NEW i
    PROVE  PlainPolicy(HopPolicy(i, policy))
  BY DEF HopPolicy, PlainPolicy, NoPolicy, Policies

\* The two implementations find the same JWS texts malformed.
LEMMA MalformedAgreement ==
    ASSUME NEW jws, Interoperable(jws)
    PROVE  GoMalformed(jws) = TsMalformed(jws)
  BY DEF GoMalformed, TsMalformed, Interoperable

\* They resolve the same keys, to the same entries.
LEMMA KeyAgreement ==
    ASSUME NEW jws \in JwsSet, Interoperable(jws), NEW keys
    PROVE  /\ GoKeyResolves(jws, keys) = TsKeyResolves(jws, keys)
           /\ GoKeyResolves(jws, keys) => GoEntry(jws, keys) = TsEntry(jws, keys)
  <1> DEFINE performer == jws.payload.performer_id
             kid       == jws.header.kid
  <1>1. performer # "" /\ kid # "" /\ kid \notin InheritedNames
    BY DEF Interoperable
  <1>2. ~TsInherited(performer, kid, keys)
    BY <1>1 DEF TsInherited
  <1>3. \A c : c # "" => /\ (StringClaim(c) # "") <=> c \notin NonStrings
                         /\ c \notin NonStrings => StringClaim(c) = c
    BY DEF StringClaim
  <1>4. GoKeyResolves(jws, keys) <=>
            performer \notin NonStrings /\ kid \notin NonStrings /\ <<performer, kid>> \in DOMAIN keys
    <2>1. GoKeyResolves(jws, keys) <=>
            /\ StringClaim(performer) # "" /\ StringClaim(kid) # ""
            /\ <<StringClaim(performer), StringClaim(kid)>> \in DOMAIN keys
      BY DEF GoKeyResolves
    <2>2. /\ (StringClaim(performer) # "") <=> performer \notin NonStrings
          /\ (StringClaim(kid) # "") <=> kid \notin NonStrings
          /\ performer \notin NonStrings => StringClaim(performer) = performer
          /\ kid \notin NonStrings => StringClaim(kid) = kid
      BY <1>1, <1>3
    <2> QED BY ONLY <2>1, <2>2
  <1>5. TsKeyResolves(jws, keys) <=>
            performer \notin NonStrings /\ kid \notin NonStrings /\ <<performer, kid>> \in DOMAIN keys
    BY <1>2 DEF TsKeyResolves, IsString
  <1>6. GoKeyResolves(jws, keys) => GoEntry(jws, keys) = TsEntry(jws, keys)
    BY <1>4 DEF GoEntry, TsEntry
  <1>7. GoKeyResolves(jws, keys) \in BOOLEAN /\ TsKeyResolves(jws, keys) \in BOOLEAN
    BY DEF GoKeyResolves, TsKeyResolves
  <1> QED BY <1>4, <1>5, <1>6, <1>7

\* They match the same contexts against a plain policy.
LEMMA ContextAgreement ==
    ASSUME NEW jws \in JwsSet, NEW policy, PlainPolicy(policy)
    PROVE  GoContextMatches(jws, policy) = TsContextMatches(jws, policy)
  <1>1. ASSUME NEW e \in Texts \cup {"absent"}, NEW c \in Claims
        PROVE  (e \in {"absent", StringClaim(c)}) <=> (e \in {"absent", c})
    BY DataAssumption DEF StringClaim, Claims, NonStrings
  <1>2. /\ policy.expected_binding \in Texts \cup {"absent"}
        /\ policy.expected_method \in Texts \cup {"absent"}
    BY DEF PlainPolicy, Policies
  <1>3. jws.payload.binding \in Claims /\ jws.payload.method \in Claims
    BY DEF JwsSet, Payloads
  <1> QED BY <1>1, <1>2, <1>3 DEF GoContextMatches, TsContextMatches

\* An entry that says what kind of key it holds verifies the same signatures.
LEMMA SignatureAgreement ==
    ASSUME NEW jws, NEW keys, PlainRegistry(keys), GoKeyResolves(jws, keys)
    PROVE  SignatureVerifies(jws, GoEntry(jws, keys)) = TsSignatureVerifies(jws, GoEntry(jws, keys))
  <1>1. \A c : StringClaim(c) # "" => StringClaim(c) = c
    BY DEF StringClaim
  <1>2. <<jws.payload.performer_id, jws.header.kid>> \in DOMAIN keys
    BY <1>1 DEF GoKeyResolves
  <1>3. GoEntry(jws, keys).curve = "own"
    BY <1>2 DEF GoEntry, PlainRegistry
  <1>4. QED
    BY <1>3 DEF TsSignatureVerifies, SignatureVerifies

\* What is canonical to one library is canonical to the other, but for payloads
\* with a lone surrogate.
LEMMA CanonicalAgreement ==
    ASSUME NEW jws, Interoperable(jws)
    PROVE  GoPayloadCanonical(jws) = PayloadCanonical(jws)
  BY DEF GoPayloadCanonical, PayloadCanonical, Interoperable

\* verify: the Go and TypeScript verdicts are equal, check by check, for every
\* plain registry, on interoperable receipts and plain policies.
THEOREM VerifyAgreement ==
    ASSUME NEW jws \in JwsSet, Interoperable(jws), NEW keys, PlainRegistry(keys),
           NEW policy, PlainPolicy(policy)
    PROVE  GoVerify(jws, keys, policy) = TsVerify(jws, keys, policy)
  BY MalformedAgreement, KeyAgreement, SignatureAgreement, CanonicalAgreement, ContextAgreement
     DEF GoVerify, TsVerify

\* A receipt that verifies has a canonical payload, which is what makes Go's
\* digest of the transmitted bytes its receipt_id.
LEMMA VerifiedIsCanonical ==
    ASSUME NEW jws, NEW keys, NEW policy, GoVerify(jws, keys, policy) = "ok"
    PROVE  PayloadCanonical(jws)
  BY DEF GoVerify, GoPayloadCanonical

\* verify-chain: the two verdicts on a whole path are equal, whatever its length
\* and the plain registry.
THEOREM ChainAgreement ==
    ASSUME NEW receipts \in Seq(JwsSet),
           \A i \in Hops(receipts) : Interoperable(receipts[i]) /\ PlainParentClaim(receipts[i]),
           NEW keys, PlainRegistry(keys), NEW policy, PlainPolicy(policy)
    PROVE  GoVerifyChain(receipts, keys, policy) = TsVerifyChain(receipts, keys, policy)
  <1>0. \A i \in Hops(receipts) : receipts[i] \in JwsSet
    BY DEF Hops
  <1>1. \A i \in Hops(receipts) :
            GoVerify(receipts[i], keys, HopPolicy(i, policy))
                = TsVerify(receipts[i], keys, HopPolicy(i, policy))
    BY <1>0, VerifyAgreement, HopPolicyPlain
  <1>2. GoSomeReceiptInvalid(receipts, keys, policy) = TsSomeReceiptInvalid(receipts, keys, policy)
    BY <1>1 DEF GoSomeReceiptInvalid, TsSomeReceiptInvalid
  <1>3. CASE GoSomeReceiptInvalid(receipts, keys, policy)
    BY <1>2, <1>3 DEF GoVerifyChain, TsVerifyChain
  <1>4. CASE ~GoSomeReceiptInvalid(receipts, keys, policy)
    <2>1. \A i \in Hops(receipts) : PayloadCanonical(receipts[i])
      BY <1>4, VerifiedIsCanonical DEF GoSomeReceiptInvalid
    <2>2. \A i \in Hops(receipts) : GoReceiptId(receipts[i]) = Payload(receipts, i).receipt_id
      BY <2>1 DEF GoReceiptId, Payload
    <2>3. GoHasCycle(receipts) = TsHasCycle(receipts)
      BY <2>2 DEF GoHasCycle, TsHasCycle
    <2>4. \A i \in Links(receipts) : i \in Hops(receipts) /\ i + 1 \in Hops(receipts)
      BY DEF Links, Hops
    <2>5. ASSUME NEW i \in Hops(receipts)
          PROVE  /\ Payload(receipts, i).receipt_id \in Texts
                 /\ Payload(receipts, i).parent_receipt_hash \in Claims
                 /\ Payload(receipts, i).performer_id \in Claims
                 /\ Payload(receipts, i).parent_performer_id \in Texts \cup {"absent", "null"}
      BY <1>0, DataAssumption DEF Payload, JwsSet, Payloads, Claims, NonStrings, PlainParentClaim
    <2>6. GoLinkMismatch(receipts) = TsLinkMismatch(receipts)
      <3>1. ASSUME NEW c \in Claims, NEW d \in Texts
            PROVE  (StringClaim(c) # d) <=> (c # d)
        BY DataAssumption DEF StringClaim, Claims, NonStrings
      <3>2. ASSUME NEW i \in Links(receipts)
            PROVE  (StringClaim(Payload(receipts, i).parent_receipt_hash)
                        # GoReceiptId(receipts[i + 1]))
                   <=> (Payload(receipts, i).parent_receipt_hash
                        # Payload(receipts, i + 1).receipt_id)
        BY <2>2, <2>4, <2>5, <3>1
      <3> QED BY <3>2 DEF GoLinkMismatch, TsLinkMismatch
    <2>7. GoParentIdentityMismatch(receipts) = TsParentIdentityMismatch(receipts)
      <3>1. ASSUME NEW c \in Texts \cup {"absent", "null"}, NEW p \in Claims
            PROVE  (StringClaim(c) # "" /\ StringClaim(c) # StringClaim(p))
                   <=> (~IsNullClaim(c) /\ c # p)
        BY DataAssumption DEF StringClaim, IsNullClaim, Claims, NonStrings
      <3>2. ASSUME NEW i \in Links(receipts)
            PROVE  (/\ StringClaim(Payload(receipts, i).parent_performer_id) # ""
                    /\ StringClaim(Payload(receipts, i).parent_performer_id)
                         # StringClaim(Payload(receipts, i + 1).performer_id))
                   <=> (/\ ~IsNullClaim(Payload(receipts, i).parent_performer_id)
                        /\ Payload(receipts, i).parent_performer_id
                             # Payload(receipts, i + 1).performer_id)
        BY <2>4, <2>5, <3>1
      <3> QED BY <3>2 DEF GoParentIdentityMismatch, TsParentIdentityMismatch
    <2> QED BY <1>2, <2>3, <2>6, <2>7 DEF GoVerifyChain, TsVerifyChain
  <1> QED BY <1>3, <1>4

(***************************************************************************)
(* Signing.                                                                *)
(***************************************************************************)

\* sign: for a call that follows the schema, both tools print the same error or
\* sign the very same payload.
THEOREM SignAgreement ==
    ASSUME NEW in, FollowsSchema(in), in.receipt.ext \in BOOLEAN
    PROVE  GoSign(in) = TsSign(in)
  <1>1. ASSUME in.receipt.form = "object"
        PROVE  /\ \A name \in FieldNames \ {"v"} :
                      GoReceiptField(in.receipt)[name] = in.receipt.field[name]
               /\ \A name \in FieldNames : in.receipt.field[name] # "nonString"
    <2>1. \A name \in FieldNames : in.receipt.field[name] # "nonString"
      BY DEF FollowsSchema, FieldNames, IsString, NonStrings
    <2>2. \A name \in FieldNames \ {"v"} : in.receipt.field[name] # "loneSurrogate"
      BY DEF FollowsSchema, WellFormed
    <2>3. ASSUME NEW name \in FieldNames \ {"v"}
          PROVE  GoField(name, in.receipt.field[name]) = in.receipt.field[name]
      BY <2>2 DEF FollowsSchema, FieldNames, GoField, IsString, NonStrings, NullIfAbsent
    <2>4. QED
      BY <1>1, <2>1, <2>3 DEF GoReceiptField
  <1>2. ASSUME in.receipt.form = "object"
        PROVE  PayloadWith(GoReceiptField(in.receipt), FALSE)
                  = PayloadWith(in.receipt.field, in.receipt.ext)
    <2>1. in.receipt.ext = FALSE
      BY DEF FollowsSchema
    <2>2. /\ \A name \in FieldNames \ {"v"} :
                GoReceiptField(in.receipt)[name] = in.receipt.field[name]
          /\ WellFormed(GoReceiptField(in.receipt)) <=> WellFormed(in.receipt.field)
      BY <1>1, <1>2 DEF WellFormed
    <2>3. \A name \in FieldNames \cup {"form", "canonical", "ext"} :
             name \notin {"form", "canonical", "ext", "v"} => name \in FieldNames
      BY DEF FieldNames
    <2> HIDE DEF FieldNames
    <2>4. QED
      BY <2>1, <2>2, <2>3, Zenon DEF PayloadWith
  <1>3. QED
    BY <1>1, <1>2 DEF GoSign, TsSign, FollowsSchema

(***************************************************************************)
(* Artifacts.                                                              *)
(***************************************************************************)

USE DEF IsString, NonStrings, NullIfAbsent, Fail, Failed

\* The two tools map a well-formed file to the same descriptor.
LEMMA FileAgreement ==
    ASSUME NEW f, WellFormedFile(f)
    PROVE  GoFile(f) = TsFile(f)
  BY DEF WellFormedFile, GoFile, TsFile, GoMimeType

\* a2a-artifact-hash: the two tools answer alike on every well-formed artifact,
\* with parts of any kind, in any number.
THEOREM ArtifactAgreement ==
    ASSUME NEW a, WellFormedArtifact(a)
    PROVE  GoArtifactHash(a) = TsArtifactHash(a)
  <1>1. \A i \in DOMAIN a.parts : GoDescriptor(a.parts[i]) = TsDescriptor(a.parts[i])
    BY FileAgreement DEF WellFormedArtifact, GoDescriptor, TsDescriptor
  <1>2. [i \in DOMAIN a.parts |-> GoDescriptor(a.parts[i])]
            = [i \in DOMAIN a.parts |-> TsDescriptor(a.parts[i])]
    BY <1>1
  <1>3. QED
    BY <1>2 DEF WellFormedArtifact, GoArtifactHash, TsArtifactHash

\* A file with bytes and a file by reference never have one descriptor, and
\* neither kind ever counts as a failure.
LEMMA FileDescriptors ==
    ASSUME NEW f
    PROVE  /\ Failed(TsFile(f)) <=> ~IsString(f.bytes) /\ ~IsString(f.uri)
           /\ IsString(f.bytes) => "uri" \notin DOMAIN TsFile(f)
           /\ ~IsString(f.bytes) /\ IsString(f.uri) => "uri" \in DOMAIN TsFile(f)
  BY DEF TsFile, Inline, ByUri

\* Two files that have a descriptor have the same one exactly when they hold the
\* same bytes, or the same reference, under the same name and type.
LEMMA FilesCommitted ==
    ASSUME NEW f, NEW g, ~Failed(TsFile(f)), ~Failed(TsFile(g))
    PROVE  TsFile(f) = TsFile(g) <=>
             /\ NullIfAbsent(f.mimeType) = NullIfAbsent(g.mimeType)
             /\ NullIfAbsent(f.name) = NullIfAbsent(g.name)
             /\ IF IsString(f.bytes) THEN g.bytes = f.bytes
                ELSE /\ ~IsString(g.bytes) /\ g.uri = f.uri
                     /\ NullIfAbsent(g.declared_digest) = NullIfAbsent(f.declared_digest)
  <1>1. CASE IsString(f.bytes) /\ IsString(g.bytes)
    BY <1>1 DEF TsFile, Inline
  <1>2. CASE ~IsString(f.bytes) /\ ~IsString(g.bytes)
    BY <1>2, FileDescriptors DEF TsFile, ByUri
  <1>3. CASE IsString(f.bytes) /\ ~IsString(g.bytes)
    BY <1>3, FileDescriptors
  <1>4. CASE ~IsString(f.bytes) /\ IsString(g.bytes)
    BY <1>4, FileDescriptors
  <1>5. QED
    BY <1>1, <1>2, <1>3, <1>4

\* A file's descriptor says that it is one.
LEMMA FileKind ==
    ASSUME NEW f, ~Failed(TsFile(f))
    PROVE  TsFile(f).kind = "file"
  BY DEF TsFile, Inline, ByUri

\* Two parts that have a descriptor have the same one exactly when they hold the
\* same content.
LEMMA PartsCommitted ==
    ASSUME NEW p, NEW q, ~Failed(TsDescriptor(p)), ~Failed(TsDescriptor(q))
    PROVE  TsDescriptor(p) = TsDescriptor(q) <=> SameContent(p, q)
  <1>1. /\ p.kind \in {"text", "data", "file"} /\ q.kind \in {"text", "data", "file"}
        /\ TsDescriptor(p).kind = p.kind /\ TsDescriptor(q).kind = q.kind
    BY FileKind DEF TsDescriptor, Valued
  <1>2. CASE p.kind = "file" /\ q.kind = "file"
    BY <1>2, FilesCommitted DEF TsDescriptor, SameContent
  <1>3. CASE p.kind # "file" /\ q.kind # "file"
    BY <1>1, <1>3 DEF TsDescriptor, Valued, SameContent
  <1>4. CASE p.kind # q.kind
    BY <1>1, <1>4 DEF SameContent
  <1>5. QED
    BY <1>1, <1>2, <1>3, <1>4

\* What holds the same as a part that has a descriptor has one.
LEMMA SameHasDescriptor ==
    ASSUME NEW p, NEW q, q.form = "object" \/ q.kind = "absent",
           ~Failed(TsDescriptor(p)), SameContent(p, q)
    PROVE  ~Failed(TsDescriptor(q))
  <1>1. p.kind \in {"text", "data", "file"} /\ q.kind = p.kind /\ q.form = "object"
    BY DEF TsDescriptor, SameContent
  <1>2. CASE p.kind = "file"
    <2>1. ~Failed(TsFile(p.file))
      BY <1>2 DEF TsDescriptor
    <2>2. IsString(q.file.bytes) \/ IsString(q.file.uri)
      BY <1>2, <2>1, FileDescriptors DEF SameContent
    <2>3. QED
      BY <1>1, <1>2, <2>2, FileDescriptors DEF TsDescriptor
  <1>3. CASE p.kind # "file"
    BY <1>1, <1>3 DEF TsDescriptor, Valued
  <1>4. QED
    BY <1>2, <1>3

\* The hash of an artifact that has one is the list of its descriptors.
LEMMA HashIsDescriptors ==
    ASSUME NEW a, IsPartList(a.parts), ~Failed(TsArtifactHash(a))
    PROVE  /\ a.partsForm = "array"
           /\ \A i \in DOMAIN a.parts : ~Failed(TsDescriptor(a.parts[i]))
           /\ TsArtifactHash(a) = [parts |-> [i \in DOMAIN a.parts |-> TsDescriptor(a.parts[i])]]
  <1> DEFINE ds == [i \in DOMAIN a.parts |-> TsDescriptor(a.parts[i])]
             Broken == {i \in DOMAIN ds : Failed(ds[i])}
             IsFirst(i) == Failed(ds[i]) /\ \A j \in 1 .. i - 1 : ~Failed(ds[j])
  <1>1. a.partsForm = "array" /\ TsArtifactHash(a) = FirstFailureOr(ds)
    BY DEF TsArtifactHash
  <1>2. DOMAIN ds = 1 .. Len(a.parts) /\ Len(a.parts) \in Nat
    BY DEF IsPartList
  <1>3. Broken = {}
    <2> HIDE DEF ds
    <2> SUFFICES ASSUME Broken # {} PROVE FALSE
      OBVIOUS
    <2>0. Broken \subseteq DOMAIN ds /\ DOMAIN ds \subseteq Nat
      BY <1>2
    <2>1. PICK i \in Broken : \A j \in Broken : ~(j < i)
      <3> HIDE DEF Broken
      <3>1. Broken \subseteq Nat
        BY <2>0
      <3>2. PICK i \in Broken : \A j \in Broken : i <= j
        BY <3>1, LeastElement
      <3> QED BY <3>1, <3>2
    <2>2. \A j \in 1 .. i - 1 : j \in DOMAIN ds /\ j < i
      BY <1>2, <2>0, <2>1
    <2>3. i \in DOMAIN ds /\ IsFirst(i)
      BY <2>0, <2>1, <2>2
    <2>4. Failed(ds[CHOOSE j \in DOMAIN ds : IsFirst(j)])
      BY <2>3
    <2>5. FirstFailureOr(ds) = ds[CHOOSE j \in DOMAIN ds : IsFirst(j)]
      BY <2>3 DEF FirstFailureOr
    <2>6. QED
      BY <1>1, <2>4, <2>5
  <1>4. QED
    BY <1>1, <1>3 DEF FirstFailureOr

\* An artifact all of whose parts have a descriptor has a hash.
LEMMA HasHash ==
    ASSUME NEW a, a.partsForm = "array",
           \A i \in DOMAIN a.parts : ~Failed(TsDescriptor(a.parts[i]))
    PROVE  ~Failed(TsArtifactHash(a))
  BY DEF TsArtifactHash, FirstFailureOr

\* What the outputs_hash of an artifact commits to: two artifacts that have a
\* hash have the same one exactly when they have as many parts and every two
\* parts hold the same.  Nothing of the content is left out, and nothing else
\* (a name that is absent or null, members of no meaning) counts.
THEOREM HashCommitsToContent ==
    ASSUME NEW a, NEW b, IsPartList(a.parts), IsPartList(b.parts),
           ~Failed(TsArtifactHash(a)), ~Failed(TsArtifactHash(b))
    PROVE  TsArtifactHash(a) = TsArtifactHash(b) <=>
              /\ DOMAIN a.parts = DOMAIN b.parts
              /\ \A i \in DOMAIN a.parts : SameContent(a.parts[i], b.parts[i])
  <1> DEFINE da == [i \in DOMAIN a.parts |-> TsDescriptor(a.parts[i])]
             db == [i \in DOMAIN b.parts |-> TsDescriptor(b.parts[i])]
  <1>1. TsArtifactHash(a) = [parts |-> da] /\ TsArtifactHash(b) = [parts |-> db]
    BY HashIsDescriptors
  <1>2. TsArtifactHash(a) = TsArtifactHash(b) <=> da = db
    BY <1>1
  <1>3. ASSUME NEW i \in DOMAIN a.parts, i \in DOMAIN b.parts
        PROVE  TsDescriptor(a.parts[i]) = TsDescriptor(b.parts[i])
                  <=> SameContent(a.parts[i], b.parts[i])
    BY <1>3, HashIsDescriptors, PartsCommitted
  <1>4. da = db <=> /\ DOMAIN a.parts = DOMAIN b.parts
                    /\ \A i \in DOMAIN a.parts : TsDescriptor(a.parts[i]) = TsDescriptor(b.parts[i])
    OBVIOUS
  <1>5. QED
    BY <1>2, <1>3, <1>4

\* What holds the same as an artifact that has a hash has a hash too.
LEMMA SameHasHash ==
    ASSUME NEW a, NEW b, b.partsForm = "array", IsPartList(a.parts), IsPartList(b.parts),
           ~Failed(TsArtifactHash(a)), DOMAIN a.parts = DOMAIN b.parts,
           \A i \in DOMAIN a.parts : SameContent(a.parts[i], b.parts[i])
    PROVE  ~Failed(TsArtifactHash(b))
  <1>1. \A i \in DOMAIN b.parts : ~Failed(TsDescriptor(b.parts[i]))
    BY HashIsDescriptors, SameHasDescriptor DEF IsPartList
  <1>2. QED
    BY <1>1, HasHash

HIDE DEF IsString, NonStrings, NullIfAbsent, Fail, Failed
==============================================================================
