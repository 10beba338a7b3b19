---------------------------- MODULE MCConformance ----------------------------
(* Suites of vectors for TLC: ordinary inputs of every command, one vector     *)
(* each; short suites with anchors and broken files; and the unusual inputs    *)
(* that the two tools answer differently.                                      *)
EXTENDS Conformance

CONSTANTS p1, p2, kid1, kid2, k1, k2, k3, d1, d2, ctxA, ctxB, proto

MCTexts  == {p1, p2, kid1, kid2, d1, d2, ctxA, ctxB, proto, "none", "EdDSA", "ES256"}
MCKeyAlg == [k \in Keys |-> IF k = k2 THEN "ES256" ELSE "EdDSA"]

\* p1 has an active and a revoked Ed25519 key, p2 a P-256 key.
Registry ==
    [name \in {<<p1, kid1>>, <<p1, kid2>>, <<p2, kid1>>} |->
        IF name = <<p1, kid1>> THEN [key |-> k1, curve |-> "own", alg |-> "EdDSA", status |-> "active"]
        ELSE IF name = <<p1, kid2>> THEN [key |-> k3, curve |-> "own", alg |-> "EdDSA", status |-> "revoked"]
        ELSE [key |-> k2, curve |-> "own", alg |-> "ES256", status |-> "active"]]

\* A vector, and a vector of a command with an object and no anchor.
Vec(command, stdin, input, anchor, file) ==
    [command |-> command, stdin |-> stdin, input |-> input, anchor |-> anchor, file |-> file]
Plain(command, input) == Vec(command, "object", input, NoAnchor, "ok")

(***************************************************************************)
(* Receipts: verify and verify-chain.                                      *)
(***************************************************************************)
Header(form, alg, kid, material) ==
    [form |-> form, alg |-> alg, kid |-> kid, keyMaterial |-> material]
PayloadOf(form, canonical, performer, binding) ==
    [form |-> form, canonical |-> canonical, receipt_id |-> d1,
     performer_id |-> performer, binding |-> binding, method |-> ctxA,
     parent_receipt_hash |-> "null", parent_performer_id |-> "absent"]
Jws(framing, header, payload, signer) ==
    [framing |-> framing, header |-> header, payload |-> payload, signer |-> signer]
Verify(jws, policy) ==
    Plain("verify", [form |-> "typed", jws |-> jws, keys |-> Registry, policy |-> policy])
Chain(receipts) ==
    Plain("verify-chain", [form |-> "typed", receipts |-> receipts, keys |-> Registry,
                           policy |-> NoPolicy])

GoodHeader  == Header("object", "EdDSA", kid1, FALSE)
GoodPayload == PayloadOf("object", "yes", p1, ctxA)
Root        == Jws("compact", GoodHeader, GoodPayload, k1)
Leaf(parent, performer) ==
    Jws("compact", GoodHeader,
        [GoodPayload EXCEPT !.receipt_id = d2, !.parent_receipt_hash = parent,
                            !.parent_performer_id = performer], k1)
\* What decodes to no object has no claims.
NoHeader(form)  == Header(form, "absent", "absent", FALSE)
NoPayload(form) ==
    [PayloadOf(form, "no", "absent", "absent") EXCEPT !.method = "absent",
        !.parent_receipt_hash = "absent"]

BindingPolicies == {[expected_binding |-> b, expected_method |-> m] :
                        b \in {"absent", ctxA, ctxB}, m \in {"absent", ctxA, ctxB}}
OrdinaryHeaders ==
    {Header("object", alg, kid, material) :
        alg \in {"EdDSA", "ES256", "none", "absent"}, kid \in {kid1, kid2, ctxA, "nonString"},
        material \in BOOLEAN}
    \cup {NoHeader("otherJson"), NoHeader("notJson")}
OrdinaryPayloads ==
    {PayloadOf("object", canonical, performer, binding) :
        canonical \in {"yes", "no"}, performer \in {p1, p2, "absent"}, binding \in {ctxA, "null"}}
    \cup {NoPayload("otherJson"), NoPayload("notJson")}

OrdinaryReceipts ==
    {Verify(Jws(framing, header, payload, signer), policy) :
        framing \in {"compact", "broken"}, header \in OrdinaryHeaders,
        payload \in OrdinaryPayloads, signer \in {k1, k2, k3, NoKey}, policy \in BindingPolicies}
OrdinaryChains ==
    {Chain(receipts) : receipts \in {<<>>, <<Root>>, <<Root, Root>>} \cup
        {<<Leaf(parent, performer), Root>> :
            parent \in {"null", "nonString", d1, d2}, performer \in {"null", p1, p2}}}

(***************************************************************************)
(* Values, texts, streams and artifacts.                                   *)
(***************************************************************************)
Scalar(type, content) == [type |-> type, content |-> content, spelling |-> "plain"]
Name1 == <<116>>   \* a magnitude
Name2 == <<114>>   \* "receipt_id"
Name3 == <<97>>
ValueOfMembers(members) == [value |-> [type |-> "object", members |-> members]]
Bare(type)      == [value |-> Scalar(type, type)]
Member(n, type) == [name |-> n, value |-> Scalar(type, type)]
MCMagnitudes    == {Name1}

OrdinaryObjects ==
    {ValueOfMembers(members) : members \in {<<>>} \cup
        {<<Member(m, t), Member(n, u)>> : <<m, n>> \in {<<Name1, Name3>>, <<Name3, Name2>>},
                                          t \in {"string", "array"}, u \in {"string", "null"}}}
Numbers == [type |-> "number", content |-> 5, spelling |-> "plain"]
Costs == {ValueOfMembers(<<[name |-> Name1, value |-> v]>>) : v \in {Scalar("string", "string"), Numbers}}
OrdinaryValues ==
    {Plain(command, v) : command \in {"jcs", "receipt-id"}, v \in OrdinaryObjects}
    \cup {Plain("jcs", Bare(type)) : type \in {"null", "string", "array"}}
    \cup {Plain("cost-canon", v) : v \in Costs}

Base64(form, encoding, bytes) == [form |-> form, encoding |-> encoding, bytes |-> bytes]
SseText(form, bytes, mode) ==
    [form |-> form, encoding |-> "standard", bytes |-> bytes, mode |-> mode]
Hash(algo, form, digest) == [algo |-> algo, form |-> form, digest |-> digest]
OrdinaryTexts ==
    {Plain("hashstring", Hash("sha2-256", "hex", bytes)) : bytes \in {<<>>, <<"b1">>}}
    \cup {Plain("digest", Base64("string", "standard", bytes)) : bytes \in {<<>>, <<"b1">>}}
    \cup {Plain("sse-outputs-hash", SseText("string", stream, mode)) :
              stream \in {<<>>, <<"data", "lf", "lf">>}, mode \in Modes}

File(bytes, uri, encoding, mimeType, mimetype, declared) ==
    [form |-> "object", bytes |-> bytes, encoding |-> encoding, uri |-> uri,
     declared_digest |-> declared, mimeType |-> mimeType, mimetype |-> mimetype, name |-> "absent"]
NoFile == File("absent", "absent", "standard", "absent", "absent", "absent")
Part(form, kind, content, file) ==
    [form |-> form, kind |-> kind, content |-> content, file |-> file]
Artifact(form, partsForm, parts) == [form |-> form, partsForm |-> partsForm, parts |-> parts]
OfPart(part) == Artifact("object", "array", <<part>>)
FilePart(file) == OfPart(Part("object", "file", "absent", file))

OrdinaryParts ==
    {Part("object", kind, content, NoFile) : kind \in {"text", "data", "image", "null"},
                                             content \in {"absent", "null", "hello"}}
    \cup {Part("object", "file", "absent", File(bytes, uri, "standard", mimeType, "absent", declared)) :
              bytes \in {"absent", "null", "", "b1"}, uri \in {"absent", "", "u1"},
              mimeType \in {"absent", "null", "m1"}, declared \in {"absent", "null", "h1"}}
OrdinaryArtifacts ==
    {Plain("a2a-artifact-hash", Artifact("object", "array", parts)) :
        parts \in {<<>>} \cup {<<part>> : part \in OrdinaryParts}
                 \cup {<<part, Part("object", "text", "hello", NoFile), part>> : part \in OrdinaryParts}}

SignField(performer, cost, parentPerformer) ==
    [name \in FieldNames |->
        IF name = "performer_id" THEN performer ELSE IF name = "cost" THEN cost
        ELSE IF name = "parent_receipt_hash" THEN "null"
        ELSE IF name = "parent_performer_id" THEN parentPerformer ELSE ctxA]
Sign(form, hasReceiptId, field, ext, kid, key) ==
    Plain("sign", [receipt |-> [form |-> form, hasReceiptId |-> hasReceiptId, field |-> field, ext |-> ext],
                   kid |-> kid, key |-> key, seed |-> k1])
OrdinarySigns ==
    {Sign(form, hasReceiptId, SignField(p1, "block", parentPerformer), FALSE, kid, key) :
        form \in {"object", "other"}, hasReceiptId \in BOOLEAN, parentPerformer \in {"absent", p1},
        kid \in {kid1, "", "absent"}, key \in {"seed", "wrongLength", "absent"}}

OrdinarySuites ==
    {<<v>> : v \in OrdinaryReceipts \cup OrdinaryChains \cup OrdinaryValues \cup OrdinaryTexts
                  \cup OrdinaryArtifacts \cup OrdinarySigns}

(***************************************************************************)
(* Suites of two vectors: each with a whole, a partial, a wrong or no      *)
(* anchor, and files that cannot be read.                                  *)
(***************************************************************************)
AnchoredVectors ==
    {[v EXCEPT !.anchor = anchor] :
        v \in {Verify(Root, NoPolicy), Verify(Jws("compact", NoHeader("null"), GoodPayload, k1), NoPolicy),
               Chain(<<Leaf(d1, p1), Root>>)},
        anchor \in {NoAnchor, [reason |-> "ok"], [reason |-> "unknown_key"],
                    [reason |-> "ok", chain_len |-> 2], [chain_len |-> 1]}}
    \cup {[Verify(Root, NoPolicy) EXCEPT !.file = "broken"],
          [Verify(Root, NoPolicy) EXCEPT !.command = "missing"]}
ShortSuites == {<<>>} \cup {<<v, w>> : v \in AnchoredVectors, w \in AnchoredVectors}

(***************************************************************************)
(* What the two tools answer differently.                                  *)
(***************************************************************************)
Unusual(framing, header) == Verify(Jws(framing, header, GoodPayload, k1), NoPolicy)
OfNoCurve == [name \in DOMAIN Registry |-> [Registry[name] EXCEPT !.curve = "other"]]

\* Receipts: a line break or a dangling character in a segment, a header that is
\* JSON null, has a byte order mark in front or invalid UTF-8 inside a string, a
\* kid every JavaScript object inherits, a lone surrogate in the payload, a key of
\* another kty or crv, and an empty parent claim.
UnusualReceipts ==
    << Unusual("lineBreak", GoodHeader), Unusual("danglingChar", GoodHeader),
       Unusual("compact", NoHeader("null")),
       Unusual("compact", [GoodHeader EXCEPT !.form = "bomObject"]),
       Unusual("compact", [GoodHeader EXCEPT !.form = "badUtf8Object"]),
       Unusual("compact", [GoodHeader EXCEPT !.kid = proto]),
       Verify(Jws("compact", GoodHeader, PayloadOf("object", "surrogate", p1, ctxA), k1), NoPolicy),
       Plain("verify", [Verify(Root, NoPolicy).input EXCEPT !.keys = OfNoCurve]),
       Chain(<<Leaf(d1, ""), Root>>) >>

\* Streams with bytes that are no UTF-8; receipts with a parent performer that
\* is null, without a cost, with a member of its own, and with a lone surrogate.
UnusualContent ==
    << Plain("sse-outputs-hash",
             SseText("string", <<"data", "colon", "badByte", "lf", "lf">>, "sse")),
       Sign("object", FALSE, SignField(p1, "block", "null"), FALSE, kid1, "seed"),
       Sign("object", FALSE, SignField(p1, "absent", "absent"), FALSE, kid1, "seed"),
       Sign("object", FALSE, SignField(p1, "nonString", "absent"), FALSE, kid1, "seed"),
       Sign("object", FALSE, SignField(p1, "block", "absent"), TRUE, kid1, "seed"),
       Sign("object", FALSE, SignField(p1, "block", "loneSurrogate"), FALSE, kid1, "seed"),
       Sign("object", FALSE, SignField(p1, "block", "absent"), FALSE, kid1, "seedWithLineBreak") >>

\* Artifacts: parts that are absent, null or no list, a part that is null, a
\* member of another type, base64 of another alphabet and "mimetype".
UnusualArtifacts ==
    LET A2A(a) == Plain("a2a-artifact-hash", a)
    IN  << A2A(Artifact("absent", "absent", <<>>)), A2A(Artifact("object", "absent", <<>>)),
           A2A(Artifact("null", "absent", <<>>)), A2A(Artifact("object", "other", <<>>)),
           A2A(OfPart(Part("null", "absent", "absent", NoFile))),
           A2A(FilePart(File("b1", "absent", "lenient", "absent", "absent", "absent"))),
           A2A(FilePart(File("b1", "absent", "standard", "nonString", "absent", "absent"))),
           A2A(FilePart(File("b1", "absent", "standard", "absent", "m1", "absent"))) >>

\* Error codes: unknown commands, no input, an input that is null, members that
\* are absent or of another type, and the limits of the byte layer.
UnusualInvocations ==
    << Vec("audit", "object", [value |-> Scalar("null", "null")], NoAnchor, "ok"),
       Vec("", "object", [value |-> Scalar("null", "null")], NoAnchor, "ok"),
       Vec("verify", "notJson", Verify(Root, NoPolicy).input, NoAnchor, "ok"),
       Vec("digest", "null", Base64("absent", "standard", <<>>), NoAnchor, "ok"),
       Vec("digest", "other", Base64("absent", "standard", <<>>), NoAnchor, "ok"),
       Plain("jcs", Bare("absent")), Plain("jcs", [value |-> Scalar("string", "lone")]),
       Plain("receipt-id", ValueOfMembers(<<Member(<<97, 55357>>, "null")>>)),
       Plain("receipt-id", Bare("absent")), Plain("receipt-id", Bare("null")),
       Plain("receipt-id", Bare("array")),
       Plain("cost-canon", Bare("null")), Plain("cost-canon", Bare("array")),
       Plain("cost-canon", ValueOfMembers(<<Member(Name1, "null")>>)),
       Plain("hashstring", Hash("md5", "hex", <<"b1">>)),
       Plain("hashstring", Hash("sha2-256", "notHex", <<"b1">>)),
       Plain("hashstring", Hash("sha2-256", "absent", <<>>)),
       Plain("digest", Base64("string", "lenient", <<"b1">>)),
       Plain("sse-outputs-hash", SseText("string", <<>>, "plain")),
       Plain("sse-outputs-hash", SseText("absent", <<>>, "sse")),
       Plain("verify", [Verify(Root, NoPolicy).input EXCEPT !.form = "mistyped"]),
       Plain("verify-chain", [Chain(<<Root>>).input EXCEPT !.form = "mistyped"]) >>

UnusualSuite == UnusualReceipts \o UnusualContent \o UnusualArtifacts \o UnusualInvocations
UnusualSuites == {UnusualSuite}
UnusualOneByOne ==
    {<<v>> : v \in ToSet(UnusualReceipts \o Tail(UnusualContent) \o UnusualArtifacts \o UnusualInvocations)}
AllSuites == OrdinarySuites \cup ShortSuites \cup UnusualOneByOne
==============================================================================
