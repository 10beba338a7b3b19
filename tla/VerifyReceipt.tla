---------------------------- MODULE VerifyReceipt ----------------------------
(***************************************************************************)
(* The receipt verification algorithm of veritrail (section 7 of its       *)
(* design) as the two twin implementations compute it: `Verify' of         *)
(* src/go/verify.go and `verify' of src/ts/src/commands/verify.ts.  Both   *)
(* are pure functions of a compact JWS, a key registry and a policy, and   *)
(* both return the reason code of the FIRST check that fails, or "ok".     *)
(*                                                                         *)
(* A JWS is abstracted to what the checks tell apart:                      *)
(*   framing  how the three base64url segments decode                      *)
(*   header, payload  how the decoded bytes parse, and the claims in them  *)
(*   signer   the key whose signature over exactly these header and        *)
(*            payload bytes the third segment carries (ideal signatures:   *)
(*            nothing else verifies)                                       *)
(* A claim is a non-empty string of Texts, the empty string, or one of     *)
(* NonStrings.  A receipt_id is a member of Digests: hashing is ideal.     *)
(***************************************************************************)
EXTENDS JsonValues

CONSTANTS
    Texts,          \* the non-empty strings that claims, names and ids range over
    Digests,        \* the receipt ids, "u" + base64url(multihash): some of Texts
    InheritedNames, \* the names every JavaScript object inherits ("constructor", ...)
    Keys,           \* the signing key pairs
    KeyAlg          \* the JWS algorithm of each key pair

Claims     == Texts \cup {""} \cup NonStrings
SigAlgs    == {"EdDSA", "ES256"}

ASSUME DataAssumption ==
    /\ Texts \cap (NonStrings \cup {""}) = {}
    /\ Digests \subseteq Texts
    /\ InheritedNames \subseteq Texts
    /\ SigAlgs \subseteq Texts
    /\ KeyAlg \in [Keys -> SigAlgs]

NoKey == "noKey"
ASSUME NoKeyAssumption == NoKey \notin Keys

\* How the segments of the JWS text decode.  A "lineBreak" in a segment is
\* skipped by Go's base64 decoder and refused by the TypeScript alphabet check;
\* a "danglingChar" (segment length 1 modulo 4) is refused by Go's decoder and
\* dropped by Node's Buffer.
Framings == {"compact", "lineBreak", "danglingChar", "broken"}

\* What the decoded bytes of a header or payload segment are.
Forms == {"object", "bomObject", "badUtf8Object", "null", "otherJson", "notJson"}

Headers == [form : Forms, alg : Claims, kid : Claims, keyMaterial : BOOLEAN]

\* Whether the bytes of a payload are the JCS form of what they parse to.  Where
\* a string in it has a lone surrogate, written as an escape, that form is
\* "surrogate": JSON.stringify writes it so, and gowebpki/jcs refuses it.
Canonicities == {"yes", "surrogate", "no"}

Payloads == [form : Forms, canonical : Canonicities, receipt_id : Digests,
             performer_id : Claims, binding : Claims, method : Claims,
             parent_receipt_hash : Claims, parent_performer_id : Claims]

JwsSet == [framing : Framings, header : Headers, payload : Payloads,
           signer : Keys \cup {NoKey}]

\* key is the key pair that the coordinates x and y belong to, and curve whether
\* kty and crv say what kind of key that is.
Entries == [key : Keys \cup {NoKey}, curve : {"own", "other"}, alg : Claims,
            status : {"active", "revoked", "absent"}]

\* A registry maps <<performer_id, kid>> to its entry, where it has one.
IsRegistry(keys) ==
    /\ DOMAIN keys \subseteq (Texts \cup {""}) \X (Texts \cup {""})
    /\ keys \in [DOMAIN keys -> Entries]

\* An absent or null policy member is "absent": it constrains nothing.
Policies == [expected_binding : Texts \cup {"", "absent"},
             expected_method  : Texts \cup {"", "absent"}]
NoPolicy == [expected_binding |-> "absent", expected_method |-> "absent"]

(***************************************************************************)
(* The checks the two implementations share.                               *)
(***************************************************************************)

\* "none", the empty string and any algorithm but the registered one are refused.
AlgAllowed(alg, entry) == alg \notin NonStrings \cup {"", "none"} /\ alg = entry.alg

\* Variant: any known key will do, not only the registered one.
SignatureVerifies_AnyKey(jws, entry) ==
    entry.key \in Keys /\ jws.signer \in Keys /\ jws.header.alg = KeyAlg[entry.key]

\* The signature verifies under the registry entry's key, used as that key's
\* algorithm; coordinates of no key, or an algorithm of another key type, fail.
\* Go reads x and y as the algorithm wants them, and neither kty nor crv.
SignatureVerifies(jws, entry) ==
    /\ entry.key \in Keys
    /\ jws.signer = entry.key
    /\ jws.header.alg = KeyAlg[entry.key]

\* The transmitted payload bytes are the JCS form of what they parse to; a
\* leading byte order mark is in the bytes and never in the JCS form.
PayloadCanonical(jws) == jws.payload.canonical # "no" /\ jws.payload.form = "object"

(***************************************************************************)
(* src/go/verify.go                                                        *)
(***************************************************************************)

\* json.Unmarshal into a map accepts the JSON value null and replaces invalid
\* UTF-8 inside a string; only the payload is checked with utf8.Valid.
GoMalformed(jws) ==
    \/ jws.framing \notin {"compact", "lineBreak"}
    \/ jws.header.form \notin {"object", "badUtf8Object", "null"}
    \/ jws.payload.form \notin {"object", "null"}

GoKeyResolves(jws, keys) ==
    LET performer == StringClaim(jws.payload.performer_id)
        kid       == StringClaim(jws.header.kid)
    IN  performer # "" /\ kid # "" /\ <<performer, kid>> \in DOMAIN keys

\* Variant: the lookup loses the status.
GoEntry_NoStatus(jws, keys) ==
    [keys[<<jws.payload.performer_id, jws.header.kid>>] EXCEPT !.status = "active"]

GoEntry(jws, keys) == keys[<<jws.payload.performer_id, jws.header.kid>>]

\* A payload that the JCS library refuses is not canonical either.
GoPayloadCanonical(jws) == PayloadCanonical(jws) /\ jws.payload.canonical # "surrogate"

\* A claim that is absent or not a string compares as "".
GoContextMatches(jws, policy) ==
    /\ policy.expected_binding \in {"absent", StringClaim(jws.payload.binding)}
    /\ policy.expected_method \in {"absent", StringClaim(jws.payload.method)}

GoVerify(jws, keys, policy) ==
    IF GoMalformed(jws) THEN "malformed"
    ELSE IF jws.header.keyMaterial THEN "header_key_material"
    ELSE IF ~GoKeyResolves(jws, keys) THEN "unknown_key"
    ELSE IF GoEntry(jws, keys).status = "revoked" THEN "revoked_key"
    ELSE IF ~AlgAllowed(jws.header.alg, GoEntry(jws, keys)) THEN "alg_not_allowed"
    ELSE IF ~SignatureVerifies(jws, GoEntry(jws, keys)) THEN "bad_signature"
    ELSE IF ~GoPayloadCanonical(jws) THEN "non_canonical_payload"
    ELSE IF ~GoContextMatches(jws, policy) THEN "context_mismatch"
    ELSE "ok"

(***************************************************************************)
(* src/ts/src/commands/verify.ts                                           *)
(***************************************************************************)

\* TextDecoder strips a byte order mark and refuses invalid UTF-8; a parsed
\* value that is null, an array or a scalar is refused.
TsMalformed(jws) ==
    \/ jws.framing \notin {"compact", "danglingChar"}
    \/ jws.header.form \notin {"object", "bomObject"}
    \/ jws.payload.form \notin {"object", "bomObject"}

\* keys[performer][kid] on plain objects: an own entry, or a property that the
\* object of an own or inherited performer inherits, which is no registry entry.
TsInherited(performer, kid, keys) ==
    /\ kid \in InheritedNames
    /\ performer \in InheritedNames \/ \E own \in DOMAIN keys : own[1] = performer

TsKeyResolves(jws, keys) ==
    LET performer == jws.payload.performer_id
        kid       == jws.header.kid
    IN  /\ IsString(performer) /\ IsString(kid)
        /\ <<performer, kid>> \in DOMAIN keys \/ TsInherited(performer, kid, keys)

TsEntry(jws, keys) ==
    LET name == <<jws.payload.performer_id, jws.header.kid>>
    IN  IF name \in DOMAIN keys THEN keys[name]
        ELSE [key |-> NoKey, curve |-> "other", alg |-> "absent", status |-> "absent"]

\* createPublicKey builds a key of the kty and crv there are.
TsSignatureVerifies(jws, entry) == entry.curve = "own" /\ SignatureVerifies(jws, entry)

TsContextMatches(jws, policy) ==
    /\ policy.expected_binding \in {"absent", jws.payload.binding}
    /\ policy.expected_method \in {"absent", jws.payload.method}

TsVerify(jws, keys, policy) ==
    IF TsMalformed(jws) THEN "malformed"
    ELSE IF jws.header.keyMaterial THEN "header_key_material"
    ELSE IF ~TsKeyResolves(jws, keys) THEN "unknown_key"
    ELSE IF TsEntry(jws, keys).status = "revoked" THEN "revoked_key"
    ELSE IF ~AlgAllowed(jws.header.alg, TsEntry(jws, keys)) THEN "alg_not_allowed"
    ELSE IF ~TsSignatureVerifies(jws, TsEntry(jws, keys)) THEN "bad_signature"
    ELSE IF ~PayloadCanonical(jws) THEN "non_canonical_payload"
    ELSE IF ~TsContextMatches(jws, policy) THEN "context_mismatch"
    ELSE "ok"

(***************************************************************************)
(* The inputs the two implementations read alike.                          *)
(***************************************************************************)

\* Segments without line breaks or dangling characters; a header and a payload
\* that are objects of valid UTF-8 text, or no JSON objects of a kind that one
\* parser takes; a canonical payload without lone surrogates; and a performer and
\* kid that are neither empty nor the name of an inherited property.
Interoperable(jws) ==
    /\ jws.framing \in {"compact", "broken"}
    /\ jws.header.form \in {"object", "otherJson", "notJson"}
    /\ jws.payload.form \in {"object", "otherJson", "notJson"}
    /\ jws.payload.canonical # "surrogate"
    /\ jws.payload.performer_id \notin InheritedNames \cup {""}
    /\ jws.header.kid \notin InheritedNames \cup {""}

\* A registry whose entries say what kind of key they hold.
PlainRegistry(keys) == \A name \in DOMAIN keys : keys[name].curve = "own"

\* A policy that does not expect the empty string.
PlainPolicy(policy) ==
    /\ policy \in Policies
    /\ policy.expected_binding # "" /\ policy.expected_method # ""
==============================================================================
