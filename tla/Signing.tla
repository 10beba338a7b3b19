------------------------------- MODULE Signing -------------------------------
(***************************************************************************)
(* The sign command of both tools as functions of their input: runSign and *)
(* Sign of src/go, and sign of src/ts/src/commands/sign.ts.                *)
(*                                                                         *)
(* An input is [receipt, kid, key, seed]; a receipt is                     *)
(* [form, hasReceiptId, field, ext], abstracted to one field of each kind  *)
(* the Go struct has: v, performer_id, binding and method are plain        *)
(* strings, cost is a struct of strings ("nonString" is any other value of *)
(* it), parent_receipt_hash is a pointer, parent_performer_id a pointer    *)
(* omitted when nil, and ext a member, of well-formed text, that the       *)
(* struct does not have.  A string that holds a lone surrogate is          *)
(* "loneSurrogate".                                                        *)
(***************************************************************************)
EXTENDS VerifyReceipt

\* What private_key_b64 can be: a 32-byte seed, the same with a line break in
\* the text, base64 of another length, no base64, or no string at all.
KeyTexts == {"seed", "seedWithLineBreak", "wrongLength", "notBase64", "nonString", "absent"}

Signed(jws) == [jws |-> jws]

\* Variant: the payload is signed in the member order it was given in.
EdDsaJws_NotCanonical(payload, kid, seed) ==
    [framing |-> "compact",
     header  |-> [form |-> "object", alg |-> "EdDSA", kid |-> kid, keyMaterial |-> FALSE],
     payload |-> [payload EXCEPT !.canonical = "no"], signer |-> seed]

\* A deterministic Ed25519 JWS over the canonical header and payload.
EdDsaJws(payload, kid, seed) ==
    [framing |-> "compact",
     header  |-> [form |-> "object", alg |-> "EdDSA", kid |-> kid, keyMaterial |-> FALSE],
     payload |-> payload, signer |-> seed]

FieldNames == {"v", "performer_id", "binding", "method", "cost", "parent_receipt_hash",
               "parent_performer_id"}

\* No string that is signed has a lone surrogate.
WellFormed(field) == \A name \in FieldNames \ {"v"} : field[name] # "loneSurrogate"

\* The receipt stamped with the version of the protocol, whatever it had.
PayloadWith(field, ext) ==
    [name \in FieldNames \cup {"form", "canonical", "ext"} |->
        IF name = "form" THEN "object"
        ELSE IF name = "canonical" THEN (IF WellFormed(field) THEN "yes" ELSE "surrogate")
        ELSE IF name = "ext" THEN ext
        ELSE IF name = "v" THEN "veritrail/0.1" ELSE field[name]]

(***************************************************************************)
(* src/go: the input and the receipt are decoded into typed structs.       *)
(***************************************************************************)

\* Variant: an empty string in an optional member is no value.
GoField_EmptyIsUnset(name, c) ==
    IF c = "loneSurrogate" THEN "replaced"
    ELSE IF name = "parent_receipt_hash" THEN NullIfAbsent(c)
    ELSE IF name = "parent_performer_id" THEN (IF c \in {"null", ""} THEN "absent" ELSE c)
    ELSE IF name = "cost" /\ c \in {"absent", "null"} THEN "emptyCost"
    ELSE IF c \in {"absent", "null"} THEN "" ELSE c

\* How a member decodes into its field and encodes again; one of another type
\* fails the decoding instead.  A lone surrogate decodes as U+FFFD.
GoField(name, c) ==
    IF c = "loneSurrogate" THEN "replaced"
    ELSE IF name = "parent_receipt_hash" THEN NullIfAbsent(c)
    ELSE IF name = "parent_performer_id" THEN (IF c = "null" THEN "absent" ELSE c)
    ELSE IF name = "cost" /\ c \in {"absent", "null"} THEN "emptyCost"
    ELSE IF c \in {"absent", "null"} THEN "" ELSE c

\* A receipt that is JSON null decodes as the struct with nothing set.
GoReceiptField(receipt) ==
    [name \in FieldNames |->
        GoField(name, IF receipt.form = "null" THEN "absent" ELSE receipt.field[name])]

GoSign(in) ==
    IF in.kid = "nonString" \/ in.key = "nonString" THEN Fail("invalid_input")
    ELSE IF in.receipt.form \notin {"object", "null"} THEN Fail("invalid_input")
    ELSE IF in.receipt.hasReceiptId THEN Fail("receipt_id_must_be_absent")
    ELSE IF StringClaim(in.kid) = "" THEN Fail("kid_required")
    ELSE IF in.key \notin {"seed", "seedWithLineBreak"} THEN Fail("invalid_private_key")
    ELSE IF in.receipt.form = "object" /\ \E name \in FieldNames : in.receipt.field[name] = "nonString"
         THEN Fail("invalid_input")
    ELSE Signed(EdDsaJws(PayloadWith(GoReceiptField(in.receipt), FALSE), in.kid, in.seed))

(***************************************************************************)
(* src/ts: the receipt is signed as it was given, but for the version.     *)
(***************************************************************************)
\* Variant: the kid is looked at before the receipt.
TsSign_KidFirst(in) ==
    IF StringClaim(in.kid) = "" THEN Fail("kid_required")
    ELSE IF in.receipt.form # "object" THEN Fail("invalid_input")
    ELSE IF in.receipt.hasReceiptId THEN Fail("receipt_id_must_be_absent")
    ELSE IF in.key # "seed" THEN Fail("invalid_private_key")
    ELSE Signed(EdDsaJws(PayloadWith(in.receipt.field, in.receipt.ext), in.kid, in.seed))

TsSign(in) ==
    IF in.receipt.form # "object" THEN Fail("invalid_input")
    ELSE IF in.receipt.hasReceiptId THEN Fail("receipt_id_must_be_absent")
    ELSE IF StringClaim(in.kid) = "" THEN Fail("kid_required")
    ELSE IF in.key # "seed" THEN Fail("invalid_private_key")
    ELSE Signed(EdDsaJws(PayloadWith(in.receipt.field, in.receipt.ext), in.kid, in.seed))

(***************************************************************************)
(* The inputs both read alike.                                             *)
(***************************************************************************)
\* A call that follows the schema: strings where the schema has strings, no
\* member missing or unknown, no null parent_performer_id, no lone surrogate, the
\* bare key text.
FollowsSchema(in) ==
    /\ in.kid # "nonString" /\ in.key \notin {"nonString", "seedWithLineBreak"}
    /\ in.receipt.form # "null" /\ ~in.receipt.ext /\ WellFormed(in.receipt.field)
    /\ \A name \in FieldNames \ {"parent_receipt_hash", "parent_performer_id"} :
          IsString(in.receipt.field[name])
    /\ in.receipt.field["parent_receipt_hash"] \notin {"absent", "nonString"}
    /\ in.receipt.field["parent_performer_id"] \notin {"null", "nonString"}
==============================================================================
