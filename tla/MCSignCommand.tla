---------------------------- MODULE MCSignCommand ----------------------------
(* Inputs of the sign command for TLC. *)
EXTENDS SignCommand

CONSTANTS p1, kid1, ctxA, d1, k1

MCTexts  == {p1, kid1, ctxA, d1, "EdDSA", "ES256"}
MCKeyAlg == [k \in Keys |-> "EdDSA"]

Field(performer, binding, parent, parentPerformer, v, cost) ==
    [name \in FieldNames |->
        IF name = "performer_id" THEN performer
        ELSE IF name = "v" THEN v
        ELSE IF name = "cost" THEN cost
        ELSE IF name = "parent_receipt_hash" THEN parent
        ELSE IF name = "parent_performer_id" THEN parentPerformer
        ELSE IF name = "binding" THEN binding ELSE ctxA]

Receipt(form, hasReceiptId, field, ext) ==
    [form |-> form, hasReceiptId |-> hasReceiptId, field |-> field, ext |-> ext]

\* Receipts with every member of the schema present in its type, and calls that
\* are wrong in what both tools look for.
CompleteInputs ==
    {[receipt |-> Receipt(form, hasReceiptId, Field(performer, binding, parent, parentPerformer, v, "block"), FALSE),
      kid |-> kid, key |-> key, seed |-> k1] :
        form \in {"object", "other"}, hasReceiptId \in BOOLEAN, performer \in {p1, ""},
        binding \in {ctxA, ""}, parent \in {"null", d1}, parentPerformer \in {"absent", p1, ""},
        v \in {"veritrail/0.1", "veritrail/0.0"},
        kid \in {kid1, "", "null", "absent"}, key \in {"seed", "wrongLength", "notBase64", "absent"}}

\* Receipts as they are written by hand: members missing, null, of another type
\* or unknown, and keys read from a file with its line break.
LooseInputs ==
    {[receipt |-> Receipt(form, FALSE, Field(p1, binding, parent, parentPerformer, v, cost), ext),
      kid |-> kid, key |-> key, seed |-> k1] :
        form \in {"object", "other"},
        binding \in {ctxA, "absent", "null", "nonString", "loneSurrogate"},
        parent \in {"null", "absent", d1}, parentPerformer \in {"absent", "null", p1},
        v \in {"veritrail/0.1", "absent", "nonString"}, cost \in {"block", "absent", "nonString"},
        ext \in BOOLEAN, kid \in {kid1, "nonString"}, key \in {"seed", "seedWithLineBreak"}}
    \cup {[receipt |-> Receipt("null", FALSE, [name \in FieldNames |-> "absent"], FALSE),
           kid |-> kid1, key |-> "seed", seed |-> k1]}

MCInputs == CompleteInputs \cup LooseInputs
==============================================================================
