----------------------------- MODULE SignCommand -----------------------------
(***************************************************************************)
(* The sign command of both command line tools (Signing) on the same       *)
(* input; what they sign goes to both verifiers with the registry entry of *)
(* the signing key.                                                        *)
(***************************************************************************)
EXTENDS Signing

CONSTANT Inputs   \* the [receipt, kid, key, seed] the command is called with

\* What decodes as JSON null has no members, and every seed is an Ed25519 seed.
\* The performer and the kid, which a registry has as names, are well-formed text.
ASSUME SignAssumption ==
    \A in \in Inputs :
        /\ in.receipt.ext \in BOOLEAN /\ in.seed \in Keys /\ KeyAlg[in.seed] = "EdDSA"
        /\ "loneSurrogate" \notin {in.kid, in.receipt.field["performer_id"]}
        /\ in.receipt.form = "null" => \A name \in FieldNames : in.receipt.field[name] = "absent"

VARIABLES
    input,     \* what this invocation is given
    goSigned,  \* what Go's sign printed: [error] or [jws], or NotRun
    tsSigned,  \* what TypeScript's sign printed
    checked    \* the verdicts of <<signer tool, verifier tool>> so far

vars == <<input, goSigned, tsSigned, checked>>

NotRun == Fail("notRun")

(***************************************************************************)
(* One invocation.                                                         *)
(***************************************************************************)
RegistryFor(in) ==
    [name \in {<<in.receipt.field["performer_id"], in.kid>>} |->
        [key |-> in.seed, curve |-> "own", alg |-> "EdDSA", status |-> "active"]]

RunGo ==
    /\ goSigned = NotRun
    /\ goSigned' = GoSign(input)
    /\ UNCHANGED <<input, tsSigned, checked>>

RunTs ==
    /\ tsSigned = NotRun
    /\ tsSigned' = TsSign(input)
    /\ UNCHANGED <<input, goSigned, checked>>

Verdict(verifier, jws) ==
    IF verifier = "go" THEN GoVerify(jws, RegistryFor(input), NoPolicy)
    ELSE TsVerify(jws, RegistryFor(input), NoPolicy)

CheckSigned(tool, verifier) ==
    LET out == IF tool = "go" THEN goSigned ELSE tsSigned IN
    /\ ~Failed(out) /\ checked[<<tool, verifier>>] = "none"
    /\ checked' = [checked EXCEPT ![<<tool, verifier>>] = Verdict(verifier, out.jws)]
    /\ UNCHANGED <<input, goSigned, tsSigned>>

Init ==
    /\ input \in Inputs
    /\ goSigned = NotRun /\ tsSigned = NotRun
    /\ checked = [tv \in {"go", "ts"} \X {"go", "ts"} |-> "none"]

Next == RunGo \/ RunTs \/ \E tool, verifier \in {"go", "ts"} : CheckSigned(tool, verifier)

Spec == Init /\ [][Next]_vars

------------------------------------------------------------------------------
(***************************************************************************)
(* Properties.                                                             *)
(***************************************************************************)

\* For a call that follows the schema, right or wrong, the two tools print the
\* same: the same error or the same receipt.
SignTwinsAgreeOnSchema ==
    FollowsSchema(input) => NotRun \in {goSigned, tsSigned} \/ goSigned = tsSigned

\* Nothing of a receipt that follows the schema is lost or altered by signing
\* it: both tools sign what they were given, but for the version they stamp.
SignedAsGiven ==
    FollowsSchema(input) =>
        \A out \in {goSigned, tsSigned} : ~Failed(out) =>
            \A name \in FieldNames \ {"v"} : out.jws.payload[name] = input.receipt.field[name]

\* What either tool signs for a named performer verifies with either verifier:
\* signing frames header and payload as verification reads them ("a produced
\* receipt round-trips through verify", sign.ts).  Only a lone surrogate that
\* TypeScript signed is refused, by Go.
SignedReceiptVerifies ==
    (IsString(input.receipt.field["performer_id"]) /\ input.receipt.field["performer_id"] # "") =>
        \A tv \in DOMAIN checked :
            \/ checked[tv] \in {"none", "ok"}
            \/ tv = <<"ts", "go">> /\ ~WellFormed(input.receipt.field)
==============================================================================
