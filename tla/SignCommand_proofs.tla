-------------------------- MODULE SignCommand_proofs --------------------------
(***************************************************************************)
(* What the sign command of either tool prints, for every input: the same  *)
(* for both where the input follows the schema, nothing of it lost, and    *)
(* what is signed verifies with both tools.  The invariant says of every   *)
(* result and of every verdict where it came from.                         *)
(***************************************************************************)
EXTENDS SignCommand, Agreement_proofs

Tools == {"go", "ts"}

\* What the tool prints for an input.
SignWith(tool, in) == IF tool = "go" THEN GoSign(in) ELSE TsSign(in)

\* A verdict was given by the verifier on what the tool has signed.
VerdictIsOfSigned(tool, verifier) ==
    checked[<<tool, verifier>>] # "none" =>
        /\ ~Failed(SignWith(tool, input))
        /\ checked[<<tool, verifier>>] = Verdict(verifier, SignWith(tool, input).jws)

IInv ==
    /\ input \in Inputs
    /\ goSigned \in {NotRun, GoSign(input)} /\ tsSigned \in {NotRun, TsSign(input)}
    /\ DOMAIN checked = Tools \X Tools
    /\ \A tool, verifier \in Tools : VerdictIsOfSigned(tool, verifier)

\* What TypeScript signs.
TsPayload(in) == PayloadWith(in.receipt.field, in.receipt.ext)

(***************************************************************************)
(* What is signed.                                                         *)
(***************************************************************************)

\* The result of signing is an error or the JWS of a payload.
LEMMA GoSigns ==
    ASSUME NEW in, ~Failed(GoSign(in))
    PROVE  /\ GoSign(in) = Signed(EdDsaJws(PayloadWith(GoReceiptField(in.receipt), FALSE), in.kid, in.seed))
           /\ in.receipt.form \in {"object", "null"} /\ StringClaim(in.kid) # ""
  BY DEF GoSign, Failed, Fail

LEMMA TsSigns ==
    ASSUME NEW in, ~Failed(TsSign(in))
    PROVE  /\ TsSign(in) = Signed(EdDsaJws(TsPayload(in), in.kid, in.seed))
           /\ StringClaim(in.kid) # ""
  BY DEF TsSign, Failed, Fail, TsPayload

\* The JWS of a result.
LEMMA JwsOfSigned == \A jws : Signed(jws).jws = jws
  BY DEF Signed

\* Who signed and who verified.
LEMMA PairsOfTools == \A tv \in Tools \X Tools : \E tool, verifier \in Tools : tv = <<tool, verifier>>
  OBVIOUS

\* What was not run counts as a failure.
LEMMA NotRunFailed == Failed(NotRun)
  BY DEF NotRun, Fail, Failed

\* The members of a signed payload.
LEMMA PayloadMembers ==
    ASSUME NEW field, NEW ext
    PROVE  /\ \A name \in FieldNames \ {"v"} : PayloadWith(field, ext)[name] = field[name]
           /\ PayloadWith(field, ext).performer_id = field["performer_id"]
  BY DEF PayloadWith, FieldNames

\* It is an object, canonical but for lone surrogates.
LEMMA PayloadForm ==
    ASSUME NEW field, NEW ext
    PROVE  /\ PayloadWith(field, ext).form = "object"
           /\ PayloadWith(field, ext).canonical \in {"yes", "surrogate"}
  BY DEF PayloadWith, FieldNames

\* The payload of well-formed strings is canonical for both tools.
LEMMA PayloadOfText ==
    ASSUME NEW field, WellFormed(field), NEW ext
    PROVE  PayloadWith(field, ext).canonical = "yes"
  BY DEF PayloadWith, FieldNames

\* What Go has decoded is well-formed.
LEMMA DecodedIsWellFormed == \A receipt : WellFormed(GoReceiptField(receipt))
  BY DEF WellFormed, GoReceiptField, GoField, NullIfAbsent

\* A JWS signed with the seed that the registry holds for its performer and kid
\* passes every check of the TypeScript verifier, and of Go's but for a lone
\* surrogate.
LEMMA SignedJwsVerifies ==
    ASSUME NEW in \in Inputs, NEW payload, payload.form = "object",
           payload.canonical \in {"yes", "surrogate"},
           payload.performer_id = in.receipt.field["performer_id"],
           IsString(payload.performer_id), payload.performer_id # "", StringClaim(in.kid) # ""
    PROVE  /\ payload.canonical = "yes" =>
                  GoVerify(EdDsaJws(payload, in.kid, in.seed), RegistryFor(in), NoPolicy) = "ok"
           /\ TsVerify(EdDsaJws(payload, in.kid, in.seed), RegistryFor(in), NoPolicy) = "ok"
  <1> DEFINE jws  == EdDsaJws(payload, in.kid, in.seed)
             keys == RegistryFor(in)
             name == <<payload.performer_id, in.kid>>
             entry == [key |-> in.seed, curve |-> "own", alg |-> "EdDSA", status |-> "active"]
  <1>1. /\ jws.framing = "compact" /\ jws.header.form = "object" /\ jws.header.alg = "EdDSA"
        /\ jws.header.kid = in.kid /\ jws.header.keyMaterial = FALSE
        /\ jws.payload = payload /\ jws.signer = in.seed
    BY DEF EdDsaJws
  <1>2. name \in DOMAIN keys /\ keys[name] = entry
    BY DEF RegistryFor
  <1>3. /\ StringClaim(in.kid) = in.kid /\ IsString(in.kid)
        /\ StringClaim(payload.performer_id) = payload.performer_id
    BY DEF StringClaim, IsString
  <1>4. in.seed \in Keys /\ KeyAlg[in.seed] = "EdDSA"
    BY SignAssumption
  <1> HIDE DEF jws, keys
  <1>5. ~GoMalformed(jws) /\ ~TsMalformed(jws)
    BY <1>1 DEF GoMalformed, TsMalformed
  <1>6. /\ GoKeyResolves(jws, keys) /\ GoEntry(jws, keys) = entry
        /\ TsKeyResolves(jws, keys) /\ TsEntry(jws, keys) = entry
    BY <1>1, <1>2, <1>3 DEF GoKeyResolves, GoEntry, TsKeyResolves, TsEntry
  <1>7. /\ AlgAllowed(jws.header.alg, entry) /\ SignatureVerifies(jws, entry)
        /\ TsSignatureVerifies(jws, entry)
    BY <1>1, <1>4 DEF AlgAllowed, SignatureVerifies, TsSignatureVerifies, NonStrings
  <1>8. PayloadCanonical(jws) /\ (payload.canonical = "yes" => GoPayloadCanonical(jws))
    BY <1>1 DEF PayloadCanonical, GoPayloadCanonical
  <1>9. GoContextMatches(jws, NoPolicy) /\ TsContextMatches(jws, NoPolicy)
    BY DEF GoContextMatches, TsContextMatches, NoPolicy
  <1>10. ~jws.header.keyMaterial /\ entry.status # "revoked"
    BY <1>1
  <1> HIDE DEF entry
  <1>11. payload.canonical = "yes" => GoVerify(jws, keys, NoPolicy) = "ok"
    BY <1>5, <1>6, <1>7, <1>8, <1>9, <1>10, Zenon DEF GoVerify
  <1>12. TsVerify(jws, keys, NoPolicy) = "ok"
    BY <1>5, <1>6, <1>7, <1>8, <1>9, <1>10, Zenon DEF TsVerify
  <1> QED BY <1>11, <1>12 DEF jws, keys

\* Whatever a tool signs for a named performer, both verifiers accept, but for the
\* lone surrogate that Go refuses.
LEMMA SignedVerifies ==
    ASSUME NEW in \in Inputs, IsString(in.receipt.field["performer_id"]),
           in.receipt.field["performer_id"] # "", NEW tool \in Tools, ~Failed(SignWith(tool, in))
    PROVE  /\ tool = "go" \/ WellFormed(in.receipt.field) =>
                  GoVerify(SignWith(tool, in).jws, RegistryFor(in), NoPolicy) = "ok"
           /\ TsVerify(SignWith(tool, in).jws, RegistryFor(in), NoPolicy) = "ok"
  <1> DEFINE performer == in.receipt.field["performer_id"]
  <1>1. CASE tool = "go"
    <2> DEFINE field == GoReceiptField(in.receipt)
               payload == PayloadWith(field, FALSE)
    <2>0. SignWith(tool, in) = GoSign(in)
      BY <1>1 DEF SignWith
    <2>1. /\ SignWith(tool, in).jws = EdDsaJws(payload, in.kid, in.seed)
          /\ in.receipt.form \in {"object", "null"} /\ StringClaim(in.kid) # ""
      BY <2>0, GoSigns, JwsOfSigned, Zenon
    <2>2. in.receipt.form # "null"
      <3>1. "performer_id" \in FieldNames /\ in.receipt.field["performer_id"] # "absent"
        BY DEF IsString, NonStrings, FieldNames
      <3>2. in.receipt.form = "null" => \A name \in FieldNames : in.receipt.field[name] = "absent"
        BY SignAssumption, Zenon
      <3> QED BY <3>1, <3>2, Zenon
    <2>3. field["performer_id"] = performer
      <3>1. performer # "loneSurrogate"
        BY SignAssumption, Zenon
      <3> QED BY <2>2, <3>1 DEF GoReceiptField, GoField, FieldNames, IsString, NonStrings
    <2>4. WellFormed(field)
      BY DecodedIsWellFormed, Zenon
    <2> HIDE DEF field
    <2>5. payload.form = "object" /\ payload.canonical = "yes" /\ payload.performer_id = performer
      <3>1. payload.canonical = "yes"
        BY <2>4, PayloadOfText
      <3>2. payload.form = "object" /\ payload.performer_id = performer
        BY <2>3, PayloadMembers, PayloadForm, Zenon
      <3> QED BY <3>1, <3>2
    <2> HIDE DEF payload
    <2> QED BY <2>1, <2>5, SignedJwsVerifies
  <1>2. CASE tool = "ts"
    <2> DEFINE payload == TsPayload(in)
    <2>0. SignWith(tool, in) = TsSign(in)
      BY <1>2 DEF SignWith
    <2>1. /\ SignWith(tool, in).jws = EdDsaJws(payload, in.kid, in.seed)
          /\ StringClaim(in.kid) # ""
      BY <2>0, TsSigns, JwsOfSigned, Zenon
    <2>2. /\ payload.form = "object" /\ payload.performer_id = performer
          /\ payload.canonical \in {"yes", "surrogate"}
          /\ WellFormed(in.receipt.field) => payload.canonical = "yes"
      <3>1. payload = PayloadWith(in.receipt.field, in.receipt.ext)
        BY DEF TsPayload
      <3>2. payload.form = "object" /\ payload.canonical \in {"yes", "surrogate"}
        BY DEF TsPayload, PayloadWith, FieldNames
      <3>3. payload.performer_id = performer
        BY <3>1, PayloadMembers
      <3>4. ASSUME WellFormed(in.receipt.field) PROVE payload.canonical = "yes"
        BY <3>1, <3>4, PayloadOfText
      <3> HIDE DEF payload
      <3> QED BY <3>2, <3>3, <3>4
    <2> HIDE DEF payload
    <2> QED BY <1>2, <2>1, <2>2, SignedJwsVerifies
  <1> QED BY <1>1, <1>2 DEF Tools

(***************************************************************************)
(* The invariant.                                                          *)
(***************************************************************************)

LEMMA InitInvariant == Init => IInv
  BY DEF Init, IInv, VerdictIsOfSigned, Tools

\* Every step preserves the invariant.
LEMMA StepInvariant == IInv /\ [Next]_vars => IInv'
  <1> SUFFICES ASSUME IInv, [Next]_vars PROVE IInv'
    OBVIOUS
  <1>1. CASE RunGo
    BY <1>1 DEF RunGo, IInv, VerdictIsOfSigned, Verdict
  <1>2. CASE RunTs
    BY <1>2 DEF RunTs, IInv, VerdictIsOfSigned, Verdict
  <1>3. ASSUME NEW tool \in Tools, NEW verifier \in Tools, CheckSigned(tool, verifier)
        PROVE  IInv'
    <2> DEFINE out == IF tool = "go" THEN goSigned ELSE tsSigned
    <2>1. /\ ~Failed(out) /\ UNCHANGED <<input, goSigned, tsSigned>>
          /\ checked' = [checked EXCEPT ![<<tool, verifier>>] = Verdict(verifier, out.jws)]
      BY <1>3 DEF CheckSigned
    <2>2. out = SignWith(tool, input)
      BY <2>1, NotRunFailed DEF IInv, SignWith, Tools
    <2> HIDE DEF out
    <2>3. DOMAIN checked = Tools \X Tools /\ DOMAIN checked' = Tools \X Tools
      BY <2>1 DEF IInv
    <2>4. ASSUME NEW t \in Tools, NEW v \in Tools PROVE VerdictIsOfSigned(t, v)'
      <3>1. CASE t = tool /\ v = verifier
        <4>1. checked'[<<t, v>>] = Verdict(verifier, out.jws)
          BY <2>1, <2>3, <3>1
        <4> QED BY <2>1, <2>2, <3>1, <4>1 DEF VerdictIsOfSigned, Verdict
      <3>2. CASE ~(t = tool /\ v = verifier)
        <4>1. checked'[<<t, v>>] = checked[<<t, v>>]
          BY <2>1, <2>3, <3>2
        <4> QED BY <2>1, <4>1 DEF IInv, VerdictIsOfSigned, Verdict
      <3> QED BY <3>1, <3>2
    <2> QED BY <2>1, <2>3, <2>4 DEF IInv
  <1>4. CASE UNCHANGED vars
    BY <1>4 DEF vars, IInv, VerdictIsOfSigned, Verdict
  <1> QED BY <1>1, <1>2, <1>3, <1>4 DEF Next, Tools

\* Every result and every verdict is what the functions of the tools make of the
\* input.
THEOREM SignInvariance == Spec => []IInv
  BY InitInvariant, StepInvariant, PTL DEF Spec

(***************************************************************************)
(* The properties.                                                         *)
(***************************************************************************)

\* For every call that follows the schema, right or wrong, the two tools print
\* the same: the same error or the very same receipt.
THEOREM SignTwinsAgree == Spec => []SignTwinsAgreeOnSchema
  <1>1. IInv => SignTwinsAgreeOnSchema
    <2> SUFFICES ASSUME IInv, FollowsSchema(input) PROVE NotRun \in {goSigned, tsSigned} \/ goSigned = tsSigned
      BY DEF SignTwinsAgreeOnSchema
    <2>1. GoSign(input) = TsSign(input)
      BY SignAssumption, SignAgreement DEF IInv
    <2> QED BY <2>1 DEF IInv
  <1> QED BY <1>1, SignInvariance, PTL

\* Signing loses nothing of a receipt that follows the schema and alters nothing
\* but its version.
THEOREM SigningIsFaithful == Spec => []SignedAsGiven
  <1>1. IInv => SignedAsGiven
    <2> SUFFICES ASSUME IInv, FollowsSchema(input), NEW out \in {goSigned, tsSigned}, ~Failed(out)
                 PROVE  \A name \in FieldNames \ {"v"} : out.jws.payload[name] = input.receipt.field[name]
      BY DEF SignedAsGiven
    <2>1. GoSign(input) = TsSign(input)
      BY SignAssumption, SignAgreement DEF IInv
    <2>2. out = TsSign(input)
      BY <2>1, NotRunFailed DEF IInv
    <2>3. out.jws.payload = TsPayload(input)
      <3>1. ~Failed(TsSign(input))
        BY <2>2, Zenon
      <3>2. TsSign(input) = Signed(EdDsaJws(TsPayload(input), input.kid, input.seed))
        BY <3>1, TsSigns, Zenon
      <3>3. out.jws = EdDsaJws(TsPayload(input), input.kid, input.seed)
        BY <2>2, <3>2, JwsOfSigned, Zenon
      <3> QED BY <3>3 DEF EdDsaJws
    <2>4. out.jws.payload = PayloadWith(input.receipt.field, input.receipt.ext)
      BY <2>3, Zenon DEF TsPayload
    <2>5. \A name \in FieldNames \ {"v"} :
              PayloadWith(input.receipt.field, input.receipt.ext)[name] = input.receipt.field[name]
      BY PayloadMembers, Zenon
    <2> QED BY <2>4, <2>5, Zenon
  <1> QED BY <1>1, SignInvariance, PTL

\* What either tool signs for a named performer, both verifiers accept, whatever
\* else the input holds, but for a lone surrogate that Go refuses to verify.
THEOREM SigningRoundTrips == Spec => []SignedReceiptVerifies
  <1>1. IInv => SignedReceiptVerifies
    <2> SUFFICES ASSUME IInv, IsString(input.receipt.field["performer_id"]),
                        input.receipt.field["performer_id"] # "", NEW tv \in DOMAIN checked,
                        checked[tv] # "none",
                        ~(tv = <<"ts", "go">> /\ ~WellFormed(input.receipt.field))
                 PROVE  checked[tv] = "ok"
      BY DEF SignedReceiptVerifies
    <2>1. tv \in Tools \X Tools
      BY DEF IInv
    <2>2. PICK tool \in Tools, verifier \in Tools : tv = <<tool, verifier>>
      BY <2>1, PairsOfTools, Zenon
    <2>3. /\ ~Failed(SignWith(tool, input))
          /\ checked[tv] = Verdict(verifier, SignWith(tool, input).jws)
      BY <2>2 DEF IInv, VerdictIsOfSigned
    <2>4. verifier = "go" => tool = "go" \/ WellFormed(input.receipt.field)
      BY <2>2 DEF Tools
    <2> QED BY <2>3, <2>4, SignedVerifies DEF IInv, Verdict, Tools
  <1> QED BY <1>1, SignInvariance, PTL
==============================================================================
