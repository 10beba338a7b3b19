--------------------------------- MODULE Cli ---------------------------------
(***************************************************************************)
(* The two command line tools, src/go/cmd/veritrail-verify/main.go and     *)
(* src/ts/src/cli.ts, as functions from an invocation to the one line they *)
(* print.  Both always exit 0: a failure is a printed error code.          *)
(*                                                                         *)
(* An invocation is [command, stdin, input].  command is the argument, or  *)
(* "missing".  stdin is "unreadable", "notJson", "null", "other" (an array *)
(* or a scalar) or "object"; input holds the members that the command      *)
(* reads of the object, every one of them absent for other forms of stdin: *)
(*   jcs, receipt-id, cost-canon   [value], a JSON value of Jcs            *)
(*   hashstring        [algo, form, digest], form as of the digest's text: *)
(*                     "hex", "notHex" or one of NonStrings                *)
(*   digest            [form, encoding, bytes], form "string" or NonStrings*)
(*   sse-outputs-hash  the same and mode                                   *)
(*   verify            [form, jws, keys, policy], verify-chain             *)
(*                     [form, receipts, keys, policy], form "typed" or     *)
(*                     "mistyped" as of the JWS or the list of them; an    *)
(*                     absent JWS is a broken one, an absent list is empty *)
(*   a2a-artifact-hash an artifact of A2AArtifact; sign an input of Signing*)
(***************************************************************************)
EXTENDS VerifyChain, Signing, SseDecode, A2AArtifact, Jcs

Commands == {"jcs", "hashstring", "digest", "receipt-id", "sse-outputs-hash", "cost-canon",
             "verify", "verify-chain", "a2a-artifact-hash", "sign"}

(***************************************************************************)
(* src/go: the input is decoded into a struct.                             *)
(***************************************************************************)
\* An absent or null string decodes as "".
GoBytes(in) == IF in.form = "string" THEN in.bytes ELSE <<>>
GoRefusesBytes(in) == in.form = "nonString" \/ (in.form = "string" /\ in.encoding = "lenient")

GoHashString(in) ==
    IF in.algo # "sha2-256" \/ in.form \in {"nonString", "notHex"} THEN Fail("invalid_input")
    ELSE [hashstr |-> IF in.form = "hex" THEN in.digest ELSE <<>>]

GoRun(command, in) ==
    CASE command = "jcs"         -> GoJcs(in.value)
      [] command = "receipt-id"  -> GoReceiptIdCommand(in.value)
      [] command = "cost-canon"  -> GoCostCanon(in.value)
      [] command = "hashstring"  -> GoHashString(in)
      [] command = "digest"      ->
            IF GoRefusesBytes(in) THEN Fail("invalid_input") ELSE [hashstr |-> GoBytes(in)]
      [] command = "sse-outputs-hash" ->
            IF GoRefusesBytes(in) THEN Fail("invalid_input") ELSE GoOutputsHash(GoBytes(in), in.mode)
      [] command = "verify"      ->
            IF in.form = "mistyped" THEN Fail("invalid_input")
            ELSE [reason |-> GoVerify(in.jws, in.keys, in.policy)]
      [] command = "verify-chain" ->
            IF in.form = "mistyped" THEN Fail("invalid_input")
            ELSE [reason |-> GoVerifyChain(in.receipts, in.keys, in.policy),
                  chain_len |-> Len(in.receipts)]
      [] command = "a2a-artifact-hash" -> GoArtifactHash(in)
      [] command = "sign"        -> GoSign(in)

\* The command is looked at before what is read of stdin.
GoCli(inv) ==
    IF inv.command = "missing" THEN Fail("missing_command")
    ELSE IF inv.stdin = "unreadable" THEN Fail("stdin_read_error")
    ELSE IF inv.command \notin Commands THEN Fail("unsupported_command")
    ELSE IF inv.stdin \in {"notJson", "other"} THEN Fail("invalid_input")
    ELSE GoRun(inv.command, inv.input)

(***************************************************************************)
(* src/ts: the commands read the members of whatever was parsed.           *)
(***************************************************************************)
\* Buffer.from of something that is no string throws.
TsHashString(in) ==
    IF in.algo # "sha2-256" THEN Fail("unsupported_algo")
    ELSE IF in.form \in NonStrings THEN Fail("internal_error")
    ELSE [hashstr |-> IF in.form = "hex" THEN in.digest ELSE <<"truncated">>]

TsSseOutputsHash(in) ==
    IF in.mode \notin Modes THEN Fail("unsupported_mode")
    ELSE IF in.form # "string" THEN Fail("internal_error")
    ELSE TsOutputsHash(in.bytes, in.mode)

TsRun(command, in) ==
    CASE command = "jcs"         -> TsJcs(in.value)
      [] command = "receipt-id"  -> TsReceiptIdCommand(in.value)
      [] command = "cost-canon"  -> TsCostCanon(in.value)
      [] command = "hashstring"  -> TsHashString(in)
      [] command = "digest"      ->
            IF in.form # "string" THEN Fail("internal_error") ELSE [hashstr |-> in.bytes]
      [] command = "sse-outputs-hash" -> TsSseOutputsHash(in)
      [] command = "verify"      ->
            [reason |-> IF in.form = "mistyped" THEN "malformed"
                        ELSE TsVerify(in.jws, in.keys, in.policy)]
      [] command = "verify-chain" ->
            IF in.form = "mistyped" THEN [reason |-> "empty_chain", chain_len |-> 0]
            ELSE [reason |-> TsVerifyChain(in.receipts, in.keys, in.policy),
                  chain_len |-> Len(in.receipts)]
      [] command = "a2a-artifact-hash" -> TsArtifactHash(in)
      [] command = "sign"        -> TsSign(in)

\* Only sign looks whether there is an object at all; elsewhere null throws.
TsCli(inv) ==
    IF inv.command \in {"missing", ""} THEN Fail("missing_command")
    ELSE IF inv.stdin = "unreadable" THEN Fail("stdin_read_error")
    ELSE IF inv.stdin = "notJson" THEN Fail("invalid_json")
    ELSE IF inv.command \notin Commands THEN Fail("unknown_command")
    ELSE IF inv.stdin = "null"
    THEN Fail(IF inv.command = "sign" THEN "invalid_input" ELSE "internal_error")
    ELSE TsRun(inv.command, inv.input)

(***************************************************************************)
(* The invocations both tools answer alike, right or wrong.                *)
(***************************************************************************)
PlainText(in) == in.form = "string" /\ in.encoding = "standard"

PlainValue(v) == HasUniqueNames(v) /\ ~HasHuge(v) /\ WellFormedText(v)

\* The input has the members that the contract gives the command, each of its
\* type, and nothing the two decoders are known to read differently.
PlainInput(command, in) ==
    CASE command = "jcs"         -> in.value.type # "absent" /\ PlainValue(in.value)
      [] command = "receipt-id"  -> IsObject(in.value) /\ PlainValue(in.value)
      [] command = "cost-canon"  ->
            /\ IsObject(in.value) /\ PlainValue(in.value)
            /\ \A name \in Magnitudes : HasName(in.value, name) =>
                  ValueOf(in.value, name).type \in {"string", "number"}
      [] command = "hashstring"  -> in.algo = "sha2-256" /\ in.form = "hex"
      [] command = "digest"      -> PlainText(in)
      [] command = "sse-outputs-hash" ->
            PlainText(in) /\ in.mode \in Modes /\ ToSet(in.bytes) \cap {"badByte", "resultHuge"} = {}
      [] command = "verify"      ->
            /\ in.form = "typed" /\ Interoperable(in.jws)
            /\ PlainPolicy(in.policy) /\ PlainRegistry(in.keys)
      [] command = "verify-chain" ->
            /\ in.form = "typed" /\ PlainPolicy(in.policy) /\ PlainRegistry(in.keys)
            /\ \A i \in DOMAIN in.receipts :
                  Interoperable(in.receipts[i]) /\ PlainParentClaim(in.receipts[i])
      [] command = "a2a-artifact-hash" -> WellFormedArtifact(in)
      [] command = "sign"        -> FollowsSchema(in)

PlainInvocation(inv) ==
    \/ inv.command = "missing"
    \/ inv.command \in Commands /\ inv.stdin = "unreadable"
    \/ inv.command \in Commands /\ inv.stdin = "object" /\ PlainInput(inv.command, inv.input)
==============================================================================
