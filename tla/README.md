# A TLA+ model of veritrail

Veritrail turns the actions of agents and tools into *receipts*: small JSON
objects that are canonicalized (JCS), hashed into a `receipt_id`, signed as a
compact JWS and linked to the receipt of the action that caused them. Two
independent implementations, Go (`src/go`) and TypeScript (`src/ts`), verify
receipts and paths of receipts; a harness (`src/conformance`) holds them to the
same verdicts; two middlewares co-sign live MCP calls and A2A tasks.

This directory models that system in TLA+, checks it with TLC and proves what
matters most with TLAPS. `PROJECT.json` lists the runs, the source lines behind
every definition, the hazards, the findings and the theorems.

## 1. Inventory

| Component | Source | State it keeps | Operations |
|---|---|---|---|
| verify | `go/verify.go`, `ts/src/commands/verify.ts` | none; a function of JWS, registry, policy | eight checks, the first that fails is the verdict |
| verify-chain | `go/chain.go`, `ts/src/commands/verify-chain.ts` | none; a function of path, registry, policy | `empty_chain`, `receipt_invalid`, `malformed_chain`, `link_mismatch`, `parent_identity_mismatch`, `cycle` |
| sign | `go/sign.go`, `cmd/veritrail-verify/main.go`, `ts/src/commands/sign.ts` | none | check the arguments, decode the receipt, canonicalize, sign |
| SSE commitment | `SSEDecode` in `go/veritrail.go`, `ts/src/commands/sse-outputs-hash.ts` | the parser's buffers | split lines, parse fields, dispatch events, join messages |
| MCP co-signing | `ts/src/mcp/` | the instance's key pair, calls in flight | build and sign a receipt for a result, attach it, verify it |
| A2A co-signing | `ts/src/a2a/` | the same | the same for an artifact |
| conformance harness | `conformance/compare.mjs` | the vector being run, the counts, the failures | run two binaries per vector, compare, hold against the anchor, exit |
| a2a-artifact-hash | `go/a2a.go`, `ts/src/commands/a2a-artifact-hash.ts` | none | map the parts to a descriptor, hash it |
| command line | `main.go`, `ts/src/cli.ts` | none | read one JSON object, run a command, print an object or an error |
| byte layer | `go/veritrail.go`, `ts/src/commands/{jcs,receipt-id,cost-canon,hashstring,digest}.ts` | none | canonicalize, hash, refuse a receipt that names its own id, refuse costs that are numbers |

**How they interact.** The commands call each other as functions (`verify-chain`
calls `verify` on every hop). Everything stateful is between them: performers
publish, rotate and revoke keys while auditors hold copies of the registry; the
middlewares sign replies that travel, concurrently, to callers that verify
them; the harness runs both binaries as child processes and compares what they
print.

**What is hard here**, and what each component must get right:

* *verify-chain in use.* A path is checked with a registry that may be stale, by
  someone who did not see the receipts being made, and each of its receipts is
  validly signed by somebody. Truncating, splicing, reordering, repeating or
  re-signing must never yield an accepted path, revocation must withdraw what it
  should and nothing else, and two auditors must not accept different histories
  of one receipt.
* *Two implementations.* Both ladders must give the same verdict on every
  input, although they are written around different JSON, base64 and UTF-8
  decoders and read absent, null and mistyped claims differently.
* *Streams.* A recording may stop anywhere; `outputs_hash` must commit to what a
  live client was handed, whatever the framing was on the way.
* *Co-signing.* Replies are changed, stripped, swapped or co-signed twice,
  receipts are moved to other replies, instances restart with new keys, requests
  are refused, parts have no hash.
* *Content addresses.* What stores a receipt may write it again in its own way:
  the address must stay, and must not survive a change of the data, although
  numbers are read as doubles and names are sorted by UTF-16 units.
* *The harness.* One of its binaries may fail on one vector, a vector file may
  not parse, an anchor may name some members only; its exit code is what a
  release depends on.

The `hazards` of `PROJECT.json` list each of these at its line.

## 2. Modules

| Module | Models | Extends / instantiates |
|---|---|---|
| `JsonValues` | absent, null, mistyped and string members; strict and lenient base64; the error line | – |
| `VerifyReceipt` | both `verify` ladders, as operators over abstract JWS | `JsonValues` |
| `VerifyChain` | both `verify-chain` ladders | `VerifyReceipt` |
| `Signing` | both `sign` commands as functions of their input | `VerifyReceipt` |
| `A2AArtifact` | both `a2a-artifact-hash` commands, and what the hash is for | `JsonValues` |
| `SseDecode` | both SSE decoders and commitments, in both modes | `JsonValues` |
| `Jcs` | canonical form; `jcs`, `receipt-id` and `cost-canon` of both tools | `JsonValues` |
| `Cli` | both command line tools: dispatch, decoding of the input, error codes, all ten commands | the five modules above it |
| `Conformance` | the harness, on vectors of any command | `Cli` |
| `Lineage` | performers, registries and auditors around verify-chain | `VerifyChain`, instance of `Provenance` |
| `Provenance` | abstract specification: works, attestations, accepted lineages | – |
| `CoSigning` | both middlewares, their servers, a gateway and the callers | `VerifyReceipt`, `A2AArtifact` |
| `SignCommand` | an invocation of both sign commands and the round trip through both verifiers | `Signing` |
| `SseStream` | a stream that arrives, a live client, and recordings of it | `SseDecode` |
| `ContentAddress` | an object that is rewritten and changed between two computations of its address | `Jcs` |
| `MC*` | instances for TLC | the module they are named after |
| `*_proofs` | theorems, see section 5 | the modules above and TLAPS |

The commands are stateless, so they are operators; each stateful module drives
them. A definition that ends in `_Something` next to the one it is named after is
a wrong variant of that code (a dropped guard, a swapped order): it is not part
of the model, and shows that a property tells it from the right one.

### The data

A JWS is a record of what the checks can tell apart. `framing` says how the
three base64url segments decode; the `form` of header and payload says how their
bytes parse (an object, one behind a byte order mark, one with invalid UTF-8 in
a string, JSON null, other JSON, no JSON), and `canonical` whether the payload is
its own canonical form, to one tool only where a string of it has half a surrogate
pair; a claim is a non-empty string, the
empty string, or absent, null or of another type; `signer` is the key whose
signature over exactly these bytes the third segment carries. Hashing and
signatures are ideal: a `receipt_id` is a member of `Digests`, one for each
payload, and nothing but the key's own signature verifies. Each verdict is the
reason code the code returns.

Where a hash is computed from data, the hash *is* the data: an address is the
canonical form, an artifact's hash its sequence of descriptors, an `outputs_hash`
of a stream the text that is committed to.

### `VerifyReceipt`, `VerifyChain`

One operator per check, named after the function or step it translates, and one
ladder per implementation (`GoVerify`, `TsVerify`, `GoVerifyChain`,
`TsVerifyChain`). Where the two share a check literally, it is one operator;
where they differ in the source they are two: malformedness, key lookup (a plain
JavaScript object also answers for the names it inherits), the context check,
building the key (TypeScript from `kty` and `crv`, Go from the coordinates as the
algorithm wants them), canonicality, the digest of a hop (Go hashes the transmitted
bytes, TypeScript the canonical form of what it parsed), and the parent's identity.
`Interoperable`, `PlainRegistry`, `PlainPolicy` and `PlainParentClaim` describe the
inputs the two read alike.

### `Lineage`

`Compose`, `Sign`, `Publish` and `Revoke` are what performers do; `Refresh` and
`Check` what auditors do. `Check` runs both ladders on any sequence of up to
`MaxPath` circulating copies (signed receipts, and copies whose payload segment
was exchanged for another), with the auditor's last fetched registry. Signing
and checking are the code; composing, publishing, revoking and handing over are
the environment, modelled from the inputs the code takes. Two auxiliary
variables, `age` and `clock`, record when a receipt id came to be, so that
"older" can be said; no guard but the freshness of an id reads them.

A payload names a parent that exists or never will: it holds its parent's
digest, and a digest cannot be computed before its preimage is. Anyone who holds
a key can sign any payload with it, whatever `performer_id` it carries, because
`sign` compares neither. Performers publish their own keys only.

### `A2AArtifact`

Every part is mapped to a descriptor, in order; the first part that has none
decides the error. Go decodes into structs (a member of another type fails, null
is nothing, `mimetype` is taken for `mimeType`), TypeScript reads the members it
finds. `WellFormedArtifact` is what the contract describes. `SameContent` says
when two parts hold the same for whoever reads them, without mentioning
descriptors; that hashes are equal exactly then is a theorem.

### `SseDecode`, `SseStream`

The decoders are folds over the whole recording. In `SseStream`, `wire` is what
has arrived; `client` is a live event-source parser, written from the WHATWG
algorithm the code cites. It shares no definition with the decoders: it ends lines
symbol by symbol as they arrive, recognizes a data line, its value and a leading
byte order mark in its own way, and keeps one data buffer with a newline after every
line, where the code keeps a list of lines. After every chunk the recording may end.
`ReframingInvariant` changes the stream itself and uses of the decoders only
the messages they find: it exchanges any one terminator for another kind, or inserts
a comment or another field at any place where a line begins. In mode
`sse-jsonrpc` a message is a reply
with a result, a notification or broken, possibly spread over several data
lines; only results are committed to.

### `Jcs`, `ContentAddress`

A value is written: its members in some order, a name perhaps twice, a scalar in
one of its spellings. A name is a sequence of UTF-16 code units; `Canonical` sorts
by them as `sort()` does, keeps the last of equal names, reads a number as the
nearest double (`MaxExact`
stands for 2^53), writes one beyond every double as null and half a surrogate pair
as an escape. Go's library refuses a name written twice, a number beyond the doubles and a
lone surrogate, in a name or a string, instead.
`ContentAddress` rewrites and changes a published text, and
asks when its address stays.

### `Signing`, `SignCommand`

One invocation of each tool on the same input. A receipt has one field for each
kind of member of the Go struct (a plain string, a struct of strings, a pointer,
a pointer omitted when nil, a member the struct lacks), because that is where
typed and untyped decoding can differ. What is signed is given to both
verifiers.

### `Cli`, `Conformance`

An invocation is a command, the state of stdin and the members the command
reads. `GoCli` and `TsCli` give the one line that is printed, error codes
included. `PlainInvocation` is the contract: what both must answer alike, right
or wrong.

`Conformance` is the loop of `compare.mjs`: `RunGo`, `RunTs`, `Compare`, `Crash`,
`Exit`, each a step because each child is a process of its own that may fail to
start or exit non-zero (`MaySpawnFail`), and because a vector file that does not
parse throws out of the loop. An anchor names some members of the output. The
suite is fixed when the harness starts. The harness writes the input again with
`JSON.stringify`, so duplicate names and numbers beyond every double never reach
the tools by that way; they are covered by `ContentAddress`.

### `CoSigning`

A call is sent, handled or refused, perhaps co-signed again by a gateway,
perhaps changed, stripped, swapped with the reply of another call or given
another reply's receipt, and checked as `demo.ts` and the round-trip tests check:
`verify` with the expected binding and method, then `outputs_hash` against the
body received; it throws where there is no receipt or what it received has no hash.
A call of an unknown tool is answered with a result like any other, but for its
`isError`, and has no receipt (`RefuseTool`): it may be changed, stripped, swapped and
given a receipt, and a gateway co-signs it, for `veritrailToolResult` asks no
questions. With binding `a2a`, request and answer are lists of parts:
`toHashPart` drops what a part's kind does not hold, the hash is the TypeScript
artifact hash, and a part without a descriptor makes agent or gateway throw
(`AgentThrows`, `GatewayThrows`). That a caller is then answered with an error is
what the A2A SDK does; it is assumed, not shown. A restart generates a new key under the same
performer and kid (`generateTestSigner`); `Reconnect` fetches the published
registry again. `vouched` is a history of what was signed. Handlers compute, sign
and attach without yielding, so that is one action. The gateway and the faults
are the environment.

### `Provenance`

What receipts are for, without keys, registries or JWS: a growing record of
works with at most one, earlier parent; agents attest works; an auditor accepts
only a path from a work to a root on which every author attested its own work.
`Lineage` implements it with `works` from `composed`, `attested` from `signed`
and `accepted` from the auditors' reports.

## 3. Runs

| Run | Question | Properties | Bounds |
|---|---|---|---|
| `lineage_core` | authenticity, parents' identity, agreement, refinement | `TypeOK`, `AcceptedIsAuthentic`, `ParentPerformerSigned`, `TwinsAgree`, `ImplementsProvenance` | 2 performers with a key each, 2 ids, 2 signed receipts, paths of up to 2, altered copies |
| `lineage_rotation` | what withdraws an accepted path | `WithdrawnOnlyByRevocation` | 1 performer, 2 keys, 2 kids |
| `lineage_deep` | structure of longer paths, finality of verdicts | `AcceptedIsAncestry`, `CycleNeverReported`, `AcceptedFromEveryHop`, `StructuralVerdictIsFinal` | 3 ids, 3 signed receipts, paths of up to 3, 2 leaf policies |
| `lineage_auditors` | one lineage per leaf | `OneLineagePerLeaf` | 2 auditors, dangling parents, altered copies |
| `conformance` | do the tools agree where the contract speaks; what an exit code means; does the harness end | `TypeOK`, `CleanExitMeansConformant`, `RedExitIsJustified`, `PlainVectorsAgree`, `HarnessTerminates` | every ordinary and unusual input alone, pairs of anchored vectors; binaries may fail |
| `conformance_unusual` | where the tools differ | `AgreeOnWholeSuite` | one suite of 46 vectors; expects a divergence |
| `sse_decode` | the decoders against a live client, and what can be read back | `TypeOK`, `RecordingMatchesLive`, `SseTwinsAgree`, `ReframingInvariant`, `MessagesOnlyExtend`, `ResultsReadBack` | `sse`: every stream of up to 6 of 7 symbols; `sse-jsonrpc`: up to 5 of 7 lines or events (156,865 states) |
| `sse_trailing` | whether an empty last message is dropped | `EmptyTrailingMessageDropped` | the streams of `sse_decode`; expects an empty last message that is committed to |
| `cosigning` | what a caller may conclude, and that it concludes | `TypeOK`, `AcceptedWasVouched`, `RefusedNotVouchedByServer`, `GenuineRepliesAccepted`, `EveryCallConcluded` | 2 calls, 5 requests in 2 protocols, 1 fault, 3 key pairs (105,838 states) |
| `sign` | agreement, faithfulness and round trip of sign | `SignTwinsAgreeOnSchema`, `SignedAsGiven`, `SignedReceiptVerifies` | complete receipts with wrong arguments, and receipts with loose members |
| `content_address` | does an address stand for the data | `TypeOK`, `SameAddressIffSameData`, `AddressingTwinsAgree`, `CanonicalIsFixpoint`, `CostKeptExactly` | objects of up to 3 members of 6 names and 8 values, 2 changes (144,287 states) |
| `content_address_keyorder` | the order of names | `KeysInCodePointOrder` | 2 names on both sides of the surrogates; expects the other order |

**Why the bounds are enough to be interesting.** Three hops are the first path
with a hop that is neither leaf nor root, and the first on which truncation,
splicing, reordering and repetition are all different things. Two performers and
foreign signing give every combination of author, signer and named parent. Two
keys and two kids give rotation; publishing, refreshing and revoking in any
order give every staleness of a view. Paths are *all* sequences of circulating
copies, so no order is missing. Six symbols are enough for two dispatched events
(`data lf lf data lf lf`), and for a mark, a name, a colon, a space or letter and
a `cr lf` cut at every place; five lines for two replies, one of them in two
halves, with something skipped between them. Two calls in flight give swapped
replies and moved receipts between requests of the same method, of another method
and of another binding; one fault may hit before or after the gateway.
The other lines of `ReframingInvariant` are a comment and a field
that both have `data` in them. Vectors do
not influence each other but through the counts and the exit code: single
vectors for what the tools answer, pairs for what the harness makes of it. The
conformance instance has, per command, the cross product of the members its
checks look at. `MaxSigned`, `MaxPath`, `MaxChunks`, `MaxFaults`, `MaxMembers` and
`MaxChanges` are bounds of the instances, not of the code; no theorem of section 5
depends on their values. `MaxExact` and `MaxFinite` are 4 and 8 in place of 2^53
and the largest double: what matters is that there are numbers below, between
and above.

**Symmetry.** `lineage_*` uses the permutations of `Digests`, which nothing
distinguishes; these runs check safety only. No run with a liveness property
uses symmetry.

**Deadlock** is checked in `lineage_*`, where there is always a next check. It
is switched off where the system really stops: the harness exits, a stream ends
(at its bound), calls have all been concluded, an invocation is over, a text is
not written again.

**Fairness.** `Conformance`: weak fairness of the whole next-state relation,
because the harness is one process that runs to its end and `spawnSync` returns
(a child that never returns would hang the harness; there is no timeout in the
code, and none is assumed). `CoSigning`: weak fairness, per call, of `Answers`
(`Handle`, `RefuseTool` or `AgentThrows`) and of `Check`: handlers run to completion
without waiting for anything, the SDK answers for an executor that throws, and
callers read their replies. No fairness of faults, co-signing, restarts or
reconnects. The other modules state no liveness: nobody is obliged to do
anything.

### Properties worth knowing

* `AcceptedIsAuthentic`, `AcceptedIsAncestry`, `OneLineagePerLeaf`: what an
  accepted path means, whoever made the receipts and whatever registry was used.
* `WithdrawnOnlyByRevocation`: publishing and rotating never withdraw an accepted
  path; the revocation of a key one of its hops was signed with always does.
* `StructuralVerdictIsFinal`: a verdict on the structure of a path is never
  replaced by another one, nor by acceptance, as registries and policies change.
* `AcceptedWasVouched`: demos and tests recompute `outputs_hash` only, and then a
  caller may accept a reply to *another* request of the same method; the property
  says precisely this, and that comparing `inputs_hash` as well closes it.
* `GenuineRepliesAccepted`: and there is no false alarm: what reads as it was
  co-signed is accepted, although names may be absent here and null there.
* `RecordingMatchesLive`, `ResultsReadBack`: a decoder's messages are those a live
  client was handed, at every prefix; a JSON-RPC commitment can be read back.
* `SameAddressIffSameData`: the address of an object changes exactly when its data
  does, up to the numbers a double holds exactly.
* `CostKeptExactly`: what `cost-canon` accepts was not rounded.
* `CleanExitMeansConformant`, `RedExitIsJustified`: the exit code of the harness
  says exactly what it should.

## 4. What is abstracted

* **Hashing, signatures, canonical form.** Ideal, as above. In `Jcs` a string is a
  value with spellings, not characters (names are sequences of UTF-16 code units), and a
  number an integer; objects are one level deep. In receipts a payload is
  canonical or it is not.
* **Keys.** Ed25519 and P-256 keys are known by their JWS algorithm; coordinates
  that belong to no key have no key pair, and `kty` and `crv` are those of the key or
  not (`curve`).
* **Lone surrogates** are modelled where a tool may refuse them: in a payload that is
  verified, a receipt that is signed, and the names and strings that are
  canonicalized. They are left out of the results in streams and of artifacts; and
  in `Jcs` one is refused wherever it stands in the text.
* **`receipt_id` of an unverified payload.** Go hashes bytes that need not be
  canonical; that is one more value, equal to no id.
* **The members of a receipt** that no modelled check reads (`ts`, `nonce`,
  `status`, `log_policy`, ...).
* **`hashstring`.** A digest is a sequence of bytes; a text that is no hex is
  refused by Go and truncated by `Buffer.from`. Multibase and varint are left out.
* **SSE bytes.** A line is a sequence of the words and marks the parser looks at;
  only `data` is a field name of its own. A truncated multi-byte character is an
  instance of `badByte`. In mode `sse` messages are joined with newlines and may
  contain them, so two lists of messages can have one commitment; in mode
  `sse-jsonrpc` that cannot happen (`ResultsReadBack`).
* **Results in streams** are tokens, so the canonical form of a result cannot be
  told from the octets it was sent in.
* **External code.** Go's JCS library, the live event-source client and the A2A
  SDK (which answers with an error when an executor throws) are modelled from how
  the code uses them. `EveryCallConcluded` holds for a throwing executor
  because the SDK is assumed to answer; of this code it tests the refusals.

## 5. Theorems

For every value of the constants that satisfies the named assumptions of the
modules, in particular for any number of performers, keys, receipts, auditors,
calls, faults, restarts, parts and vectors and for paths of any length:

| Module | Theorem | Property | Statement |
|---|---|---|---|
| `Lineage_proofs` | `Invariance` | – | The inductive invariant holds in every reachable state of every instance. |
|  | `TypeCorrectness` | `TypeOK` | Every reachable state of Lineage has its type. |
|  | `AcceptanceIsAuthentic` | `AcceptedIsAuthentic` | Every hop of an accepted path is a receipt signed by a key of the performer it names. |
|  | `AcceptanceIsAncestry` | `AcceptedIsAncestry` | An accepted path is the whole ancestry of its leaf, parents older than children. |
|  | `AcceptedParentsSigned` | `ParentPerformerSigned` | Where parent claims are null or non-empty strings, a named parent performer signed the parent. |
|  | `TwinsAlwaysAgree` | `TwinsAgree` | Where claims and policies are plain, the two implementations of verify-chain always give the same verdict. |
|  | `CycleIsNeverReported` | `CycleNeverReported` | Neither implementation ever answers cycle, for paths of any length. |
|  | `LineageIsUnique` | `OneLineagePerLeaf` | A receipt has at most one accepted lineage. |
|  | `StructureIsFinal` | `StructuralVerdictIsFinal` | A structural verdict on a path is never replaced by another one or by acceptance, whatever registry and policy it is checked with again. |
|  | `EveryHopIsAccepted` | `AcceptedFromEveryHop` | Every hop of a path that is still acceptable has an accepted path of its own, the rest of it. |
|  | `OnlyRevocationWithdraws` | `WithdrawnOnlyByRevocation` | Publishing and rotating keys withdraw no accepted path; revoking a key of one of its hops always does. |
|  | `Refinement` | `ImplementsProvenance` | Every behaviour of Lineage is a behaviour of Provenance. |
| `Agreement_proofs` | `VerifyAgreement` | – | verify: the two ladders are equal on interoperable receipts, for every plain registry and policy. |
|  | `ChainAgreement` | – | verify-chain: the two ladders are equal on paths of interoperable receipts, of every length, with a plain registry. |
|  | `ArtifactAgreement` | – | a2a-artifact-hash: the two implementations give the same result for every artifact as the contract describes it, with any number of parts. |
|  | `HashCommitsToContent` | – | Two artifacts have one hash exactly when their parts read the same, in the same order. |
|  | `SignAgreement` | – | sign: the two tools print the same for every input that follows the schema. |
| `Conformance_proofs` | `CliAgreement` | – | The two command line tools print the same line for every invocation that follows the contract, of every command. |
|  | `HarnessInvariance` | – | The inductive invariant of the harness holds in every reachable state, for every suite. |
|  | `HarnessTypeCorrectness` | `TypeOK` | Every reachable state of Conformance has its type. |
|  | `GreenMeansConformant` | `CleanExitMeansConformant` | Exit 0 means that every vector of the suite was read, divides no tool and matches its anchor. |
|  | `RedIsJustified` | `RedExitIsJustified` | Exit 1 means that some vector could not be run, could not be read, divides the tools or contradicts its anchor. |
|  | `PlainVectorsNeverDiverge` | `PlainVectorsAgree` | For suites of any length whose inputs have the types the commands read, vectors that follow the contract never diverge, whatever their command. |
| `SseDecode_proofs` | `MessagesAgreement` | – | The two decoders find the same messages in every stream of valid text, of any length. |
|  | `MessagesAsText` | – | In any stream, invalid bytes included, TypeScript finds the messages that Go finds, as text: nothing but the bytes that are no text divides the decoders. |
|  | `SseAgreement` | – | sse-outputs-hash: the two implementations commit to the same bytes, for every stream of valid text without a number beyond the doubles, in both modes. |
| `SseStream_proofs` | `Invariance` | – | What a live client has received is the decoding of the recording so far, for streams of any length. |
|  | `StreamTypeCorrectness` | `TypeOK` | Every reachable state of SseStream has its type, and every message of either decoder is made of the symbols of the stream. |
|  | `RecordingIsLive` | `RecordingMatchesLive` | The decoders find in a recording what a live client was handed, message by message, wherever the recording ends, for streams of valid text. |
|  | `RecordingIsLiveAsText` | – | On any bytes: Go decodes a recording to what a live client was handed, TypeScript to the same with invalid bytes replaced. |
|  | `StreamsNeverDivide` | `SseTwinsAgree` | The two implementations commit to the same bytes after every chunk of every stream of valid text without a number beyond the doubles. |
|  | `MessagesAreFinal` | `MessagesOnlyExtend` | A longer recording has the messages of the shorter one in front: no message is taken back. |
|  | `FramingIsNoPart` | `ReframingInvariant` | Exchanging a terminator of a stream for another, anywhere, and inserting a comment or another field where a line begins, inside an event too, changes no message of either decoder, in streams of any length. |
|  | `CommitmentReadsBack` | `ResultsReadBack` | The text committed to holds the results of the replies, each on a line of its own, in the order the client received them, for the same streams. |
| `SignCommand_proofs` | `SignInvariance` | – | Every result and every verdict of the sign command is what the functions of the tools make of the input. |
|  | `SignTwinsAgree` | `SignTwinsAgreeOnSchema` | For every call that follows the schema the two tools print the same error or the very same receipt. |
|  | `SigningIsFaithful` | `SignedAsGiven` | Neither tool loses or alters a member of a receipt that follows the schema, but for the version. |
|  | `SigningRoundTrips` | `SignedReceiptVerifies` | What either tool signs for a named performer both verifiers accept, whatever else the input holds; but what TypeScript signs with a lone surrogate in it, Go refuses as not canonical. |
| `ContentAddress_proofs` | `TextInvariance` | – | However a text is written again or changed, it stays an object of what is written. |
|  | `AddressTypeCorrectness` | `TypeOK` | Every reachable state of ContentAddress has its type; every canonical form spells its values in one way and has only finite numbers. |
|  | `CanonicalFormIsFixpoint` | `CanonicalIsFixpoint` | The canonical form of every text, with any number of members, is its own canonical form and has each name once. |
|  | `AddressIsOfData` | `SameAddressIffSameData` | Two texts with exact numbers have one address exactly when they say the same, in TypeScript; and in Go, for texts without lone surrogates. |
|  | `AddressingAgreement` | `AddressingTwinsAgree` | jcs, receipt-id and cost-canon: the two tools agree on every text with unique names, finite numbers and no lone surrogate in a name or string, but for a magnitude that is neither string nor number. |
|  | `CostIsExact` | `CostKeptExactly` | Cost blocks with one canonical form that a tool accepts hold the very same magnitudes. |
| `CoSigning_proofs` | `CoSigningInvariance` | – | The inductive invariant of co-signing holds in every reachable state, for any number of calls, faults and restarts. |
|  | `CoSigningTypeCorrectness` | `TypeOK` | Every reachable state of CoSigning has its type. |
|  | `AcceptedVouched` | `AcceptedWasVouched` | What a caller accepts, the performer named in its receipt has co-signed for a request of the binding and method of the call. |
|  | `RefusedNotVouched` | `RefusedNotVouchedByServer` | A caller whose request was refused never holds an accepted receipt of the server for it. |
|  | `GenuineAreAccepted` | `GenuineRepliesAccepted` | A reply that reads as it was co-signed, under a key the caller trusts, is accepted. |

**`Lineage`.** None of its properties is inductive: `Check` can only be shown to
preserve them from what circulates. `IInv` adds

* `ComposedShape` — payloads are canonical objects whose parent exists or is
  foreign; without it Go's digest of a hop need not be its id;
* `AgeOrder` — a parent is older than its child; it makes an accepted path an
  ancestry and a cycle impossible;
* `SignedShape` — signed receipts are JWS of composed payloads, and a copy with a
  signer is one of them; it turns "the signature verifies" into "that receipt was
  signed";
* `HonestRegistries` — published keys belong to the performer they are published
  under, in the registry and in every copy; it turns "a registered key" into "a
  key of the performer named".

`Agreement_proofs` follows the ladders check by check. `Lineage_proofs` states
what an accepted path is (`AcceptedPathIsAuthentic`, `AcceptedPathIsLinked`,
`AcceptedPathNamesSigners`) and then that each action preserves `IInv`. No cycle and
one lineage go by least counterexample: the youngest repetition on a linked path
contradicts the order of ages, and the first hop at which two accepted paths of
one leaf differ contradicts the uniqueness of ids.

The *verdicts* are split into the one on the structure of a path, which no
registry has a part in (`StructureOf`), and the validity of its receipts. A
report holds the structural verdict or `receipt_invalid`, hence finality. A later
registry extends an earlier one (`Extends`): entries are added and revoked, never
replaced, and views are earlier registries; so a receipt that was valid stays so
but for the status of its key (`AcceptedStays`), hence only revocation
withdraws.

The *refinement* maps every action: `Compose` to `Record`, `Sign` to `Attest`, an
accepting `Check` to `Accept`, a declining one to `Decline`, the rest to
stutters.

**`PlainWorld`** restricts what composers write as `parent_performer_id` (null or a
non-empty string) and which policies are used (none expects the empty string).
The two theorems that assume it are false without it: vector 9 of
`conformance_unusual` shows it for the claims. `VerifyAgreement` and `ChainAgreement`
assume besides that registry entries say what kind of key they hold
(`PlainRegistry`, vector 8) and that receipts are `Interoperable` (vectors 1 to 7);
the registries and receipts of `Lineage` are.

**`A2AArtifact`** (in `Agreement_proofs`). `FirstFailureOr` is total and keeps the
order, so two artifacts have one hash exactly when their descriptors are equal one by one; a case
distinction on the kind of a part shows that equal descriptors are equal
contents (`PartsCommitted`). The two implementations agree part by part.

**`SseDecode`, `SseStream`.** The decoders are folds over streams of any length, and
the induction theorems of the library take an operator the provers cannot
instantiate. So induction is stated for sets (`NumberInduction`,
`SequenceInduction`: a set of sequences that holds the empty one and, with a
sequence, every one that is longer by an element, holds all). `Fold` is a recursive
function on positions; `Folding` and `FoldEquations` turn it into two equations, for
no element and for one more, and what a fold computes is shown by membership in
such a set. The invariant
`IInv(A)`, for streams over the symbols `A`, is that the live client has received
exactly what is on the wire: its line, its buffer and its messages are those that
splitting and parsing the wire so far leave behind (`Follows`). One symbol keeps
this (`ClientFollows`), hence a chunk does, wherever it is cut: a `cr` and its `lf`
in two chunks, or a chunk that is the byte order mark.

`FramingIsNoPart` uses the same client as a measure: it reads the stream and the
changed one, is in the same state behind the change but for having just seen a `cr`
(`EndingReceived`, `OtherLineReceived`), and from there on receives the same
messages (`TailAlike`); so both decoders, which follow the client, find the same ones.

Types, `MessagesAreFinal`, `FramingIsNoPart` and `RecordingIsLiveAsText` hold for any
chunks. Three theorems assume `ChunksOver(Symbols \ ...)`, and are false without
it: bytes that are not UTF-8 divide the decoders (vector 10 of
`conformance_unusual`), and a number beyond every double is `null` to TypeScript and an
error to Go. `MessagesAsText` and `RecordingIsLiveAsText` say what remains: the
messages of one tool are those of the other with invalid bytes replaced.

**`SignCommand`.** The invariant is that every result and every verdict is what the
functions make of the input, in whatever order the tools and the verifiers run;
then `SignAgreement` gives agreement and faithfulness, and a walk through the
eight checks of either verifier gives the round trip (`SignedVerifies`), which
needs no schema: an `EdDSA` signature by the key that is registered, over a
payload that is canonical to whoever verifies it, which a lone surrogate signed by
TypeScript is not to Go. `SignAssumption` says what `Inputs` are: seeds are Ed25519
keys, and a receipt that is null has no members.

**`ContentAddress`.** Names are ordered totally (`BeforeIsTotal`, `BeforeIsTransitive`:
by the first unit that differs, or the shorter first), so a sequence of members
with different names can be sorted: put each where the number of members before
it says (`OrderedSequence`). A sorted sequence is determined by its set of
members, so the canonical forms of two texts are equal exactly when they hold the
same values under the same names (`SameForm`), and sorting again changes nothing.
For numbers, rounding to a double is idempotent and exact up to `MaxExact`
(`DoubleFacts`); `JcsAssumption` says what is used of 2^53 and the largest double
(divisible by 4; even and not smaller). The invariant is that both texts are
objects over `MemberNames` and `Written`, and that the published one has each name
once; a text written again may repeat a name. What is proved of Go is proved for
well-formed text, without lone surrogates: on any other Go has no address.

**`Cli`, `Conformance`.** `CliAgreement` goes command by command, for all ten, from the
agreement of verify, verify-chain, artifacts, sign, streams and the addressing
commands. Its hypotheses are the contract (`PlainInvocation`) and that the data of
an object has its type (`Typed`: a JWS is one, a list is a sequence), which a run
gets from its suites and `PlainVectorsNeverDiverge` assumes of them. The invariant
of the harness says that an output that is held is the tool's or a failure
(`HeldOutputs`), that every result says what it should about its vector (`Shows`)
and that the exit code sums them up (`ExitCodeSumsUp`).

**`CoSigning`.** The invariant adds to the types that only results carry
receipts and each was vouched for (`Fits`), that what is vouched can be hashed and that
the server vouched for
no refusal (`VouchedOK`), that the trusted registry is one that was
published (`TrustedOK`), and what was true when an accepted reply was checked: its
receipt is for a body with the same hash (`Covers`, `VerdictOK`). That equal
hashes mean equal contents is `HashCommitsToContent`.

**Only model-checked.** The liveness properties, `HarnessTerminates` and
`EveryCallConcluded`: liveness under fairness, and ENABLED with it, is out of this
prover's reach. Every other property of a passing run is stated by a theorem
above. The three runs that expect a violation show where the tools differ from each other
or from a document.

## 6. Where the code disagrees with itself or with its documents

Shown by `conformance_unusual`, whose suite has one invocation for each case and
ends with a divergence for every one of them (the numbers are those of the
vectors):

* 1–6: `verify` differs on a line break or a dangling character in a segment, on a
  header that is JSON null, has a byte order mark or invalid UTF-8, and on a kid
  that every JavaScript object inherits.
* 7, 15, 31, 32: a lone surrogate is verified, signed, canonicalized and
  addressed by TypeScript. Go refuses it everywhere but in what it signs, where it
  signs the replacement character instead.
* 8: a registry entry without the `kty` and `crv` of its key is good for Go and
  `bad_signature` for TypeScript.
* 9: an empty or mistyped `parent_performer_id` constrains nothing in Go and
  rejects in TypeScript.
* 10: streams with bytes that are not UTF-8 get two commitments.
* 11–14: the payload both middlewares build, with a null `parent_performer_id`, is
  signed differently by the two sign commands; so are receipts without a cost or
  with a member of their own, and a mistyped one is refused by Go only.
* 16: a `private_key_b64` that ends in a line break is signed with by Go and
  refused by TypeScript.
* 17–24: artifacts without parts, without a list of parts, with a null part, with
  base64 of another alphabet, with a mistyped member or with `mimetype`.
* 25–30, 33–46: the error codes: `unsupported_command` and `unknown_command`,
  `invalid_input` and `invalid_json`, `internal_error` where Go answers
  `invalid_input` or takes a missing member for empty, `unsupported_algo` and
  `unsupported_mode`, and the limits of the byte layer.

Shown by `content_address_keyorder`: the comment in `jcs.ts` says that names are
sorted by code points; they are sorted by UTF-16 units, as RFC 8785 wants.

Shown by `sse_trailing`: `docs/DESIGN.md:153` says that an empty trailing message is
dropped. The code drops what no blank line ended; an event whose data line is empty
and that a blank line ended is a message to it, the last one too, as it is to live
clients (`RecordingMatchesLive`). (`conformance/CONTRACT.md:94`, "an event with empty
data is NOT dispatched", means an event without a data line, as
`veritrail_test.go:189` spells out, and the code does so.)

Met while modelling and not given a run:

* `docs/DESIGN.md:154` commits to "the inner `result` value's wire octets"; both tools
  commit to its canonical form (`veritrail.go:213`), as `CONTRACT.md` wants. The
  models cannot tell the two apart (section 4).
* A policy that expects the empty string is met in Go by an absent claim, and not
  in TypeScript (`PlainPolicy`).
* A member of a tool result that is `undefined` is hashed as null by the process
  that co-signs and does not arrive (`jcs.ts:41`): no tool of the repository
  returns one, and the models have no such value.

## 7. Not modelled, and the plan

Not modelled: the digits of numbers and the escapes of strings, SHA-256, multibase;
library entry points and the version constant (no state, no decision); the
vector generators and the vectors (test data); the release workflows; the
pretty-printing of `demo.ts` (what it checks is `Check` of `CoSigning`); and the
transparency log, the aggregation of costs and the enforcement of `log_policy`,
which the design describes and no code implements.

What is left, most useful first:

1. An abstract specification of co-signing (requests, answers, attestations),
   implemented by `CoSigning` as `Provenance` is by `Lineage`.
2. `Jcs` over nested values, with the recursion as a function of the depth.
3. The theorems on streams with their hypotheses moved into the statement: as
   long as the wire holds no invalid byte, rather than for chunks that never do.
