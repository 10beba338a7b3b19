------------------------------ MODULE CoSigning ------------------------------
(***************************************************************************)
(* Co-signed calls: a server answers calls and attaches a signed receipt   *)
(* to each answer, a gateway may co-sign the answer again, replies travel  *)
(* independently and may be changed, stripped or handed to the wrong call, *)
(* and the caller verifies the receipt and recomputes the outputs_hash.    *)
(*                                                                         *)
(* A call with binding "mcp" is veritrail-middleware.ts with the server of *)
(* src/ts/src/mcp; one with "a2a" is veritrail-a2a-middleware.ts with the  *)
(* agent of src/ts/src/a2a.  What is asked and answered is a sequence: the *)
(* parts of a message or artifact (A2A), or the one JSON value of the      *)
(* params or the result (MCP).  Hashing is ideal.                          *)
(***************************************************************************)
EXTENDS VerifyReceipt, A2AArtifact, FiniteSets

CONSTANTS
    Calls,        \* the calls callers make
    Requests,     \* the [binding, method, input] a call can carry
    Tools,        \* the MCP methods there is a tool for
    Answer,       \* what the tool or the agent makes of each request it takes
    Rewritten,    \* per binding, what a reply on its way can be changed into
    Server, Gateway,  \* the performers that co-sign
    FirstKey,     \* the key pairs their first instances generate
    Kid,          \* the kid both use for every key they generate
    MaxFaults     \* bound: how many replies are changed, stripped or swapped

Bindings   == {"mcp", "a2a"}
Performers == {Server, Gateway}

\* An MCP call of a tool there is not; what the server answers is a result like
\* any other, but for its isError.
UnknownTool(req) == req.binding = "mcp" /\ req.method \notin Tools
Refusal(req)     == <<[isError |-> req.method]>>

\* What callers of a binding may be handed.
Bodies(binding) ==
    LET sent == {r \in Requests : r.binding = binding}
    IN  {Answer[r] : r \in sent} \cup {Refusal(r) : r \in {q \in sent : UnknownTool(q)}}
           \cup Rewritten[binding]

\* The hash of what is asked or answered: hashOf, and computeArtifactHash, which
\* throws where a part has no descriptor.
HashOf(binding, content) ==
    IF binding = "mcp" THEN [parts |-> content]
    ELSE TsArtifactHash([form |-> "object", partsForm |-> "array", parts |-> content])

ASSUME CoSigningAssumption ==
    /\ \A req \in Requests :
          /\ req.binding \in Bindings /\ req.method \in Texts
          /\ req.binding = "a2a" => IsPartList(req.input)
          /\ ~Failed(HashOf(req.binding, Answer[req]))
    /\ \A body \in Bodies("a2a") : IsPartList(body)
    /\ Bindings \cup {Server, Gateway, Kid} \subseteq Texts /\ Server # Gateway
    /\ FirstKey \in [Performers -> Keys] /\ FirstKey[Server] # FirstKey[Gateway]
    /\ \A key \in Keys : KeyAlg[key] = "EdDSA"
    /\ MaxFaults \in Nat

VARIABLES
    request,   \* per call, what was asked
    phase,     \* per call: "idle", "sent", "replied", "checked"
    reply,     \* per call, the reply on its way: [kind, body, receipt]
    verdict,   \* per call, what the caller concluded
    signer,    \* per performer, the key pair its running instance generated
    used,      \* the key pairs generated so far
    trusted,   \* the registry the callers hold
    faults,    \* bound: the faults that have happened
    vouched    \* history: every [performer, key, request, body] co-signed

vars == <<request, phase, reply, verdict, signer, used, trusted, faults, vouched>>

NoReply    == [kind |-> "none", body |-> <<>>, receipt |-> <<>>]

\* toHashPart: of a part of a request, the kind and what that kind holds.
NoFile == [form |-> "absent", bytes |-> "absent", encoding |-> "standard", uri |-> "absent",
           declared_digest |-> "absent", mimeType |-> "absent", mimetype |-> "absent",
           name |-> "absent"]
ToHashPart(p) ==
    [form |-> p.form, kind |-> p.kind,
     content |-> IF p.kind \in {"text", "data"} THEN p.content ELSE "absent",
     file |-> IF p.kind = "file" THEN p.file ELSE NoFile]

InputOf(req) ==
    IF req.binding = "mcp" THEN req.input
    ELSE [i \in DOMAIN req.input |-> ToHashPart(req.input[i])]

\* An unknown tool, or an agent that throws: a message that cannot be hashed.
Refused(req) == UnknownTool(req) \/ Failed(HashOf(req.binding, InputOf(req)))

\* registryFromSigner for both performers: one kid each, holding the current key.
RegistryFrom(keys) ==
    [name \in {<<p, Kid>> : p \in Performers} |->
        [key |-> keys[name[1]], curve |-> "own", alg |-> "EdDSA", status |-> "active"]]

\* Variant: the two hashes are exchanged.
BuildReceiptPayload_HashesSwapped(performer, req, body) ==
    [form |-> "object", canonical |-> "yes", binding |-> req.binding,
     performer_id |-> performer, method |-> req.method,
     parent_receipt_hash |-> "null", parent_performer_id |-> "null",
     inputs_hash |-> HashOf(req.binding, body),
     outputs_hash |-> HashOf(req.binding, InputOf(req))]

\* buildReceiptPayload and buildA2AReceiptPayload: always a chain root.
BuildReceiptPayload(performer, req, body) ==
    [form |-> "object", canonical |-> "yes", binding |-> req.binding,
     performer_id |-> performer, method |-> req.method,
     parent_receipt_hash |-> "null", parent_performer_id |-> "null",
     inputs_hash |-> HashOf(req.binding, InputOf(req)),
     outputs_hash |-> HashOf(req.binding, body)]

\* signReceipt: a compact EdDSA JWS over the canonical payload.
SignReceipt(payload, key) ==
    [framing |-> "compact",
     header  |-> [form |-> "object", alg |-> "EdDSA", kid |-> Kid, keyMaterial |-> FALSE],
     payload |-> payload, signer |-> key]

\* Variant: the key pair is the one the first instance had.
CoSign_FirstKey(performer, req, r) ==
    [r EXCEPT !.receipt =
        <<SignReceipt(BuildReceiptPayload(performer, req, r.body), FirstKey[performer])>>]

\* veritrailToolResult and veritrailArtifact: the receipt is put under its own
\* key of the metadata, in place of one that is there, and outputs_hash covers
\* the result without its metadata.
CoSign(performer, req, r) ==
    [r EXCEPT !.receipt =
        <<SignReceipt(BuildReceiptPayload(performer, req, r.body), signer[performer])>>]

Vouch(performer, req, body) ==
    vouched' = vouched \cup
        {[performer |-> performer, key |-> signer[performer], request |-> req, body |-> body]}

Send(c, req) ==
    /\ phase[c] = "idle"
    /\ request' = [request EXCEPT ![c] = req]
    /\ phase' = [phase EXCEPT ![c] = "sent"]
    /\ UNCHANGED <<reply, verdict, signer, used, trusted, faults, vouched>>

\* Variant: an unknown tool is handled like a known one.
Handle_AnyTool(c) ==
    /\ phase[c] = "sent"
    /\ LET body == Answer[request[c]] IN
       /\ reply' = [reply EXCEPT ![c] =
             CoSign(Server, request[c], [kind |-> "result", body |-> body, receipt |-> <<>>])]
       /\ Vouch(Server, request[c], body)
    /\ phase' = [phase EXCEPT ![c] = "replied"]
    /\ UNCHANGED <<request, verdict, signer, used, trusted, faults>>

\* The handler computes, co-signs and returns without yielding in between.
Handle(c) ==
    /\ phase[c] = "sent" /\ ~Refused(request[c])
    /\ LET body == Answer[request[c]] IN
       /\ reply' = [reply EXCEPT ![c] =
             CoSign(Server, request[c], [kind |-> "result", body |-> body, receipt |-> <<>>])]
       /\ Vouch(Server, request[c], body)
    /\ phase' = [phase EXCEPT ![c] = "replied"]
    /\ UNCHANGED <<request, verdict, signer, used, trusted, faults>>

\* Variant: a call of a tool there is not is dropped without an answer.
RefuseTool_Silently(c) ==
    /\ phase[c] = "sent" /\ UnknownTool(request[c])
    /\ UNCHANGED vars

\* A call of a tool there is not is answered with a result that has no receipt.
RefuseTool(c) ==
    /\ phase[c] = "sent" /\ UnknownTool(request[c])
    /\ reply' = [reply EXCEPT ![c] =
          [kind |-> "result", body |-> Refusal(request[c]), receipt |-> <<>>]]
    /\ phase' = [phase EXCEPT ![c] = "replied"]
    /\ UNCHANGED <<request, verdict, signer, used, trusted, faults, vouched>>

\* The agent throws on a message that cannot be hashed.  That the caller is told
\* is what the SDK under it does.
AgentThrows(c) ==
    /\ phase[c] = "sent" /\ Refused(request[c]) /\ ~UnknownTool(request[c])
    /\ reply' = [reply EXCEPT ![c] = [NoReply EXCEPT !.kind = "error"]]
    /\ phase' = [phase EXCEPT ![c] = "replied"]
    /\ UNCHANGED <<request, verdict, signer, used, trusted, faults, vouched>>

Hashable(c) ==
    /\ ~Failed(HashOf(request[c].binding, InputOf(request[c])))
    /\ ~Failed(HashOf(request[c].binding, reply[c].body))

\* A gateway in front of the server runs the same middleware on whatever result
\* comes back, a refusal included.  Where the agent threw there is no artifact.
GatewayCoSigns(c) ==
    /\ phase[c] = "replied" /\ reply[c].kind = "result" /\ Hashable(c)
    /\ reply' = [reply EXCEPT ![c] = CoSign(Gateway, request[c], reply[c])]
    /\ Vouch(Gateway, request[c], reply[c].body)
    /\ UNCHANGED <<request, phase, verdict, signer, used, trusted, faults>>

\* The middleware throws where a part cannot be hashed, and the result is lost.
\* That the caller is told is what the SDK does.
GatewayThrows(c) ==
    /\ phase[c] = "replied" /\ reply[c].kind = "result" /\ ~Hashable(c)
    /\ reply' = [reply EXCEPT ![c] = [NoReply EXCEPT !.kind = "error"]]
    /\ UNCHANGED <<request, phase, verdict, signer, used, trusted, faults, vouched>>

(***************************************************************************)
(* What happens to replies on the way, to instances and to registries.     *)
(***************************************************************************)
Fault == faults < MaxFaults /\ faults' = faults + 1

BodyChanges(c, body) ==
    /\ Fault
    /\ phase[c] = "replied" /\ reply[c].kind = "result" /\ reply[c].body # body
    /\ reply' = [reply EXCEPT ![c].body = body]
    /\ UNCHANGED <<request, phase, verdict, signer, used, trusted, vouched>>

MetadataStripped(c) ==
    /\ Fault
    /\ phase[c] = "replied"
    /\ reply' = [reply EXCEPT ![c].receipt = <<>>]
    /\ UNCHANGED <<request, phase, verdict, signer, used, trusted, vouched>>

\* A reply of one protocol never reaches a caller of the other.
RepliesSwapped(c, d) ==
    /\ Fault
    /\ phase[c] = "replied" /\ phase[d] = "replied" /\ reply[c] # reply[d]
    /\ request[c].binding = request[d].binding
    /\ reply' = [reply EXCEPT ![c] = reply[d], ![d] = reply[c]]
    /\ UNCHANGED <<request, phase, verdict, signer, used, trusted, vouched>>

\* The metadata of one reply is put on another, of whichever protocol.  An error
\* has no metadata that it could be put in.
ReceiptMoved(c, d) ==
    /\ Fault
    /\ phase[c] = "replied" /\ phase[d] = "replied" /\ reply[c].kind = "result"
    /\ reply[c].receipt # reply[d].receipt
    /\ reply' = [reply EXCEPT ![c].receipt = reply[d].receipt]
    /\ UNCHANGED <<request, phase, verdict, signer, used, trusted, vouched>>

\* A new instance generates a new key pair under the same performer_id and kid.
Restart(performer) ==
    \E key \in Keys \ used :
        /\ signer' = [signer EXCEPT ![performer] = key]
        /\ used' = used \cup {key}
        /\ UNCHANGED <<request, phase, reply, verdict, trusted, faults, vouched>>

Reconnect ==
    /\ trusted # RegistryFrom(signer)
    /\ trusted' = RegistryFrom(signer)
    /\ UNCHANGED <<request, phase, reply, verdict, signer, used, faults, vouched>>

(***************************************************************************)
(* The caller: verify with the expected binding and method, then recompute *)
(* the outputs_hash from the result it received.  It throws where there is *)
(* no receipt to read, and where what it received has no hash.             *)
(***************************************************************************)
\* Variant: the receipt alone convinces.
Conclusion_ReceiptOnly(req, r) ==
    IF r.receipt = <<>> THEN "threw"
    ELSE LET policy == [expected_binding |-> req.binding, expected_method |-> req.method]
             reason == TsVerify(r.receipt[1], trusted, policy)
         IN  IF reason = "ok" THEN "accepted" ELSE reason

Conclusion(req, r) ==
    IF r.receipt = <<>> THEN "threw"
    ELSE LET jws    == r.receipt[1]
             policy == [expected_binding |-> req.binding, expected_method |-> req.method]
         IN  IF TsVerify(jws, trusted, policy) # "ok" THEN TsVerify(jws, trusted, policy)
             ELSE IF Failed(HashOf(req.binding, r.body)) THEN "threw"
             ELSE IF jws.payload.outputs_hash # HashOf(req.binding, r.body) THEN "output_mismatch"
             ELSE "accepted"

Check(c) ==
    /\ phase[c] = "replied"
    /\ verdict' = [verdict EXCEPT ![c] = Conclusion(request[c], reply[c])]
    /\ phase' = [phase EXCEPT ![c] = "checked"]
    /\ UNCHANGED <<request, reply, signer, used, trusted, faults, vouched>>

Init ==
    /\ request = [c \in Calls |-> <<>>] /\ phase = [c \in Calls |-> "idle"]
    /\ reply = [c \in Calls |-> NoReply] /\ verdict = [c \in Calls |-> "none"]
    /\ signer = FirstKey /\ used = {FirstKey[p] : p \in Performers}
    /\ trusted = RegistryFrom(FirstKey)
    /\ vouched = {} /\ faults = 0

Next ==
    \/ \E c \in Calls, req \in Requests : Send(c, req)
    \/ \E c \in Calls : Handle(c) \/ RefuseTool(c) \/ AgentThrows(c) \/ GatewayCoSigns(c)
                        \/ GatewayThrows(c) \/ MetadataStripped(c) \/ Check(c)
    \/ \E c \in Calls : phase[c] # "idle" /\
          \E body \in Rewritten[request[c].binding] : BodyChanges(c, body)
    \/ \E c, d \in Calls : RepliesSwapped(c, d) \/ ReceiptMoved(c, d)
    \/ \E p \in Performers : Restart(p)
    \/ Reconnect

\* Handlers run to completion and are answered, and callers read and check their replies.
Answers(c) == Handle(c) \/ RefuseTool(c) \/ AgentThrows(c)
Fairness   == \A c \in Calls : WF_vars(Answers(c)) /\ WF_vars(Check(c))

Spec == Init /\ [][Next]_vars /\ Fairness

------------------------------------------------------------------------------
(***************************************************************************)
(* Properties.                                                             *)
(***************************************************************************)
Verdicts == {"none", "threw", "accepted", "output_mismatch",
             "malformed", "header_key_material", "unknown_key", "revoked_key",
             "alg_not_allowed", "bad_signature", "non_canonical_payload", "context_mismatch"}

Kinds == {"none", "error", "result"}

\* A receipt is one that was signed for something vouched, or none.
SignedFor(v) ==
    <<SignReceipt(BuildReceiptPayload(v.performer, v.request, v.body), v.key)>>
Receipts == {<<>>} \cup {SignedFor(v) : v \in vouched}

\* Type correctness of the state; every receipt on its way was signed by a
\* performer for a result of the protocol of the request.
TypeOK ==
    /\ request \in [Calls -> Requests \cup {<<>>}]
    /\ phase \in [Calls -> {"idle", "sent", "replied", "checked"}]
    /\ verdict \in [Calls -> Verdicts]
    /\ signer \in [Performers -> Keys] /\ used \subseteq Keys
    /\ IsRegistry(trusted) /\ faults \in 0 .. MaxFaults
    /\ \A v \in vouched :
          /\ v.performer \in Performers /\ v.key \in Keys /\ v.request \in Requests
          /\ v.body \in Bodies(v.request.binding)
    /\ DOMAIN reply = Calls
    /\ \A c \in Calls :
          /\ reply[c] \in [kind : Kinds, body : {reply[c].body}, receipt : Receipts]
          /\ phase[c] # "idle" => request[c] \in Requests
          /\ reply[c].kind = "result" => reply[c].body \in Bodies(request[c].binding)

\* Two bodies or inputs read the same.
SameAs(binding, x, y) ==
    IF binding = "mcp" THEN x = y
    ELSE DOMAIN x = DOMAIN y /\ \A i \in DOMAIN x : SameContent(x[i], y[i])

\* What a caller accepts, the performer named in the receipt has co-signed: a body
\* that reads the same, for a request of the binding and method the caller called, and,
\* where inputs_hash is the caller's own, for the very request the caller sent,
\* whatever was changed, swapped or co-signed again on the way.
AcceptedWasVouched ==
    \A c \in Calls : verdict[c] = "accepted" =>
        LET receipt == reply[c].receipt[1].payload IN
        \E v \in vouched :
            /\ v.performer = receipt.performer_id
            /\ SameAs(request[c].binding, v.body, reply[c].body)
            /\ v.request.binding = request[c].binding /\ v.request.method = request[c].method
            /\ receipt.inputs_hash = HashOf(request[c].binding, request[c].input) =>
                  SameAs(request[c].binding, v.request.input, request[c].input)

\* The server vouches for nothing it refused to do: a caller whose request was
\* refused never holds an accepted receipt of the server for that request.
RefusedNotVouchedByServer ==
    \A c \in Calls : (verdict[c] = "accepted" /\ Refused(request[c])) =>
        LET receipt == reply[c].receipt[1].payload
        IN  receipt.performer_id = Gateway \/ receipt.inputs_hash # HashOf(request[c].binding, request[c].input)

\* The reply reads as some instance, whose key the caller trusts, co-signed it
\* for this request.
Genuine(c) ==
    \E v \in vouched :
        /\ v.request = request[c] /\ SameAs(v.request.binding, v.body, reply[c].body)
        /\ reply[c].receipt = SignedFor(v)
        /\ trusted[<<v.performer, Kid>>].key = v.key

\* No false alarm: a genuine reply is accepted, however often it was co-signed
\* and whichever other instance restarted meanwhile.
GenuineRepliesAccepted ==
    [][\A c \in Calls : (phase[c] # "checked" /\ phase'[c] = "checked" /\ Genuine(c))
            => verdict'[c] = "accepted"]_vars

\* Every call that is handled or refused is concluded by its caller.
EveryCallConcluded == \A c \in Calls : (phase[c] = "sent") ~> (phase[c] = "checked")
==============================================================================
