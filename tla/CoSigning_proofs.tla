--------------------------- MODULE CoSigning_proofs ---------------------------
(***************************************************************************)
(* What a caller accepts was co-signed for it, and what was co-signed for  *)
(* it is accepted: for any number of calls, faults and restarts.  The      *)
(* invariant adds to the types that only results carry receipts, that what *)
(* is vouched can be hashed, that the trusted registry is a published one, *)
(* and what was true when an accepted reply was checked.                   *)
(***************************************************************************)
EXTENDS CoSigning, Agreement_proofs

\* A reply of a binding: only results carry receipts, and each was vouched for.
Fits(r, b) ==
    /\ r = [kind |-> r.kind, body |-> r.body, receipt |-> r.receipt] /\ r.kind \in Kinds
    /\ r.receipt # <<>> => r.kind = "result" /\ \E v \in vouched : r.receipt = SignedFor(v)
    /\ r.kind = "result" => r.body \in Bodies(b)

VouchedTyped(v) ==
    /\ v.performer \in Performers /\ v.key \in Keys /\ v.request \in Requests
    /\ v.body \in Bodies(v.request.binding)

VouchedOK(v) ==
    /\ ~Failed(HashOf(v.request.binding, v.body))
    /\ ~Failed(HashOf(v.request.binding, InputOf(v.request)))
    /\ v.performer = Server => ~Refused(v.request)

\* The receipt is for a body with the hash of the one that was received.
Covers(v, c) ==
    /\ reply[c].receipt = SignedFor(v)
    /\ v.request.binding = request[c].binding /\ v.request.method = request[c].method
    /\ HashOf(request[c].binding, v.body) = HashOf(request[c].binding, reply[c].body)

VerdictOK(c) ==
    verdict[c] = "accepted" => phase[c] = "checked" /\ \E v \in vouched : Covers(v, c)

TrustedOK == \E keys \in [Performers -> Keys] : trusted = RegistryFrom(keys)

IInv ==
    /\ request \in [Calls -> Requests \cup {<<>>}]
    /\ phase \in [Calls -> {"idle", "sent", "replied", "checked"}]
    /\ verdict \in [Calls -> Verdicts]
    /\ signer \in [Performers -> Keys] /\ used \subseteq Keys
    /\ faults \in 0 .. MaxFaults
    /\ TrustedOK
    /\ \A v \in vouched : VouchedTyped(v) /\ VouchedOK(v)
    /\ DOMAIN reply = Calls /\ reply = [c \in Calls |-> reply[c]]
    /\ \A c \in Calls :
          /\ Fits(reply[c], request[c].binding) /\ VerdictOK(c)
          /\ phase[c] # "idle" => request[c] \in Requests
          /\ phase[c] \in {"idle", "sent"} => reply[c].kind = "none"

------------------------------------------------------------------------------
(***************************************************************************)
(* Hashes.                                                                 *)
(***************************************************************************)
AsArtifact(parts) == [form |-> "object", partsForm |-> "array", parts |-> parts]

\* Contents have one hash exactly when they read the same.
LEMMA HashIffSame ==
    ASSUME NEW b \in Bindings, NEW x, NEW y,
           b = "a2a" => IsPartList(x) /\ IsPartList(y),
           ~Failed(HashOf(b, x)), ~Failed(HashOf(b, y))
    PROVE  HashOf(b, x) = HashOf(b, y) <=> SameAs(b, x, y)
  <1>1. CASE b = "mcp"
    BY <1>1 DEF HashOf, SameAs
  <1>2. CASE b = "a2a"
    <2>1. TsArtifactHash(AsArtifact(x)) = TsArtifactHash(AsArtifact(y)) <=>
             /\ DOMAIN AsArtifact(x).parts = DOMAIN AsArtifact(y).parts
             /\ \A i \in DOMAIN AsArtifact(x).parts :
                   SameContent(AsArtifact(x).parts[i], AsArtifact(y).parts[i])
      <3>1. IsPartList(AsArtifact(x).parts) /\ IsPartList(AsArtifact(y).parts)
        BY <1>2 DEF AsArtifact
      <3>2. ~Failed(TsArtifactHash(AsArtifact(x))) /\ ~Failed(TsArtifactHash(AsArtifact(y)))
        BY <1>2 DEF AsArtifact, HashOf
      <3>3. QED
        BY <3>1, <3>2, HashCommitsToContent
    <2>2. QED
      BY <1>2, <2>1 DEF HashOf, SameAs, AsArtifact
  <1>3. QED
    BY <1>1, <1>2 DEF Bindings

\* What reads the same as something with a hash has a hash.
LEMMA SameIsHashable ==
    ASSUME NEW b \in Bindings, NEW x, NEW y,
           b = "a2a" => IsPartList(x) /\ IsPartList(y),
           ~Failed(HashOf(b, x)), SameAs(b, x, y)
    PROVE  ~Failed(HashOf(b, y))
  <1>1. CASE b = "mcp"
    BY <1>1 DEF HashOf, SameAs
  <1>2. CASE b = "a2a"
    <2>1. /\ IsPartList(AsArtifact(x).parts) /\ IsPartList(AsArtifact(y).parts)
          /\ ~Failed(TsArtifactHash(AsArtifact(x))) /\ AsArtifact(y).partsForm = "array"
          /\ DOMAIN AsArtifact(x).parts = DOMAIN AsArtifact(y).parts
          /\ \A i \in DOMAIN AsArtifact(x).parts :
                SameContent(AsArtifact(x).parts[i], AsArtifact(y).parts[i])
      BY <1>2 DEF AsArtifact, HashOf, SameAs
    <2>2. ~Failed(TsArtifactHash(AsArtifact(y)))
      BY <2>1, SameHasHash
    <2>3. QED
      BY <1>2, <2>2 DEF AsArtifact, HashOf
  <1>3. QED
    BY <1>1, <1>2 DEF Bindings

\* What toHashPart leaves out of a message is not hashed.
LEMMA InputHash ==
    ASSUME NEW req
    PROVE  HashOf(req.binding, InputOf(req)) = HashOf(req.binding, req.input)
  <1>1. CASE req.binding = "mcp"
    BY <1>1 DEF InputOf
  <1>2. CASE req.binding # "mcp"
    <2> DEFINE mapped == AsArtifact(InputOf(req))
               sent   == AsArtifact(req.input)
    <2>1. \A p : TsDescriptor(ToHashPart(p)) = TsDescriptor(p)
      BY DEF TsDescriptor, ToHashPart, Valued
    <2>2. /\ DOMAIN mapped.parts = DOMAIN sent.parts
          /\ \A i \in DOMAIN sent.parts : mapped.parts[i] = ToHashPart(sent.parts[i])
          /\ mapped.partsForm = "array" /\ sent.partsForm = "array"
      BY <1>2 DEF InputOf, AsArtifact
    <2>3. [i \in DOMAIN mapped.parts |-> TsDescriptor(mapped.parts[i])]
             = [i \in DOMAIN sent.parts |-> TsDescriptor(sent.parts[i])]
      BY <2>1, <2>2
    <2>4. TsArtifactHash(mapped) = TsArtifactHash(sent)
      BY <2>2, <2>3 DEF TsArtifactHash
    <2>5. QED
      BY <1>2, <2>4 DEF HashOf, AsArtifact
  <1>3. QED
    BY <1>1, <1>2

------------------------------------------------------------------------------
(***************************************************************************)
(* The steps.                                                              *)
(***************************************************************************)
\* A published registry has the type of one.
LEMMA RegistryTyped ==
    ASSUME NEW keys \in [Performers -> Keys]
    PROVE  IsRegistry(RegistryFrom(keys))
  <1> DEFINE names == {<<p, Kid>> : p \in Performers}
  <1>1. DOMAIN RegistryFrom(keys) = names
    BY DEF RegistryFrom
  <1>2. names \subseteq (Texts \cup {""}) \X (Texts \cup {""})
    <2>1. Performers \subseteq Texts /\ Kid \in Texts
      BY CoSigningAssumption DEF Performers
    <2>2. ASSUME NEW p \in Performers PROVE <<p, Kid>> \in (Texts \cup {""}) \X (Texts \cup {""})
      BY <2>1
    <2>3. QED
      BY <2>2
  <1>3. \A name \in names : RegistryFrom(keys)[name] \in Entries
    <2>1. "EdDSA" \in Claims
      BY DataAssumption DEF Claims, SigAlgs
    <2>2. \A name \in names : keys[name[1]] \in Keys
      OBVIOUS
    <2>3. QED
      BY <2>1, <2>2 DEF RegistryFrom, Entries
  <1>4. RegistryFrom(keys) \in [names -> Entries]
    BY <1>1, <1>3 DEF RegistryFrom
  <1>5. QED
    BY <1>1, <1>2, <1>4 DEF IsRegistry

\* The invariant is stronger than the types.
LEMMA InvariantTyped == IInv => TypeOK
  <1> SUFFICES ASSUME IInv PROVE TypeOK
    OBVIOUS
  <1>1. \A c \in Calls : reply[c] \in [kind : Kinds, body : {reply[c].body}, receipt : Receipts]
    BY DEF IInv, Fits, Receipts
  <1>2. IsRegistry(trusted)
    BY RegistryTyped DEF IInv, TrustedOK
  <1>3. QED
    BY <1>1, <1>2 DEF IInv, TypeOK, VouchedTyped, Fits

\* The invariant holds initially.
LEMMA InitInvariant == Init => IInv
  <1> SUFFICES ASSUME Init PROVE IInv
    OBVIOUS
  <1>1. FirstKey \in [Performers -> Keys] /\ MaxFaults \in Nat
    BY CoSigningAssumption
  <1>2. TrustedOK
    BY <1>1 DEF Init, TrustedOK
  <1>3. \A c \in Calls : Fits(reply[c], request[c].binding) /\ VerdictOK(c)
    BY DEF Init, Fits, VerdictOK, NoReply, Kinds
  <1>4. QED
    BY <1>1, <1>2, <1>3 DEF IInv, Init, NoReply, Verdicts

\* A step that answers or alters replies that are not yet checked, and may vouch
\* for more, preserves the invariant when every new reply fits.
LEMMA RepliesStep ==
    ASSUME IInv, UNCHANGED <<request, verdict, signer, used, trusted>>,
           faults' \in 0 .. MaxFaults, vouched \subseteq vouched',
           \A v \in vouched' : VouchedTyped(v) /\ VouchedOK(v),
           DOMAIN reply' = Calls, reply' = [c \in Calls |-> reply'[c]],
           phase' \in [Calls -> {"idle", "sent", "replied", "checked"}],
           \A c \in Calls :
              \/ reply'[c] = reply[c] /\ phase'[c] = phase[c]
              \/ /\ phase[c] \in {"sent", "replied"} /\ phase'[c] = "replied"
                 /\ Fits(reply[c], request[c].binding)'
    PROVE  IInv'
  <1>1. \A c \in Calls : Fits(reply[c], request[c].binding)'
    BY DEF IInv, Fits
  <1>2. \A c \in Calls : VerdictOK(c)'
    <2> SUFFICES ASSUME NEW c \in Calls, verdict'[c] = "accepted" PROVE VerdictOK(c)'
      BY DEF VerdictOK
    <2>1. phase[c] = "checked" /\ \E v \in vouched : Covers(v, c)
      BY DEF IInv, VerdictOK
    <2>2. reply'[c] = reply[c] /\ phase'[c] = phase[c]
      BY <2>1
    <2>3. QED
      BY <2>1, <2>2 DEF VerdictOK, Covers
  <1>3. TrustedOK'
    BY DEF IInv, TrustedOK
  <1>4. QED
    BY <1>1, <1>2, <1>3 DEF IInv

\* The general step, for one reply.
LEMMA OneReply ==
    ASSUME IInv, NEW c \in Calls,
           UNCHANGED <<request, verdict, signer, used, trusted>>,
           faults' \in 0 .. MaxFaults, phase[c] \in {"sent", "replied"},
           vouched \subseteq vouched', \A v \in vouched' : VouchedTyped(v) /\ VouchedOK(v),
           phase' = [phase EXCEPT ![c] = "replied"],
           reply' = [reply EXCEPT ![c] = reply'[c]],
           Fits(reply[c], request[c].binding)'
    PROVE  IInv'
  <1>1. DOMAIN reply = Calls /\ phase \in [Calls -> {"idle", "sent", "replied", "checked"}]
    BY DEF IInv
  <1>2. \A d \in Calls \ {c} : reply'[d] = reply[d] /\ phase'[d] = phase[d]
    BY <1>1
  <1>3. DOMAIN reply' = Calls /\ reply' = [d \in Calls |-> reply'[d]]
    BY <1>1
  <1>4. phase' \in [Calls -> {"idle", "sent", "replied", "checked"}] /\ phase'[c] = "replied"
    BY <1>1
  <1>5. \A d \in Calls :
           \/ reply'[d] = reply[d] /\ phase'[d] = phase[d]
           \/ /\ phase[d] \in {"sent", "replied"} /\ phase'[d] = "replied"
              /\ Fits(reply[d], request[d].binding)'
    BY <1>2, <1>4
  <1>6. QED
    BY <1>3, <1>4, <1>5, RepliesStep

\* The same where nothing more is vouched.
LEMMA AlteredReply ==
    ASSUME IInv, NEW c \in Calls, NEW STATE r,
           UNCHANGED <<request, verdict, signer, used, trusted, vouched>>,
           faults' \in 0 .. MaxFaults, phase[c] \in {"sent", "replied"},
           phase' = [phase EXCEPT ![c] = "replied"], reply' = [reply EXCEPT ![c] = r],
           Fits(r, request[c].binding)
    PROVE  IInv'
  <1>1. DOMAIN reply = Calls /\ \A v \in vouched' : VouchedTyped(v) /\ VouchedOK(v)
    BY DEF IInv
  <1>2. reply'[c] = r /\ reply' = [reply EXCEPT ![c] = reply'[c]]
    BY <1>1
  <1>3. Fits(reply[c], request[c].binding)'
    BY <1>2 DEF Fits
  <1>4. QED
    BY <1>1, <1>2, <1>3, OneReply

\* Where a caller checks a reply that has a receipt and accepts it, the receipt is
\* for the call's binding and method and for the hash of what was received.
LEMMA AcceptedCovers ==
    ASSUME IInv, NEW c \in Calls, phase[c] = "replied",
           Conclusion(request[c], reply[c]) = "accepted"
    PROVE  \E v \in vouched : Covers(v, c)
  <1> DEFINE jws    == reply[c].receipt[1]
             policy == [expected_binding |-> request[c].binding,
                        expected_method |-> request[c].method]
  <1>1. reply[c].receipt # <<>>
    BY DEF Conclusion
  <1>2. PICK v \in vouched : reply[c].receipt = SignedFor(v)
    BY <1>1 DEF IInv, Fits
  <1>3. /\ TsVerify(jws, trusted, policy) = "ok"
        /\ jws.payload.outputs_hash = HashOf(request[c].binding, reply[c].body)
    <2>1. TsVerify(jws, trusted, policy) # "accepted"
      BY DEF TsVerify
    <2>2. QED
      BY <1>1, <2>1 DEF Conclusion
  <1>4. jws.payload = BuildReceiptPayload(v.performer, v.request, v.body)
    BY <1>2 DEF SignedFor, SignReceipt
  <1>5. /\ request[c] \in Requests /\ v.request \in Requests
        /\ \A req \in Requests : req.binding \in Texts /\ req.method \in Texts
    BY CoSigningAssumption DEF IInv, VouchedTyped
  <1>6. jws.payload.binding = request[c].binding /\ jws.payload.method = request[c].method
    <2>1. TsContextMatches(jws, policy)
      BY <1>3 DEF TsVerify
    <2>2. request[c].binding # "absent" /\ request[c].method # "absent"
      BY <1>5, DataAssumption DEF NonStrings
    <2>3. QED
      BY <2>1, <2>2 DEF TsContextMatches
  <1>7. v.request.binding = request[c].binding /\ v.request.method = request[c].method
    BY <1>4, <1>6 DEF BuildReceiptPayload
  <1>8. jws.payload.outputs_hash = HashOf(v.request.binding, v.body)
    BY <1>4 DEF BuildReceiptPayload
  <1>9. QED
    BY <1>2, <1>3, <1>7, <1>8 DEF Covers

\* The hashes of what was answered and of what callers may be handed are of part lists.
LEMMA BodiesTyped ==
    ASSUME NEW b \in Bindings, NEW body \in Bodies(b)
    PROVE  b = "a2a" => IsPartList(body)
  BY CoSigningAssumption

\* Every step preserves the invariant.
LEMMA StepInvariant == IInv /\ [Next]_vars => IInv'
  <1> SUFFICES ASSUME IInv, [Next]_vars PROVE IInv'
    OBVIOUS
  <1>1. ASSUME NEW c \in Calls, NEW req \in Requests, Send(c, req) PROVE IInv'
    <2>1. request' = [request EXCEPT ![c] = req] /\ phase' = [phase EXCEPT ![c] = "sent"]
      BY <1>1 DEF Send
    <2>2. reply[c].kind = "none" /\ phase[c] = "idle"
      BY <1>1 DEF Send, IInv
    <2>3. \A d \in Calls : Fits(reply[d], request[d].binding)'
      BY <1>1, <2>1, <2>2 DEF Send, IInv, Fits
    <2>4. \A d \in Calls : VerdictOK(d)'
      <3> SUFFICES ASSUME NEW d \in Calls, verdict'[d] = "accepted" PROVE VerdictOK(d)'
        BY DEF VerdictOK
      <3>1. phase[d] = "checked" /\ \E v \in vouched : Covers(v, d)
        BY <1>1 DEF Send, IInv, VerdictOK
      <3>2. d # c /\ request'[d] = request[d] /\ phase'[d] = phase[d]
        BY <2>1, <2>2, <3>1 DEF IInv
      <3>3. QED
        BY <1>1, <3>1, <3>2 DEF VerdictOK, Covers, Send
    <2>5. TrustedOK' /\ \A v \in vouched' : VouchedTyped(v) /\ VouchedOK(v)
      BY <1>1 DEF Send, IInv, TrustedOK
    <2>6. \A d \in Calls : /\ phase'[d] # "idle" => request'[d] \in Requests
                          /\ phase'[d] \in {"idle", "sent"} => reply'[d].kind = "none"
      BY <1>1, <2>1, <2>2 DEF Send, IInv
    <2>7. QED
      BY <1>1, <2>1, <2>3, <2>4, <2>5, <2>6 DEF Send, IInv
  <1>2. ASSUME NEW c \in Calls, Handle(c) PROVE IInv'
    <2> DEFINE v == [performer |-> Server, key |-> signer[Server],
                     request |-> request[c], body |-> Answer[request[c]]]
    <2>1. request[c] \in Requests /\ signer[Server] \in Keys /\ Server \in Performers
      BY <1>2 DEF Handle, IInv, Performers
    <2>2. VouchedTyped(v)
      BY <2>1 DEF VouchedTyped, Bodies
    <2>3. ~Failed(HashOf(request[c].binding, Answer[request[c]]))
      BY <2>1, CoSigningAssumption
    <2>4. ~Refused(request[c]) /\ ~Failed(HashOf(request[c].binding, InputOf(request[c])))
      BY <1>2 DEF Handle, Refused
    <2>5. VouchedOK(v)
      BY <2>3, <2>4 DEF VouchedOK
    <2>6. /\ phase[c] \in {"sent", "replied"} /\ phase' = [phase EXCEPT ![c] = "replied"]
          /\ vouched \subseteq vouched' /\ v \in vouched' /\ v.request = request[c]
          /\ UNCHANGED <<request, verdict, signer, used, trusted, faults>>
      BY <1>2 DEF Handle, Vouch
    <2> DEFINE r == CoSign(Server, request[c], [kind |-> "result",
                           body |-> Answer[request[c]], receipt |-> <<>>])
    <2>7. r = [kind |-> "result", body |-> v.body, receipt |-> SignedFor(v)]
      BY DEF CoSign, SignedFor
    <2>8. reply'[c] = r /\ reply' = [reply EXCEPT ![c] = reply'[c]]
      BY <1>2 DEF Handle, IInv
    <2>9. \A w \in vouched' : VouchedTyped(w) /\ VouchedOK(w)
      BY <1>2, <2>2, <2>5 DEF Handle, Vouch, IInv
    <2>10. faults' \in 0 .. MaxFaults
      BY <2>6 DEF IInv
    <2>11. Fits(reply[c], request[c].binding)'
      BY <2>2, <2>6, <2>7, <2>8 DEF Fits, Kinds, VouchedTyped
    <2> HIDE DEF v, r
    <2>12. QED
      BY <2>6, <2>8, <2>9, <2>10, <2>11, OneReply
  <1>3. ASSUME NEW c \in Calls, GatewayCoSigns(c) PROVE IInv'
    <2> DEFINE v == [performer |-> Gateway, key |-> signer[Gateway],
                     request |-> request[c], body |-> reply[c].body]
    <2>1. Fits(reply[c], request[c].binding) /\ reply[c].kind = "result"
      BY <1>3 DEF GatewayCoSigns, IInv
    <2>2. Gateway \in Performers /\ Gateway # Server
      BY CoSigningAssumption DEF Performers
    <2>3. request[c] \in Requests /\ signer[Gateway] \in Keys
      BY <1>3, <2>2 DEF GatewayCoSigns, IInv
    <2>4. VouchedTyped(v)
      BY <2>1, <2>2, <2>3 DEF VouchedTyped, Fits
    <2>5. VouchedOK(v)
      BY <1>3, <2>2 DEF GatewayCoSigns, Hashable, VouchedOK
    <2>6. phase' = [phase EXCEPT ![c] = "replied"]
      BY <1>3 DEF GatewayCoSigns, IInv
    <2>7. /\ phase[c] \in {"sent", "replied"} /\ v.request = request[c]
          /\ vouched \subseteq vouched' /\ v \in vouched'
          /\ UNCHANGED <<request, verdict, signer, used, trusted, faults>>
      BY <1>3 DEF GatewayCoSigns, Vouch
    <2> DEFINE r == CoSign(Gateway, request[c], reply[c])
    <2>8. r = [kind |-> "result", body |-> v.body, receipt |-> SignedFor(v)]
      BY <2>1 DEF CoSign, SignedFor, Fits
    <2>9. reply'[c] = r /\ reply' = [reply EXCEPT ![c] = reply'[c]]
      BY <1>3 DEF GatewayCoSigns, IInv
    <2>10. \A w \in vouched' : VouchedTyped(w) /\ VouchedOK(w)
      BY <1>3, <2>4, <2>5 DEF GatewayCoSigns, Vouch, IInv
    <2>11. Fits(reply[c], request[c].binding)' /\ faults' \in 0 .. MaxFaults
      BY <2>4, <2>7, <2>8, <2>9 DEF Fits, Kinds, VouchedTyped, IInv
    <2> HIDE DEF v, r
    <2>12. QED
      BY <2>6, <2>7, <2>9, <2>10, <2>11, OneReply
  <1>16. ASSUME NEW c \in Calls, RefuseTool(c) PROVE IInv'
    <2> DEFINE r == [kind |-> "result", body |-> Refusal(request[c]), receipt |-> <<>>]
    <2>1. request[c] \in Requests /\ UnknownTool(request[c])
      BY <1>16 DEF RefuseTool, IInv
    <2>2. r.body \in Bodies(request[c].binding)
      BY <2>1 DEF Bodies
    <2>3. Fits(r, request[c].binding)
      BY <2>2 DEF Fits, Kinds
    <2>4. phase[c] \in {"sent", "replied"} /\ phase' = [phase EXCEPT ![c] = "replied"]
      BY <1>16 DEF RefuseTool
    <2>5. /\ reply' = [reply EXCEPT ![c] = r] /\ faults' \in 0 .. MaxFaults
          /\ UNCHANGED <<request, verdict, signer, used, trusted, vouched>>
      BY <1>16 DEF RefuseTool, IInv
    <2> HIDE DEF r
    <2>6. QED
      BY <2>3, <2>4, <2>5, AlteredReply
  <1>4. ASSUME NEW c \in Calls, AgentThrows(c) \/ GatewayThrows(c) PROVE IInv'
    <2> DEFINE r == [NoReply EXCEPT !.kind = "error"]
    <2>1. Fits(r, request[c].binding)
      BY DEF Fits, NoReply, Kinds
    <2>2. phase[c] \in {"sent", "replied"} /\ phase' = [phase EXCEPT ![c] = "replied"]
      BY <1>4 DEF AgentThrows, GatewayThrows, IInv
    <2>3. /\ reply' = [reply EXCEPT ![c] = r] /\ faults' \in 0 .. MaxFaults
          /\ UNCHANGED <<request, verdict, signer, used, trusted, vouched>>
      BY <1>4 DEF AgentThrows, GatewayThrows, IInv
    <2> HIDE DEF r
    <2>4. QED
      BY <2>1, <2>2, <2>3, AlteredReply
  <1>5. ASSUME Fault PROVE faults' \in 0 .. MaxFaults
    BY <1>5, CoSigningAssumption DEF Fault, IInv
  <1>6. ASSUME NEW c \in Calls, MetadataStripped(c) PROVE IInv'
    <2> DEFINE r == [reply[c] EXCEPT !.receipt = <<>>]
    <2>1. Fits(reply[c], request[c].binding) /\ DOMAIN reply = Calls
      BY DEF IInv
    <2>2. Fits(r, request[c].binding)
      BY <2>1 DEF Fits
    <2>3. phase[c] \in {"sent", "replied"} /\ phase' = [phase EXCEPT ![c] = "replied"]
      BY <1>6 DEF MetadataStripped, IInv
    <2>4. /\ reply' = [reply EXCEPT ![c] = r] /\ faults' \in 0 .. MaxFaults
          /\ UNCHANGED <<request, verdict, signer, used, trusted, vouched>>
      BY <1>5, <1>6, <2>1 DEF MetadataStripped
    <2> HIDE DEF r
    <2>5. QED
      BY <2>2, <2>3, <2>4, AlteredReply
  <1>7. ASSUME NEW c \in Calls, phase[c] # "idle",
               NEW body \in Rewritten[request[c].binding], BodyChanges(c, body)
        PROVE  IInv'
    <2> DEFINE r == [reply[c] EXCEPT !.body = body]
    <2>1. Fits(reply[c], request[c].binding) /\ DOMAIN reply = Calls
      BY DEF IInv
    <2>2. body \in Bodies(request[c].binding)
      BY <1>7 DEF Bodies
    <2>3. Fits(r, request[c].binding)
      BY <2>1, <2>2 DEF Fits
    <2>4. phase[c] \in {"sent", "replied"} /\ phase' = [phase EXCEPT ![c] = "replied"]
      BY <1>7 DEF BodyChanges, IInv
    <2>5. /\ reply' = [reply EXCEPT ![c] = r] /\ faults' \in 0 .. MaxFaults
          /\ UNCHANGED <<request, verdict, signer, used, trusted, vouched>>
      BY <1>5, <1>7, <2>1 DEF BodyChanges
    <2> HIDE DEF r
    <2>6. QED
      BY <2>3, <2>4, <2>5, AlteredReply
  <1>8. ASSUME NEW c \in Calls, NEW d \in Calls, ReceiptMoved(c, d) PROVE IInv'
    <2> DEFINE r == [reply[c] EXCEPT !.receipt = reply[d].receipt]
    <2>1. /\ Fits(reply[c], request[c].binding) /\ Fits(reply[d], request[d].binding)
          /\ DOMAIN reply = Calls
      BY DEF IInv
    <2>2. Fits(r, request[c].binding)
      BY <1>8, <2>1 DEF Fits, ReceiptMoved
    <2>3. phase[c] \in {"sent", "replied"} /\ phase' = [phase EXCEPT ![c] = "replied"]
      BY <1>8 DEF ReceiptMoved, IInv
    <2>4. /\ reply' = [reply EXCEPT ![c] = r] /\ faults' \in 0 .. MaxFaults
          /\ UNCHANGED <<request, verdict, signer, used, trusted, vouched>>
      BY <1>5, <1>8, <2>1 DEF ReceiptMoved
    <2> HIDE DEF r
    <2>5. QED
      BY <2>2, <2>3, <2>4, AlteredReply
  <1>9. ASSUME NEW c \in Calls, NEW d \in Calls, RepliesSwapped(c, d) PROVE IInv'
    <2>1. /\ Fits(reply[c], request[c].binding) /\ Fits(reply[d], request[d].binding)
          /\ DOMAIN reply = Calls /\ \A v \in vouched : VouchedTyped(v) /\ VouchedOK(v)
          /\ phase \in [Calls -> {"idle", "sent", "replied", "checked"}]
      BY DEF IInv
    <2>2. /\ phase[c] = "replied" /\ phase[d] = "replied"
          /\ request[c].binding = request[d].binding
          /\ reply' = [reply EXCEPT ![c] = reply[d], ![d] = reply[c]]
          /\ UNCHANGED <<request, phase, verdict, signer, used, trusted, vouched>>
      BY <1>9 DEF RepliesSwapped
    <2>3. reply'[c] = reply[d] /\ reply'[d] = reply[c] /\ c # d
      BY <1>9, <2>1, <2>2 DEF RepliesSwapped
    <2>4. Fits(reply[c], request[c].binding)' /\ Fits(reply[d], request[d].binding)'
      BY <2>1, <2>2, <2>3 DEF Fits
    <2>5. \A e \in Calls :
             \/ reply'[e] = reply[e] /\ phase'[e] = phase[e]
             \/ /\ phase[e] \in {"sent", "replied"} /\ phase'[e] = "replied"
                /\ Fits(reply[e], request[e].binding)'
      BY <2>1, <2>2, <2>4
    <2>6. /\ DOMAIN reply' = Calls /\ reply' = [e \in Calls |-> reply'[e]]
          /\ phase' \in [Calls -> {"idle", "sent", "replied", "checked"}]
          /\ faults' \in 0 .. MaxFaults /\ vouched \subseteq vouched'
          /\ \A v \in vouched' : VouchedTyped(v) /\ VouchedOK(v)
      BY <1>5, <1>9, <2>1, <2>2 DEF RepliesSwapped
    <2>7. QED
      BY <2>2, <2>5, <2>6, RepliesStep
  <1>10. ASSUME NEW c \in Calls, Check(c) PROVE IInv'
    <2>1. /\ phase[c] = "replied" /\ phase' = [phase EXCEPT ![c] = "checked"]
          /\ verdict' = [verdict EXCEPT ![c] = Conclusion(request[c], reply[c])]
          /\ UNCHANGED <<request, reply, signer, used, trusted, faults, vouched>>
      BY <1>10 DEF Check
    <2>2. Conclusion(request[c], reply[c]) \in Verdicts
      <3>1. TsVerify(reply[c].receipt[1], trusted, [expected_binding |-> request[c].binding,
                expected_method |-> request[c].method]) \in Verdicts \cup {"ok"}
        BY DEF TsVerify, Verdicts
      <3>2. QED
        BY <3>1 DEF Conclusion, Verdicts
    <2>3. verdict' \in [Calls -> Verdicts]
          /\ phase' \in [Calls -> {"idle", "sent", "replied", "checked"}]
      BY <2>1, <2>2 DEF IInv
    <2>4. \A d \in Calls : VerdictOK(d)'
      <3> SUFFICES ASSUME NEW d \in Calls, verdict'[d] = "accepted" PROVE VerdictOK(d)'
        BY DEF VerdictOK
      <3>1. phase'[d] = "checked" /\ \E v \in vouched : Covers(v, d)
        <4>1. CASE d = c
          BY <2>1, <4>1, AcceptedCovers DEF IInv
        <4>2. CASE d # c
          BY <2>1, <4>2 DEF IInv, VerdictOK
        <4>3. QED
          BY <4>1, <4>2
      <3>2. QED
        BY <2>1, <3>1 DEF VerdictOK, Covers
    <2>5. \A d \in Calls : Fits(reply[d], request[d].binding)'
      BY <2>1 DEF IInv, Fits
    <2>6. \A d \in Calls : /\ phase'[d] # "idle" => request'[d] \in Requests
                          /\ phase'[d] \in {"idle", "sent"} => reply'[d].kind = "none"
      BY <2>1 DEF IInv
    <2>7. TrustedOK' /\ \A v \in vouched' : VouchedTyped(v) /\ VouchedOK(v)
      BY <2>1 DEF IInv, TrustedOK
    <2>8. QED
      BY <2>1, <2>3, <2>4, <2>5, <2>6, <2>7 DEF IInv
  <1>11. ASSUME UNCHANGED <<request, phase, reply, verdict, faults, vouched>>,
                signer' \in [Performers -> Keys], used' \subseteq Keys, TrustedOK'
         PROVE  IInv'
    <2>1. \A c \in Calls : Fits(reply[c], request[c].binding)' /\ VerdictOK(c)'
      BY <1>11 DEF IInv, Fits, VerdictOK, Covers
    <2>2. QED
      BY <1>11, <2>1 DEF IInv
  <1>12. ASSUME NEW p \in Performers, Restart(p) PROVE IInv'
    <2>1. signer' \in [Performers -> Keys] /\ used' \subseteq Keys
      BY <1>12 DEF Restart, IInv
    <2>2. TrustedOK' /\ UNCHANGED <<request, phase, reply, verdict, faults, vouched>>
      BY <1>12 DEF Restart, IInv, TrustedOK
    <2>3. QED
      BY <1>11, <2>1, <2>2
  <1>13. CASE Reconnect
    <2>1. signer' \in [Performers -> Keys] /\ used' \subseteq Keys
      BY <1>13 DEF Reconnect, IInv
    <2>2. trusted' = RegistryFrom(signer) /\ UNCHANGED <<request, phase, reply, verdict, faults, vouched>>
      BY <1>13 DEF Reconnect
    <2>3. TrustedOK'
      BY <2>1, <2>2, <1>13 DEF TrustedOK, Reconnect
    <2>4. QED
      BY <1>11, <2>1, <2>2, <2>3
  <1>14. CASE UNCHANGED vars
    <2>1. TrustedOK' /\ signer' \in [Performers -> Keys] /\ used' \subseteq Keys
      BY <1>14 DEF vars, IInv, TrustedOK
    <2>2. UNCHANGED <<request, phase, reply, verdict, faults, vouched>>
      BY <1>14 DEF vars
    <2>3. QED
      BY <1>11, <2>1, <2>2
  <1>15. QED
    BY <1>1, <1>2, <1>3, <1>4, <1>6, <1>7, <1>8, <1>9, <1>10, <1>12, <1>13, <1>14, <1>16 DEF Next

------------------------------------------------------------------------------
(***************************************************************************)
(* The theorems.                                                           *)
(***************************************************************************)
\* IInv holds in every state of every behaviour.
THEOREM CoSigningInvariance == Spec => []IInv
  <1>1. Init => IInv
    BY InitInvariant
  <1>2. IInv /\ [Next]_vars => IInv'
    BY StepInvariant
  <1>3. QED
    BY <1>1, <1>2, PTL DEF Spec

\* Whatever the faults and the restarts, the state keeps its type, and every
\* receipt on its way was signed by a performer for something it vouched for.
THEOREM CoSigningTypeCorrectness == Spec => []TypeOK
  BY CoSigningInvariance, InvariantTyped, PTL

\* In a state of the invariant, what was accepted was vouched for.
LEMMA InvariantAccepted == IInv => AcceptedWasVouched
  <1> SUFFICES ASSUME IInv, NEW c \in Calls, verdict[c] = "accepted",
                      NEW receipt, receipt = reply[c].receipt[1].payload
               PROVE  \E v \in vouched :
            /\ v.performer = receipt.performer_id
            /\ SameAs(request[c].binding, v.body, reply[c].body)
            /\ v.request.binding = request[c].binding /\ v.request.method = request[c].method
            /\ receipt.inputs_hash = HashOf(request[c].binding, request[c].input) =>
                  SameAs(request[c].binding, v.request.input, request[c].input)
    BY DEF AcceptedWasVouched
  <1>1. phase[c] = "checked" /\ \E v \in vouched : Covers(v, c)
    BY DEF IInv, VerdictOK
  <1>2. PICK v \in vouched : Covers(v, c)
    BY <1>1
  <1> DEFINE b == request[c].binding
  <1>3. request[c] \in Requests /\ v.request \in Requests /\ VouchedOK(v)
    BY <1>1 DEF IInv, VouchedTyped
  <1>4. /\ reply[c].receipt = SignedFor(v) /\ v.request.binding = b
        /\ v.request.method = request[c].method
        /\ HashOf(b, v.body) = HashOf(b, reply[c].body)
    BY <1>2 DEF Covers
  <1>5. receipt = BuildReceiptPayload(v.performer, v.request, v.body)
    BY <1>4 DEF SignedFor, SignReceipt
  <1>6. /\ receipt.performer_id = v.performer
        /\ receipt.inputs_hash = HashOf(b, InputOf(v.request))
    BY <1>4, <1>5 DEF BuildReceiptPayload
  <1>7. b \in Bindings
    BY <1>3, CoSigningAssumption
  <1>8. b = "a2a" => IsPartList(v.request.input) /\ IsPartList(request[c].input)
    BY <1>3, <1>4, CoSigningAssumption
  <1>9. reply[c].kind = "result" /\ reply[c].body \in Bodies(b) /\ v.body \in Bodies(b)
    BY <1>4 DEF IInv, Fits, SignedFor, VouchedTyped
  <1>10. b = "a2a" => IsPartList(v.body) /\ IsPartList(reply[c].body)
    BY <1>7, <1>9, BodiesTyped
  <1>11. ~Failed(HashOf(b, v.body)) /\ ~Failed(HashOf(b, InputOf(v.request)))
    BY <1>3, <1>4 DEF VouchedOK
  <1>12. SameAs(b, v.body, reply[c].body)
    <2>1. ~Failed(HashOf(b, reply[c].body))
      BY <1>4, <1>11
    <2>2. QED
      BY <1>4, <1>7, <1>10, <1>11, <2>1, HashIffSame
  <1>13. ASSUME receipt.inputs_hash = HashOf(b, request[c].input)
         PROVE  SameAs(b, v.request.input, request[c].input)
    <2>1. HashOf(b, InputOf(v.request)) = HashOf(b, v.request.input)
      BY <1>4, InputHash
    <2>2. HashOf(b, v.request.input) = HashOf(b, request[c].input)
      BY <1>6, <1>13, <2>1
    <2>3. ~Failed(HashOf(b, v.request.input)) /\ ~Failed(HashOf(b, request[c].input))
      BY <1>11, <2>1, <2>2
    <2>4. QED
      BY <1>7, <1>8, <2>2, <2>3, HashIffSame
  <1>14. QED
    BY <1>4, <1>6, <1>12, <1>13

\* What a caller accepts, the performer named in the receipt has co-signed, and for
\* the caller's own request where the receipt's inputs_hash is the caller's.
THEOREM AcceptedVouched == Spec => []AcceptedWasVouched
  BY CoSigningInvariance, InvariantAccepted, PTL

\* In a state of the invariant, the server has vouched for nothing it refused.
LEMMA InvariantRefused == IInv => RefusedNotVouchedByServer
  <1> SUFFICES ASSUME IInv, NEW c \in Calls, verdict[c] = "accepted", Refused(request[c]),
                      NEW receipt, receipt = reply[c].receipt[1].payload,
                      receipt.inputs_hash = HashOf(request[c].binding, request[c].input)
               PROVE  receipt.performer_id = Gateway
    BY DEF RefusedNotVouchedByServer
  <1>1. \E v \in vouched : Covers(v, c)
    BY DEF IInv, VerdictOK
  <1>2. PICK v \in vouched : Covers(v, c)
    BY <1>1
  <1> DEFINE b == request[c].binding
  <1>3. VouchedOK(v) /\ v.performer \in Performers
    BY DEF IInv, VouchedTyped
  <1>4. /\ reply[c].receipt = SignedFor(v) /\ v.request.binding = b
        /\ v.request.method = request[c].method
    BY <1>2 DEF Covers
  <1>5. receipt = BuildReceiptPayload(v.performer, v.request, v.body)
    BY <1>4 DEF SignedFor, SignReceipt
  <1>6. /\ receipt.performer_id = v.performer
        /\ receipt.inputs_hash = HashOf(b, InputOf(v.request))
    BY <1>4, <1>5 DEF BuildReceiptPayload
  <1>7. HashOf(b, InputOf(request[c])) = HashOf(b, request[c].input)
    BY InputHash
  <1>8. ~Failed(HashOf(b, InputOf(request[c])))
    BY <1>3, <1>4, <1>6, <1>7 DEF VouchedOK
  <1>9. b = "mcp" /\ request[c].method \notin Tools
    BY <1>8 DEF Refused, UnknownTool
  <1>10. Refused(v.request)
    BY <1>4, <1>9 DEF Refused, UnknownTool
  <1>11. v.performer # Server
    BY <1>3, <1>10 DEF VouchedOK
  <1>12. QED
    BY <1>3, <1>6, <1>11 DEF Performers

\* A caller whose request the server refused never holds an accepted receipt of the
\* server for that request.
THEOREM RefusedNotVouched == Spec => []RefusedNotVouchedByServer
  BY CoSigningInvariance, InvariantRefused, PTL

\* A caller accepts a reply that reads as it was co-signed, under a key the caller trusts.
LEMMA GenuineAccepted ==
    ASSUME IInv, NEW c \in Calls, phase[c] = "replied", Genuine(c)
    PROVE  Conclusion(request[c], reply[c]) = "accepted"
  <1>1. PICK v \in vouched :
           /\ v.request = request[c] /\ SameAs(v.request.binding, v.body, reply[c].body)
           /\ reply[c].receipt = SignedFor(v) /\ trusted[<<v.performer, Kid>>].key = v.key
    BY DEF Genuine
  <1> DEFINE b      == request[c].binding
             jws    == reply[c].receipt[1]
             policy == [expected_binding |-> b, expected_method |-> request[c].method]
  <1>2. VouchedTyped(v) /\ VouchedOK(v) /\ request[c] \in Requests
    BY DEF IInv
  <1>3. jws = SignReceipt(BuildReceiptPayload(v.performer, v.request, v.body), v.key)
    BY <1>1 DEF SignedFor
  <1>4. PICK keys \in [Performers -> Keys] : trusted = RegistryFrom(keys)
    BY DEF IInv, TrustedOK
  <1>5. /\ v.performer \in Performers /\ v.key \in Keys /\ v.performer \in Texts /\ Kid \in Texts
        /\ KeyAlg[v.key] = "EdDSA"
    BY <1>2, CoSigningAssumption DEF VouchedTyped, Performers
  <1>6. /\ <<v.performer, Kid>> \in DOMAIN trusted
        /\ trusted[<<v.performer, Kid>>] = [key |-> v.key, curve |-> "own", alg |-> "EdDSA", status |-> "active"]
    BY <1>1, <1>4, <1>5 DEF RegistryFrom
  <1>7. TsEntry(jws, trusted) = trusted[<<v.performer, Kid>>]
    BY <1>3, <1>6 DEF TsEntry, SignReceipt, BuildReceiptPayload
  <1>8. TsKeyResolves(jws, trusted)
    <2>1. IsString(v.performer) /\ IsString(Kid)
      BY <1>5, DataAssumption DEF IsString
    <2>2. QED
      BY <1>3, <1>6, <2>1 DEF TsKeyResolves, SignReceipt, BuildReceiptPayload
  <1>9. TsContextMatches(jws, policy)
    BY <1>1, <1>3 DEF TsContextMatches, SignReceipt, BuildReceiptPayload
  <1>10. /\ ~TsMalformed(jws) /\ jws.header.keyMaterial = FALSE /\ PayloadCanonical(jws)
         /\ AlgAllowed(jws.header.alg, TsEntry(jws, trusted))
         /\ TsSignatureVerifies(jws, TsEntry(jws, trusted))
         /\ TsEntry(jws, trusted).status # "revoked"
    <2>1. /\ jws.framing = "compact" /\ jws.header.form = "object" /\ jws.header.alg = "EdDSA"
          /\ jws.header.keyMaterial = FALSE /\ jws.signer = v.key
          /\ jws.payload.form = "object" /\ jws.payload.canonical = "yes"
      BY <1>3 DEF SignReceipt, BuildReceiptPayload
    <2>2. /\ TsEntry(jws, trusted).key = v.key /\ TsEntry(jws, trusted).alg = "EdDSA"
          /\ TsEntry(jws, trusted).status = "active" /\ TsEntry(jws, trusted).curve = "own"
      BY <1>6, <1>7
    <2> HIDE DEF jws
    <2>3. ~TsMalformed(jws) /\ PayloadCanonical(jws)
      BY <2>1 DEF TsMalformed, PayloadCanonical
    <2>4. AlgAllowed(jws.header.alg, TsEntry(jws, trusted))
      BY <2>1, <2>2 DEF AlgAllowed, NonStrings
    <2>5. TsSignatureVerifies(jws, TsEntry(jws, trusted))
      BY <1>5, <2>1, <2>2 DEF SignatureVerifies, TsSignatureVerifies
    <2>6. QED
      BY <2>1, <2>2, <2>3, <2>4, <2>5
  <1>11. TsVerify(jws, trusted, policy) = "ok"
    <2> HIDE DEF jws, policy
    <2>1. QED
      BY <1>8, <1>9, <1>10 DEF TsVerify
  <1>12. jws.payload.outputs_hash = HashOf(b, v.body)
    BY <1>1, <1>3 DEF SignReceipt, BuildReceiptPayload
  <1>13. HashOf(b, v.body) = HashOf(b, reply[c].body) /\ ~Failed(HashOf(b, reply[c].body))
    <2>1. b \in Bindings /\ SameAs(b, v.body, reply[c].body) /\ ~Failed(HashOf(b, v.body))
      BY <1>1, <1>2, CoSigningAssumption DEF VouchedOK
    <2>2. reply[c].body \in Bodies(b) /\ v.body \in Bodies(b)
      <3>1. reply[c].receipt # <<>>
        BY <1>1 DEF SignedFor
      <3>2. Fits(reply[c], b)
        BY DEF IInv
      <3>3. QED
        BY <1>1, <1>2, <3>1, <3>2 DEF Fits, VouchedTyped
    <2>3. b = "a2a" => IsPartList(v.body) /\ IsPartList(reply[c].body)
      BY <2>1, <2>2, BodiesTyped
    <2>4. ~Failed(HashOf(b, reply[c].body))
      BY <2>1, <2>3, SameIsHashable
    <2>5. QED
      BY <2>1, <2>3, <2>4, HashIffSame
  <1>14. reply[c].receipt # <<>>
    BY <1>1 DEF SignedFor
  <1>15. QED
    BY <1>11, <1>12, <1>13, <1>14 DEF Conclusion

\* Only a check concludes a call.
LEMMA OnlyCheckConcludes ==
    ASSUME IInv, [Next]_vars, NEW c \in Calls, phase[c] # "checked", phase'[c] = "checked"
    PROVE  Check(c)
  <1>1. phase \in [Calls -> {"idle", "sent", "replied", "checked"}]
    BY DEF IInv
  <1>2. ASSUME NEW d \in Calls, Check(d) PROVE Check(c)
    <2>1. phase' = [phase EXCEPT ![d] = "checked"]
      BY <1>2 DEF Check
    <2>2. d = c
      BY <1>1, <2>1
    <2>3. QED
      BY <1>2, <2>2
  <1>3. ASSUME NEW d \in Calls, phase' \in {phase, [phase EXCEPT ![d] = "sent"],
                                           [phase EXCEPT ![d] = "replied"]}
        PROVE  FALSE
    BY <1>1, <1>3
  <1>4. QED
    BY <1>2, <1>3 DEF Next, vars, Send, Handle, RefuseTool, AgentThrows, GatewayCoSigns,
       GatewayThrows, MetadataStripped, BodyChanges, RepliesSwapped, ReceiptMoved, Restart, Reconnect

\* No false alarm: a genuine reply is accepted, however often it was co-signed and
\* whatever else happened meanwhile.
THEOREM GenuineAreAccepted == Spec => GenuineRepliesAccepted
  <1>1. ASSUME IInv, [Next]_vars
        PROVE  [\A c \in Calls : (phase[c] # "checked" /\ phase'[c] = "checked" /\ Genuine(c))
                    => verdict'[c] = "accepted"]_vars
    <2>1. ASSUME NEW c \in Calls, phase[c] # "checked", phase'[c] = "checked", Genuine(c)
          PROVE  verdict'[c] = "accepted"
      <3>1. Check(c)
        BY <1>1, <2>1, OnlyCheckConcludes
      <3>2. /\ phase[c] = "replied"
            /\ verdict' = [verdict EXCEPT ![c] = Conclusion(request[c], reply[c])]
        BY <3>1 DEF Check
      <3>3. Conclusion(request[c], reply[c]) = "accepted"
        BY <1>1, <2>1, <3>2, GenuineAccepted
      <3>4. verdict \in [Calls -> Verdicts]
        BY <1>1 DEF IInv
      <3>5. QED
        BY <3>2, <3>3, <3>4
    <2>2. QED
      BY <2>1
  <1>2. QED
    BY <1>1, CoSigningInvariance, PTL DEF Spec, GenuineRepliesAccepted
==============================================================================
