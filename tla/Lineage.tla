------------------------------- MODULE Lineage -------------------------------
(***************************************************************************)
(* Receipts in use: performers compose and sign receipts that name their   *)
(* parents, publish and revoke the keys they sign with, and consumers      *)
(* check the paths of receipts they are handed against the registry they   *)
(* last fetched, with both implementations of verify-chain.                *)
(*                                                                         *)
(* The code under src/ is the signing (sign.ts, sign.go), the payload      *)
(* (veritrail-middleware.ts) and the checking (VerifyChain).  Who          *)
(* composes, publishes, revokes and hands over what, and when, is the      *)
(* environment the code is written for (sections 7 and 10 of the design):  *)
(* it is modelled from the inputs the code takes.                          *)
(***************************************************************************)
EXTENDS VerifyChain, FiniteSets

CONSTANTS
    Performers,    \* the agents and tools that emit receipts
    Kids,          \* the key ids they use
    Owner,         \* the performer that holds each signing key
    Consumers,     \* the auditors that check paths
    Contexts,      \* the [binding, method] pairs receipts are made in
    ParentClaims,  \* what a composer may write as parent_performer_id
    ForeignHashes, \* parent_receipt_hash values that are the digest of no receipt
    Expectations,  \* the policies consumers check leaves with
    CopiesAlter,   \* whether copies of receipts may be altered on the way
    MaxPath,       \* bound: the longest path a consumer is handed
    MaxSigned      \* bound: how many signed receipts are made

ASSUME LineageAssumption ==
    /\ Performers \subseteq Texts /\ Kids \subseteq Texts
    /\ Performers \cap InheritedNames = {} /\ Kids \cap InheritedNames = {}
    /\ Owner \in [Keys -> Performers]
    /\ Contexts \subseteq [binding : Texts, method : Texts]
    /\ ParentClaims \subseteq Claims
    /\ ForeignHashes \subseteq Texts \ Digests
    /\ Expectations \subseteq Policies
    /\ CopiesAlter \in BOOLEAN
    /\ MaxPath \in Nat /\ MaxSigned \in Nat

VARIABLES
    composed,   \* the receipt payloads that exist, signed or not
    age,        \* auxiliary: when each receipt_id came to be, 0 if it has not
    clock,      \* auxiliary: how many payloads have been composed
    signed,     \* the signed receipts performers have made
    registry,   \* the published keys
    view,       \* per consumer, the registry as last fetched
    report      \* per consumer, its last check and both verdicts

vars == <<composed, age, clock, signed, registry, view, report>>

NoEntries == [name \in {} |-> NoKey]   \* the empty registry
NoReport == [path |-> <<>>, policy |-> NoPolicy, go |-> "none", ts |-> "none"]

(***************************************************************************)
(* What a receipt looks like.                                              *)
(***************************************************************************)

\* Variant: the id of the parent is stored as the receipt's own.
ReceiptPayload_ParentAsId(id, performer, ctx, parent, parentPerformer) ==
    [form |-> "object", canonical |-> "yes", receipt_id |-> parent,
     performer_id |-> performer, binding |-> ctx.binding, method |-> ctx.method,
     parent_receipt_hash |-> id, parent_performer_id |-> parentPerformer]

\* The payload of a receipt: JCS text of an object, its id the digest of it.
ReceiptPayload(id, performer, ctx, parent, parentPerformer) ==
    [form |-> "object", canonical |-> "yes", receipt_id |-> id,
     performer_id |-> performer, binding |-> ctx.binding, method |-> ctx.method,
     parent_receipt_hash |-> parent, parent_performer_id |-> parentPerformer]

\* The compact JWS that sign makes of a payload with a kid and a private key.
Compact(payload, kid, key) ==
    [framing |-> "compact",
     header  |-> [form |-> "object", alg |-> "EdDSA", kid |-> kid, keyMaterial |-> FALSE],
     payload |-> payload,
     signer  |-> key]

\* A copy whose payload segment was exchanged for another: no key signed it.
Altered(jws, payload) == [jws EXCEPT !.payload = payload, !.signer = NoKey]

AlteredCopies ==
    {Altered(a[1], a[2]) : a \in {b \in signed \X composed : CopiesAlter /\ b[1].payload # b[2]}}

\* What a consumer may be handed.
Circulating == signed \cup AlteredCopies

(***************************************************************************)
(* Performers.                                                             *)
(***************************************************************************)

\* A payload is composed once, with a fresh id: a parent it names by hash was
\* composed before it, or is the digest of nothing.
Compose(performer, ctx, parent, parentPerformer) ==
    \E id \in Digests :
        /\ age[id] = 0
        /\ parent \in {"null"} \cup ForeignHashes \cup {p.receipt_id : p \in composed}
        /\ composed' = composed \cup
              {ReceiptPayload(id, performer, ctx, parent, parentPerformer)}
        /\ age' = [age EXCEPT ![id] = clock + 1]
        /\ clock' = clock + 1
        /\ UNCHANGED <<signed, registry, view, report>>

\* Whoever holds a key can sign any payload with it, whatever performer_id the
\* payload carries, at any time after it is composed: sign compares neither.
Sign(payload, kid, key) ==
    /\ payload \in composed
    /\ KeyAlg[key] = "EdDSA"
    /\ Cardinality(signed) < MaxSigned
    /\ signed' = signed \cup {Compact(payload, kid, key)}
    /\ UNCHANGED <<composed, age, clock, registry, view, report>>

\* A performer publishes a key of its own under a kid it has not used.
Publish(kid, key) ==
    LET name == <<Owner[key], kid>> IN
    /\ name \notin DOMAIN registry
    /\ registry' = [n \in DOMAIN registry \cup {name} |->
                      IF n = name
                      THEN [key |-> key, curve |-> "own", alg |-> KeyAlg[key], status |-> "active"]
                      ELSE registry[n]]
    /\ UNCHANGED <<composed, age, clock, signed, view, report>>

Revoke(name) ==
    /\ registry[name].status = "active"
    /\ registry' = [registry EXCEPT ![name].status = "revoked"]
    /\ UNCHANGED <<composed, age, clock, signed, view, report>>

(***************************************************************************)
(* Consumers.                                                              *)
(***************************************************************************)
Refresh(c) ==
    /\ view[c] # registry
    /\ view' = [view EXCEPT ![c] = registry]
    /\ UNCHANGED <<composed, age, clock, signed, registry, report>>

Check(c, path, policy) ==
    /\ report' = [report EXCEPT ![c] =
                    [path |-> path, policy |-> policy,
                     go |-> GoVerifyChain(path, view[c], policy),
                     ts |-> TsVerifyChain(path, view[c], policy)]]
    /\ UNCHANGED <<composed, age, clock, signed, registry, view>>

Init ==
    /\ composed = {} /\ signed = {}
    /\ age = [id \in Digests |-> 0] /\ clock = 0
    /\ registry = NoEntries
    /\ view = [c \in Consumers |-> NoEntries]
    /\ report = [c \in Consumers |-> NoReport]

Next ==
    \/ \E performer \in Performers, ctx \in Contexts, parent \in Claims, claim \in ParentClaims :
          Compose(performer, ctx, parent, claim)
    \/ \E payload \in composed, kid \in Kids, key \in Keys : Sign(payload, kid, key)
    \/ \E kid \in Kids, key \in Keys : Publish(kid, key)
    \/ \E name \in DOMAIN registry : Revoke(name)
    \/ \E c \in Consumers : Refresh(c)
    \/ \E c \in Consumers, policy \in Expectations, n \in 0 .. MaxPath :
          \E path \in [1 .. n -> Circulating] : Check(c, path, policy)

Spec == Init /\ [][Next]_vars

------------------------------------------------------------------------------
(***************************************************************************)
(* Properties.                                                             *)
(***************************************************************************)

\* Type correctness of the state.
TypeOK ==
    /\ composed \subseteq Payloads
    /\ age \in [Digests -> Nat] /\ clock \in Nat
    /\ signed \subseteq JwsSet
    /\ IsRegistry(registry)
    /\ DOMAIN view = Consumers /\ DOMAIN report = Consumers
    /\ \A c \in Consumers :
          /\ IsRegistry(view[c])
          /\ \E n \in 0 .. MaxPath : report[c].path \in [1 .. n -> JwsSet]
          /\ report[c].policy \in Policies

Accepted(c) == report[c].go = "ok"
Path(c)     == report[c].path
Ids(path)   == [i \in Hops(path) |-> path[i].payload.receipt_id]

\* Non-repudiation: in a path that verify-chain accepts, every hop was signed,
\* as it stands, by the performer it names: no altered copy, and no receipt
\* signed by another key holder under that performer's name, is in it
\* (verify.go and verify.ts steps 3 to 6 together, under any fetched registry).
AcceptedIsAuthentic ==
    \A c \in Consumers : Accepted(c) =>
        \A i \in Hops(Path(c)) :
            /\ Path(c)[i] \in signed
            /\ Owner[Path(c)[i].signer] = Path(c)[i].payload.performer_id

\* An accepted path is the whole ancestry of its leaf: each hop is the very
\* parent the one before it commits to, was composed before it, and the last
\* one has no parent (chain.go and verify-chain.ts steps 4 and 5).
AcceptedIsAncestry ==
    \A c \in Consumers : Accepted(c) =>
        /\ Path(c) # <<>>
        /\ Path(c)[Len(Path(c))].payload.parent_receipt_hash = "null"
        /\ \A i \in Links(Path(c)) :
              /\ Path(c)[i].payload.parent_receipt_hash = Path(c)[i + 1].payload.receipt_id
              /\ age[Path(c)[i + 1].payload.receipt_id] < age[Path(c)[i].payload.receipt_id]

\* A receipt has at most one lineage: two auditors that accept paths with the
\* same leaf, whenever and with whatever registries they checked them, accepted
\* the same receipts in the same order (no truncation, splice or reordering of
\* an accepted path is accepted).
OneLineagePerLeaf ==
    \A c, d \in Consumers :
        (Accepted(c) /\ Accepted(d) /\ Ids(Path(c))[1] = Ids(Path(d))[1])
            => Ids(Path(c)) = Ids(Path(d))

\* Where a hop names its parent's performer, that performer is the one whose key
\* signed the parent in an accepted path: a receipt of another performer is
\* never spliced in (step 6 of verify-chain together with the signature check).
ParentPerformerSigned ==
    \A c \in Consumers : Accepted(c) =>
        \A i \in Links(Path(c)) :
            LET claimed == Path(c)[i].payload.parent_performer_id
            IN  claimed \in {"null", Owner[Path(c)[i + 1].signer]}

\* The cycle check, step 7, is never the one that rejects: with collision-free
\* receipt ids a path that passes the link checks cannot repeat an id.
CycleNeverReported ==
    \A c \in Consumers : "cycle" \notin {report[c].go, report[c].ts}

\* The two implementations give the same verdict on the same path, registry and
\* policy ("two independent conformant verifiers MUST produce byte-identical
\* verdicts", section 12 of the design).
TwinsAgree == \A c \in Consumers : report[c].go = report[c].ts

\* What was accepted with an older registry stays acceptable as keys are
\* published and rotated; the one thing that withdraws it is the revocation of
\* a key some hop was signed with, and that withdraws the whole path.
WithdrawnOnlyByRevocation ==
    \A c \in Consumers : Accepted(c) =>
        GoVerifyChain(Path(c), registry, report[c].policy) =
            IF \E i \in Hops(Path(c)) :
                  registry[<<Path(c)[i].payload.performer_id, Path(c)[i].header.kid>>].status
                      = "revoked"
            THEN "receipt_invalid" ELSE "ok"

\* Every receipt of an accepted path has an accepted path of its own, the rest
\* of this one, for as long as the path is not withdrawn: lineage can be audited
\* from any hop (the leaf's policy is about the leaf alone).
AcceptedFromEveryHop ==
    \A c \in Consumers :
        (Accepted(c) /\ GoVerifyChain(Path(c), registry, report[c].policy) = "ok") =>
            \A i \in Hops(Path(c)) :
                GoVerifyChain(SubSeq(Path(c), i, Len(Path(c))), registry, NoPolicy) = "ok"

\* A verdict about the structure of a path is final: checked again with any
\* later registry or other policy, the path may lose or regain valid receipts
\* but the structural verdict never becomes another one, nor "ok".
StructuralVerdictIsFinal ==
    [][\A c \in Consumers :
         (Path(c) = Path(c)' /\ report[c].go \notin {"none", "receipt_invalid"})
             => report'[c].go \in {report[c].go, "receipt_invalid"}]_vars

(***************************************************************************)
(* Refinement.                                                             *)
(***************************************************************************)
Conclusion(c) == IF Accepted(c) THEN Ids(Path(c)) ELSE <<>>

Works == {[id |-> p.receipt_id, author |-> p.performer_id, parent |-> p.parent_receipt_hash] :
             p \in composed}

Abstract == INSTANCE Provenance WITH
    Names <- Digests, Agents <- Performers, Auditors <- Consumers,
    NoParent <- "null", Unknown <- ForeignHashes, MaxPath <- MaxPath,
    works    <- Works,
    attested <- {<<Owner[j.signer], j.payload.receipt_id>> : j \in signed},
    accepted <- [c \in Consumers |-> Conclusion(c)]

\* Receipts, keys, registries and verify-chain together implement the record of
\* works, attestations and accepted lineages: whatever copies circulate, an
\* auditor accepts nothing but a lineage whose every author attested its work.
ImplementsProvenance == Abstract!Spec
==============================================================================
