---------------------------- MODULE Lineage_proofs ----------------------------
(***************************************************************************)
(* What verify-chain accepts, for every set of performers, keys, auditors  *)
(* and receipts and for paths of every length: the safety properties of    *)
(* Lineage follow from one inductive invariant, IInv.                      *)
(***************************************************************************)
EXTENDS Lineage, Agreement_proofs, SequenceTheorems

(***************************************************************************)
(* The inductive invariant.                                                *)
(***************************************************************************)

\* A composed payload is what buildReceiptPayload makes.
ComposedShape ==
    \A p \in composed :
        /\ p.form = "object" /\ p.canonical = "yes"
        /\ p.receipt_id \in Digests
        /\ p.performer_id \in Performers
        /\ p.parent_performer_id \in ParentClaims
        /\ p.parent_receipt_hash \in
               {"null"} \cup ForeignHashes \cup {q.receipt_id : q \in composed}

\* Composed payloads have been given an age, parents a smaller one.
AgeOrder ==
    /\ \A p \in composed : 0 < age[p.receipt_id] /\ age[p.receipt_id] <= clock
    /\ \A p, q \in composed :
          p.parent_receipt_hash = q.receipt_id => age[q.receipt_id] < age[p.receipt_id]

\* A signed receipt is the compact JWS of a composed payload.
SignedShape ==
    \A j \in signed :
        /\ j.payload \in composed /\ j.header.kid \in Kids /\ j.signer \in Keys
        /\ j = Compact(j.payload, j.header.kid, j.signer)

\* A registry in which performers have published keys of their own.
Honest(keys) ==
    /\ \A name \in DOMAIN keys : keys[name].key \in Keys /\ Owner[keys[name].key] = name[1]
    /\ PlainRegistry(keys)

HonestRegistries == Honest(registry) /\ \A c \in Consumers : Honest(view[c])

\* Claims and policies the two implementations read alike.
PlainWorld ==
    /\ ParentClaims \subseteq Texts \cup {"null"}
    /\ \A policy \in Expectations : PlainPolicy(policy)

IInv ==
    /\ TypeOK /\ ComposedShape /\ AgeOrder /\ SignedShape /\ HonestRegistries
    /\ AcceptedIsAuthentic /\ AcceptedIsAncestry
    /\ PlainWorld => ParentPerformerSigned /\ TwinsAgree

(***************************************************************************)
(* What an accepted path is.                                               *)
(***************************************************************************)

\* A path handed to a consumer is a sequence.
LEMMA PathIsSequence ==
    ASSUME NEW S, NEW n \in Nat, NEW path \in [1 .. n -> S]
    PROVE  path \in Seq(S) /\ Len(path) = n
  <1>1. path \in Seq(S)
    BY SeqDef
  <1>2. DOMAIN path = 1 .. n /\ DOMAIN path = 1 .. Len(path) /\ Len(path) \in Nat
    BY <1>1, LenProperties
  <1> QED BY <1>1, <1>2

\* Step 3 to 5 of verify: a receipt that verifies names a published key, by the
\* performer and kid it carries, and that key signed it.
LEMMA VerifiedIsSigned ==
    ASSUME NEW jws \in JwsSet, NEW keys, NEW policy, GoVerify(jws, keys, policy) = "ok"
    PROVE  /\ jws.payload.performer_id \notin NonStrings
           /\ <<jws.payload.performer_id, jws.header.kid>> \in DOMAIN keys
           /\ jws.signer = keys[<<jws.payload.performer_id, jws.header.kid>>].key
           /\ jws.signer \in Keys
  <1>1. GoKeyResolves(jws, keys) /\ SignatureVerifies(jws, GoEntry(jws, keys))
    BY DEF GoVerify
  <1>2. \A c : StringClaim(c) # "" => c \notin NonStrings /\ StringClaim(c) = c
    BY DEF StringClaim
  <1>3. /\ jws.payload.performer_id \notin NonStrings
        /\ StringClaim(jws.payload.performer_id) = jws.payload.performer_id
        /\ StringClaim(jws.header.kid) = jws.header.kid
        /\ <<StringClaim(jws.payload.performer_id), StringClaim(jws.header.kid)>> \in DOMAIN keys
    <2>1. /\ StringClaim(jws.payload.performer_id) # ""
          /\ StringClaim(jws.header.kid) # ""
          /\ <<StringClaim(jws.payload.performer_id), StringClaim(jws.header.kid)>> \in DOMAIN keys
      BY <1>1 DEF GoKeyResolves
    <2> QED BY <1>2, <2>1
  <1>4. /\ jws.signer = keys[<<jws.payload.performer_id, jws.header.kid>>].key
        /\ jws.signer \in Keys
    BY <1>1 DEF SignatureVerifies, GoEntry
  <1>5. <<jws.payload.performer_id, jws.header.kid>> \in DOMAIN keys
    BY <1>3
  <1> QED BY <1>3, <1>4, <1>5

\* The checks of verify-chain that an accepted path has passed.
LEMMA AcceptedPath ==
    ASSUME NEW path \in Seq(JwsSet), NEW keys, NEW policy,
           GoVerifyChain(path, keys, policy) = "ok"
    PROVE  /\ Len(path) # 0
           /\ \A i \in Hops(path) :
                 GoVerify(path[i], keys, HopPolicy(i, policy)) = "ok"
           /\ ~ChainMalformed(path)
           /\ ~GoLinkMismatch(path)
           /\ ~GoParentIdentityMismatch(path)
  BY DEF GoVerifyChain, GoSomeReceiptInvalid

\* Every copy in circulation is a JWS that both implementations read alike; one
\* that a key signed is the receipt its performer signed.
LEMMA CirculatingShape ==
    ASSUME TypeOK, ComposedShape, SignedShape
    PROVE  \A j \in Circulating :
              /\ j \in JwsSet /\ j.payload \in composed
              /\ Interoperable(j)
              /\ j.signer \in Keys => j \in signed
  <1>1. ASSUME NEW j \in signed
        PROVE  j \in JwsSet /\ j.payload \in composed /\ Interoperable(j)
    <2>1. j \in JwsSet /\ j.payload \in composed /\ j.header.kid \in Kids
      BY DEF TypeOK, SignedShape
    <2>2. j.framing = "compact" /\ j.header.form = "object"
      BY DEF SignedShape, Compact
    <2>3. /\ j.payload.form = "object" /\ j.payload.canonical = "yes"
          /\ j.payload.performer_id \in Performers
      BY <2>1 DEF ComposedShape
    <2> QED BY <2>1, <2>2, <2>3, LineageAssumption, DataAssumption DEF Interoperable
  <1>2. ASSUME NEW j \in signed, NEW p \in composed
        PROVE  /\ Altered(j, p) \in JwsSet /\ Altered(j, p).payload = p
               /\ Interoperable(Altered(j, p))
               /\ Altered(j, p).signer = NoKey
    <2>1. /\ Altered(j, p).framing = j.framing /\ Altered(j, p).header = j.header
          /\ Altered(j, p).payload = p /\ Altered(j, p).signer = NoKey
      BY <1>1 DEF Altered, JwsSet
    <2>2. Altered(j, p) \in JwsSet
      BY <1>1 DEF Altered, JwsSet, TypeOK
    <2>3. p.form = "object" /\ p.canonical = "yes" /\ p.performer_id \in Performers
      BY DEF ComposedShape
    <2> QED BY <1>1, <2>1, <2>2, <2>3, LineageAssumption, DataAssumption DEF Interoperable
  <1>3. \A j \in AlteredCopies : \E b \in signed, p \in composed : j = Altered(b, p)
    BY DEF AlteredCopies
  <1> QED BY <1>1, <1>2, <1>3, NoKeyAssumption DEF Circulating

\* Non-repudiation of one accepted path.
LEMMA AcceptedPathIsAuthentic ==
    ASSUME TypeOK, ComposedShape, SignedShape,
           NEW n \in Nat, NEW path \in [1 .. n -> Circulating],
           NEW keys, Honest(keys), NEW policy, GoVerifyChain(path, keys, policy) = "ok"
    PROVE  \A i \in Hops(path) :
              path[i] \in signed /\ Owner[path[i].signer] = path[i].payload.performer_id
  <1>1. path \in [1 .. n -> JwsSet] /\ path \in Seq(JwsSet) /\ Len(path) = n
    BY CirculatingShape, PathIsSequence
  <1> SUFFICES ASSUME NEW i \in Hops(path)
               PROVE  path[i] \in signed /\ Owner[path[i].signer] = path[i].payload.performer_id
    OBVIOUS
  <1>2. path[i] \in Circulating /\ path[i] \in JwsSet
    BY <1>1 DEF Hops
  <1>3. GoVerify(path[i], keys, HopPolicy(i, policy)) = "ok"
    BY <1>1, AcceptedPath
  <1>4. /\ <<path[i].payload.performer_id, path[i].header.kid>> \in DOMAIN keys
        /\ path[i].signer = keys[<<path[i].payload.performer_id, path[i].header.kid>>].key
        /\ path[i].signer \in Keys
    BY <1>2, <1>3, VerifiedIsSigned
  <1>5. Owner[path[i].signer] = path[i].payload.performer_id
    BY <1>4 DEF Honest
  <1> QED BY <1>2, <1>4, <1>5, CirculatingShape

\* The links of one accepted path.
LEMMA AcceptedPathIsLinked ==
    ASSUME TypeOK, ComposedShape, SignedShape,
           NEW n \in Nat, NEW path \in [1 .. n -> Circulating],
           NEW keys, NEW policy, GoVerifyChain(path, keys, policy) = "ok"
    PROVE  /\ Len(path) # 0
           /\ \A i \in Hops(path) : path[i].payload \in composed
           /\ path[Len(path)].payload.parent_receipt_hash = "null"
           /\ \A i \in Links(path) :
                 /\ i \in Hops(path) /\ i + 1 \in Hops(path)
                 /\ path[i].payload.parent_receipt_hash = path[i + 1].payload.receipt_id
  <1>1. path \in [1 .. n -> JwsSet] /\ path \in Seq(JwsSet) /\ Len(path) = n
    BY CirculatingShape, PathIsSequence
  <1>2. Len(path) # 0 /\ ~ChainMalformed(path) /\ ~GoLinkMismatch(path)
    BY <1>1, AcceptedPath
  <1>3. \A i \in Hops(path) : path[i].payload \in composed
    BY <1>1, CirculatingShape DEF Hops
  <1>4. Len(path) \in Hops(path)
    BY <1>1, <1>2 DEF Hops
  <1>5. path[Len(path)].payload.parent_receipt_hash \in {"absent", "null"}
    BY <1>2, <1>4 DEF ChainMalformed, IsNullClaim, Payload
  <1>6. path[Len(path)].payload.parent_receipt_hash \in {"null"} \cup Texts
    <2>1. path[Len(path)].payload \in composed
      BY <1>3, <1>4
    <2>2. path[Len(path)].payload.parent_receipt_hash
              \in {"null"} \cup ForeignHashes \cup {q.receipt_id : q \in composed}
      BY <2>1 DEF ComposedShape
    <2>3. \A q \in composed : q.receipt_id \in Texts
      BY DataAssumption DEF ComposedShape
    <2> QED BY <2>2, <2>3, LineageAssumption
  <1>7. path[Len(path)].payload.parent_receipt_hash = "null"
    BY <1>5, <1>6, DataAssumption DEF NonStrings
  <1>8. ASSUME NEW i \in Links(path)
        PROVE  /\ i \in Hops(path) /\ i + 1 \in Hops(path)
               /\ path[i].payload.parent_receipt_hash = path[i + 1].payload.receipt_id
    <2>1. i \in Hops(path) /\ i + 1 \in Hops(path)
      BY <1>1 DEF Links, Hops
    <2>2. /\ path[i + 1].payload.receipt_id \in Texts
          /\ path[i + 1].payload.canonical = "yes" /\ path[i + 1].payload.form = "object"
      BY <1>3, <2>1, DataAssumption DEF ComposedShape
    <2>3. StringClaim(path[i].payload.parent_receipt_hash) = path[i + 1].payload.receipt_id
      BY <1>2, <2>2 DEF GoLinkMismatch, GoReceiptId, PayloadCanonical, Payload
    <2> QED BY <2>1, <2>2, <2>3, DataAssumption DEF StringClaim
  <1> QED BY <1>2, <1>3, <1>7, <1>8

\* The parent performers of one accepted path, where claims are plain.
LEMMA AcceptedPathNamesSigners ==
    ASSUME TypeOK, ComposedShape, SignedShape, PlainWorld,
           NEW n \in Nat, NEW path \in [1 .. n -> Circulating],
           NEW keys, Honest(keys), NEW policy, GoVerifyChain(path, keys, policy) = "ok"
    PROVE  \A i \in Links(path) :
              path[i].payload.parent_performer_id \in {"null", Owner[path[i + 1].signer]}
  <1> SUFFICES ASSUME NEW i \in Links(path)
               PROVE  path[i].payload.parent_performer_id
                          \in {"null", Owner[path[i + 1].signer]}
    OBVIOUS
  <1>1. /\ i \in Hops(path) /\ i + 1 \in Hops(path)
        /\ path[i].payload \in composed /\ path[i + 1].payload \in composed
    BY AcceptedPathIsLinked
  <1>2. Owner[path[i + 1].signer] = path[i + 1].payload.performer_id
    BY <1>1, AcceptedPathIsAuthentic
  <1>3. path \in Seq(JwsSet)
    BY CirculatingShape, PathIsSequence
  <1>4. ~GoParentIdentityMismatch(path)
    BY <1>3, AcceptedPath
  <1>5. /\ path[i].payload.parent_performer_id \in Texts \cup {"null"}
        /\ path[i + 1].payload.performer_id \in Texts
    BY <1>1, LineageAssumption DEF ComposedShape, PlainWorld
  <1>6. StringClaim(path[i].payload.parent_performer_id)
            \in {"", StringClaim(path[i + 1].payload.performer_id)}
    BY <1>4 DEF GoParentIdentityMismatch, Payload
  <1> QED BY <1>2, <1>5, <1>6, DataAssumption DEF StringClaim, NonStrings

\* The two verdicts on one path, where claims and policies are plain.
LEMMA VerdictsAgree ==
    ASSUME TypeOK, ComposedShape, SignedShape, PlainWorld,
           NEW n \in Nat, NEW path \in [1 .. n -> Circulating],
           NEW keys, Honest(keys), NEW policy \in Expectations
    PROVE  GoVerifyChain(path, keys, policy) = TsVerifyChain(path, keys, policy)
  <1>1. path \in [1 .. n -> JwsSet] /\ path \in Seq(JwsSet) /\ Len(path) = n
    BY CirculatingShape, PathIsSequence
  <1>2. \A i \in Hops(path) : path[i] \in Circulating
    BY <1>1 DEF Hops
  <1>3. \A i \in Hops(path) : Interoperable(path[i]) /\ path[i].payload \in composed
    BY <1>2, CirculatingShape
  <1>4. \A i \in Hops(path) : PlainParentClaim(path[i])
    BY <1>3, DataAssumption DEF PlainParentClaim, PlainWorld, ComposedShape, NonStrings
  <1>5. PlainPolicy(policy) /\ PlainRegistry(keys)
    BY DEF PlainWorld, Honest
  <1> QED BY <1>1, <1>3, <1>4, <1>5, ChainAgreement

(***************************************************************************)
(* The invariant holds initially and every step preserves it.              *)
(***************************************************************************)

LEMMA InitIInv == Init => IInv
  <1> SUFFICES ASSUME Init PROVE IInv
    OBVIOUS
  <1> USE DEF Init
  <1>1. TypeOK
    <2>1. IsRegistry(NoEntries)
      BY DEF IsRegistry, NoEntries
    <2>2. NoReport.path \in [1 .. 0 -> JwsSet] /\ 0 \in 0 .. MaxPath
      BY LineageAssumption DEF NoReport
    <2>3. NoReport.policy \in Policies
      BY DEF NoReport, NoPolicy, Policies
    <2> QED BY <2>1, <2>2, <2>3 DEF TypeOK
  <1>2. ComposedShape /\ AgeOrder /\ SignedShape
    BY DEF ComposedShape, AgeOrder, SignedShape
  <1>3. HonestRegistries
    BY DEF HonestRegistries, Honest, PlainRegistry, NoEntries
  <1>4. \A c \in Consumers : ~Accepted(c) /\ report[c].go = report[c].ts
    BY DEF Accepted, NoReport
  <1> QED BY <1>1, <1>2, <1>3, <1>4
       DEF IInv, AcceptedIsAuthentic, AcceptedIsAncestry, ParentPerformerSigned, TwinsAgree

\* Every hop of an accepted path, and both ends of every link, are composed.
LEMMA AcceptedIsComposed ==
    ASSUME IInv, NEW c \in Consumers, Accepted(c)
    PROVE  /\ \A i \in Hops(Path(c)) : Path(c)[i] \in signed /\ Path(c)[i].payload \in composed
           /\ \A i \in Links(Path(c)) : i \in Hops(Path(c)) /\ i + 1 \in Hops(Path(c))
  <1>1. \A i \in Hops(Path(c)) : Path(c)[i] \in signed /\ Path(c)[i].payload \in composed
    BY DEF IInv, AcceptedIsAuthentic, SignedShape
  <1>2. PICK n \in 0 .. MaxPath : Path(c) \in [1 .. n -> JwsSet]
    BY DEF IInv, TypeOK, Path
  <1>3. Len(Path(c)) \in Nat
    BY <1>2, PathIsSequence, LineageAssumption
  <1> QED BY <1>1, <1>3 DEF Hops, Links

\* A step that makes no report, loses no signed receipt and leaves the age of
\* what is composed alone keeps what is known of every accepted path.
LEMMA ReportsPreserved ==
    ASSUME IInv, report' = report, signed \subseteq signed',
           \A p \in composed : age'[p.receipt_id] = age[p.receipt_id]
    PROVE  /\ AcceptedIsAuthentic' /\ AcceptedIsAncestry'
           /\ PlainWorld => ParentPerformerSigned' /\ TwinsAgree'
  <1>1. \A c : Accepted(c)' = Accepted(c) /\ Path(c)' = Path(c)
    BY DEF Accepted, Path
  <1>2. AcceptedIsAuthentic'
    BY <1>1 DEF IInv, AcceptedIsAuthentic
  <1>3. AcceptedIsAncestry'
    <2> SUFFICES ASSUME NEW c \in Consumers, Accepted(c)
                 PROVE  /\ Path(c) # <<>>
                        /\ Path(c)[Len(Path(c))].payload.parent_receipt_hash = "null"
                        /\ \A i \in Links(Path(c)) :
                             /\ Path(c)[i].payload.parent_receipt_hash
                                  = Path(c)[i + 1].payload.receipt_id
                             /\ age'[Path(c)[i + 1].payload.receipt_id]
                                  < age'[Path(c)[i].payload.receipt_id]
      BY <1>1 DEF AcceptedIsAncestry
    <2>1. \A i \in Links(Path(c)) :
             /\ age'[Path(c)[i].payload.receipt_id] = age[Path(c)[i].payload.receipt_id]
             /\ age'[Path(c)[i + 1].payload.receipt_id] = age[Path(c)[i + 1].payload.receipt_id]
      BY AcceptedIsComposed
    <2> QED BY <2>1 DEF IInv, AcceptedIsAncestry
  <1>4. PlainWorld => ParentPerformerSigned' /\ TwinsAgree'
    BY <1>1 DEF IInv, ParentPerformerSigned, TwinsAgree
  <1> QED BY <1>2, <1>3, <1>4

LEMMA ComposeStep ==
    ASSUME IInv,
           NEW performer \in Performers, NEW ctx \in Contexts, NEW parent \in Claims,
           NEW claim \in ParentClaims, Compose(performer, ctx, parent, claim)
    PROVE  IInv'
  <1>1. PICK id \in Digests :
          /\ age[id] = 0
          /\ parent \in {"null"} \cup ForeignHashes \cup {p.receipt_id : p \in composed}
          /\ composed' = composed \cup {ReceiptPayload(id, performer, ctx, parent, claim)}
          /\ age' = [age EXCEPT ![id] = clock + 1]
          /\ clock' = clock + 1
          /\ UNCHANGED <<signed, registry, view, report>>
    BY DEF Compose
  <1> DEFINE new == ReceiptPayload(id, performer, ctx, parent, claim)
  <1>2. /\ age \in [Digests -> Nat] /\ clock \in Nat
        /\ \A p \in composed : p.receipt_id \in Digests /\ age[p.receipt_id] > 0
                               /\ age[p.receipt_id] <= clock
    BY DEF IInv, TypeOK, ComposedShape, AgeOrder
  <1>3. /\ new \in Payloads /\ new.form = "object" /\ new.canonical = "yes"
        /\ new.receipt_id = id /\ new.performer_id = performer
        /\ new.parent_performer_id = claim /\ new.parent_receipt_hash = parent
    BY LineageAssumption DEF ReceiptPayload, Payloads, Forms, Claims, Canonicities
  <1>4. /\ \A p \in composed : p.receipt_id # id /\ age'[p.receipt_id] = age[p.receipt_id]
        /\ age'[id] = clock + 1 /\ age' \in [Digests -> Nat] /\ clock' \in Nat
    BY <1>1, <1>2
  <1>5. TypeOK'
    BY <1>1, <1>3, <1>4 DEF IInv, TypeOK
  <1>6. ComposedShape'
    BY <1>1, <1>3 DEF IInv, ComposedShape
  <1>7. AgeOrder'
    <2> HIDE DEF new
    <2>1. composed' = composed \cup {new} /\ clock' = clock + 1
      BY <1>1 DEF new
    <2>2. \A p \in composed' : 0 < age'[p.receipt_id] /\ age'[p.receipt_id] <= clock'
      BY <1>2, <1>3, <1>4, <2>1
    <2>3. \A p \in composed' : p.parent_receipt_hash # id
      <3>1. "null" # id /\ id \notin ForeignHashes
        BY DataAssumption, LineageAssumption DEF NonStrings
      <3>2. parent # id
        BY <1>1, <1>4, <3>1
      <3>3. \A p \in composed : p.parent_receipt_hash # id
        BY <1>4, <3>1 DEF IInv, ComposedShape
      <3> QED BY <1>3, <2>1, <3>2, <3>3
    <2>4. \A p, q \in composed' : p.parent_receipt_hash = q.receipt_id
                => age'[q.receipt_id] < age'[p.receipt_id]
      <3> SUFFICES ASSUME NEW p \in composed', NEW q \in composed',
                          p.parent_receipt_hash = q.receipt_id
                   PROVE  age'[q.receipt_id] < age'[p.receipt_id]
        OBVIOUS
      <3>1. q \in composed
        BY <1>3, <2>1, <2>3
      <3>2. CASE p \in composed
        BY <1>4, <3>1, <3>2 DEF IInv, AgeOrder
      <3>3. CASE p = new
        BY <1>2, <1>3, <1>4, <3>1, <3>3
      <3> QED BY <2>1, <3>2, <3>3
    <2> QED BY <2>2, <2>4 DEF AgeOrder
  <1>8. SignedShape' /\ HonestRegistries'
    BY <1>1 DEF IInv, SignedShape, HonestRegistries
  <1>9. /\ AcceptedIsAuthentic' /\ AcceptedIsAncestry'
        /\ PlainWorld => ParentPerformerSigned' /\ TwinsAgree'
    BY <1>1, <1>4, ReportsPreserved
  <1> QED BY <1>5, <1>6, <1>7, <1>8, <1>9 DEF IInv, PlainWorld

LEMMA SignStep ==
    ASSUME IInv, NEW payload \in composed, NEW kid \in Kids, NEW key \in Keys,
           Sign(payload, kid, key)
    PROVE  IInv'
  <1> DEFINE new == Compact(payload, kid, key)
  <1>1. /\ signed' = signed \cup {new}
        /\ UNCHANGED <<composed, age, clock, registry, view, report>>
    BY DEF Sign
  <1>2. /\ new \in JwsSet /\ new.payload = payload /\ new.header.kid = kid /\ new.signer = key
    BY LineageAssumption, DataAssumption
    DEF IInv, TypeOK, Compact, JwsSet, Framings, Forms, Headers, Claims, SigAlgs
  <1>3. TypeOK' /\ ComposedShape' /\ AgeOrder' /\ HonestRegistries'
    BY <1>1, <1>2 DEF IInv, TypeOK, ComposedShape, AgeOrder, HonestRegistries
  <1>4. SignedShape'
    BY <1>1, <1>2 DEF IInv, SignedShape
  <1>5. /\ AcceptedIsAuthentic' /\ AcceptedIsAncestry'
        /\ PlainWorld => ParentPerformerSigned' /\ TwinsAgree'
    BY <1>1, ReportsPreserved
  <1> QED BY <1>3, <1>4, <1>5 DEF IInv, PlainWorld

LEMMA PublishStep ==
    ASSUME IInv, NEW kid \in Kids, NEW key \in Keys, Publish(kid, key)
    PROVE  IInv'
  <1> DEFINE name  == <<Owner[key], kid>>
             entry == [key |-> key, curve |-> "own", alg |-> KeyAlg[key], status |-> "active"]
  <1>1. /\ registry' = [n \in DOMAIN registry \cup {name} |->
                          IF n = name THEN entry ELSE registry[n]]
        /\ UNCHANGED <<composed, age, clock, signed, view, report>>
    BY DEF Publish
  <1>2. name \in (Texts \cup {""}) \X (Texts \cup {""}) /\ entry \in Entries
    BY LineageAssumption, DataAssumption DEF Entries, Claims
  <1>3. IsRegistry(registry) /\ Honest(registry)
    BY DEF IInv, TypeOK, HonestRegistries
  <1>4. IsRegistry(registry')
    BY <1>1, <1>2, <1>3 DEF IsRegistry
  <1>5. Honest(registry')
    BY <1>1, <1>3 DEF Honest, PlainRegistry
  <1>6. TypeOK' /\ ComposedShape' /\ AgeOrder' /\ SignedShape' /\ HonestRegistries'
    BY <1>1, <1>4, <1>5 DEF IInv, TypeOK, ComposedShape, AgeOrder, SignedShape, HonestRegistries
  <1>7. /\ AcceptedIsAuthentic' /\ AcceptedIsAncestry'
        /\ PlainWorld => ParentPerformerSigned' /\ TwinsAgree'
    BY <1>1, ReportsPreserved
  <1> QED BY <1>6, <1>7 DEF IInv, PlainWorld

LEMMA RevokeStep ==
    ASSUME IInv, NEW name \in DOMAIN registry, Revoke(name)
    PROVE  IInv'
  <1>1. /\ registry' = [registry EXCEPT ![name].status = "revoked"]
        /\ UNCHANGED <<composed, age, clock, signed, view, report>>
    BY DEF Revoke
  <1>2. IsRegistry(registry) /\ Honest(registry)
    BY DEF IInv, TypeOK, HonestRegistries
  <1>3. /\ DOMAIN registry' = DOMAIN registry
        /\ \A n \in DOMAIN registry :
              /\ registry'[n] \in Entries /\ registry'[n].key = registry[n].key
              /\ registry'[n].curve = registry[n].curve
    BY <1>1, <1>2 DEF IsRegistry, Entries
  <1>4. IsRegistry(registry') /\ Honest(registry')
    BY <1>1, <1>2, <1>3 DEF IsRegistry, Honest, PlainRegistry
  <1>5. TypeOK' /\ ComposedShape' /\ AgeOrder' /\ SignedShape' /\ HonestRegistries'
    BY <1>1, <1>4 DEF IInv, TypeOK, ComposedShape, AgeOrder, SignedShape, HonestRegistries
  <1>6. /\ AcceptedIsAuthentic' /\ AcceptedIsAncestry'
        /\ PlainWorld => ParentPerformerSigned' /\ TwinsAgree'
    BY <1>1, ReportsPreserved
  <1> QED BY <1>5, <1>6 DEF IInv, PlainWorld

LEMMA RefreshStep ==
    ASSUME IInv, NEW c \in Consumers, Refresh(c)
    PROVE  IInv'
  <1>1. /\ view' = [view EXCEPT ![c] = registry]
        /\ UNCHANGED <<composed, age, clock, signed, registry, report>>
    BY DEF Refresh
  <1>2. \A d \in Consumers : view'[d] \in {view[d], registry}
    BY <1>1 DEF IInv, TypeOK
  <1>3. TypeOK' /\ HonestRegistries'
    BY <1>1, <1>2 DEF IInv, TypeOK, HonestRegistries
  <1>4. ComposedShape' /\ AgeOrder' /\ SignedShape'
    BY <1>1 DEF IInv, ComposedShape, AgeOrder, SignedShape
  <1>5. /\ AcceptedIsAuthentic' /\ AcceptedIsAncestry'
        /\ PlainWorld => ParentPerformerSigned' /\ TwinsAgree'
    BY <1>1, ReportsPreserved
  <1> QED BY <1>3, <1>4, <1>5 DEF IInv, PlainWorld

LEMMA CheckStep ==
    ASSUME IInv, NEW c \in Consumers, NEW policy \in Expectations, NEW n \in 0 .. MaxPath,
           NEW path \in [1 .. n -> Circulating], Check(c, path, policy)
    PROVE  IInv'
  <1> DEFINE entry == [path |-> path, policy |-> policy,
                       go |-> GoVerifyChain(path, view[c], policy),
                       ts |-> TsVerifyChain(path, view[c], policy)]
  <1>1. /\ report' = [report EXCEPT ![c] = entry]
        /\ UNCHANGED <<composed, age, clock, signed, registry, view>>
    BY DEF Check
  <1>2. /\ TypeOK /\ ComposedShape /\ AgeOrder /\ SignedShape
        /\ n \in Nat /\ Honest(view[c]) /\ policy \in Policies
    BY LineageAssumption DEF IInv, HonestRegistries
  <1>3. report'[c] = entry /\ \A d \in Consumers \ {c} : report'[d] = report[d]
    BY <1>1, <1>2 DEF TypeOK
  <1>4. /\ Accepted(c)' <=> GoVerifyChain(path, view[c], policy) = "ok"
        /\ Path(c)' = path
        /\ \A d \in Consumers \ {c} : Accepted(d)' = Accepted(d) /\ Path(d)' = Path(d)
    BY <1>3 DEF Accepted, Path
  <1>5. TypeOK'
    <2>1. path \in [1 .. n -> JwsSet]
      BY <1>2, CirculatingShape
    <2>2. /\ \E m \in 0 .. MaxPath : report'[c].path \in [1 .. m -> JwsSet]
          /\ report'[c].policy \in Policies
      BY <1>2, <1>3, <2>1
    <2> QED BY <1>1, <1>2, <1>3, <2>2 DEF TypeOK
  <1>6. ComposedShape' /\ AgeOrder' /\ SignedShape' /\ HonestRegistries'
    BY <1>1 DEF IInv, ComposedShape, AgeOrder, SignedShape, HonestRegistries
  <1>7. AcceptedIsAuthentic'
    <2>1. Accepted(c)' => \A i \in Hops(path) :
             path[i] \in signed /\ Owner[path[i].signer] = path[i].payload.performer_id
      BY <1>2, <1>4, AcceptedPathIsAuthentic
    <2> QED BY <1>1, <1>4, <2>1 DEF IInv, AcceptedIsAuthentic
  <1>8. AcceptedIsAncestry'
    <2>1. ASSUME Accepted(c)'
          PROVE  /\ path # <<>> /\ path[Len(path)].payload.parent_receipt_hash = "null"
                 /\ \A i \in Links(path) :
                      /\ path[i].payload.parent_receipt_hash = path[i + 1].payload.receipt_id
                      /\ age[path[i + 1].payload.receipt_id] < age[path[i].payload.receipt_id]
      <3>1. GoVerifyChain(path, view[c], policy) = "ok"
        BY <1>4, <2>1
      <3>2. /\ Len(path) # 0
            /\ \A i \in Hops(path) : path[i].payload \in composed
            /\ path[Len(path)].payload.parent_receipt_hash = "null"
            /\ \A i \in Links(path) :
                  /\ i \in Hops(path) /\ i + 1 \in Hops(path)
                  /\ path[i].payload.parent_receipt_hash = path[i + 1].payload.receipt_id
        BY <1>2, <3>1, AcceptedPathIsLinked
      <3> QED BY <1>2, <3>2 DEF AgeOrder
    <2> QED BY <1>1, <1>4, <2>1 DEF IInv, AcceptedIsAncestry
  <1>9. PlainWorld => ParentPerformerSigned' /\ TwinsAgree'
    <2> SUFFICES ASSUME PlainWorld PROVE ParentPerformerSigned' /\ TwinsAgree'
      OBVIOUS
    <2>1. Accepted(c)' => \A i \in Links(path) :
             path[i].payload.parent_performer_id \in {"null", Owner[path[i + 1].signer]}
      BY <1>2, <1>4, AcceptedPathNamesSigners
    <2>2. report'[c].go = report'[c].ts
      BY <1>2, <1>3, VerdictsAgree
    <2>3. ParentPerformerSigned'
      BY <1>4, <2>1 DEF IInv, ParentPerformerSigned
    <2>4. TwinsAgree'
      BY <1>3, <2>2 DEF IInv, TwinsAgree
    <2> QED BY <2>3, <2>4
  <1> QED BY <1>5, <1>6, <1>7, <1>8, <1>9 DEF IInv, PlainWorld

LEMMA NextIInv == IInv /\ [Next]_vars => IInv'
  <1> SUFFICES ASSUME IInv, [Next]_vars PROVE IInv'
    OBVIOUS
  <1>1. CASE UNCHANGED vars
    <2>1. TypeOK' /\ ComposedShape' /\ AgeOrder' /\ SignedShape' /\ HonestRegistries'
      BY <1>1 DEF vars, IInv, TypeOK, ComposedShape, AgeOrder, SignedShape, HonestRegistries
    <2>2. /\ AcceptedIsAuthentic' /\ AcceptedIsAncestry'
          /\ PlainWorld => ParentPerformerSigned' /\ TwinsAgree'
      BY <1>1, ReportsPreserved DEF vars
    <2> QED BY <2>1, <2>2 DEF IInv, PlainWorld
  <1>2. CASE Next
    BY <1>2, ComposeStep, SignStep, PublishStep, RevokeStep, RefreshStep, CheckStep DEF Next
  <1> QED BY <1>1, <1>2

(***************************************************************************)
(* The theorems.                                                           *)
(***************************************************************************)

\* IInv is invariant: every reachable state of every instance satisfies it.
THEOREM Invariance == Spec => []IInv
  BY InitIInv, NextIInv, PTL DEF Spec

\* Every reachable state of Lineage has its type.
THEOREM TypeCorrectness == Spec => []TypeOK
  <1>1. IInv => TypeOK
    BY DEF IInv
  <1> QED BY <1>1, Invariance, PTL

\* Non-repudiation: what verify-chain accepts was signed, hop by hop, by the
\* performers the receipts name, whoever signed what and whatever was altered.
THEOREM AcceptanceIsAuthentic == Spec => []AcceptedIsAuthentic
  <1>1. IInv => AcceptedIsAuthentic
    BY DEF IInv
  <1> QED BY <1>1, Invariance, PTL

\* What verify-chain accepts is the whole ancestry of the leaf, each parent
\* older than its child.
THEOREM AcceptanceIsAncestry == Spec => []AcceptedIsAncestry
  <1>1. IInv => AcceptedIsAncestry
    BY DEF IInv
  <1> QED BY <1>1, Invariance, PTL

\* Where every parent_performer_id is null or a non-empty string, a named parent
\* performer is the one who signed the parent.
THEOREM AcceptedParentsSigned ==
    ASSUME PlainWorld PROVE Spec => []ParentPerformerSigned
  <1>1. IInv => ParentPerformerSigned
    BY DEF IInv
  <1> QED BY <1>1, Invariance, PTL

\* And there the two implementations of verify-chain always agree.
THEOREM TwinsAlwaysAgree ==
    ASSUME PlainWorld PROVE Spec => []TwinsAgree
  <1>1. IInv => TwinsAgree
    BY DEF IInv
  <1> QED BY <1>1, Invariance, PTL
------------------------------------------------------------------------------
(***************************************************************************)
(* What a verdict of verify-chain on a path of any length means: the       *)
(* verdict "cycle" is never reached, a receipt has at most one accepted    *)
(* lineage, structural verdicts are final, only a revocation withdraws an  *)
(* accepted path, the rest of an accepted path is accepted from any of its *)
(* hops, and all of it implements Provenance.  Arguments along a path are  *)
(* made from a least counterexample.                                       *)
(***************************************************************************)

(***************************************************************************)
(* Ids along a linked path are distinct.                                   *)
(***************************************************************************)

\* A path of composed payloads in which each hop names the next as its parent.
Linked(path) ==
    /\ Len(path) \in Nat
    /\ \A i \in Hops(path) : path[i].payload \in composed
    /\ \A i \in Links(path) :
          path[i].payload.parent_receipt_hash = path[i + 1].payload.receipt_id

LEMMA LinkedIsDistinct ==
    ASSUME IInv, NEW path, Linked(path),
           NEW i \in Hops(path), NEW j \in Hops(path), i # j
    PROVE  path[i].payload.receipt_id # path[j].payload.receipt_id
  <1> DEFINE born(k) == age[path[k].payload.receipt_id]
  <1>1. \A k \in Hops(path) : born(k) \in Nat
    BY DEF IInv, TypeOK, ComposedShape, Linked
  <1>2. \A k \in Links(path) : k \in Hops(path) /\ k + 1 \in Hops(path) /\ born(k + 1) < born(k)
    <2>1. \A k \in Links(path) : k \in Hops(path) /\ k + 1 \in Hops(path)
      BY DEF Linked, Hops, Links
    <2> QED BY <2>1 DEF Linked, IInv, AgeOrder
  <1> HIDE DEF born
  <1>3. ASSUME NEW a \in Hops(path), NEW b \in Hops(path), a < b
        PROVE  born(b) < born(a)
    <2> DEFINE T == {k \in Nat : k \in Hops(path) /\ a < k /\ born(k) >= born(a)}
    <2>1. Hops(path) \subseteq Nat /\ Len(path) \in Nat
      BY DEF Hops, Linked
    <2> SUFFICES ASSUME born(b) >= born(a) PROVE FALSE
      BY <1>1
    <2>2. b \in T
      BY <1>3, <2>1
    <2>3. PICK x \in T : \A y \in T : x <= y
      <3> HIDE DEF T
      <3>1. T \subseteq Nat
        BY DEF T
      <3> QED BY <2>2, <3>1, LeastElement
    <2>4. x - 1 \in Links(path) /\ (x - 1) + 1 = x
      BY <1>3, <2>1, <2>3 DEF Hops, Links
    <2>5. born(x) < born(x - 1) /\ x - 1 \in Hops(path)
      BY <1>2, <2>4
    <2>6. x - 1 \notin T
      BY <2>1, <2>3
    <2>7. CASE x - 1 = a
      BY <1>1, <2>3, <2>5, <2>7
    <2>8. CASE x - 1 # a
      <3>1. a < x - 1
        BY <2>1, <2>3, <2>8
      <3>2. born(x - 1) < born(a)
        BY <1>1, <2>1, <2>5, <2>6, <3>1
      <3> QED BY <1>1, <2>3, <2>5, <3>2
    <2> QED BY <2>7, <2>8
  <1>4. born(i) # born(j)
    <2>1. i \in Nat /\ j \in Nat /\ (i < j \/ j < i)
      BY DEF Hops
    <2> QED BY <1>1, <1>3, <2>1
  <1> QED BY <1>4 DEF born

\* Paths that either implementation finds linked are.
LEMMA LinkCheckLinks ==
    ASSUME IInv, NEW n \in Nat, NEW path \in [1 .. n -> Circulating],
           ~GoLinkMismatch(path) \/ ~TsLinkMismatch(path)
    PROVE  /\ Linked(path)
           /\ \A i \in Hops(path) : GoReceiptId(path[i]) = path[i].payload.receipt_id
  <1>1. TypeOK /\ ComposedShape /\ SignedShape
    BY DEF IInv
  <1>2. path \in Seq(JwsSet) /\ Len(path) = n /\ Hops(path) = 1 .. n
    BY <1>1, CirculatingShape, PathIsSequence DEF Hops
  <1>3. \A i \in Hops(path) : path[i].payload \in composed
    BY <1>1, <1>2, CirculatingShape
  <1>4. \A i \in Hops(path) :
           /\ GoReceiptId(path[i]) = path[i].payload.receipt_id
           /\ path[i].payload.receipt_id \in Texts
    BY <1>1, <1>3, DataAssumption DEF ComposedShape, GoReceiptId, PayloadCanonical
  <1>5. ASSUME NEW i \in Links(path)
        PROVE  path[i].payload.parent_receipt_hash = path[i + 1].payload.receipt_id
    <2>1. i \in Hops(path) /\ i + 1 \in Hops(path)
      BY <1>2 DEF Links
    <2>2. CASE ~GoLinkMismatch(path)
      <3>1. StringClaim(path[i].payload.parent_receipt_hash) = path[i + 1].payload.receipt_id
        BY <1>4, <2>1, <2>2 DEF GoLinkMismatch, Payload
      <3> QED BY <1>4, <2>1, <3>1, DataAssumption DEF StringClaim
    <2>3. CASE ~TsLinkMismatch(path)
      BY <2>3 DEF TsLinkMismatch, Payload
    <2> QED BY <2>2, <2>3
  <1> QED BY <1>2, <1>3, <1>4, <1>5 DEF Linked

LEMMA NoCycleVerdict ==
    ASSUME IInv, NEW n \in Nat, NEW path \in [1 .. n -> Circulating], NEW keys, NEW policy
    PROVE  "cycle" \notin {GoVerifyChain(path, keys, policy), TsVerifyChain(path, keys, policy)}
  <1>1. ASSUME ~GoLinkMismatch(path) PROVE ~GoHasCycle(path)
    <2>1. Linked(path) /\ \A i \in Hops(path) : GoReceiptId(path[i]) = path[i].payload.receipt_id
      BY <1>1, LinkCheckLinks
    <2>2. \A i, j \in Hops(path) : i # j => GoReceiptId(path[i]) # GoReceiptId(path[j])
      BY <2>1, LinkedIsDistinct
    <2> QED BY <2>2 DEF GoHasCycle
  <1>2. ASSUME ~TsLinkMismatch(path) PROVE ~TsHasCycle(path)
    <2>1. Linked(path)
      BY <1>2, LinkCheckLinks
    <2> QED BY <2>1, LinkedIsDistinct DEF TsHasCycle, Payload
  <1>3. GoVerifyChain(path, keys, policy) # "cycle"
    BY <1>1 DEF GoVerifyChain
  <1>4. TsVerifyChain(path, keys, policy) # "cycle"
    BY <1>2 DEF TsVerifyChain
  <1> QED BY <1>3, <1>4

\* The cycle check of verify-chain is never the one that rejects, in either
\* implementation, for paths of receipts of any length.
THEOREM CycleIsNeverReported == Spec => []CycleNeverReported
  <1>1. Init => CycleNeverReported
    BY DEF Init, CycleNeverReported, NoReport
  <1>2. IInv /\ CycleNeverReported /\ [Next]_vars => CycleNeverReported'
    <2> SUFFICES ASSUME IInv, CycleNeverReported, [Next]_vars PROVE CycleNeverReported'
      OBVIOUS
    <2>1. CASE report' = report
      BY <2>1 DEF CycleNeverReported
    <2>2. ASSUME NEW c \in Consumers, NEW policy \in Expectations, NEW n \in 0 .. MaxPath,
                 NEW path \in [1 .. n -> Circulating], Check(c, path, policy)
          PROVE  CycleNeverReported'
      <3>1. "cycle" \notin {GoVerifyChain(path, view[c], policy),
                            TsVerifyChain(path, view[c], policy)}
        BY LineageAssumption, NoCycleVerdict
      <3>2. /\ report'[c].go = GoVerifyChain(path, view[c], policy)
            /\ report'[c].ts = TsVerifyChain(path, view[c], policy)
            /\ \A d \in Consumers \ {c} : report'[d] = report[d]
        BY <2>2 DEF Check, IInv, TypeOK
      <3> QED BY <3>1, <3>2 DEF CycleNeverReported
    <2>3. CASE UNCHANGED vars
      BY <2>1, <2>3 DEF vars
    <2>4. CASE Next
      BY <2>1, <2>2, <2>4 DEF Next, Compose, Sign, Publish, Revoke, Refresh
    <2> QED BY <2>3, <2>4
  <1> QED BY <1>1, <1>2, Invariance, PTL DEF Spec

(***************************************************************************)
(* A leaf has one lineage.                                                 *)
(***************************************************************************)

\* An id is the digest of one payload: ids are fresh when composed.
IdsUnique == \A p, q \in composed : p.receipt_id = q.receipt_id => p = q

LEMMA IdsStayUnique == Spec => []IdsUnique
  <1>1. Init => IdsUnique
    BY DEF Init, IdsUnique
  <1>2. IInv /\ IdsUnique /\ [Next]_vars => IdsUnique'
    <2> SUFFICES ASSUME IInv, IdsUnique, [Next]_vars PROVE IdsUnique'
      OBVIOUS
    <2>1. CASE composed' = composed
      BY <2>1 DEF IdsUnique
    <2>2. ASSUME NEW performer \in Performers, NEW ctx \in Contexts, NEW parent \in Claims,
                 NEW claim \in ParentClaims, Compose(performer, ctx, parent, claim)
          PROVE  IdsUnique'
      <3>1. PICK id \in Digests :
              /\ age[id] = 0
              /\ composed' = composed \cup {ReceiptPayload(id, performer, ctx, parent, claim)}
        BY <2>2 DEF Compose
      <3>2. \A p \in composed : p.receipt_id # id
        BY <3>1 DEF IInv, AgeOrder, TypeOK
      <3>3. ReceiptPayload(id, performer, ctx, parent, claim).receipt_id = id
        BY DEF ReceiptPayload
      <3> QED BY <3>1, <3>2, <3>3 DEF IdsUnique
    <2>3. CASE UNCHANGED vars
      BY <2>1, <2>3 DEF vars
    <2>4. CASE Next
      BY <2>1, <2>2, <2>4 DEF Next, Sign, Publish, Revoke, Refresh, Check
    <2> QED BY <2>3, <2>4
  <1> QED BY <1>1, <1>2, Invariance, PTL DEF Spec

\* A linked path that ends in a root.
Rooted(path) ==
    /\ Linked(path) /\ Len(path) # 0
    /\ path[Len(path)].payload.parent_receipt_hash = "null"

LEMMA AcceptedIsRooted ==
    ASSUME IInv, NEW c \in Consumers, Accepted(c)
    PROVE  Rooted(Path(c)) /\ Path(c) \in Seq(JwsSet)
  <1>1. PICK n \in 0 .. MaxPath : Path(c) \in [1 .. n -> JwsSet]
    BY DEF IInv, TypeOK, Path
  <1>2. Path(c) \in Seq(JwsSet) /\ Len(Path(c)) \in Nat
    BY <1>1, PathIsSequence, LineageAssumption
  <1>3. Path(c) # <<>> => Len(Path(c)) # 0
    BY <1>2
  <1> QED BY <1>2, <1>3, AcceptedIsComposed DEF IInv, AcceptedIsAncestry, Rooted, Linked

LEMMA CommonPrefix ==
    ASSUME IInv, IdsUnique, NEW P, NEW Q, Rooted(P), Rooted(Q),
           P[1].payload.receipt_id = Q[1].payload.receipt_id
    PROVE  \A i \in Hops(P) : i \in Hops(Q) => P[i].payload = Q[i].payload
  <1> DEFINE T == {i \in Nat : i \in Hops(P) /\ i \in Hops(Q) /\ P[i].payload # Q[i].payload}
  <1> SUFFICES ASSUME T # {} PROVE FALSE
    BY DEF Hops
  <1>1. PICK x \in T : \A y \in T : x <= y
    <2> HIDE DEF T
    <2>1. T \subseteq Nat
      BY DEF T
    <2> QED BY <2>1, LeastElement
  <1>2. Len(P) \in Nat /\ Len(Q) \in Nat
    BY DEF Rooted, Linked
  <1>3. P[x].payload \in composed /\ Q[x].payload \in composed
    BY <1>1 DEF Rooted, Linked
  <1>4. CASE x = 1
    BY <1>1, <1>3, <1>4 DEF IdsUnique
  <1>5. CASE x # 1
    <2>1. /\ x - 1 \in Links(P) /\ x - 1 \in Links(Q)
          /\ x - 1 \in Hops(P) /\ x - 1 \in Hops(Q)
          /\ (x - 1) + 1 = x /\ x - 1 \in Nat /\ x - 1 < x
      BY <1>1, <1>2, <1>5 DEF Hops, Links
    <2>2. P[x - 1].payload = Q[x - 1].payload
      BY <1>1, <2>1
    <2>3. /\ P[x - 1].payload.parent_receipt_hash = P[x].payload.receipt_id
          /\ Q[x - 1].payload.parent_receipt_hash = Q[x].payload.receipt_id
      BY <2>1 DEF Rooted, Linked
    <2> QED BY <1>1, <1>3, <2>2, <2>3 DEF IdsUnique
  <1> QED BY <1>4, <1>5

LEMMA NotShorter ==
    ASSUME IInv, IdsUnique, NEW P, NEW Q, Rooted(P), Rooted(Q),
           P[1].payload.receipt_id = Q[1].payload.receipt_id
    PROVE  Len(P) >= Len(Q)
  <1> SUFFICES ASSUME Len(P) < Len(Q) PROVE FALSE
    BY DEF Rooted, Linked
  <1> DEFINE n == Len(P)
  <1>1. n \in Hops(P) /\ n \in Hops(Q) /\ n \in Links(Q) /\ n + 1 \in Hops(Q)
    BY DEF Rooted, Linked, Hops, Links
  <1>2. P[n].payload = Q[n].payload
    BY <1>1, CommonPrefix
  <1>3. P[n].payload.parent_receipt_hash = "null"
    BY DEF Rooted
  <1>4. Q[n].payload.parent_receipt_hash = Q[n + 1].payload.receipt_id
    BY <1>1 DEF Rooted, Linked
  <1>5. Q[n + 1].payload.receipt_id \in Digests
    BY <1>1 DEF Rooted, Linked, IInv, ComposedShape
  <1>6. "null" \notin Digests
    BY DataAssumption DEF NonStrings
  <1> QED BY <1>2, <1>3, <1>4, <1>5, <1>6

\* A receipt has at most one accepted lineage, whoever checks it, with whatever
\* registry: no truncation, splice or reordering of an accepted path is accepted.
THEOREM LineageIsUnique == Spec => []OneLineagePerLeaf
  <1>1. IInv /\ IdsUnique => OneLineagePerLeaf
    <2> SUFFICES ASSUME IInv, IdsUnique, NEW c \in Consumers, NEW d \in Consumers,
                        Accepted(c), Accepted(d), Ids(Path(c))[1] = Ids(Path(d))[1]
                 PROVE  Ids(Path(c)) = Ids(Path(d))
      BY DEF OneLineagePerLeaf
    <2> DEFINE P == Path(c)
               Q == Path(d)
    <2>1. Rooted(P) /\ Rooted(Q)
      BY AcceptedIsRooted
    <2>2. 1 \in Hops(P) /\ 1 \in Hops(Q)
      BY <2>1 DEF Rooted, Linked, Hops
    <2>3. P[1].payload.receipt_id = Q[1].payload.receipt_id
      BY <2>2 DEF Ids
    <2>4. Len(P) = Len(Q)
      BY <2>1, <2>3, NotShorter DEF Rooted, Linked
    <2>5. Hops(P) = Hops(Q)
      BY <2>4 DEF Hops
    <2>6. \A i \in Hops(P) : P[i].payload = Q[i].payload
      BY <2>1, <2>3, <2>5, CommonPrefix
    <2> QED BY <2>5, <2>6 DEF Ids
  <1> QED BY <1>1, Invariance, IdsStayUnique, PTL

(***************************************************************************)
(* Structure.                                                              *)
(***************************************************************************)

\* The verdict on the structure of a path, which no registry has a part in.
StructureOf(path) ==
    IF Len(path) = 0 THEN "empty_chain"
    ELSE IF ChainMalformed(path) THEN "malformed_chain"
    ELSE IF GoLinkMismatch(path) THEN "link_mismatch"
    ELSE IF GoParentIdentityMismatch(path) THEN "parent_identity_mismatch"
    ELSE IF GoHasCycle(path) THEN "cycle"
    ELSE "ok"

AllValid(path, keys, policy) ==
    \A i \in Hops(path) : GoVerify(path[i], keys, HopPolicy(i, policy)) = "ok"

\* A path has the verdict on its structure, or one of its receipts is invalid.
LEMMA VerdictIsStructure ==
    ASSUME NEW path, Len(path) # 0, NEW keys, NEW policy
    PROVE  GoVerifyChain(path, keys, policy) =
              IF AllValid(path, keys, policy) THEN StructureOf(path) ELSE "receipt_invalid"
  BY DEF GoVerifyChain, GoSomeReceiptInvalid, AllValid, StructureOf

VerdictsOnStructure ==
    \A c \in Consumers : report[c].go \in {"none", "receipt_invalid", StructureOf(Path(c))}

LEMMA VerdictOnPath ==
    ASSUME NEW path, NEW keys, NEW policy
    PROVE  GoVerifyChain(path, keys, policy) \in {"receipt_invalid", StructureOf(path)}
  <1>1. CASE Len(path) = 0
    BY <1>1 DEF GoVerifyChain, StructureOf
  <1>2. CASE Len(path) # 0
    BY <1>2, VerdictIsStructure
  <1> QED BY <1>1, <1>2

\* A step leaves a report alone or replaces it by a check.
LEMMA ReportStep ==
    ASSUME IInv, [Next]_vars, NEW c \in Consumers
    PROVE  \/ report'[c] = report[c]
           \/ \E n \in 0 .. MaxPath, policy \in Expectations : \E path \in [1 .. n -> Circulating] :
                 /\ report'[c] = [path |-> path, policy |-> policy,
                                  go |-> GoVerifyChain(path, view[c], policy),
                                  ts |-> TsVerifyChain(path, view[c], policy)]
                 /\ UNCHANGED <<composed, age, clock, signed, registry, view>>
  <1>1. DOMAIN report = Consumers
    BY DEF IInv, TypeOK
  <1>2. CASE report' = report
    BY <1>2
  <1>3. ASSUME NEW d \in Consumers, NEW policy \in Expectations, NEW n \in 0 .. MaxPath,
               NEW path \in [1 .. n -> Circulating], Check(d, path, policy)
        PROVE  \/ report'[c] = report[c]
               \/ /\ report'[c] = [path |-> path, policy |-> policy,
                                   go |-> GoVerifyChain(path, view[c], policy),
                                   ts |-> TsVerifyChain(path, view[c], policy)]
                  /\ UNCHANGED <<composed, age, clock, signed, registry, view>>
    BY <1>1, <1>3 DEF Check
  <1>4. CASE Next /\ report' # report
    <2>1. PICK d \in Consumers, policy \in Expectations, n \in 0 .. MaxPath :
             \E path \in [1 .. n -> Circulating] : Check(d, path, policy)
      BY <1>4 DEF Next, Compose, Sign, Publish, Revoke, Refresh
    <2> QED BY <1>3, <2>1
  <1> QED BY <1>2, <1>4 DEF vars

LEMMA VerdictsStayOnStructure == Spec => []VerdictsOnStructure
  <1>1. Init => VerdictsOnStructure
    BY DEF Init, VerdictsOnStructure, NoReport
  <1>2. IInv /\ VerdictsOnStructure /\ [Next]_vars => VerdictsOnStructure'
    <2> SUFFICES ASSUME IInv, VerdictsOnStructure, [Next]_vars, NEW c \in Consumers
                 PROVE  report'[c].go \in {"none", "receipt_invalid", StructureOf(report'[c].path)}
      BY DEF VerdictsOnStructure, Path, StructureOf, ChainMalformed, GoLinkMismatch,
             GoParentIdentityMismatch, GoHasCycle
    <2>1. CASE report'[c] = report[c]
      BY <2>1 DEF VerdictsOnStructure, Path
    <2>2. CASE report'[c] # report[c]
      <3>1. PICK path, policy :
               report'[c] = [path |-> path, policy |-> policy,
                             go |-> GoVerifyChain(path, view[c], policy),
                             ts |-> TsVerifyChain(path, view[c], policy)]
        BY <2>2, ReportStep
      <3> QED BY <3>1, VerdictOnPath
    <2> QED BY <2>1, <2>2
  <1> QED BY <1>1, <1>2, Invariance, PTL DEF Spec

\* A structural verdict is final: checked again, with whatever registry and
\* policy, the path has the same verdict or an invalid receipt.
THEOREM StructureIsFinal == Spec => StructuralVerdictIsFinal
  <1>1. IInv /\ VerdictsOnStructure /\ VerdictsOnStructure' /\ [Next]_vars =>
           [\A c \in Consumers :
              (Path(c) = Path(c)' /\ report[c].go \notin {"none", "receipt_invalid"})
                 => report'[c].go \in {report[c].go, "receipt_invalid"}]_vars
    <2> SUFFICES ASSUME IInv, VerdictsOnStructure, [Next]_vars, NEW c \in Consumers,
                        Path(c) = Path(c)', report[c].go \notin {"none", "receipt_invalid"}
                 PROVE  report'[c].go \in {report[c].go, "receipt_invalid"}
      OBVIOUS
    <2>1. report[c].go = StructureOf(Path(c))
      BY DEF VerdictsOnStructure
    <2>2. CASE report'[c] # report[c]
      <3>1. PICK path, policy :
               report'[c] = [path |-> path, policy |-> policy,
                             go |-> GoVerifyChain(path, view[c], policy),
                             ts |-> TsVerifyChain(path, view[c], policy)]
        BY <2>2, ReportStep
      <3>2. path = Path(c) /\ report'[c].go = GoVerifyChain(path, view[c], policy)
        BY <3>1 DEF Path
      <3> QED BY <2>1, <3>2, VerdictOnPath
    <2> QED BY <2>1, <2>2
  <1> QED BY <1>1, Invariance, VerdictsStayOnStructure, PTL DEF Spec, StructuralVerdictIsFinal

(***************************************************************************)
(* The rest of an accepted path.                                           *)
(***************************************************************************)

\* The hops of the rest of a path are hops of the path.
LEMMA RestOfPath ==
    ASSUME NEW path \in Seq(JwsSet), NEW i \in Hops(path)
    PROVE  LET rest == SubSeq(path, i, Len(path)) IN
           /\ Len(rest) = Len(path) - i + 1 /\ Len(rest) # 0
           /\ \A k \in Hops(rest) : i + k - 1 \in Hops(path) /\ rest[k] = path[i + k - 1]
           /\ \A k \in Links(rest) :
                 /\ k \in Hops(rest) /\ k + 1 \in Hops(rest)
                 /\ i + k - 1 \in Links(path) /\ rest[k + 1] = path[(i + k - 1) + 1]
  <1> DEFINE rest == SubSeq(path, i, Len(path))
  <1>1. Len(path) \in Nat /\ i \in 1 .. Len(path)
    BY DEF Hops
  <1>2. \A k \in i .. Len(path) : path[k] \in JwsSet
    BY <1>1
  <1>3. /\ Len(rest) = Len(path) - i + 1
        /\ \A k \in 1 .. (Len(path) - i + 1) : rest[k] = path[i + k - 1]
    BY <1>1, <1>2, SubSeqProperties
  <1> HIDE DEF rest
  <1>4. \A k \in Hops(rest) : i + k - 1 \in Hops(path) /\ rest[k] = path[i + k - 1]
    BY <1>1, <1>3 DEF Hops
  <1>5. \A k \in Links(rest) :
           /\ k \in Hops(rest) /\ k + 1 \in Hops(rest)
           /\ i + k - 1 \in Links(path) /\ rest[k + 1] = path[(i + k - 1) + 1]
    BY <1>1, <1>3 DEF Hops, Links
  <1>6. Len(rest) = Len(path) - i + 1 /\ Len(rest) # 0
    BY <1>1, <1>3
  <1> QED BY <1>4, <1>5, <1>6, Zenon DEF rest

\* The rest of an accepted path is accepted from any hop, with the same registry.
LEMMA RestIsAccepted ==
    ASSUME NEW path \in Seq(JwsSet), NEW keys, NEW policy,
           GoVerifyChain(path, keys, policy) = "ok", NEW i \in Hops(path)
    PROVE  GoVerifyChain(SubSeq(path, i, Len(path)), keys, NoPolicy) = "ok"
  <1> DEFINE rest  == SubSeq(path, i, Len(path))
             at(k) == i + k - 1
  <1>1. /\ Len(path) # 0 /\ AllValid(path, keys, policy) /\ ~ChainMalformed(path)
        /\ ~GoLinkMismatch(path) /\ ~GoParentIdentityMismatch(path) /\ ~GoHasCycle(path)
    BY DEF GoVerifyChain, GoSomeReceiptInvalid, AllValid
  <1>2. /\ Len(path) \in Nat /\ i \in Nat /\ Hops(rest) \subseteq Nat
        /\ Len(rest) = Len(path) - i + 1 /\ Len(rest) # 0
    BY RestOfPath DEF Hops
  <1>3. \A k \in Hops(rest) : at(k) \in Hops(path) /\ rest[k] = path[at(k)]
    BY RestOfPath
  <1>4. \A k \in Links(rest) :
           /\ k \in Hops(rest) /\ at(k) \in Links(path)
           /\ rest[k] = path[at(k)] /\ rest[k + 1] = path[at(k) + 1]
    BY RestOfPath
  <1>5. \A k \in Hops(rest) : (k = Len(rest)) = (at(k) = Len(path))
    BY <1>2
  <1>6. \A k, l \in Hops(rest) : k # l => at(k) # at(l)
    BY <1>2
  <1> HIDE DEF rest, at
  <1>7. AllValid(rest, keys, NoPolicy)
    <2>1. ASSUME NEW jws, NEW anyPolicy, GoVerify(jws, keys, anyPolicy) = "ok"
          PROVE  GoVerify(jws, keys, NoPolicy) = "ok"
      BY <2>1 DEF GoVerify, GoContextMatches, NoPolicy
    <2>2. ASSUME NEW k \in Hops(rest)
          PROVE  GoVerify(rest[k], keys, HopPolicy(k, NoPolicy)) = "ok"
      <3>1. GoVerify(path[at(k)], keys, HopPolicy(at(k), policy)) = "ok"
        BY <1>1, <1>3 DEF AllValid
      <3>2. HopPolicy(k, NoPolicy) = NoPolicy
        BY DEF HopPolicy
      <3> QED BY <1>3, <2>1, <3>1, <3>2
    <2> QED BY <2>2 DEF AllValid
  <1>8. ~ChainMalformed(rest)
    <2>1. ASSUME NEW k \in Hops(rest)
          PROVE  IsNullClaim(rest[k].payload.parent_receipt_hash) = (k = Len(rest))
      <3>1. IsNullClaim(path[at(k)].payload.parent_receipt_hash) = (at(k) = Len(path))
        BY <1>1, <1>3 DEF ChainMalformed, Payload, IsNullClaim
      <3> QED BY <1>3, <1>5, <3>1
    <2> QED BY <2>1 DEF ChainMalformed, Payload
  <1>9. ~GoLinkMismatch(rest) /\ ~GoParentIdentityMismatch(rest)
    BY <1>1, <1>4 DEF GoLinkMismatch, GoParentIdentityMismatch, Payload
  <1>10. ~GoHasCycle(rest)
    <2>1. ASSUME NEW k \in Hops(rest), NEW l \in Hops(rest), k # l
          PROVE  GoReceiptId(rest[k]) # GoReceiptId(rest[l])
      <3>1. GoReceiptId(path[at(k)]) # GoReceiptId(path[at(l)])
        BY <1>1, <1>3, <1>6, <2>1 DEF GoHasCycle
      <3> QED BY <1>3, <3>1
    <2> QED BY <2>1 DEF GoHasCycle
  <1>11. GoVerifyChain(rest, keys, NoPolicy) = "ok"
    BY <1>2, <1>7, <1>8, <1>9, <1>10, VerdictIsStructure DEF StructureOf
  <1> QED BY <1>11 DEF rest

\* Lineage can be audited from any hop of an accepted path.
THEOREM EveryHopIsAccepted == Spec => []AcceptedFromEveryHop
  <1>1. IInv => AcceptedFromEveryHop
    <2> SUFFICES ASSUME IInv, NEW c \in Consumers, Accepted(c), NEW i \in Hops(Path(c)),
                        GoVerifyChain(Path(c), registry, report[c].policy) = "ok"
                 PROVE  GoVerifyChain(SubSeq(Path(c), i, Len(Path(c))), registry, NoPolicy) = "ok"
      BY DEF AcceptedFromEveryHop
    <2> QED BY AcceptedIsRooted, RestIsAccepted
  <1> QED BY <1>1, Invariance, PTL

(***************************************************************************)
(* What withdraws an accepted path.                                        *)
(***************************************************************************)

\* A later registry has every entry of an earlier one, with its key; it may have
\* revoked it.
Extends(later, earlier) ==
    \A name \in DOMAIN earlier :
        /\ name \in DOMAIN later
        /\ later[name].key = earlier[name].key /\ later[name].alg = earlier[name].alg

\* A receipt that verifies but for the status of its key.
ValidUnlessRevoked(jws, keys, policy) ==
    /\ ~GoMalformed(jws) /\ ~jws.header.keyMaterial /\ GoKeyResolves(jws, keys)
    /\ AlgAllowed(jws.header.alg, GoEntry(jws, keys))
    /\ SignatureVerifies(jws, GoEntry(jws, keys))
    /\ GoPayloadCanonical(jws) /\ GoContextMatches(jws, policy)

ViewsAreOld == \A c \in Consumers : Extends(registry, view[c])

AcceptedStays ==
    \A c \in Consumers : Accepted(c) =>
        /\ Len(Path(c)) # 0 /\ StructureOf(Path(c)) = "ok"
        /\ \A i \in Hops(Path(c)) :
              ValidUnlessRevoked(Path(c)[i], registry, HopPolicy(i, report[c].policy))

LEMMA RevocationDecides ==
    ASSUME NEW jws, NEW keys, NEW policy, ValidUnlessRevoked(jws, keys, policy)
    PROVE  GoVerify(jws, keys, policy) = "ok" <=>
              keys[<<jws.payload.performer_id, jws.header.kid>>].status # "revoked"
  BY DEF ValidUnlessRevoked, GoVerify, GoEntry

LEMMA VerifiedIsValid ==
    ASSUME NEW jws, NEW keys, NEW policy, GoVerify(jws, keys, policy) = "ok"
    PROVE  ValidUnlessRevoked(jws, keys, policy)
  BY DEF ValidUnlessRevoked, GoVerify

\* What is valid under a registry is valid under a later one.
LEMMA LaterIsValid ==
    ASSUME NEW jws, NEW later, NEW earlier, NEW policy, Extends(later, earlier),
           ValidUnlessRevoked(jws, earlier, policy)
    PROVE  ValidUnlessRevoked(jws, later, policy)
  <1>1. \A claim : StringClaim(claim) # "" => StringClaim(claim) = claim
    BY DEF StringClaim
  <1>2. <<jws.payload.performer_id, jws.header.kid>> \in DOMAIN earlier
    BY <1>1 DEF ValidUnlessRevoked, GoKeyResolves
  <1>3. /\ GoEntry(jws, later).key = GoEntry(jws, earlier).key
        /\ GoEntry(jws, later).alg = GoEntry(jws, earlier).alg
    BY <1>2 DEF Extends, GoEntry
  <1>4. GoKeyResolves(jws, later)
    BY DEF ValidUnlessRevoked, GoKeyResolves, Extends
  <1>5. AlgAllowed(jws.header.alg, GoEntry(jws, later)) /\ SignatureVerifies(jws, GoEntry(jws, later))
    BY <1>3 DEF ValidUnlessRevoked, AlgAllowed, SignatureVerifies
  <1> QED BY <1>4, <1>5 DEF ValidUnlessRevoked

\* Entries are added and revoked, never replaced.
LEMMA RegistryGrows ==
    ASSUME IInv, [Next]_vars
    PROVE  Extends(registry', registry)
  <1>1. CASE registry' = registry
    BY <1>1 DEF Extends
  <1>2. ASSUME NEW kid \in Kids, NEW key \in Keys, Publish(kid, key)
        PROVE  Extends(registry', registry)
    BY <1>2 DEF Extends, Publish
  <1>3. ASSUME NEW name \in DOMAIN registry, Revoke(name)
        PROVE  Extends(registry', registry)
    <2>1. registry' = [registry EXCEPT ![name] = [registry[name] EXCEPT !.status = "revoked"]]
      BY <1>3 DEF Revoke
    <2>2. registry[name] \in Entries
      BY DEF IInv, TypeOK, IsRegistry
    <2>3. LET revoked == [registry[name] EXCEPT !.status = "revoked"]
          IN  revoked.key = registry[name].key /\ revoked.alg = registry[name].alg
      BY <2>2 DEF Entries
    <2> DEFINE revoked == [registry[name] EXCEPT !.status = "revoked"]
    <2> HIDE DEF revoked
    <2>4. /\ DOMAIN registry' = DOMAIN registry
          /\ \A n \in DOMAIN registry : registry'[n] = IF n = name THEN revoked ELSE registry[n]
      BY <2>1 DEF revoked
    <2> QED BY <2>3, <2>4 DEF Extends, revoked
  <1>4. CASE Next
    BY <1>1, <1>2, <1>3, <1>4 DEF Next, Compose, Sign, Refresh, Check
  <1> QED BY <1>1, <1>4 DEF vars

LEMMA ViewsStayOld == Spec => []ViewsAreOld
  <1>1. Init => ViewsAreOld
    BY DEF Init, ViewsAreOld, Extends
  <1>2. IInv /\ ViewsAreOld /\ [Next]_vars => ViewsAreOld'
    <2> SUFFICES ASSUME IInv, ViewsAreOld, [Next]_vars, NEW c \in Consumers
                 PROVE  Extends(registry', view'[c])
      BY DEF ViewsAreOld, Extends
    <2>1. Extends(registry', registry) /\ Extends(registry, view[c])
      BY RegistryGrows DEF ViewsAreOld
    <2>2. CASE view'[c] = view[c]
      BY <2>1, <2>2 DEF Extends
    <2>3. view'[c] = view[c] \/ view'[c] = registry
      <3>1. DOMAIN view = Consumers
        BY DEF IInv, TypeOK
      <3>2. ASSUME NEW d \in Consumers, Refresh(d)
            PROVE  view'[c] = view[c] \/ view'[c] = registry
        BY <3>1, <3>2 DEF Refresh
      <3> QED BY <3>2 DEF Next, vars, Compose, Sign, Publish, Revoke, Check
    <2> QED BY <2>1, <2>2, <2>3
  <1> QED BY <1>1, <1>2, Invariance, PTL DEF Spec

LEMMA AcceptedAlwaysStays == Spec => []AcceptedStays
  <1>1. Init => AcceptedStays
    BY DEF Init, AcceptedStays, Accepted, NoReport
  <1>2. IInv /\ ViewsAreOld /\ AcceptedStays /\ [Next]_vars => AcceptedStays'
    <2> SUFFICES ASSUME IInv, ViewsAreOld, AcceptedStays, [Next]_vars, NEW c \in Consumers,
                        report'[c].go = "ok"
                 PROVE  /\ Len(report'[c].path) # 0 /\ StructureOf(report'[c].path) = "ok"
                        /\ \A i \in Hops(report'[c].path) :
                              ValidUnlessRevoked(report'[c].path[i], registry',
                                                 HopPolicy(i, report'[c].policy))
      BY DEF AcceptedStays, Accepted, Path
    <2>1. Extends(registry', registry) /\ Extends(registry, view[c])
      BY RegistryGrows DEF ViewsAreOld
    <2>2. CASE report'[c] = report[c]
      BY <2>1, <2>2, LaterIsValid DEF AcceptedStays, Accepted, Path
    <2>3. CASE report'[c] # report[c]
      <3>1. PICK path, policy :
               /\ report'[c] = [path |-> path, policy |-> policy,
                                go |-> GoVerifyChain(path, view[c], policy),
                                ts |-> TsVerifyChain(path, view[c], policy)]
               /\ registry' = registry
        BY <2>3, ReportStep
      <3>2. GoVerifyChain(path, view[c], policy) = "ok"
        BY <3>1
      <3>3. Len(path) # 0 /\ AllValid(path, view[c], policy) /\ StructureOf(path) = "ok"
        BY <3>2, VerdictIsStructure DEF GoVerifyChain
      <3>4. ASSUME NEW i \in Hops(path)
            PROVE  ValidUnlessRevoked(path[i], registry, HopPolicy(i, policy))
        BY <2>1, <3>3, VerifiedIsValid, LaterIsValid DEF AllValid
      <3> QED BY <3>1, <3>3, <3>4
    <2> QED BY <2>2, <2>3
  <1> QED BY <1>1, <1>2, Invariance, ViewsStayOld, PTL DEF Spec

\* Publishing and rotating keys never withdraw an accepted path; revoking a key
\* of one of its hops always does.
THEOREM OnlyRevocationWithdraws == Spec => []WithdrawnOnlyByRevocation
  <1>1. AcceptedStays => WithdrawnOnlyByRevocation
    <2> SUFFICES ASSUME AcceptedStays, NEW c \in Consumers, Accepted(c)
                 PROVE  GoVerifyChain(Path(c), registry, report[c].policy) =
                          IF \E i \in Hops(Path(c)) :
                                registry[<<Path(c)[i].payload.performer_id,
                                           Path(c)[i].header.kid>>].status = "revoked"
                          THEN "receipt_invalid" ELSE "ok"
      BY DEF WithdrawnOnlyByRevocation
    <2>1. /\ Len(Path(c)) # 0 /\ StructureOf(Path(c)) = "ok"
          /\ \A i \in Hops(Path(c)) :
                ValidUnlessRevoked(Path(c)[i], registry, HopPolicy(i, report[c].policy))
      BY DEF AcceptedStays
    <2>2. AllValid(Path(c), registry, report[c].policy) <=>
             \A i \in Hops(Path(c)) :
                registry[<<Path(c)[i].payload.performer_id, Path(c)[i].header.kid>>].status # "revoked"
      BY <2>1, RevocationDecides DEF AllValid
    <2> QED BY <2>1, <2>2, VerdictIsStructure
  <1> QED BY <1>1, AcceptedAlwaysStays, PTL

(***************************************************************************)
(* Lineage implements Provenance: its initial state maps to the initial    *)
(* one and each of its steps to a step of Provenance or to a stutter.      *)
(***************************************************************************)

Attested == {<<Owner[j.signer], j.payload.receipt_id>> : j \in signed}
Conclusions == [c \in Consumers |-> Conclusion(c)]

LEMMA InitImplements == Init => Abstract!Init
  <1> SUFFICES ASSUME Init PROVE Abstract!Init
    OBVIOUS
  <1>1. Works = {} /\ Attested = {}
    BY DEF Init, Works, Attested
  <1>2. Conclusions = [c \in Consumers |-> <<>>]
    BY DEF Init, Conclusions, Conclusion, Accepted, NoReport
  <1> QED BY <1>1, <1>2 DEF Abstract!Init, Attested, Conclusions

\* The recorded works are the composed payloads.
LEMMA RecordedIsComposed == Abstract!Recorded = {p.receipt_id : p \in composed}
  <1> DEFINE work(p) == [id |-> p.receipt_id, author |-> p.performer_id,
                         parent |-> p.parent_receipt_hash]
  <1>1. Works = {work(p) : p \in composed}
    BY DEF Works
  <1>2. \A p \in composed : work(p).id = p.receipt_id
    OBVIOUS
  <1> HIDE DEF work
  <1>3. {w.id : w \in Works} = {p.receipt_id : p \in composed}
    BY <1>1, <1>2
  <1> QED BY <1>3 DEF Abstract!Recorded

\* A step that makes no report changes no conclusion.
LEMMA ConclusionsKept ==
    ASSUME report' = report
    PROVE  Conclusions' = Conclusions
  BY DEF Conclusions, Conclusion, Accepted, Path

LEMMA ComposeImplements ==
    ASSUME IInv,
           NEW performer \in Performers, NEW ctx \in Contexts, NEW parent \in Claims,
           NEW claim \in ParentClaims, Compose(performer, ctx, parent, claim)
    PROVE  Abstract!Next
  <1>1. PICK id \in Digests :
          /\ age[id] = 0
          /\ parent \in {"null"} \cup ForeignHashes \cup {p.receipt_id : p \in composed}
          /\ composed' = composed \cup {ReceiptPayload(id, performer, ctx, parent, claim)}
          /\ UNCHANGED <<signed, report>>
    BY DEF Compose
  <1>2. \A p \in composed : p.receipt_id # id
    BY <1>1 DEF IInv, AgeOrder, TypeOK
  <1>3. Abstract!Recorded = {p.receipt_id : p \in composed}
    BY RecordedIsComposed
  <1>4. Works' = Works \cup {[id |-> id, author |-> performer, parent |-> parent]}
    <2> DEFINE new == ReceiptPayload(id, performer, ctx, parent, claim)
    <2>1. /\ new.receipt_id = id /\ new.performer_id = performer
          /\ new.parent_receipt_hash = parent
      BY DEF ReceiptPayload
    <2>2. composed' = composed \cup {new}
      BY <1>1
    <2> HIDE DEF new
    <2> QED BY <2>1, <2>2 DEF Works
  <1>5. Attested' = Attested /\ Conclusions' = Conclusions
    BY <1>1, ConclusionsKept DEF Attested
  <1>6. parent \in Abstract!Recorded \cup ForeignHashes \cup {"null"} /\ id \notin Abstract!Recorded
    BY <1>1, <1>2, <1>3
  <1>7. Abstract!Record(id, performer, parent)
    BY <1>4, <1>5, <1>6 DEF Abstract!Record, Attested, Conclusions
  <1> QED BY <1>6, <1>7 DEF Abstract!Next

LEMMA SignImplements ==
    ASSUME IInv, NEW payload \in composed, NEW kid \in Kids, NEW key \in Keys,
           Sign(payload, kid, key)
    PROVE  Abstract!Next
  <1>1. /\ signed' = signed \cup {Compact(payload, kid, key)}
        /\ UNCHANGED <<composed, report>>
    BY DEF Sign
  <1>2. payload.receipt_id \in Abstract!Recorded /\ payload.receipt_id \in Digests
    BY RecordedIsComposed DEF IInv, ComposedShape
  <1>3. Attested' = Attested \cup {<<Owner[key], payload.receipt_id>>}
    <2> DEFINE new == Compact(payload, kid, key)
    <2>1. new.signer = key /\ new.payload.receipt_id = payload.receipt_id
      BY DEF Compact
    <2>2. signed' = signed \cup {new}
      BY <1>1
    <2> HIDE DEF new
    <2> QED BY <2>1, <2>2 DEF Attested
  <1>4. Works' = Works /\ Conclusions' = Conclusions
    BY <1>1, ConclusionsKept DEF Works
  <1>5. Abstract!Attest(Owner[key], payload.receipt_id)
    BY <1>2, <1>3, <1>4 DEF Abstract!Attest, Attested, Conclusions
  <1>6. Owner[key] \in Performers
    BY LineageAssumption
  <1> QED BY <1>2, <1>5, <1>6 DEF Abstract!Next

\* An accepted path is a lineage of the record.
LEMMA AcceptedPathIsLineage ==
    ASSUME IInv, NEW n \in Nat, NEW path \in [1 .. n -> Circulating],
           NEW keys, Honest(keys), NEW policy, GoVerifyChain(path, keys, policy) = "ok"
    PROVE  /\ n # 0 /\ Ids(path) \in [1 .. n -> Digests]
           /\ Abstract!IsLineage(Ids(path))
  <1>1. TypeOK /\ ComposedShape /\ SignedShape
    BY DEF IInv
  <1>2. path \in Seq(JwsSet) /\ Len(path) = n /\ Hops(path) = 1 .. n
    BY <1>1, CirculatingShape, PathIsSequence DEF Hops
  <1>3. /\ n # 0
        /\ \A i \in 1 .. n : path[i].payload \in composed
        /\ path[n].payload.parent_receipt_hash = "null"
        /\ \A i \in Links(path) :
              path[i].payload.parent_receipt_hash = path[i + 1].payload.receipt_id
    BY <1>1, <1>2, AcceptedPathIsLinked
  <1>4. \A i \in 1 .. n :
           path[i] \in signed /\ Owner[path[i].signer] = path[i].payload.performer_id
    BY <1>1, <1>2, AcceptedPathIsAuthentic
  <1>5. Ids(path) \in [1 .. n -> Digests]
    BY <1>2, <1>3 DEF Ids, IInv, ComposedShape
  <1>6. Len(Ids(path)) = n /\ Ids(path) # <<>>
    BY <1>3, <1>5, PathIsSequence
  <1>7. ASSUME NEW i \in 1 .. n
        PROVE  \E w \in Works :
                  /\ w.id = Ids(path)[i] /\ <<w.author, w.id>> \in Attested
                  /\ i = n => w.parent = "null"
                  /\ i # n => w.parent = Ids(path)[i + 1]
    <2> DEFINE p == path[i].payload
               w == [id |-> p.receipt_id, author |-> p.performer_id,
                     parent |-> p.parent_receipt_hash]
    <2>1. w \in Works
      BY <1>3 DEF Works
    <2>2. w.id = Ids(path)[i]
      BY <1>2 DEF Ids
    <2>3. <<w.author, w.id>> \in Attested
      BY <1>4 DEF Attested
    <2>4. i = n => w.parent = "null"
      BY <1>3
    <2>5. ASSUME i # n PROVE w.parent = Ids(path)[i + 1]
      <3>1. i \in Links(path) /\ i + 1 \in 1 .. n
        BY <1>2, <2>5 DEF Links
      <3> QED BY <1>2, <1>3, <3>1 DEF Ids
    <2> QED BY <2>1, <2>2, <2>3, <2>4, <2>5
  <1> QED BY <1>3, <1>5, <1>6, <1>7 DEF Abstract!IsLineage, Attested

LEMMA CheckImplements ==
    ASSUME IInv, NEW c \in Consumers, NEW policy \in Expectations, NEW n \in 0 .. MaxPath,
           NEW path \in [1 .. n -> Circulating], Check(c, path, policy)
    PROVE  Abstract!Next
  <1>1. /\ report' = [report EXCEPT ![c] =
                        [path |-> path, policy |-> policy,
                         go |-> GoVerifyChain(path, view[c], policy),
                         ts |-> TsVerifyChain(path, view[c], policy)]]
        /\ UNCHANGED <<composed, signed>>
    BY DEF Check
  <1>2. DOMAIN report = Consumers /\ n \in Nat /\ Honest(view[c])
    BY LineageAssumption DEF IInv, TypeOK, HonestRegistries
  <1>3. Works' = Works /\ Attested' = Attested
    BY <1>1 DEF Works, Attested
  <1>4. \A d \in Consumers \ {c} : Conclusion(d)' = Conclusion(d)
    BY <1>1, <1>2 DEF Conclusion, Accepted, Path
  <1>5. Conclusion(c)' = IF GoVerifyChain(path, view[c], policy) = "ok" THEN Ids(path) ELSE <<>>
    BY <1>1, <1>2 DEF Conclusion, Accepted, Path
  <1>6. Conclusions' = [Conclusions EXCEPT ![c] = Conclusion(c)']
    BY <1>4 DEF Conclusions
  <1>7. CASE GoVerifyChain(path, view[c], policy) = "ok"
    <2>1. /\ n # 0 /\ Ids(path) \in [1 .. n -> Digests]
          /\ Abstract!IsLineage(Ids(path))
      BY <1>2, <1>7, AcceptedPathIsLineage
    <2>2. Abstract!Accept(c, Ids(path))
      BY <1>3, <1>5, <1>6, <1>7, <2>1 DEF Abstract!Accept, Attested, Conclusions
    <2>3. n \in 1 .. MaxPath
      BY <1>2, <2>1, LineageAssumption
    <2> QED BY <2>1, <2>2, <2>3 DEF Abstract!Next
  <1>8. CASE GoVerifyChain(path, view[c], policy) # "ok"
    <2>1. Abstract!Decline(c)
      BY <1>3, <1>5, <1>6, <1>8 DEF Abstract!Decline, Attested, Conclusions
    <2> QED BY <2>1 DEF Abstract!Next
  <1> QED BY <1>7, <1>8

\* A step that composes, signs and reports nothing maps to a stutter.
LEMMA Stutters ==
    ASSUME UNCHANGED <<composed, signed, report>>
    PROVE  UNCHANGED Abstract!vars
  <1>1. Works' = Works /\ Attested' = Attested /\ Conclusions' = Conclusions
    BY ConclusionsKept DEF Works, Attested
  <1> QED BY <1>1 DEF Abstract!vars, Attested, Conclusions

LEMMA StepImplements == IInv /\ [Next]_vars => [Abstract!Next]_(Abstract!vars)
  <1> SUFFICES ASSUME IInv, [Next]_vars PROVE Abstract!Next \/ UNCHANGED Abstract!vars
    OBVIOUS
  <1>1. CASE UNCHANGED vars
    BY <1>1, Stutters DEF vars
  <1>2. ASSUME NEW kid \in Kids, NEW key \in Keys, Publish(kid, key)
        PROVE  UNCHANGED Abstract!vars
    BY <1>2, Stutters DEF Publish
  <1>3. ASSUME NEW name \in DOMAIN registry, Revoke(name)
        PROVE  UNCHANGED Abstract!vars
    BY <1>3, Stutters DEF Revoke
  <1>4. ASSUME NEW c \in Consumers, Refresh(c)
        PROVE  UNCHANGED Abstract!vars
    BY <1>4, Stutters DEF Refresh
  <1>5. CASE Next
    BY <1>2, <1>3, <1>4, <1>5, ComposeImplements, SignImplements, CheckImplements DEF Next
  <1> QED BY <1>1, <1>5

\* The refinement: every behaviour of Lineage is one of Provenance.
THEOREM Refinement == Spec => ImplementsProvenance
  BY InitImplements, StepImplements, Invariance, PTL DEF Spec, ImplementsProvenance, Abstract!Spec
==============================================================================
