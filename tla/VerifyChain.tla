----------------------------- MODULE VerifyChain -----------------------------
(***************************************************************************)
(* The lineage-path verification algorithm (section 8 of the design) as    *)
(* `VerifyChain' of src/go/chain.go and `verifyChain' of                   *)
(* src/ts/src/commands/verify-chain.ts compute it.  The input is a path of *)
(* receipts from a leaf (first) to a root (last), a registry and a policy  *)
(* for the leaf; the first failing check, over the whole path, wins.       *)
(***************************************************************************)
EXTENDS VerifyReceipt, Naturals, Sequences

\* The caller's policy is about the leaf; every other hop has none.
HopPolicy(i, policy) == IF i = 1 THEN policy ELSE NoPolicy

\* Absent and explicitly null are the same to both implementations.
IsNullClaim(c) == c \in {"absent", "null"}

Payload(receipts, i) == receipts[i].payload
Hops(receipts) == 1 .. Len(receipts)        \* every hop
Links(receipts) == 1 .. Len(receipts) - 1   \* every hop that has a next one

\* Variants: the last hop may name a parent; a path without links is malformed.
ChainMalformed_NoRootCheck(receipts) ==
    \E i \in Links(receipts) : IsNullClaim(Payload(receipts, i).parent_receipt_hash)
ChainMalformed_NoSingleton(receipts) ==
    \/ Links(receipts) = {}
    \/ \E i \in Hops(receipts) :
          IsNullClaim(Payload(receipts, i).parent_receipt_hash) # (i = Len(receipts))

\* A hop that is not the last must name a parent, and the last must not.
ChainMalformed(receipts) ==
    \E i \in Hops(receipts) :
        IsNullClaim(Payload(receipts, i).parent_receipt_hash) # (i = Len(receipts))

(***************************************************************************)
(* src/go/chain.go                                                         *)
(***************************************************************************)
\* Variant: only the leaf is verified.
GoSomeReceiptInvalid_LeafOnly(receipts, keys, policy) ==
    GoVerify(receipts[1], keys, policy) # "ok"

GoSomeReceiptInvalid(receipts, keys, policy) ==
    \E i \in Hops(receipts) : GoVerify(receipts[i], keys, HopPolicy(i, policy)) # "ok"

\* Go hashes the transmitted payload bytes, which are the JCS form only when
\* the payload is canonical; TypeScript hashes the JCS form of what it parsed.
GoReceiptId(jws) ==
    IF PayloadCanonical(jws) THEN jws.payload.receipt_id ELSE "digestOfOtherBytes"

\* Variant: the loop starts one link late.
GoLinkMismatch_SkipsFirst(receipts) ==
    \E i \in Links(receipts) \ {1} :
        StringClaim(Payload(receipts, i).parent_receipt_hash) # GoReceiptId(receipts[i + 1])

GoLinkMismatch(receipts) ==
    \E i \in Links(receipts) :
        StringClaim(Payload(receipts, i).parent_receipt_hash) # GoReceiptId(receipts[i + 1])

GoHasCycle(receipts) ==
    \E i, j \in Hops(receipts) : i # j /\ GoReceiptId(receipts[i]) = GoReceiptId(receipts[j])

\* Variant: the claim is compared with the hop's own performer.
GoParentIdentityMismatch_OwnHop(receipts) ==
    \E i \in Links(receipts) :
        LET claimed == StringClaim(Payload(receipts, i).parent_performer_id)
        IN  claimed # "" /\ claimed # StringClaim(Payload(receipts, i).performer_id)

\* A claim that is present but reads as "" is taken as no constraint.
GoParentIdentityMismatch(receipts) ==
    \E i \in Links(receipts) :
        LET claimed == StringClaim(Payload(receipts, i).parent_performer_id)
        IN  /\ claimed # ""
            /\ claimed # StringClaim(Payload(receipts, i + 1).performer_id)

\* Variant: an invalid leaf's own reason is the reason for the path.
GoVerifyChain_LeafReason(receipts, keys, policy) ==
    IF Len(receipts) = 0 THEN "empty_chain"
    ELSE IF GoVerify(receipts[1], keys, policy) # "ok" THEN GoVerify(receipts[1], keys, policy)
    ELSE IF GoSomeReceiptInvalid(receipts, keys, policy) THEN "receipt_invalid"
    ELSE IF ChainMalformed(receipts) THEN "malformed_chain"
    ELSE IF GoLinkMismatch(receipts) THEN "link_mismatch"
    ELSE "ok"

GoVerifyChain(receipts, keys, policy) ==
    IF Len(receipts) = 0 THEN "empty_chain"
    ELSE IF GoSomeReceiptInvalid(receipts, keys, policy) THEN "receipt_invalid"
    ELSE IF ChainMalformed(receipts) THEN "malformed_chain"
    ELSE IF GoLinkMismatch(receipts) THEN "link_mismatch"
    ELSE IF GoParentIdentityMismatch(receipts) THEN "parent_identity_mismatch"
    ELSE IF GoHasCycle(receipts) THEN "cycle"
    ELSE "ok"

(***************************************************************************)
(* src/ts/src/commands/verify-chain.ts                                     *)
(***************************************************************************)
TsSomeReceiptInvalid(receipts, keys, policy) ==
    \E i \in Hops(receipts) : TsVerify(receipts[i], keys, HopPolicy(i, policy)) # "ok"

TsLinkMismatch(receipts) ==
    \E i \in Links(receipts) :
        Payload(receipts, i).parent_receipt_hash # Payload(receipts, i + 1).receipt_id

TsHasCycle(receipts) ==
    \E i, j \in Hops(receipts) :
        i # j /\ Payload(receipts, i).receipt_id = Payload(receipts, j).receipt_id

\* Variant: the same slip as above.
TsParentIdentityMismatch_OwnHop(receipts) ==
    \E i \in Links(receipts) :
        LET claimed == Payload(receipts, i).parent_performer_id
        IN  ~IsNullClaim(claimed) /\ claimed # Payload(receipts, i).performer_id

\* Every claim but null constrains, whatever its type.
TsParentIdentityMismatch(receipts) ==
    \E i \in Links(receipts) :
        LET claimed == Payload(receipts, i).parent_performer_id
        IN  /\ ~IsNullClaim(claimed)
            /\ claimed # Payload(receipts, i + 1).performer_id

TsVerifyChain(receipts, keys, policy) ==
    IF Len(receipts) = 0 THEN "empty_chain"
    ELSE IF TsSomeReceiptInvalid(receipts, keys, policy) THEN "receipt_invalid"
    ELSE IF ChainMalformed(receipts) THEN "malformed_chain"
    ELSE IF TsLinkMismatch(receipts) THEN "link_mismatch"
    ELSE IF TsParentIdentityMismatch(receipts) THEN "parent_identity_mismatch"
    ELSE IF TsHasCycle(receipts) THEN "cycle"
    ELSE "ok"

(***************************************************************************)
(* The inputs the two implementations read alike.                          *)
(***************************************************************************)

\* A parent_performer_id that is null, absent or a non-empty string.
PlainParentClaim(jws) == jws.payload.parent_performer_id \notin {"", "nonString"}
==============================================================================
