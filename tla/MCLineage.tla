------------------------------ MODULE MCLineage ------------------------------
(* Instances of Lineage for TLC. *)
EXTENDS Lineage, TLC

CONSTANTS p1, p2, kid1, kid2, k1, k2, k3, d1, d2, d3, dangling, ctxA, ctxB, proto

MCTexts == {p1, p2, kid1, kid2, d1, d2, d3, dangling, ctxA, ctxB, proto, "none", "EdDSA", "ES256"}
MCKeyAlg == [k \in Keys |-> "EdDSA"]

\* p1 holds two keys, so that it can rotate; p2 holds one.
MCOwner == [k \in Keys |-> IF k = k2 THEN p2 ELSE p1]

DigestSymmetry == Permutations(Digests)

OneContext   == {[binding |-> ctxA, method |-> ctxA]}
TwoContexts  == OneContext \cup {[binding |-> ctxB, method |-> ctxA]}
NoPolicyOnly == {NoPolicy}
LeafPolicies == {NoPolicy, [expected_binding |-> ctxA, expected_method |-> "absent"]}
==============================================================================
