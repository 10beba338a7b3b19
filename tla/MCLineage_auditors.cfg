CONSTANTS
    p1 = p1  p2 = p2  kid1 = kid1  kid2 = kid2  k1 = k1  k2 = k2  k3 = k3
    d1 = d1  d2 = d2  d3 = d3  dangling = dangling  ctxA = ctxA  ctxB = ctxB  proto = proto
    Texts <- MCTexts
    Digests = {d1, d2}
    InheritedNames = {proto}
    Keys = {k1}
    KeyAlg <- MCKeyAlg
    Performers = {p1}
    Kids = {kid1}
    Owner <- MCOwner
    Consumers = {c1, c2}
    Contexts <- OneContext
    ParentClaims = {"null"}
    ForeignHashes = {dangling}
    Expectations <- NoPolicyOnly
    CopiesAlter = TRUE
    MaxPath = 2
    MaxSigned = 2
SPECIFICATION Spec
INVARIANTS OneLineagePerLeaf
SYMMETRY DigestSymmetry
