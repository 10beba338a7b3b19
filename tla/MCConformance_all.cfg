CONSTANTS
    p1 = p1  p2 = p2  kid1 = kid1  kid2 = kid2  k1 = k1  k2 = k2  k3 = k3
    d1 = d1  d2 = d2  ctxA = ctxA  ctxB = ctxB  proto = proto
    Texts <- MCTexts
    Digests = {d1, d2}
    InheritedNames = {proto}
    Keys = {k1, k2, k3}
    KeyAlg <- MCKeyAlg
    MaxExact = 4
    MaxFinite = 8
    ReceiptIdName <- Name2
    Magnitudes <- MCMagnitudes
    LoneStrings = {"lone"}
    Suites <- AllSuites
    MaySpawnFail = TRUE
SPECIFICATION Spec
INVARIANTS TypeOK CleanExitMeansConformant RedExitIsJustified PlainVectorsAgree
PROPERTY HarnessTerminates
CHECK_DEADLOCK FALSE
