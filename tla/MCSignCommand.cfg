CONSTANTS
    p1 = p1  kid1 = kid1  ctxA = ctxA  d1 = d1  k1 = k1
    Texts <- MCTexts
    Digests = {d1}
    InheritedNames = {}
    Keys = {k1}
    KeyAlg <- MCKeyAlg
    Inputs <- MCInputs
SPECIFICATION Spec
INVARIANTS SignTwinsAgreeOnSchema SignedAsGiven SignedReceiptVerifies
CHECK_DEADLOCK FALSE
