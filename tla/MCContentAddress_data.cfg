CONSTANTS
    MaxExact = 4
    MaxFinite = 8
    ReceiptIdName <- ReceiptId
    Magnitudes <- MCMagnitudes
    LoneStrings = {"lone"}
    Written <- MCWritten
    MemberNames <- MCNames
    Published <- MCPublished
    MaxMembers = 3
    MaxChanges = 2
SPECIFICATION Spec
INVARIANTS TypeOK SameAddressIffSameData AddressingTwinsAgree CanonicalIsFixpoint CostKeptExactly
CHECK_DEADLOCK FALSE
