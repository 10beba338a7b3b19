CONSTANTS
    MaxExact = 4
    MaxFinite = 8
    ReceiptIdName <- ReceiptId
    Magnitudes <- MCMagnitudes
    LoneStrings = {"lone"}
    Written <- KeyWritten
    MemberNames <- KeyNames
    Published <- KeyPublished
    MaxMembers = 3
    MaxChanges = 2
SPECIFICATION Spec
INVARIANT KeysInCodePointOrder
CHECK_DEADLOCK FALSE
