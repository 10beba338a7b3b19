CONSTANTS
    Chunks <- MCChunks
    MaxChunks <- MCMaxChunks
    OtherLines <- MCOtherLines
SPECIFICATION Spec
INVARIANT EmptyTrailingMessageDropped
CHECK_DEADLOCK FALSE
