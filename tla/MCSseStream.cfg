CONSTANTS
    Chunks <- MCChunks
    MaxChunks <- MCMaxChunks
    OtherLines <- MCOtherLines
SPECIFICATION Spec
INVARIANTS TypeOK RecordingMatchesLive SseTwinsAgree ReframingInvariant ResultsReadBack
PROPERTY MessagesOnlyExtend
CHECK_DEADLOCK FALSE
