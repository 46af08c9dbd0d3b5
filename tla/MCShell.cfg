CONSTANTS
    NENV = 6
    NPIPE = 2
    NFD = 4
    MAXARGS = 1
    BY2PIPE = 1
    MaxBytes = 2
    MaxTokens = 5
    MaxLines = 1
    Junk <- JunkCases
    FailTokens = 2
    FailPipes = 0
SPECIFICATION FairSpec
INVARIANTS
    StreamsConnected
    PromptWhenDone
PROPERTIES
    LineEnds
CHECK_DEADLOCK FALSE
