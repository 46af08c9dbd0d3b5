CONSTANTS
    Proc <- TwoProcs
    NFD = 2
    Readers <- FirstChild
    Writers <- Parent
    Calls <- ByteCalls
    BY2PIPE = 2
    PosMod = 4
    MaxBytes = 4
    MaxCount = 3
    Slice = 8
SPECIFICATION FairSpec
PROPERTIES
    CallsReturn
