CONSTANTS
    Proc <- TwoProcs
    NFD = 2
    Readers <- FirstChild
    Writers <- Parent
    Calls <- ByteCalls
    BY2PIPE = 2
    PosMod = 4
    MaxBytes = 2
    MaxCount = 3
    Slice = 0
SPECIFICATION Spec
PROPERTIES EofMeansDrained
