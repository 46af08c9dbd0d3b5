CONSTANTS
    Proc <- TwoProcs
    NFD = 2
    Readers <- FirstChild
    Writers <- Parent
    Calls <- AllCalls
    BY2PIPE = 2
    PosMod = 4
    MaxBytes = 4
    MaxCount = 2
    Slice = 0
SPECIFICATION Spec
INVARIANTS
    TypeOK
    BytesInOrder
PROPERTIES
    ClosedIsTrue
