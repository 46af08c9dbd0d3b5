CONSTANTS
    None = None
    Client = {c1, c2}
    MAXFS = 2
    MAXOPEN = 2
    MAXFD = 3
    NENT = 2
    f = f
    g = g
    h = h
    Name = {f, g, h}
    Root <- Roots
    MaxSize = 1
    IdRange = 16
    MaxCalls = 3
SPECIFICATION FairSpec
INVARIANTS
    TypeOK
    DescriptorKeepsFile
    RightFile
PROPERTIES
    Answered
CHECK_DEADLOCK FALSE
