CONSTANTS
    None = None
    Client = {c1}
    MAXFS = 2
    MAXOPEN = 2
    MAXFD = 3
    NENT = 1
    f = f
    g = g
    h = h
    Name = {f, g, h}
    Root <- Roots
    MaxSize = 1
    IdRange = 16
    MaxCalls = 3
SPECIFICATION Spec
INVARIANTS
    OpenFilesUsable
CHECK_DEADLOCK FALSE
