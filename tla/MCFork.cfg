CONSTANTS
    Env = {e1, e2, e3}
    First = e1
    NVA = 3
    UCOW = 0
    Library = {1}
    Stack = 2
    NPAGE = 4
    MaxForks = 2
    Val = {0, 1}
    Null = Null
    BY2PG = 3
    NIMAGE = 3
    SpawnPages = 9
    SpawnLibrary = {5, 6}
    Programs <- ProgramFiles
    None = None
SPECIFICATION MCSpec
INVARIANTS
    TypesOK
    CowIsolation
    PrivateMemory
    ChildIsComplete
    FaultsHandled
    RunsTheProgram
    NothingLeftBehind
SYMMETRY SlotSymmetry
CHECK_DEADLOCK FALSE
