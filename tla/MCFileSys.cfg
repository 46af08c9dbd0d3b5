CONSTANTS
    NBLK = 8
    NDIRECT = 2
    NINDIRECT = 4
    FILE2BLK = 1
    Name = {f, g}
    NoName = NoName
    Word = {0, 8}
    MaxSize = 5
    MaxDir = 2
    MaxOps = 7
    MaxRequests = 8
    NCLUS = 12
    K = 2
    BURST = 4
    ESEC = 6
    EPAGE = 12
    NDIR = 2
    MaxPages = 2
    Server <- TwoServers
    DiskOf <- OwnDisk
    Disk = {0, 1}
    NSECT = 2
    MaxSecs = 2
    Data = {0, 1}
    Blank = 0
    NBLOCK = 16
    BIT2BLK = 32
    Entries = 2
    MaxNames = 5
    MaxBlocks = 5
SPECIFICATION MCSpec
INVARIANTS
    TypeOK
    BlocksAccounted
    ContentsKept
    BitmapOnDisk
    FatFilesIntact
    TransfersTheSectors
    ImageIsAFileSystem
PROPERTIES
    CloseReachesDisk
    HangsOnEmptyOnly
    SerialWritesOnlyTheSector
SYMMETRY NameSymmetry
CHECK_DEADLOCK FALSE
