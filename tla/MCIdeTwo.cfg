CONSTANTS
    Server <- TwoServers
    DiskOf <- OwnDisk
    Disk = {0, 1}
    NSECT = 2
    MaxSecs = 2
    Data <- MCData
    Blank = 0
SPECIFICATION IdeSpec
PROPERTIES WritesOnlyTheSector
CHECK_DEADLOCK FALSE
