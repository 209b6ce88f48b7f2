SPECIFICATION CmdSpec
CONSTANTS
    FAT_ENTRY = 2
    DIRENT = 2
    EOC_MIN = 16
    MASK = 32
    Disks <- TestDisks
    FAT_MAX_OPEN = 2
    VFS_MAX_FD = 2
    W = 5
    Faults = 1
    Paths = {"a", "b", "e", "x"}
    Counts = {3, 8}
    Offsets = {8, 12}
    CAT_CAP = 9
INVARIANTS
    NothingLeaked
    ToldTheTruth
PROPERTIES
    ImplementsFiles
    Ends
