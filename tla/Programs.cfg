SPECIFICATION AlgorithmSpec
CONSTANTS
    NAME = 2
    EXT = 1
    Letters <- MCLetters
    Signs = {}
    SHELL_MAX_LINE = 7
    SHELL_MAX_ARGS = 2
    Commands <- MCCommands
    Directories <- MCDirectories
    PG = 4
    USER_ADDR_MIN = 4
    USER_ADDR_MAX = 31
    EHDR = 4
    Images <- AlignedImages
    LoadAddrs = {4, 12, 16, 3, 21}
    MaxCalls = 2
    PRINTF_BUF_SIZE = 5
    ArgCount = 2
    Formats <- MCFormats
    Strings <- MCStrings
    Ints <- MCInts
    W = 8
    ALIGN = 4
    HEAP_SIZE = 24
    Heap = 64
    Sizes = {0, 1, 4, 5, 8, 16, 24, 25}
    Counts = {0, 1, 3}
    Blocks = 6
CHECK_DEADLOCK FALSE
INVARIANTS
    LineUnderstood
    ImageFaithful
    TextPrinted
    BlocksDisjoint
