SPECIFICATION HeapSpec
CONSTANTS
    PAGE_SIZE = 6
    MemoryMaps <- Maps
    Counts = {0, 1, 2, 3}
    HEAP_ALIGN = 2
    BLOCK = 2
    ARENA = 1
    Asks = {0, 1, 3, 9}
CHECK_DEADLOCK FALSE
INVARIANTS
    FramesAccounted
    HeapIntact
PROPERTIES
    ImplementsFrameOwners
    ImplementsHeapOwners
