SPECIFICATION Spec
CONSTANTS
    ENTRIES = 2
    Slots = {t1, t2, t3}
    Frames = {1, 2, 3, 4, 5, 6, 7, 8, 9, 10, 11, 12, 13, 14, 15, 16}
    KernelHalf <- MCKernelHalf
    Programs <- MCPrograms
    Stack <- MCStack
    Code <- MCCode
SYMMETRY Blocks
CHECK_DEADLOCK FALSE
INVARIANTS
    OneOwner
    ImageKept
    KernelMapped
