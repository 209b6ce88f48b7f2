SPECIFICATION Spec
CONSTANTS
    Slots = {boot, idle, a, b, c}
    Boot = boot
    Idle = idle
    NULL = NULL
    SLICE = 1
    MaxPid = 4
    Codes = {0, 7}
    Builds <- AllBuilds
SYMMETRY Blocks
INVARIANTS
    TypeOK
    OrderlyQueue
    OrderlyInv
    CpuOwner
    ChildrenList
    NoDangling
    StatusDelivered
PROPERTIES
    DeadStaysDead
    ImplementsTaskStates
