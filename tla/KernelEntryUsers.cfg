SPECIFICATION Spec
CONSTANTS
    Junk = junk
    Task = {u1, u2, idle, boot}
    User = {u1, u2}
    Idle = idle
    Boot = boot
    SLICE = 2
    Values = {}
INVARIANTS
    OwnStack
    EntryInv
PROPERTIES
    Restored
