SPECIFICATION FairSpec
CONSTANTS
    Slots = {boot, idle, a, b}
    Boot = boot
    Idle = idle
    NULL = NULL
    SLICE = 1
    MaxPid = 3
    Codes = {0}
    Builds <- TheShell
PROPERTIES
    WaitReturns
