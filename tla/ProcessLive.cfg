SPECIFICATION FairSpec
CONSTANTS
    Slots = {boot, idle, a, b}
    Boot = boot
    Idle = idle
    NULL = NULL
    SLICE = 2
    MaxPid = 3
    Codes = {0}
    Builds <- OrderlyBuilds
PROPERTIES
    NoStarvation
    SleeperIsServed
