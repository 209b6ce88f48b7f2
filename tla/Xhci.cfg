SPECIFICATION FairUsbSpec
CONSTANTS
    RING = 4
    Ports = 3
    Connected = {2}
    Scancode <- MCScancode
    Modifiers <- MCModifiers
    Reports <- MCReports
    MaxReports = 5
    MaxFaults = 2
CHECK_DEADLOCK FALSE
INVARIANTS
    Followed
PROPERTIES
    OwnAnswer
    Heard
