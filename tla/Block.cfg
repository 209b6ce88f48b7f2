SPECIFICATION Spec
CONSTANTS
    Kinds = {"ata", "nolba", "atapi", "none"}
    BYTE = 2
    NIBBLE = 2
    COUNTS = 4
    Lbas = {0, 5, 10, 16}
    Counts = {0, 1, 2, 4, 5}
    Faults = 2
    Late = FALSE
INVARIANTS
    Faithful
    NothingPending
