SPECIFICATION FairSpec
CONSTANTS
    Letters = {"a"}
    Signs = {"1"}
    UserKeys = {"a", "1", "lshift", "rshift", "caps", "ctrl", "backspace", "enter", "esc"}
    Injected = {"a", "1"}
    KBD_BUFFER_SIZE = 3
    MaxLine = 4
    MaxKeys = 3
    Port = 2
INVARIANTS
    ModifiersFollow
PROPERTIES
    ImplementsKeyQueue
    ReaderServed
