SPECIFICATION ConsoleSpec
CONSTANTS
    Modes <- SmallModes
    Colors = {0, 1}
    Black = 0
    W = 6
    FONT_WIDTH = 2
    FONT_HEIGHT = 2
    Glyphs = {"a", ">"}
    Blank = " "
    Font <- SmallFont
    Rects <- SmallRects
    Outputs <- Texts
    MaxLine = 4
    MaxRows = 4
    Prompt <- ThePrompt
CHECK_DEADLOCK FALSE
INVARIANTS
    InBounds
    Presented
PROPERTIES
    ImplementsPage
