SPECIFICATION ConsoleSpec
CONSTANTS
    FRAMEBUFFER_HEIGHT = 6
    FRAMEBUFFER_WIDTH = 8
    Up = 2
    Down = 4
    Left = 1
    Right = 6
    WelcomeRow = 3
    WelcomeCol = 3
    PromptText <- OnePrompt
    ClearWord <- Clear
    Outputs <- Texts
    HighBytes <- ZeroStack
    CarefulTyping = TRUE
    CharKeys <- Keys
    Shifted <- WithShift
    CtrlKeys = {"ctrl"}
    ShiftKeys = {"lshift", "rshift"}
    MaxKeys = 5
INVARIANTS
    ConsoleTypeOK
    NoStuckModifier
    LineShowsInput
    WindowKept
PROPERTIES
    KeysInOrder
    ToggleFollowsKeys
    ErasingEnds
