SPECIFICATION ConsoleSpec
CONSTANTS
    FRAMEBUFFER_HEIGHT = 6
    FRAMEBUFFER_WIDTH = 8
    Up = 2
    Down = 4
    Left = 1
    Right = 6
    WelcomeRow = 3
    WelcomeCol = 3
    PromptText <- OnePrompt
    ClearWord <- Clear
    Outputs <- Texts
    HighBytes <- ZeroStack
    CarefulTyping = FALSE
    CharKeys <- FewKeys
    Shifted <- WithShift
    CtrlKeys = {"ctrl"}
    ShiftKeys = {}
    MaxKeys = 7
INVARIANT LineShowsInput
