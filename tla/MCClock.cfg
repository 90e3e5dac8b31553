SPECIFICATION ClockSpec
CONSTANTS
    Settings <- MCSettings
    MaxTicks = 2
    FaceCells = 3
    BorderCells = 1
INVARIANTS
    ClockTypeOK
    ReadConsistent
    FaceSpared
PROPERTY FaceReturns
