SPECIFICATION ClockSpec
CONSTANTS
    Settings <- NewYear
    MaxTicks = 2
    FaceCells = 2
    BorderCells = 1
INVARIANT DateConsistent
