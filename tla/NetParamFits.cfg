SPECIFICATION TableSpec
CONSTANTS
    Items = {"mac", "dist", "mode"}
    Values = {1}
    FlashSize = 128
    Sector = 96
    Saves = 9
    PowerFailures = 1
INVARIANT TableFits
CHECK_DEADLOCK FALSE
