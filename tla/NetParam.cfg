SPECIFICATION TableSpec
CONSTANTS
    Items = {"mac", "dist", "mode", "tssi", "tssi_b"}
    Values = {1, 2}
    FlashSize = 96
    Sector = 96
    Saves = 5
    PowerFailures = 1
INVARIANTS PrefixSurvives
PROPERTY ImplementsParamStore
CHECK_DEADLOCK FALSE
