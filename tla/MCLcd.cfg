SPECIFICATION LcdSpec
CONSTANTS
    Costs <- MCCosts
    ScreenH = 3
    LyMax = 5
    OamTicks = 3
    VramTicks = 4
    HblankTicks = 5
    VblankTicks = 9
    ClockTop = 16
    StatStores <- MCStatStores
    LycStores <- MCLycStores
INVARIANTS
    ModeLine
    NoModeOverstays
PROPERTIES
    RasterImplemented
    VblankRecurs
