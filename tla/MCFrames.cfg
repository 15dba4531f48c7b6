SPECIFICATION Spec
CONSTANTS
    Costs <- MCCosts
    ScreenH = 3
    LyMax = 4
    OamTicks = 3
    VramTicks = 4
    HblankTicks = 4
    VblankTicks = 8
    ClockTop = 16
    StatStores <- MCStatStores
    LycStores = {0, 2}
INVARIANTS
    PresentedWhole
    ScanKeepsUp
PROPERTIES
    DrawnInOrder
    KeysAreDelivered
