SPECIFICATION Spec
CONSTANTS
    Count = 3
    MaxPerLine = 2
    Width = 2
    ScreenW = 4
    ScreenH = 3
    ByteSpan = 16
    Xs = {1, 2, 3}
    Ys = {3, 4, 5}
    Looks <- MCLooks
    Clear <- MCClear
    Lines = {0, 2}
    MapWidth = 3
    Codes = 8
    Maps <- MCMaps
    Screens <- MCScreens
INVARIANTS
    SmallerXAbove
CHECK_DEADLOCK FALSE
