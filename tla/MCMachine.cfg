SPECIFICATION Spec
CONSTANTS
    Costs <- MCCosts
    ScreenH = 2
    LyMax = 2
    OamTicks = 2
    VramTicks = 2
    HblankTicks = 2
    VblankTicks = 2
    ClockTop = 8
    StatStores <- MCStatStores
    LycStores = {0}
    HaltSites <- MCHaltSites
    StopSites <- MCStopSites
    MaxNest = 1
    IeStores <- MCIeStores
    IfStores <- MCIfStores
    DivPeriod = 2
    Selects <- MCSelects
    ResetSelect = "slow"
    Interval <- MCInterval
    TickTop = 4
    ByteMax = 1
    TimaStores = {0}
    Buttons <- MCButtons
    Directions <- MCDirections
    JoypStores <- MCJoypStores
    Stores <- MCStores
    MaxEvents = 2
INVARIANTS
    PromptDispatch
PROPERTIES
    DeafForEver
    HaltWakes
