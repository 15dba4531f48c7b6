SPECIFICATION Spec
CONSTANTS
    Costs <- MCCosts
    DivPeriod = 4
    Selects <- MCSelects
    ResetSelect = "slow"
    Interval <- MCInterval
    TickTop = 16
    ByteMax = 3
    TimaStores <- MCStores
INVARIANTS
    TimaOnTime
PROPERTIES
    DivOnTime
    TimerKeepsFiring
