SPECIFICATION Spec
CONSTANTS
    Costs <- MCCosts
    DivPeriod = 4
    Selects <- MCSelects
    ResetSelect = "slow"
    Interval <- MCInterval
    TickTop = 16
    ByteMax = 3
    TimaStores <- MCStores
PROPERTIES
    OverflowAtTop
