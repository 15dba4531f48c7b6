SPECIFICATION Spec
CONSTANTS
    Begin <- MCBegin
    End <- MCEnd
    Total = 28
    DivPort = 19
    LyPort = 20
    DmaPort = 21
    WordMax = 6
    Page = 4
    SelectSpan = 4
    LowSpan = 2
    MaxBanks = 4
    Image <- MCImage
    Targets <- MCTargets
    Values = {1, 2}
    MaxStores = 2
PROPERTIES
    EveryBankSelectable
CHECK_DEADLOCK FALSE
