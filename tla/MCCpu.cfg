SPECIFICATION Spec
CONSTANTS
    Rom <- MCRom
    Operands <- MCOperands
    Decimals <- MCDecimals
    Few <- MCFew
    Corners <- MCCorners
    MaxInterrupts = 1
INVARIANTS
    DecodingIsExact
    AdditionIsWide
    SubtractionIsWide
    DecimalsAddAndSubtract
    ShiftsAreWide
    CarrySurvivesCounting
    BitsCombine
    StackKeepsValues
    CopyIsComplete
    InstructionsStayAligned
PROPERTIES
    RoutinesEnd
    InterruptsAreTransparent
CHECK_DEADLOCK FALSE
