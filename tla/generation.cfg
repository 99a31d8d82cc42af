SPECIFICATION Spec
CONSTANTS
    Setups <- MCSetups
    IdChars <- MCIdChars
    MaxSpaces = 4
    TextCeiling = 10
    ArrayCeiling = 9
    Slack = 8
    MaxFraction = 0
    MaxExponent = 1
    Growth = 2
    LargestInt = 9
    LowestInt <- MCLowestInt
    LargestFloat = 9
    ToolCallCap = 7
    LoopLength = 2
    LoopThreshold = 3
    InCallThreshold = 2
    InValueThreshold = 3
INVARIANTS NeverRejected ToldAsWritten LexerAgrees CallsAreWritten
CHECK_DEADLOCK FALSE
