SPECIFICATION GrammarSpec
CONSTANTS
    Cases <- MCCases
    MaxSpaces = 2
    TextCeiling = 4
    ArrayCeiling = 2
    Slack = 1
    MaxFraction = 2
    MaxExponent = 1
    Growth = 2
    LargestInt = 20
    LowestInt <- MCLowestInt
    LargestFloat = 20
INVARIANTS MaskIsTheAutomaton CompleteIsValid
PROPERTY ArgumentsEnd
CHECK_DEADLOCK FALSE
