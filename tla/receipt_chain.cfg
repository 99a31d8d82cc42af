SPECIFICATION Spec
CONSTANTS
    p1 = p1
    p2 = p2
    Appenders = {p1, p2}
    Limits <- ChainLimits
SYMMETRY Symmetric
INVARIANTS ReceiptsAccountedFor NoFalseAlarm
PROPERTY SuccessorKept
CHECK_DEADLOCK FALSE
