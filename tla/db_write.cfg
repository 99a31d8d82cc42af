CONSTANTS
    s1 = s1
    s2 = s2
    Sessions = {s1, s2}
    App = App
    Limits <- SomeLimits
SPECIFICATION DbSpec
SYMMETRY Symmetric
PROPERTIES OutcomeIsTrue MeasuredIsTheDatabase UndoIsThere
CHECK_DEADLOCK FALSE
