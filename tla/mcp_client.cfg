SPECIFICATION FairSpec
CONSTANTS
    Calls = {c1, c2}
    NoCall = NoCall
    Choices <- AllChoices
    MaxPages = 2
    MaxRounds = 2
    Deadline = 2
    MaxLoads = 2
INVARIANT CarriedOutOnce
PROPERTIES CallReturns
CHECK_DEADLOCK FALSE
