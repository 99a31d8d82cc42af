SPECIFICATION FairSpec
CONSTANTS
    LineCap = 3
    FileCap = 2
    MaxTurns = 3
    Calls = {"call"}
    Screens = {"terminal", "pipe"}
    Limits <- Sessions
INVARIANTS SavedIsContinued TranscriptIsHistory
PROPERTIES NothingStartsAfterStop TurnEnds
CHECK_DEADLOCK FALSE
