SPECIFICATION Spec
CONSTANTS
    Limits <- SomeLimits
INVARIANT HistoryWhole
PROPERTIES AgentLinesKept OutcomeIsTrue ForkCarriesHistory
CHECK_DEADLOCK FALSE
