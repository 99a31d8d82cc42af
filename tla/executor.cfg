SPECIFICATION FairSpec
CONSTANTS
    Tools <- ThreeTools
    Args = {a, b}
    NoTool = NoTool
    AnyArgs = AnyArgs
    Personal <- Shell_
    Outside <- Web
    Acting <- Shell_
    Asking <- Mcp
    External <- Out
    Writers <- Shell_
    Partial <- Shell_
    Limits <- SomeLimits
INVARIANTS TaintNeverForgotten NoRetryAfterChange
PROPERTIES DeniedStaysDenied ImplementsGuardedCalls OnlyTheAskedCallOutrunsStop CallEnds
CHECK_DEADLOCK FALSE
