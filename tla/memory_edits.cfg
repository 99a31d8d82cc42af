CONSTANTS
    s1 = s1
    s2 = s2
    a = a
    b = b
    Sessions = {s1, s2}
    Texts = {a, b}
    Nobody = Nobody
    Cap = 2
    Editing = TRUE
    SlowHolder = FALSE
    TwoBreakers = FALSE
    FailAt = {"main"}
    DamageAt = {}
    Limits <- EditLimits
SPECIFICATION FairSpec
PROPERTIES
    UntouchedStays
    DeadLockIsBroken
