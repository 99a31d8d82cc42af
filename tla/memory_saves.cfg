CONSTANTS
    s1 = s1
    s2 = s2
    a = a
    b = b
    c = c
    Sessions = {s1, s2}
    Texts = {a, b, c}
    Nobody = Nobody
    Cap = 2
    Editing = FALSE
    SlowHolder = FALSE
    TwoBreakers = FALSE
    FailAt = {"lock", "read", "main", "bak"}
    DamageAt = {"main", "bak", "next"}
    Limits <- SessionLimits
SPECIFICATION EitherSpec
SYMMETRY Symmetric
INVARIANTS
    FailedSaveLeavesNothing
    OneNotePerFact
    OpenersFindWhatWasStored
PROPERTIES
    AnswersAreTrue
    ImplementsAtomicMemory
