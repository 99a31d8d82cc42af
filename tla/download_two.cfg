SPECIFICATION Spec
CONSTANTS
    a = a
    b = b
    i1 = i1
    i2 = i2
    i3 = i3
    i4 = i4
    p1 = p1
    p2 = p2
    None = None
    Procs = {p1, p2}
    Objects = {a, b}
    Inodes = {i1, i2, i3, i4}
    Callers = {"models"}
    Length <- TwoAndThree
    Plans <- OnePlan
    MaxFaults = 0
INVARIANT TargetIsComplete
