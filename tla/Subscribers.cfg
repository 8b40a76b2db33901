SPECIFICATION Spec
CONSTANTS
    r1 = r1
    r2 = r2
    r3 = r3
    s1 = s1
    s2 = s2
    e1 = e1
    e2 = e2
    Nil = Nil
    NotFound = NotFound
    Subs = {s1, s2}
    Endpoints = {e1, e2}
    Keys = {k1}
    Bodies <- SmallBodies
    Requests = {r1, r2, r3}
    MaxCalls = 3
    MaxFaults = 1
SYMMETRY SubscribersSymmetry
CHECK_DEADLOCK FALSE
INVARIANTS
    TypeOK
    AnswerMatches
PROPERTIES
    ImplementsLedger
    ColumnsKept
    AppliedOnce
