CONSTANTS
    d1 = d1
    d2 = d2
    s1 = s1
    s2 = s2
    w1 = w1
    w2 = w2
    r1 = r1
    Nil = Nil
    Rows = {d1, d2}
    Subs = {s1, s2}
    Unsendable = {s2}
    Workers = {w1, w2}
    Requests = {r1}
    SubOf <- TwoEndpoints
    MaxAttempts = 1
    BatchLimit = 2
    MaxRetries = 1
    MaxFaults = 1
SPECIFICATION Spec
SYMMETRY Symmetry
CHECK_DEADLOCK FALSE
INVARIANT TypeOK
INVARIANT ClaimDisjoint
INVARIANT ClaimStands
INVARIANT DuplicateNeedsLoss
PROPERTY FinalStands
PROPERTY OneLatePost
