CONSTANTS
    d1 = d1
    d2 = d2
    s1 = s1
    s2 = s2
    w1 = w1
    w2 = w2
    r1 = r1
    Nil = Nil
    Rows = {d1}
    Subs = {s1}
    Unsendable = {}
    Workers = {w1, w2}
    Requests = {r1}
    SubOf <- OneRow
    MaxAttempts = 3
    BatchLimit = 1
    MaxRetries = 1
    MaxFaults = 1
SPECIFICATION FairSpec
CHECK_DEADLOCK FALSE
INVARIANT AttemptBudget
INVARIANT AckBudget
PROPERTY Settles
PROPERTY ImplementsLedger
