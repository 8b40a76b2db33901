CONSTANTS
    d1 = d1
    d2 = d2
    s1 = s1
    s2 = s2
    w1 = w1
    Nil = Nil
    Rows = {d1}
    Subs = {s1}
    Unsendable = {s1}
    Workers = {w1}
    Requests = {}
    SubOf <- OneRow
    MaxAttempts = 2
    BatchLimit = 1
    MaxRetries = 0
    MaxFaults = 0
SPECIFICATION FairSpec
CHECK_DEADLOCK FALSE
PROPERTY DeadInTheEnd
