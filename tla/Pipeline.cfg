CONSTANTS
    m1 = m1
    s1 = s1
    c1 = c1
    c2 = c2
    p1 = p1
    h1 = h1
    w1 = w1
    Anon = Anon
    Junk = Junk
    Nil = Nil
    Ids = {m1}
    Uuids = {}
    Published = {m1}
    Subs = {s1}
    Copies = {c1, c2}
    Consumers = {p1}
    Slots = {h1}
    Prefetch = 1
    MaxAttempts = 1
    BatchSize = 1
    MaxSends = 1
    MaxFaults = 1
    Unsendable = {}
    Workers = {w1}
    Requests = {}
    MaxDeliveryAttempts = 2
    BatchLimit = 1
    MaxRetries = 0
    MaxDeliveryFaults = 0
SPECIFICATION FairPipelineSpec
CHECK_DEADLOCK FALSE
INVARIANT PipelineTypeOK
INVARIANT AbsorbsDuplicates
INVARIANT OneOutdatedPost
INVARIANT NothingFallsBetween
PROPERTY ImplementsDelivery
PROPERTY ReachesEveryone
