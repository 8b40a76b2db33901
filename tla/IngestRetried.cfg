CONSTANTS
    m1 = m1
    c1 = c1
    c2 = c2
    p1 = p1
    h1 = h1
    Anon = Anon
    Junk = Junk
    Nil = Nil
    Ids = {m1}
    Uuids = {}
    Published = {m1}
    Subs = {}
    Copies = {c1, c2}
    Consumers = {p1}
    Slots = {h1}
    Prefetch = 1
    MaxAttempts = 2
    BatchSize = 1
    MaxSends = 1
    MaxFaults = 0
SPECIFICATION FairSpec
CHECK_DEADLOCK FALSE
PROPERTY RetriedLater
