CONSTANTS
    m1 = m1
    u1 = u1
    u2 = u2
    c1 = c1
    c2 = c2
    p1 = p1
    h1 = h1
    h2 = h2
    Anon = Anon
    Junk = Junk
    Nil = Nil
    Ids = {m1, u1, u2}
    Uuids = {u1, u2}
    Published = {m1, Anon, Junk}
    Subs = {}
    Copies = {c1, c2}
    Consumers = {p1}
    Slots = {h1, h2}
    Prefetch = 2
    MaxAttempts = 1
    BatchSize = 2
    MaxSends = 1
    MaxFaults = 1
SPECIFICATION Spec
SYMMETRY Symmetry
CHECK_DEADLOCK FALSE
INVARIANT NoSilentLoss
INVARIANT ExtraRowsNeedFaults
