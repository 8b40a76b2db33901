CONSTANTS
    m1 = m1
    s1 = s1
    c1 = c1
    c2 = c2
    p1 = p1
    p2 = p2
    h1 = h1
    Anon = Anon
    Junk = Junk
    Nil = Nil
    Ids = {m1}
    Uuids = {}
    Published = {m1}
    Subs = {s1}
    Copies = {c1, c2}
    Consumers = {p1, p2}
    Slots = {h1}
    Prefetch = 1
    MaxAttempts = 2
    BatchSize = 1
    MaxSends = 2
    MaxFaults = 2
SPECIFICATION Spec
SYMMETRY Symmetry
CHECK_DEADLOCK FALSE
INVARIANT TypeOK
INVARIANT OneOwner
INVARIANT NoSilentLoss
INVARIANT CountIsEarned
INVARIANT AbandonedAfterCap
INVARIANT FatalIsFinal
PROPERTY OrphanForever
PROPERTY ImplementsLedger
