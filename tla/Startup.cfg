SPECIFICATION FairSpec
CONSTANTS
    m1 = m1
    m2 = m2
    Events = {m1, m2}
    Databases = {"old", "default"}
    MaxFaults = 3
CHECK_DEADLOCK FALSE
INVARIANTS
    TypeOK
    SchemaFirst
PROPERTIES
    RoutedOnceReady
    EventsAreStored
    StackComesUp
