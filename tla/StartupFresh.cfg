SPECIFICATION FairSpec
CONSTANTS
    m1 = m1
    m2 = m2
    Events = {m1, m2}
    Databases = {"none"}
    MaxFaults = 0
CHECK_DEADLOCK FALSE
PROPERTIES
    EventsAreStored
