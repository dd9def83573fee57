SPECIFICATION FairSpec
CONSTANTS
    i1 = i1
    i2 = i2
    a = a
    Installs = {i1}
    Endpoints = {a}
    Events = {e1}
    Matchers = {m1}
    Workers = {w1}
    LeaseEvents <- OneDevice
    MaxActive = 1
    MaxMatchAttempts = 2
    MaxAttempts = 2
    MaxFaults = 2
    None = None
PROPERTIES JobsSettle WakesSettle
CHECK_DEADLOCK FALSE
