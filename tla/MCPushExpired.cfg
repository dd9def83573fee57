SPECIFICATION Spec
CONSTANTS
    i1 = i1
    i2 = i2
    a = a
    Installs = {i1, i2}
    Endpoints = {a}
    Events = {e1}
    Matchers = {m1, m2}
    Workers = {w1, w2}
    LeaseEvents <- TwoDevices
    MaxActive = 2
    MaxMatchAttempts = 2
    MaxAttempts = 2
    MaxFaults = 1
    None = None
INVARIANTS ExpiredLeaseIsHarmless
CHECK_DEADLOCK FALSE
