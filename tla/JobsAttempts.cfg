CONSTANTS
    b1 = b1
    b2 = b2
    b3 = b3
    w1 = w1
    w2 = w2
    NoJob = NoJob
    Bookings = {b1}
    Requesting = {b1}
    Workers = {w1}
    BatchSize = 1
    MaxAttempts = 5
    Faults = {"db"}
    MaxFaults = 1
SPECIFICATION Spec
CHECK_DEADLOCK FALSE
INVARIANTS AtMostMaxAttempts
