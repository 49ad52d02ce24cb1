CONSTANTS
    b1 = b1
    b2 = b2
    b3 = b3
    w1 = w1
    w2 = w2
    NoJob = NoJob
    Bookings = {b1, b2}
    Requesting = {b1, b2}
    Workers = {w1, w2}
    BatchSize = 1
    MaxAttempts = 2
    Faults = {"db", "crash", "stall"}
    MaxFaults = 1
SPECIFICATION LiveSpec
CHECK_DEADLOCK FALSE
PROPERTIES KeepsOutbox OutcomeIsFinal JobEnds
