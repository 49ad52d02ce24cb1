CONSTANTS
    b1 = b1
    b2 = b2
    b3 = b3
    w1 = w1
    w2 = w2
    NoJob = NoJob
    Bookings = {b1, b2, b3}
    Requesting = {b1, b2}
    Workers = {w1, w2}
    BatchSize = 2
    MaxAttempts = 3
    Faults = {"db", "crash"}
    MaxFaults = 2
SPECIFICATION Spec
CHECK_DEADLOCK FALSE
SYMMETRY Replicas
INVARIANTS TypeOK StatusAgreesWithJob CancelledHasNoLink OneWorkerPerJob CallsWithinLimit JInv
PROPERTIES AttemptsNeverDecrease
