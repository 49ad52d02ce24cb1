CONSTANTS
    b1 = b1
    b2 = b2
    w1 = w1
    w2 = w2
    g1 = g1
    g2 = g2
    l1 = l1
    l2 = l2
    NoJob = NoJob
    None = None
    Bookings = {b1, b2}
    Requesting = {b1, b2}
    Workers = {w1, w2}
    BatchSize = 1
    MaxAttempts = 2
    Faults = {"db", "crash"}
    MaxFaults = 1
    Goroutines = {g1, g2}
    Links = {l1, l2}
    LinkOf <- MCLinkOf
    MaxRestarts = 1
SPECIFICATION LSpec
SYMMETRY Interchangeable
CHECK_DEADLOCK FALSE
INVARIANTS OneLinkPerBooking NoMapRace LocksGivenBack LInv
