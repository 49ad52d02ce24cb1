CONSTANTS
    r1 = r1
    r2 = r2
    rLost = rLost
    w1 = w1
    w2 = w2
    None = None
    Rooms = {r1, rLost}
    Known = {r1}
    Workers = {w1, w2}
    Requests <- MCRequests
    Horizon = 2
    MaxDay = 2
    MaxFaults = 1
SPECIFICATION LiveSpec
CHECK_DEADLOCK FALSE
INVARIANTS CoveredUntil SlotsFitSchedule GInv
PROPERTIES HorizonFilled KeepsCalendar
