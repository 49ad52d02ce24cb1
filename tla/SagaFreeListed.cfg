CONSTANTS
    b1 = b1
    b2 = b2
    b3 = b3
    bAdmin = bAdmin
    bLost = bLost
    c1 = c1
    c2 = c2
    s1 = s1
    sLost = sLost
    alice = alice
    root = root
    NoBooking = NoBooking
    Bookings = {b1}
    Cancels = {c1}
    Slots = {s1, sLost}
    Existing = {s1}
    Users = {alice, root}
    Admins = {root}
    SlotOf <- MCSlotOf
    UserOf <- MCUserOf
    Faults = {"update"}
SPECIFICATION Spec
CHECK_DEADLOCK FALSE
INVARIANTS FreeSlotsAreUnbooked
