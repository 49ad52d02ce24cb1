-------------------------- MODULE SlotReservation --------------------------
(***************************************************************************)
(* What the booking saga promises, without its calls, transactions and     *)
(* handlers.  Every booking id holds its slot at most once: it is "fresh"  *)
(* while it may still take the slot, "held" while it has it, "spent" for   *)
(* ever after.  A booking is recorded only when it has had the slot and    *)
(* marked cancelled only when it has given the slot back.                  *)
(***************************************************************************)

CONSTANTS Bookings,     \* booking ids
          Slots,        \* slot ids
          SlotOf        \* the slot each booking id asks for

VARIABLES hold,         \* [Bookings -> {"fresh", "held", "spent"}]
          status        \* [Bookings -> {"absent", "active", "cancelled"}]

svars == <<hold, status>>

SInit == /\ hold = [b \in Bookings |-> "fresh"]
         /\ status = [b \in Bookings |-> "absent"]

Reserve(b) ==
    /\ hold[b] = "fresh"
    /\ \A o \in Bookings : SlotOf[o] = SlotOf[b] => hold[o] # "held"
    /\ hold' = [hold EXCEPT ![b] = "held"]
    /\ UNCHANGED status

GiveBack(b) ==
    /\ hold[b] = "held"
    /\ hold' = [hold EXCEPT ![b] = "spent"]
    /\ UNCHANGED status

\* The request ends without ever having had the slot.
GiveUp(b) ==
    /\ hold[b] = "fresh"
    /\ status[b] = "absent"
    /\ hold' = [hold EXCEPT ![b] = "spent"]
    /\ UNCHANGED status

Record(b) ==
    /\ hold[b] # "fresh"
    /\ status[b] = "absent"
    /\ \A o \in Bookings : SlotOf[o] = SlotOf[b] => status[o] # "active"
    /\ status' = [status EXCEPT ![b] = "active"]
    /\ UNCHANGED hold

Cancel(b) ==
    /\ hold[b] = "spent"
    /\ status[b] = "active"
    /\ status' = [status EXCEPT ![b] = "cancelled"]
    /\ UNCHANGED hold

SNext == \E b \in Bookings :
            Reserve(b) \/ GiveBack(b) \/ GiveUp(b) \/ Record(b) \/ Cancel(b)

SSpec == SInit /\ [][SNext]_svars
=============================================================================
