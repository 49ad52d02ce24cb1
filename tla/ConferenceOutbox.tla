-------------------------- MODULE ConferenceOutbox --------------------------
(***************************************************************************)
(* What the conference jobs promise, without workers, leases, attempts and *)
(* failures.  A booking that asks for a conference is owed an answer from  *)
(* the moment it is made, in the same step; the answer is given once, and  *)
(* shown unless the booking has been cancelled in the meantime.            *)
(***************************************************************************)

CONSTANTS Bookings,
          Requesting    \* the bookings that ask for a conference

VARIABLES status,       \* [Bookings -> {"absent", "active", "cancelled"}]
          owed,         \* [Bookings -> BOOLEAN]
          shown         \* [Bookings -> {"none", "waiting", "link", "failed"}]

ovars == <<status, owed, shown>>

OInit == /\ status = [b \in Bookings |-> "absent"]
         /\ owed = [b \in Bookings |-> FALSE]
         /\ shown = [b \in Bookings |-> "none"]

Book(b) ==
    /\ status[b] = "absent"
    /\ status' = [status EXCEPT ![b] = "active"]
    /\ IF b \in Requesting
       THEN /\ owed' = [owed EXCEPT ![b] = TRUE]
            /\ shown' = [shown EXCEPT ![b] = "waiting"]
       ELSE UNCHANGED <<owed, shown>>

\* What is owed stays owed, but it will not be shown.
CancelBooked(b) ==
    /\ status[b] # "absent"
    /\ status' = [status EXCEPT ![b] = "cancelled"]
    /\ shown' = [shown EXCEPT ![b] = "none"]
    /\ UNCHANGED owed

Decide(b, outcome) ==
    /\ owed[b]
    /\ owed' = [owed EXCEPT ![b] = FALSE]
    /\ shown' = [shown EXCEPT ![b] = IF status[b] = "active" THEN outcome ELSE @]
    /\ UNCHANGED status

ONext == \E b \in Bookings : \/ Book(b) \/ CancelBooked(b)
                             \/ Decide(b, "link") \/ Decide(b, "failed")

OSpec == OInit /\ [][ONext]_ovars
=============================================================================
