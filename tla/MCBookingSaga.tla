--------------------------- MODULE MCBookingSaga ---------------------------
(***************************************************************************)
(* Small instances of BookingSaga.  All create requests but the one of the *)
(* administrator compete for the same slot, the hard case; one booking     *)
(* more names a slot that is not in the table.                             *)
(***************************************************************************)
EXTENDS BookingSaga, TLC

CONSTANTS b1, b2, b3, bAdmin, bLost, c1, c2, s1, sLost, alice, root

MCSlotOf == [b \in Bookings |-> IF b = bLost THEN sLost ELSE s1]
MCUserOf == [b \in Bookings |-> IF b = bAdmin THEN root ELSE alice]

\* Requests for the same slot by the same user, and cancel handlers, are
\* interchangeable.
Interchangeable ==
    Permutations({b1, b2, b3} \cap Bookings) \cup Permutations(Cancels)
=============================================================================
