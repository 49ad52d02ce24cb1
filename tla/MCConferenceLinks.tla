-------------------------- MODULE MCConferenceLinks --------------------------
(***************************************************************************)
(* Small instances of ConferenceLinks.                                     *)
(***************************************************************************)
EXTENDS ConferenceLinks, TLC

CONSTANTS b1, b2, w1, w2, g1, g2, l1, l2

\* The ids of the two bookings begin differently.
MCLinkOf == [b \in Bookings |-> IF b = b1 THEN l1 ELSE l2]

\* Workers are interchangeable, and so are goroutines.
Interchangeable == Permutations(Workers) \cup Permutations(Goroutines)
=============================================================================
