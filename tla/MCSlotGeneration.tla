-------------------------- MODULE MCSlotGeneration --------------------------
(***************************************************************************)
(* Small instances of SlotGeneration.  Day 0 is a Sunday; the requests are *)
(* one for Sundays and Mondays with two slots up to the last minute of the *)
(* day, and some that are refused.                                         *)
(***************************************************************************)
EXTENDS SlotGeneration

CONSTANTS r1, r2, rLost, w1, w2

MCRequests == {[days |-> {1, 7}, start |-> 1379, end |-> 1439],
               [days |-> {2, 3}, start |-> 555, end |-> 585],
               [days |-> {7}, start |-> 600, end |-> 645],
               [days |-> {8}, start |-> 600, end |-> 660],
               [days |-> {}, start |-> 600, end |-> 660],
               [days |-> {1}, start |-> 660, end |-> 600]}
=============================================================================
