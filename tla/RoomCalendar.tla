---------------------------- MODULE RoomCalendar ----------------------------
(***************************************************************************)
(* What the generation of slots promises, without its requests, workers    *)
(* and runs.  The schedule of a room is published once; after that slots   *)
(* of the schedule are offered, in any order and never taken back, no      *)
(* further ahead than the horizon; and a day is vouched for only when      *)
(* every slot from today up to it is on offer.                             *)
(***************************************************************************)
EXTENDS Naturals

CONSTANTS Rooms,
          Schedules,   \* the schedules a room may have
          SlotsOf,     \* the slots <<day, time>> each schedule stands for
          Horizon,     \* how many days ahead slots are offered
          None

VARIABLES today,
          schedule,    \* [Rooms -> Schedules \cup {None}]
          slots,       \* the slots of each room that are on offer
          until        \* the day before which nothing is missing, or None

cvars == <<today, schedule, slots, until>>

CInit == /\ today = 0
         /\ schedule = [r \in Rooms |-> None]
         /\ slots = [r \in Rooms |-> {}]
         /\ until = [r \in Rooms |-> None]

Publish(r, s) ==
    /\ schedule[r] = None
    /\ schedule' = [schedule EXCEPT ![r] = s]
    /\ UNCHANGED <<today, slots, until>>

Offer(r, x) ==
    /\ x[1] < today + Horizon
    /\ slots' = [slots EXCEPT ![r] = @ \cup {x}]
    /\ UNCHANGED <<today, schedule, until>>

\* Every slot of the room from today up to day d is on offer.
Filled(r, d) ==
    \A x \in SlotsOf[schedule[r]] : today <= x[1] /\ x[1] < d => x \in slots[r]

Vouch(r, d) ==
    /\ schedule[r] # None
    /\ Filled(r, d)
    /\ until' = [until EXCEPT ![r] = d]
    /\ UNCHANGED <<today, schedule, slots>>

NextDate ==
    /\ today' = today + 1
    /\ UNCHANGED <<schedule, slots, until>>

CNext ==
    \/ \E r \in Rooms : \/ \E s \in Schedules : Publish(r, s)
                        \/ /\ schedule[r] # None
                           /\ \E x \in SlotsOf[schedule[r]] : Offer(r, x)
                        \/ \E d \in 0..(today + Horizon) : Vouch(r, d)
    \/ NextDate

CSpec == CInit /\ [][CNext]_cvars
=============================================================================
