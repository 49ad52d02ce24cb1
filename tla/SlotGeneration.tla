--------------------------- MODULE SlotGeneration ---------------------------
(***************************************************************************)
(* Schedules and the generation of slots in availability-service: the      *)
(* request that creates the schedule of a room and generates its first     *)
(* slots, and the hourly worker, in every replica, that extends the slots  *)
(* of all rooms.                                                           *)
(*                                                                         *)
(* Nothing here is in a transaction: one action is one statement, and the  *)
(* date changes between any two of them.  Days are numbered from a Sunday, *)
(* times are minutes of a day.                                             *)
(***************************************************************************)
EXTENDS Integers, FiniteSets

CONSTANTS
    Rooms,
    Known,       \* the rooms room-service knows
    Workers,     \* replicas of the service, each with one worker
    Requests,    \* bodies of schedule requests: [days, start, end]
    Horizon,     \* SlotGenerationDays
    MaxDay,      \* the last day that is reached
    MaxFaults,   \* how many statements fail or processes stop
    None

\* The times of a day.
Minutes == 0..1439

ASSUME GenerationAssumption ==
    /\ Known \subseteq Rooms
    /\ Rooms \cap Workers = {}
    /\ Requests \subseteq [days : SUBSET (0..8), start : Minutes, end : Minutes]
    /\ Horizon \in Nat \ {0}
    /\ MaxDay \in Nat
    /\ MaxFaults \in Nat
    /\ None \notin Requests \cup Int
    /\ None \notin [room : Rooms, day : Nat, at : Nat, until : Nat]

\* A room's create request that got past the unique key, and the workers.
Procs == Rooms \cup Workers

VARIABLES
    today,      \* the present date
    schedule,   \* schedules, by room_id
    slots,      \* the days and start times of each room's slots
    until,      \* slot_generation_state.generated_until
    pc,         \* what each process does next
    queue,      \* the rooms a worker has still to look at
    now,        \* the date a worker took for today, 0 while it rests
    gen,        \* its run of GenerateSlots: the next slot to insert
    faults      \* failures so far

vars == <<today, schedule, slots, until, pc, queue, now, gen, faults>>

Days == 0..(MaxDay + Horizon)

Run == [room : Rooms, day : Days, at : Minutes, until : Days]

TypeOK ==
    /\ today \in 0..MaxDay
    /\ schedule \in [Rooms -> Requests \cup {None}]
    /\ slots \in [Rooms -> SUBSET (Days \X Minutes)]
    /\ until \in [Rooms -> Days \cup {None}]
    /\ pc \in [Procs -> {"idle", "clock", "next", "insert"}]
    /\ queue \in [Procs -> SUBSET Rooms]
    /\ now \in [Procs -> 0..MaxDay]
    /\ gen \in [Procs -> Run \cup {None}]
    /\ \A p \in Procs : pc[p] = "insert" <=> gen[p] # None
    /\ faults \in 0..MaxFaults

Init ==
    /\ today = 0
    /\ schedule = [r \in Rooms |-> None]
    /\ slots = [r \in Rooms |-> {}]
    /\ until = [r \in Rooms |-> None]
    /\ pc = [p \in Procs |-> "idle"]
    /\ queue = [p \in Procs |-> {}]
    /\ now = [p \in Procs |-> 0]
    /\ gen = [p \in Procs |-> None]
    /\ faults = 0

-----------------------------------------------------------------------------
(* the request *)

\* Mutation: the length of the day is not checked.
ValidUndivided(s) == s.days # {} /\ s.days \subseteq 1..7 /\ s.start < s.end

\* The checks of CreateSchedule: ISO days of the week, whole half hours.
Valid(s) == /\ s.days # {} /\ s.days \subseteq 1..7
            /\ s.start < s.end
            /\ (s.end - s.start) % 30 = 0

\* checkRoomExists asks room-service.
RoomExists(r) == r \in Known

\* INSERT INTO schedules: a room has one schedule, for ever.
InsertSchedule(r, s) ==
    /\ schedule[r] = None
    /\ schedule' = [schedule EXCEPT ![r] = s]

\* The request up to its INSERT; one that is refused changes nothing.
CreateSchedule(r, s) ==
    /\ RoomExists(r) /\ Valid(s)
    /\ InsertSchedule(r, s)
    /\ pc' = [pc EXCEPT ![r] = "clock"]
    /\ UNCHANGED <<today, slots, until, queue, now, gen, faults>>

\* ExtendSlots: GetAllSchedules.
ExtendSlots(w) ==
    /\ pc[w] = "idle"
    /\ pc' = [pc EXCEPT ![w] = "clock"]
    /\ queue' = [queue EXCEPT ![w] = {r \in Rooms : schedule[r] # None}]
    /\ UNCHANGED <<today, schedule, slots, until, now, gen, faults>>

\* GenerateSlots(schedule, from, target) from its first slot.
Starting(r, from, target) ==
    [room |-> r, day |-> from, at |-> schedule[r].start, until |-> target]

\* time.Now(): the request goes on to generate from today.
ReadClock(p) ==
    /\ pc[p] = "clock"
    /\ IF p \in Rooms
       THEN /\ pc' = [pc EXCEPT ![p] = "insert"]
            /\ gen' = [gen EXCEPT ![p] = Starting(p, today, today + Horizon)]
            /\ UNCHANGED now
       ELSE /\ pc' = [pc EXCEPT ![p] = "next"]
            /\ now' = [now EXCEPT ![p] = today]
            /\ UNCHANGED gen
    /\ UNCHANGED <<today, schedule, slots, until, queue, faults>>

-----------------------------------------------------------------------------
(* the worker *)

\* Where the worker goes on for room r: after what is generated, if that is
\* later than today.
From(w, r) == IF until[r] # None /\ until[r] > now[w] THEN until[r] ELSE now[w]

\* GetGenerationState of the next room, in no given order.
LoadState(w) ==
    /\ pc[w] = "next"
    /\ \E r \in queue[w] :
          /\ queue' = [queue EXCEPT ![w] = @ \ {r}]
          /\ IF From(w, r) < now[w] + Horizon
             THEN /\ pc' = [pc EXCEPT ![w] = "insert"]
                  /\ gen' = [gen EXCEPT ![w] =
                                Starting(r, From(w, r), now[w] + Horizon)]
             ELSE UNCHANGED <<pc, gen>>
    /\ UNCHANGED <<today, schedule, slots, until, now, faults>>

\* Its error is kept for the log, and the worker goes on with the other rooms.
LoadStateFails(w) ==
    /\ faults < MaxFaults
    /\ pc[w] = "next"
    /\ \E r \in queue[w] : queue' = [queue EXCEPT ![w] = @ \ {r}]
    /\ faults' = faults + 1
    /\ UNCHANGED <<today, schedule, slots, until, pc, now, gen>>

\* All rooms are done; the worker waits for its next tick.
Rest(w) ==
    /\ pc[w] = "next" /\ queue[w] = {}
    /\ pc' = [pc EXCEPT ![w] = "idle"]
    /\ now' = [now EXCEPT ![w] = 0]
    /\ UNCHANGED <<today, schedule, slots, until, queue, gen, faults>>

-----------------------------------------------------------------------------
(* GenerateSlots *)

\* Go's time.Weekday: Sunday is 0.
Weekday(d) == d % 7

\* Mutation: ISO days are taken for Go's.
OpenIso(s, d) == Weekday(d) \in s.days

\* daysSet: ISO day 7 becomes Go's Sunday.
Open(s, d) == Weekday(d) \in {x % 7 : x \in s.days}

\* Mutation: the slot that starts at the end of the day is generated too.
BeforeOrAt(m, end) == m <= end

Before(m, end) == m < end

\* The run p has a slot to insert.
AtSlot(p) == /\ gen[p].day < gen[p].until
             /\ Open(schedule[gen[p].room], gen[p].day)
             /\ Before(gen[p].at, schedule[gen[p].room].end)

\* INSERT ... ON CONFLICT (room_id, start_at) DO NOTHING.
Inserted(p) == [slots EXCEPT ![gen[p].room] = @ \cup {<<gen[p].day, gen[p].at>>}]

InsertSlot(p) ==
    /\ pc[p] = "insert" /\ AtSlot(p)
    /\ slots' = Inserted(p)
    /\ gen' = [gen EXCEPT ![p].at = @ + 30]
    /\ UNCHANGED <<today, schedule, until, pc, queue, now, faults>>

\* The day is full, or the room is closed on it.
NextDay(p) ==
    /\ pc[p] = "insert" /\ ~AtSlot(p)
    /\ gen[p].day < gen[p].until
    /\ gen' = [gen EXCEPT ![p].day = @ + 1,
                          ![p].at = schedule[gen[p].room].start]
    /\ UNCHANGED <<today, schedule, slots, until, pc, queue, now, faults>>

\* The run of p is over: the request is answered, the worker looks at the next
\* room.
RunEnds(p) == /\ pc' = [pc EXCEPT ![p] = IF p \in Rooms THEN "idle" ELSE "next"]
              /\ gen' = [gen EXCEPT ![p] = None]

\* UpsertGenerationState, once every slot is inserted.
SaveState(p) ==
    /\ pc[p] = "insert" /\ gen[p].day >= gen[p].until
    /\ until' = [until EXCEPT ![gen[p].room] = gen[p].until]
    /\ RunEnds(p)
    /\ UNCHANGED <<today, schedule, slots, queue, now, faults>>

\* Mutation: a run that failed is recorded like one that did not.
FailsUnnoticed(p) ==
    /\ faults < MaxFaults
    /\ pc[p] = "insert"
    /\ until' = [until EXCEPT ![gen[p].room] = gen[p].until]
    /\ RunEnds(p)
    /\ faults' = faults + 1
    /\ UNCHANGED <<today, schedule, slots, queue, now>>

\* A statement of the run fails, whether or not it took effect: the slots
\* inserted so far remain and generated_until is left alone.
GenerationFails(p) ==
    /\ faults < MaxFaults
    /\ pc[p] = "insert"
    /\ \/ UNCHANGED slots
       \/ AtSlot(p) /\ slots' = Inserted(p)
    /\ RunEnds(p)
    /\ faults' = faults + 1
    /\ UNCHANGED <<today, schedule, until, queue, now>>

-----------------------------------------------------------------------------
(* processes and time *)

\* The process stops, or GetAllSchedules fails: nothing is remembered.
Stops(p) ==
    /\ faults < MaxFaults
    /\ pc[p] # "idle"
    /\ pc' = [pc EXCEPT ![p] = "idle"]
    /\ queue' = [queue EXCEPT ![p] = {}]
    /\ now' = [now EXCEPT ![p] = 0]
    /\ gen' = [gen EXCEPT ![p] = None]
    /\ faults' = faults + 1
    /\ UNCHANGED <<today, schedule, slots, until>>

Midnight ==
    /\ today < MaxDay
    /\ today' = today + 1
    /\ UNCHANGED <<schedule, slots, until, pc, queue, now, gen, faults>>

-----------------------------------------------------------------------------
WorkerStep(w) == ExtendSlots(w) \/ LoadState(w) \/ Rest(w)
RunStep(p) == ReadClock(p) \/ InsertSlot(p) \/ NextDay(p) \/ SaveState(p)

Next ==
    \/ \E r \in Rooms, s \in Requests : CreateSchedule(r, s)
    \/ \E w \in Workers : WorkerStep(w) \/ LoadStateFails(w)
    \/ \E p \in Procs : RunStep(p) \/ GenerationFails(p) \/ Stops(p)
    \/ Midnight

Spec == Init /\ [][Next]_vars

\* The worker runs when its process starts and every hour; statements return.
\* No request need come and no day need end.
Fairness ==
    /\ \A w \in Workers : WF_vars(WorkerStep(w))
    /\ \A p \in Procs : WF_vars(RunStep(p))

LiveSpec == Spec /\ Fairness

-----------------------------------------------------------------------------
(* Safety *)

\* The start times of a day: from start to end, every half hour.
Grid(s) == {m \in s.start..(s.end - 1) : (m - s.start) % 30 = 0}

\* ISO 8601: Monday is 1, Sunday is 7.
IsoDay(d) == IF d % 7 = 0 THEN 7 ELSE d % 7

DayDone(r, d) ==
    schedule[r] # None /\ IsoDay(d) \in schedule[r].days =>
        \A m \in Grid(schedule[r]) : <<d, m>> \in slots[r]

\* From today on there is every slot up to generated_until: no interleaving of
\* request and workers, no partial failure and no change of the date while a
\* run is under way records slots that do not exist, which would never be
\* generated.
CoveredUntil ==
    \A r \in Rooms : until[r] # None =>
        \A d \in Days : today <= d /\ d < until[r] => DayDone(r, d)

\* Every slot is on a day and at a time of its room's schedule, ends by the end
\* of that day and is no further ahead than the horizon; so different slots of
\* a room never overlap.  (Two inserts of the same slot at once may still meet
\* in the exclusion constraint, which is not the arbiter of ON CONFLICT: one of
\* them then fails, as GenerationFails says.)
SlotsFitSchedule ==
    \A r \in Rooms : \A x \in slots[r] :
        /\ schedule[r] # None
        /\ IsoDay(x[1]) \in schedule[r].days
        /\ x[2] \in Grid(schedule[r]) /\ x[2] + 30 <= schedule[r].end
        /\ x[1] < today + Horizon

-----------------------------------------------------------------------------
(* The inductive invariant behind the safety properties *)

\* Schedules passed their checks; without one there are no slots.
SchedulesValid ==
    /\ \A r \in Rooms : schedule[r] # None => Valid(schedule[r])
    /\ \A r \in Rooms : schedule[r] = None => slots[r] = {} /\ until[r] = None

\* Only rooms with a schedule are worked on, and for a day that has come.
WorkKnown ==
    /\ \A r \in Rooms : pc[r] # "idle" => schedule[r] # None
    /\ \A p \in Procs : \A r \in queue[p] : schedule[r] # None
    /\ \A p \in Procs : gen[p] # None => schedule[gen[p].room] # None
    /\ \A p \in Procs : now[p] <= today

\* Runs stay within the horizon and on the grid.
RunsFit ==
    /\ \A r \in Rooms : until[r] # None => until[r] <= today + Horizon
    /\ \A p \in Procs : gen[p] # None => gen[p].until <= today + Horizon
    /\ \A p \in Procs : gen[p] # None => gen[p].day <= gen[p].until
    /\ \A p \in Procs : gen[p] # None =>
          /\ schedule[gen[p].room].start <= gen[p].at
          /\ gen[p].at <= schedule[gen[p].room].end
          /\ (gen[p].at - schedule[gen[p].room].start) % 30 = 0

\* From today on a run has left no gap behind it, whichever day it took for
\* today and wherever it started.
RunsCover ==
    /\ \A p \in Procs : gen[p] # None =>
          \A d \in Days : today <= d /\ d < gen[p].day => DayDone(gen[p].room, d)
    /\ \A p \in Procs : gen[p] # None /\ IsoDay(gen[p].day) \in schedule[gen[p].room].days =>
          \A m \in Grid(schedule[gen[p].room]) :
             m < gen[p].at => <<gen[p].day, m>> \in slots[gen[p].room]

GInv == /\ TypeOK /\ SchedulesValid /\ WorkKnown /\ RunsFit
        /\ CoveredUntil /\ RunsCover /\ SlotsFitSchedule

-----------------------------------------------------------------------------
(* Liveness *)

\* Every room with a schedule has all slots of its horizon again and again,
\* although the generation of its request failed or stopped half-way: "slots
\* will be generated by worker" (service.go:119).
HorizonFilled ==
    \A r \in Rooms :
        schedule[r] # None ~>
            \A d \in today..(today + Horizon - 1) : DayDone(r, d)

-----------------------------------------------------------------------------
(* Refinement *)

\* The schedules that are accepted, and the slots each stands for.
Schedules == {s \in Requests : Valid(s)}
SlotsOf == [s \in Schedules |->
               {d \in Days : IsoDay(d) \in s.days} \X Grid(s)]

Calendar == INSTANCE RoomCalendar

\* However requests and workers overlap, fail half-way or meet midnight: a
\* slot that was offered stays, only slots of the schedule within the horizon
\* are added, and generated_until moves only to a day before which, from the
\* date of that very step on, nothing is missing (GenerateSlots, ExtendSlots).
KeepsCalendar == Calendar!CSpec
=============================================================================
