------------------------ MODULE SlotGenerationProofs ------------------------
(***************************************************************************)
(* Proofs about SlotGeneration, for any rooms, replicas, schedules,        *)
(* horizon and failures: the inductive invariant GInv, one lemma per       *)
(* action, and the theorems that follow from it.                           *)
(***************************************************************************)
EXTENDS SlotGeneration, TLAPS

-----------------------------------------------------------------------------
(* Days and times *)

\* ISO 8601 and Go agree on which days are open (daysSet in GenerateSlots).
LEMMA OpenIsIso ==
    ASSUME NEW s \in Requests, Valid(s), NEW d \in Days
    PROVE  Open(s, d) <=> IsoDay(d) \in s.days
<1>1. \A x \in 1..7 : x % 7 = IF x = 7 THEN 0 ELSE x
  OBVIOUS
<1>2. d % 7 \in 0..6
  BY GenerationAssumption DEF Days
<1>3. s.days \subseteq 1..7
  BY DEF Valid
<1>. QED  BY <1>1, <1>2, <1>3 DEF Open, Weekday, IsoDay

\* Times are numbers.
LEMMA MinutesAreInts == Minutes \subseteq Int
BY DEF Minutes

\* Half an hour later is still on the day if the day has not ended.
LEMMA MinuteStep ==
    ASSUME NEW a \in Minutes, NEW e \in Minutes, NEW m \in Minutes,
           a <= m, m + 30 <= e
    PROVE  a <= m + 30 /\ m + 30 \in Minutes
BY DEF Minutes

\* A request is made of minutes of a day,
LEMMA RequestTimes ==
    ASSUME NEW s \in Requests
    PROVE  s.start \in Minutes /\ s.end \in Minutes
BY GenerationAssumption

\* which are numbers.
LEMMA RequestTypes ==
    ASSUME NEW s \in Requests
    PROVE  s.start \in Int /\ s.end \in Int
<1>1. s \in [days : SUBSET (0..8), start : Minutes, end : Minutes]
  BY GenerationAssumption
<1>2. s.start \in Int
  BY <1>1 DEF Minutes
<1>3. s.end \in Int
  BY <1>1 DEF Minutes
<1>. QED  BY <1>2, <1>3, Zenon

\* Half hours are 30 minutes apart.
LEMMA HalfHours ==
    ASSUME NEW i \in Int, NEW j \in Int, i % 30 = 0, j % 30 = 0
    PROVE  (i + 30) % 30 = 0 /\ (i < j => i + 30 <= j)
OBVIOUS

\* The same for times counted from the start of the day.
LEMMA HalfHoursFrom ==
    ASSUME NEW a \in Int, NEW i \in Int, NEW j \in Int,
           (i - a) % 30 = 0, (j - a) % 30 = 0
    PROVE  ((i + 30) - a) % 30 = 0 /\ (i < j => i + 30 <= j)
<1>1. i - a \in Int /\ j - a \in Int /\ (i + 30) - a = (i - a) + 30
  OBVIOUS
<1>2. (i - a) + 30 \in Int /\ ((i - a) + 30) % 30 = 0
  BY <1>1, HalfHours
<1>3. i - a < j - a => (i - a) + 30 <= j - a
  BY <1>1, HalfHours
<1>. QED  BY <1>1, <1>2, <1>3

\* The grid of a schedule.
LEMMA GridTypes ==
    ASSUME NEW s \in Requests, NEW m
    PROVE  m \in Grid(s) <=>
              m \in Int /\ s.start <= m /\ m < s.end /\ (m - s.start) % 30 = 0
BY RequestTypes, SMTT(20) DEF Grid

\* As the day is a whole number of half hours, a slot that starts before its
\* end also ends by then, and the grid has no time between it and the next.
LEMMA GridStep ==
    ASSUME NEW s \in Requests, Valid(s), NEW m \in Int,
           s.start <= m, m < s.end, (m - s.start) % 30 = 0
    PROVE  /\ m \in Grid(s)
           /\ m + 30 <= s.end
           /\ ((m + 30) - s.start) % 30 = 0
           /\ \A n \in Grid(s) : n < m + 30 => n < m \/ n = m
<1>0. s.start \in Int /\ s.end \in Int
  BY RequestTypes, Zenon
<1>1. (s.end - s.start) % 30 = 0
  BY Zenon DEF Valid
<1>2. m \in Grid(s)
  BY GridTypes
<1>3. m + 30 <= s.end /\ ((m + 30) - s.start) % 30 = 0
  BY <1>0, <1>1, HalfHoursFrom
<1>4. ASSUME NEW n \in Grid(s), n < m + 30 PROVE n < m \/ n = m
  <2>1. n \in Int /\ (n - s.start) % 30 = 0
    BY GridTypes
  <2>2. m < n => m + 30 <= n
    BY <1>0, <2>1, HalfHoursFrom
  <2>. QED  BY <1>4, <2>1, <2>2
<1>. QED  BY <1>2, <1>3, <1>4

\* The first slot is on the grid, none is before it.
LEMMA StartFits ==
    ASSUME NEW s \in Requests, Valid(s)
    PROVE  /\ s.start <= s.start /\ s.start <= s.end
           /\ (s.start - s.start) % 30 = 0
           /\ \A m \in Grid(s) : ~(m < s.start)
<1>1. s.start \in Int /\ s.end \in Int
  BY RequestTypes, Zenon
<1>2. s.start < s.end
  BY Zenon DEF Valid
<1>3. /\ s.start <= s.start /\ s.start <= s.end
      /\ s.start - s.start = 0 /\ 0 % 30 = 0
  BY <1>1, <1>2
<1>4. \A m \in Grid(s) : m \in Int /\ s.start <= m
  BY GridTypes, Zenon
<1>. QED  BY <1>1, <1>3, <1>4

-----------------------------------------------------------------------------
(* Runs *)

\* A run under way is for a room with a good schedule.
LEMMA RunFacts ==
    ASSUME TypeOK, SchedulesValid, WorkKnown, NEW p \in Procs, gen[p] # None
    PROVE  /\ gen[p] \in Run
           /\ gen[p].room \in Rooms
           /\ gen[p].day \in Days /\ gen[p].until \in Days
           /\ gen[p].at \in Minutes
           /\ schedule[gen[p].room] \in Requests
           /\ Valid(schedule[gen[p].room])
<1>1. gen[p] \in Run
  BY DEF TypeOK
<1>2. /\ gen[p].room \in Rooms
      /\ gen[p].day \in Days /\ gen[p].until \in Days
      /\ gen[p].at \in Minutes
  BY <1>1 DEF Run
<1>3. schedule[gen[p].room] # None
  BY DEF WorkKnown
<1>. QED  BY <1>1, <1>2, <1>3 DEF TypeOK, SchedulesValid

\* A run remains one when its day and time move.
LEMMA RunMoves ==
    ASSUME NEW g \in Run, NEW d \in Days, NEW m \in Minutes
    PROVE  /\ [g EXCEPT !.day = d, !.at = m] \in Run
           /\ [g EXCEPT !.at = m] \in Run
BY DEF Run

\* A run is not None.
LEMMA NoneIsNoRun == None \notin Run
BY GenerationAssumption DEF Run, Days, Minutes

\* A day that is done stays done as slots are only ever added.
LEMMA DoneStays ==
    ASSUME UNCHANGED schedule, \A r \in Rooms : slots[r] \subseteq slots'[r]
    PROVE  \A r \in Rooms, d \in Days : DayDone(r, d) => DayDone(r, d)'
BY DEF DayDone

\* A run that starts is in order when all days before it are done.
LEMMA StartKeeps ==
    ASSUME TypeOK, SchedulesValid, WorkKnown, RunsFit, RunsCover,
           UNCHANGED <<today, schedule, slots, until>>,
           NEW p \in Procs, NEW r \in Rooms, schedule[r] # None,
           NEW from \in Days, NEW target \in Days,
           from <= target, target <= today + Horizon,
           \A d \in Days : today <= d /\ d < from => DayDone(r, d),
           gen' = [gen EXCEPT ![p] = Starting(r, from, target)]
    PROVE  gen'[p] \in Run /\ RunsFit' /\ RunsCover'
<1> DEFINE g == Starting(r, from, target)
           s == schedule[r]
<1>1. s \in Requests /\ Valid(s) /\ s.start \in Minutes
  BY RequestTimes DEF TypeOK, SchedulesValid
<1>2. g.room = r /\ g.day = from /\ g.at = s.start /\ g.until = target
  BY DEF Starting
<1>3. gen'[p] = g /\ \A q \in Procs \ {p} : gen'[q] = gen[q]
  BY DEF TypeOK
<1>4. g \in Run
  BY <1>1 DEF Starting, Run
<1>5. RunsFit'
  <2>1. /\ s.start <= s.start /\ s.start <= s.end
        /\ (s.start - s.start) % 30 = 0
    BY <1>1, StartFits, Zenon
  <2>. HIDE DEF g, s
  <2>2. ASSUME NEW q \in Procs, gen'[q] # None
        PROVE  /\ gen'[q].until <= today + Horizon
               /\ gen'[q].day <= gen'[q].until
               /\ schedule[gen'[q].room].start <= gen'[q].at
               /\ gen'[q].at <= schedule[gen'[q].room].end
               /\ (gen'[q].at - schedule[gen'[q].room].start) % 30 = 0
    <3>1. CASE q = p
      <4>1. gen'[q] = g /\ schedule[gen'[q].room] = s
        BY <1>2, <1>3, <3>1 DEF s
      <4>2. g.at = s.start /\ g.until = target /\ g.day = from
        BY <1>2
      <4>3. s.end = schedule[gen'[q].room].end /\ s.start = schedule[gen'[q].room].start
        BY <4>1
      <4>4. g.until <= today + Horizon /\ g.day <= g.until
        BY <4>2
      <4>5. s.start <= g.at /\ g.at <= s.end /\ (g.at - s.start) % 30 = 0
        BY <2>1, <4>2, Zenon
      <4>. QED  BY <4>1, <4>4, <4>5, Zenon
    <3>2. CASE q # p
      BY <1>3, <2>2, <3>2 DEF RunsFit
    <3>. QED  BY <3>1, <3>2
  <2>. QED  BY <2>2 DEF RunsFit
<1>6. RunsCover'
  <2>1. \A m \in Grid(s) : ~(m < s.start)
    BY <1>1, StartFits, Zenon
  <2>. HIDE DEF g, s
  <2>2. ASSUME NEW q \in Procs, gen'[q] # None
        PROVE  /\ \A d \in Days : today <= d /\ d < gen'[q].day => DayDone(gen'[q].room, d)
               /\ IsoDay(gen'[q].day) \in schedule[gen'[q].room].days =>
                     \A m \in Grid(schedule[gen'[q].room]) :
                        m < gen'[q].at => <<gen'[q].day, m>> \in slots[gen'[q].room]
    <3>1. CASE q = p
      BY <1>2, <1>3, <2>1, <3>1 DEF s
    <3>2. CASE q # p
      BY <1>3, <2>2, <3>2 DEF RunsCover
    <3>. QED  BY <3>1, <3>2
  <2>. QED  BY <2>2 DEF RunsCover, DayDone
<1>. QED  BY <1>3, <1>4, <1>5, <1>6
\* What a run does to the invariant when it ends without further slots.
LEMMA EndKeeps ==
    ASSUME TypeOK, WorkKnown, RunsFit, RunsCover,
           UNCHANGED <<today, schedule>>,
           \A r \in Rooms : slots[r] \subseteq slots'[r],
           NEW p \in Procs,
           gen' = [gen EXCEPT ![p] = None]
    PROVE  /\ \A q \in Procs, r \in Rooms : gen[q] # None /\ gen[q].room = r =>
                 \A d \in Days : today <= d /\ d < gen[q].day => DayDone(r, d)'
           /\ RunsCover'
<1>1. \A q \in Procs : gen'[q] # None => gen'[q] = gen[q] /\ gen[q] # None
  BY DEF TypeOK
<1>2. \A q \in Procs : gen[q] # None => gen[q].room \in Rooms
  BY DEF TypeOK, Run
<1>3. \A q \in Procs, r \in Rooms : gen[q] # None /\ gen[q].room = r =>
         \A d \in Days : today <= d /\ d < gen[q].day => DayDone(r, d)'
  BY DoneStays DEF RunsCover
<1>4. RunsCover'
  <2>1. ASSUME NEW q \in Procs, gen'[q] # None, NEW d \in Days,
               today <= d, d < gen'[q].day
        PROVE  DayDone(gen[q].room, d)'
    <3>1. PICK r \in Rooms : gen[q].room = r /\ gen'[q].room = r
      BY <1>1, <1>2, <2>1
    <3>2. DayDone(r, d)'
      BY <1>1, <1>3, <2>1, <3>1
    <3>. QED  BY <3>1, <3>2
  <2>2. ASSUME NEW q \in Procs, gen'[q] # None,
               IsoDay(gen'[q].day) \in schedule[gen'[q].room].days,
               NEW m \in Grid(schedule[gen'[q].room]), m < gen'[q].at
        PROVE  <<gen'[q].day, m>> \in slots'[gen'[q].room]
    BY <1>1, <1>2, <2>2 DEF RunsCover
  <2>. QED  BY <2>1, <2>2 DEF RunsCover
<1>. QED  BY <1>3, <1>4

\* The slot a run inserts is one of its schedule.
LEMMA SlotFits ==
    ASSUME TypeOK, SchedulesValid, WorkKnown, RunsFit, SlotsFitSchedule,
           UNCHANGED <<today, schedule>>,
           NEW p \in Procs, gen[p] # None, AtSlot(p), slots' = Inserted(p)
    PROVE  /\ gen[p].at \in Grid(schedule[gen[p].room])
           /\ gen[p].at + 30 <= schedule[gen[p].room].end
           /\ ((gen[p].at + 30) - schedule[gen[p].room].start) % 30 = 0
           /\ \A n \in Grid(schedule[gen[p].room]) :
                 n < gen[p].at + 30 => n < gen[p].at \/ n = gen[p].at
           /\ SlotsFitSchedule'
           /\ slots' \in [Rooms -> SUBSET (Days \X Minutes)]
           /\ \A r \in Rooms : slots[r] \subseteq slots'[r]
           /\ \A r \in Rooms : schedule[r] = None => slots'[r] = slots[r]
           /\ <<gen[p].day, gen[p].at>> \in slots'[gen[p].room]
<1> DEFINE r == gen[p].room
           s == schedule[r]
           m == gen[p].at
           day == gen[p].day
<1>1. /\ r \in Rooms /\ s \in Requests /\ Valid(s)
      /\ day \in Days /\ m \in Minutes /\ gen[p].until \in Days
  BY RunFacts
<1>2. s # None
  BY DEF WorkKnown
<1>3. m \in Int /\ s.start <= m /\ m < s.end /\ (m - s.start) % 30 = 0
  <2>1. m \in Int
    BY <1>1, MinutesAreInts, Zenon
  <2>2. s.start <= m /\ (m - s.start) % 30 = 0
    BY Zenon DEF RunsFit
  <2>3. m < s.end
    BY Zenon DEF AtSlot, Before
  <2>. QED  BY <2>1, <2>2, <2>3
<1>4. IsoDay(day) \in s.days
  BY <1>1, OpenIsIso DEF AtSlot
<1>5. /\ m \in Grid(s) /\ m + 30 <= s.end /\ ((m + 30) - s.start) % 30 = 0
      /\ \A n \in Grid(s) : n < m + 30 => n < m \/ n = m
  BY <1>1, <1>3, GridStep, Zenon
<1>6. day < today + Horizon
  BY <1>1, GenerationAssumption DEF AtSlot, RunsFit, TypeOK, Days
<1>7. /\ slots'[r] = slots[r] \cup {<<day, m>>}
      /\ \A q \in Rooms \ {r} : slots'[q] = slots[q]
  BY <1>1 DEF Inserted, TypeOK
<1>8. slots' \in [Rooms -> SUBSET (Days \X Minutes)]
  BY <1>1 DEF Inserted, TypeOK
<1>. HIDE DEF r, s, m, day
<1>9. SlotsFitSchedule'
  <2>1. ASSUME NEW q \in Rooms, NEW x \in slots'[q]
        PROVE  /\ schedule[q] # None
               /\ IsoDay(x[1]) \in schedule[q].days
               /\ x[2] \in Grid(schedule[q]) /\ x[2] + 30 <= schedule[q].end
               /\ x[1] < today + Horizon
    <3>1. CASE x \in slots[q]
      BY <3>1, Zenon DEF SlotsFitSchedule
    <3>2. CASE x \notin slots[q]
      <4>1. q = r /\ x = <<day, m>>
        BY <1>7, <3>2, <2>1
      <4>2. x[1] = day /\ x[2] = m /\ schedule[q] = s
        BY <4>1 DEF s
      <4>. QED  BY <4>2, <1>2, <1>4, <1>5, <1>6, Zenon
    <3>. QED  BY <3>1, <3>2
  <2>. QED  BY <2>1, Zenon DEF SlotsFitSchedule
<1>10. \A q \in Rooms : slots[q] \subseteq slots'[q]
  BY <1>1, <1>7
<1>11. \A q \in Rooms : schedule[q] = None => slots'[q] = slots[q]
  BY <1>2, <1>7 DEF s
<1>12. <<day, m>> \in slots'[r]
  BY <1>7
<1>. QED  BY <1>5, <1>8, <1>9, <1>10, <1>11, <1>12, Zenon DEF r, s, m, day

-----------------------------------------------------------------------------
(* One lemma per action *)

\* GInv holds before any schedule was made.
LEMMA InitGInv == Init => GInv
<1>. SUFFICES ASSUME Init PROVE GInv
  OBVIOUS
<1>1. TypeOK
  BY GenerationAssumption DEF Init, TypeOK, Days
<1>2. SchedulesValid /\ WorkKnown
  BY DEF Init, SchedulesValid, WorkKnown, Procs
<1>3. RunsFit /\ RunsCover
  BY DEF Init, RunsFit, RunsCover
<1>4. CoveredUntil /\ SlotsFitSchedule
  BY DEF Init, CoveredUntil, SlotsFitSchedule
<1>. QED  BY <1>1, <1>2, <1>3, <1>4 DEF GInv

\* CreateSchedule: the room had no schedule, so nothing depends on it.
LEMMA CreateScheduleKeepsGInv ==
    ASSUME GInv, NEW r \in Rooms, NEW s \in Requests, CreateSchedule(r, s)
    PROVE  GInv'
<1> USE GenerationAssumption DEF GInv, CreateSchedule, InsertSchedule
<1>1. TypeOK'
  BY DEF TypeOK, WorkKnown, Procs
<1>2. SchedulesValid'
  BY DEF TypeOK, SchedulesValid
<1>3. WorkKnown'
  BY DEF TypeOK, WorkKnown, Procs, Run
<1>4. RunsFit'
  BY DEF TypeOK, RunsFit, WorkKnown, Procs, Run
<1>5. \A q \in Rooms : q # r => schedule'[q] = schedule[q]
  BY DEF TypeOK
<1>6. \A q \in Rooms, d \in Days : q # r /\ DayDone(q, d) => DayDone(q, d)'
  BY <1>5 DEF DayDone
<1>7. CoveredUntil'
  BY <1>6 DEF CoveredUntil, SchedulesValid
<1>8. RunsCover'
  <2>1. \A p \in Procs : gen[p] # None => gen[p].room \in Rooms /\ gen[p].room # r
    BY DEF TypeOK, WorkKnown, Run
  <2>2. ASSUME NEW p \in Procs, gen[p] # None,
               NEW d \in Days, today <= d, d < gen[p].day
        PROVE  DayDone(gen[p].room, d)'
    <3>1. PICK q \in Rooms : gen[p].room = q /\ gen'[p].room = q /\ q # r
      BY <2>1, <2>2
    <3>2. DayDone(q, d)'
      BY <1>6, <2>2, <3>1 DEF RunsCover
    <3>. QED  BY <3>1, <3>2
  <2>3. ASSUME NEW p \in Procs, gen[p] # None,
               IsoDay(gen[p].day) \in schedule'[gen[p].room].days,
               NEW m \in Grid(schedule'[gen[p].room]), m < gen[p].at
        PROVE  <<gen[p].day, m>> \in slots[gen[p].room]
    BY <1>5, <2>1, <2>3 DEF RunsCover
  <2>. QED  BY <2>2, <2>3 DEF RunsCover
<1>9. SlotsFitSchedule'
  BY <1>5 DEF SlotsFitSchedule, SchedulesValid
<1> HIDE DEF CreateSchedule, InsertSchedule
<1>. QED  BY <1>1, <1>2, <1>3, <1>4, <1>7, <1>8, <1>9

\* Steps that leave schedules, slots, generated_until and runs alone.
LEMMA BookkeepingKeepsGInv ==
    ASSUME GInv, UNCHANGED <<schedule, slots, until, gen>>,
           today' \in Nat, today <= today', TypeOK', WorkKnown'
    PROVE  GInv'
<1> USE GenerationAssumption DEF GInv
<1>1. today \in Nat /\ Horizon \in Nat
  BY DEF TypeOK
<1>2. SchedulesValid'
  BY DEF SchedulesValid
<1>3. RunsFit'
  BY <1>1 DEF TypeOK, RunsFit, Days, Run
<1>4. \A r \in Rooms, d \in Days : DayDone(r, d) => DayDone(r, d)'
  BY DEF DayDone
<1>5. CoveredUntil'
  BY <1>1, <1>4 DEF CoveredUntil, Days
<1>6. RunsCover'
  BY <1>1 DEF TypeOK, RunsCover, DayDone, Days, Run
<1>7. SlotsFitSchedule'
  BY <1>1 DEF TypeOK, SlotsFitSchedule, Days
<1>. QED  BY <1>2, <1>3, <1>5, <1>6, <1>7

\* ExtendSlots lists the rooms that have a schedule.
LEMMA ExtendSlotsKeepsGInv ==
    ASSUME GInv, NEW w \in Workers, ExtendSlots(w) PROVE GInv'
<1>1. TypeOK' /\ WorkKnown'
  BY GenerationAssumption DEF GInv, ExtendSlots, TypeOK, WorkKnown, Procs
<1>2. today \in Nat /\ today <= today
  BY GenerationAssumption DEF GInv, TypeOK
<1>. QED  BY <1>1, <1>2, BookkeepingKeepsGInv DEF ExtendSlots

\* LoadStateFails skips the room.
LEMMA LoadStateFailsKeepsGInv ==
    ASSUME GInv, NEW w \in Workers, LoadStateFails(w) PROVE GInv'
<1>1. TypeOK' /\ WorkKnown'
  BY GenerationAssumption DEF GInv, LoadStateFails, TypeOK, WorkKnown, Procs
<1>2. today \in Nat /\ today <= today
  BY GenerationAssumption DEF GInv, TypeOK
<1>. QED  BY <1>1, <1>2, BookkeepingKeepsGInv DEF LoadStateFails

\* Rest ends the worker's round.
LEMMA RestKeepsGInv ==
    ASSUME GInv, NEW w \in Workers, Rest(w) PROVE GInv'
<1>1. TypeOK' /\ WorkKnown'
  BY GenerationAssumption DEF GInv, Rest, TypeOK, WorkKnown, Procs
<1>2. today \in Nat /\ today <= today
  BY GenerationAssumption DEF GInv, TypeOK
<1>. QED  BY <1>1, <1>2, BookkeepingKeepsGInv DEF Rest

\* Midnight makes less of the slots matter and allows more of them.
LEMMA MidnightKeepsGInv == ASSUME GInv, Midnight PROVE GInv'
<1>1. TypeOK' /\ WorkKnown'
  BY GenerationAssumption DEF GInv, Midnight, TypeOK, WorkKnown
<1>2. today' \in Nat /\ today <= today'
  BY GenerationAssumption DEF GInv, Midnight, TypeOK
<1>. QED  BY <1>1, <1>2, BookkeepingKeepsGInv DEF Midnight

\* The parts of GInv that a run that starts does not concern.
LEMMA StartKeepsGInv ==
    ASSUME GInv, NEW p \in Procs, NEW r \in Rooms, schedule[r] # None,
           NEW from \in Days, NEW target \in Days,
           from <= target, target <= today + Horizon,
           \A d \in Days : today <= d /\ d < from => DayDone(r, d),
           pc' = [pc EXCEPT ![p] = "insert"],
           gen' = [gen EXCEPT ![p] = Starting(r, from, target)],
           queue' \in [Procs -> SUBSET Rooms],
           \A q \in Procs : queue'[q] \subseteq queue[q],
           p \in Rooms => schedule[p] # None,
           UNCHANGED <<today, schedule, slots, until, now, faults>>
    PROVE  GInv'
<1> USE DEF GInv
<1>1. gen'[p] \in Run /\ RunsFit' /\ RunsCover'
  BY StartKeeps
<1>2. gen'[p] = Starting(r, from, target) /\ \A q \in Procs \ {p} : gen'[q] = gen[q]
  BY DEF TypeOK
<1>3. gen'[p] # None /\ gen'[p].room = r
  BY <1>1, <1>2, NoneIsNoRun DEF Starting
<1>4. gen' \in [Procs -> Run \cup {None}]
  BY <1>1, <1>2 DEF TypeOK
<1>5. TypeOK'
  BY <1>2, <1>3, <1>4 DEF TypeOK
<1>6. SchedulesValid'
  BY DEF SchedulesValid
<1>7. WorkKnown'
  <2>1. \A q \in Rooms : pc'[q] # "idle" => schedule[q] # None
    BY DEF TypeOK, WorkKnown
  <2>2. \A q \in Procs : \A x \in queue'[q] : schedule[x] # None
    BY DEF WorkKnown
  <2>3. \A q \in Procs : gen'[q] # None => schedule[gen'[q].room] # None
    BY <1>2, <1>3 DEF WorkKnown
  <2>. QED  BY <2>1, <2>2, <2>3 DEF WorkKnown
<1>8. CoveredUntil' /\ SlotsFitSchedule'
  BY DEF CoveredUntil, SlotsFitSchedule, DayDone
<1>. QED  BY <1>1, <1>5, <1>6, <1>7, <1>8

\* LoadState starts a run after the slots that exist, or skips the room.
LEMMA LoadStateKeepsGInv ==
    ASSUME GInv, NEW w \in Workers, LoadState(w) PROVE GInv'
<1>1. PICK r \in queue[w] :
         /\ queue' = [queue EXCEPT ![w] = @ \ {r}]
         /\ IF From(w, r) < now[w] + Horizon
            THEN /\ pc' = [pc EXCEPT ![w] = "insert"]
                 /\ gen' = [gen EXCEPT ![w] = Starting(r, From(w, r), now[w] + Horizon)]
            ELSE UNCHANGED <<pc, gen>>
  BY DEF LoadState
<1>2. w \in Procs /\ r \in Rooms /\ schedule[r] # None /\ w \notin Rooms
  BY GenerationAssumption DEF GInv, TypeOK, WorkKnown, Procs
<1>3. /\ queue' \in [Procs -> SUBSET Rooms]
      /\ \A q \in Procs : queue'[q] \subseteq queue[q]
  BY <1>1, <1>2 DEF GInv, TypeOK
<1>4. UNCHANGED <<today, schedule, slots, until, now, faults>>
  BY DEF LoadState
<1>5. CASE From(w, r) < now[w] + Horizon
  <2>1. now[w] \in 0..MaxDay /\ now[w] <= today
    BY <1>2 DEF GInv, TypeOK, WorkKnown
  <2>2. until[r] # None => until[r] \in Days
    BY <1>2 DEF GInv, TypeOK
  <2>3. /\ From(w, r) \in Days /\ now[w] + Horizon \in Days
        /\ From(w, r) <= now[w] + Horizon /\ now[w] + Horizon <= today + Horizon
    BY <1>5, <2>1, <2>2, GenerationAssumption DEF From, Days, GInv, TypeOK
  <2>4. ASSUME NEW d \in Days, today <= d, d < From(w, r) PROVE DayDone(r, d)
    <3>1. From(w, r) # now[w]
      BY <2>1, <2>4, GenerationAssumption DEF Days, GInv, TypeOK
    <3>2. until[r] # None /\ From(w, r) = until[r]
      BY <3>1 DEF From
    <3>. QED  BY <1>2, <2>4, <3>2 DEF GInv, CoveredUntil
  <2>. QED  BY <1>1, <1>2, <1>3, <1>4, <1>5, <2>3, <2>4, StartKeepsGInv
<1>6. CASE ~(From(w, r) < now[w] + Horizon)
  <2>1. UNCHANGED <<pc, gen>>
    BY <1>1, <1>6
  <2>2. TypeOK' /\ WorkKnown'
    BY <1>3, <1>4, <2>1 DEF GInv, TypeOK, WorkKnown
  <2>3. today \in Nat /\ today <= today
    BY GenerationAssumption DEF GInv, TypeOK
  <2>. QED  BY <1>4, <2>1, <2>2, <2>3, BookkeepingKeepsGInv
<1>. QED  BY <1>5, <1>6

\* ReadClock starts the run of a request from today.
LEMMA ReadClockKeepsGInv ==
    ASSUME GInv, NEW p \in Procs, ReadClock(p) PROVE GInv'
<1>1. today \in 0..MaxDay /\ today \in Nat /\ today <= today
  BY GenerationAssumption DEF GInv, TypeOK
<1>2. CASE p \in Rooms
  <2>1. today \in Days /\ today + Horizon \in Days /\ today <= today + Horizon
    BY <1>1, GenerationAssumption DEF Days
  <2>2. today + Horizon <= today + Horizon
    BY <1>1, GenerationAssumption
  <2>3. \A d \in Days : today <= d /\ d < today => DayDone(p, d)
    BY <1>1, GenerationAssumption DEF Days
  <2>4. schedule[p] # None
    BY <1>2 DEF ReadClock, GInv, WorkKnown
  <2>5. /\ queue' \in [Procs -> SUBSET Rooms]
        /\ \A q \in Procs : queue'[q] \subseteq queue[q]
    BY DEF ReadClock, GInv, TypeOK
  <2>. QED
    BY <1>2, <2>1, <2>2, <2>3, <2>4, <2>5, StartKeepsGInv DEF ReadClock
<1>3. CASE p \notin Rooms
  <2>0. /\ pc' = [pc EXCEPT ![p] = "next"] /\ now' = [now EXCEPT ![p] = today]
        /\ pc[p] = "clock"
        /\ UNCHANGED <<today, schedule, slots, until, queue, gen, faults>>
    BY <1>3 DEF ReadClock
  <2>1. TypeOK'
    BY <1>1, <2>0 DEF GInv, TypeOK
  <2>2. WorkKnown'
    BY <1>1, <1>3, <2>0 DEF GInv, TypeOK, WorkKnown
  <2>. QED  BY <1>1, <2>0, <2>1, <2>2, BookkeepingKeepsGInv
<1>. QED  BY <1>2, <1>3

\* NextDay leaves a day behind only when it is done or not open.
LEMMA NextDayKeepsGInv ==
    ASSUME GInv, NEW p \in Procs, NextDay(p) PROVE GInv'
<1> USE DEF GInv
<1> DEFINE r == gen[p].room
           s == schedule[r]
           day == gen[p].day
<1>1. gen[p] # None /\ ~AtSlot(p) /\ day < gen[p].until
  BY DEF NextDay, TypeOK
<1>2. /\ gen[p] \in Run /\ r \in Rooms /\ s \in Requests /\ Valid(s)
      /\ day \in Days /\ gen[p].until \in Days /\ gen[p].at \in Minutes
  BY <1>1, RunFacts
<1>3. s # None
  BY <1>1 DEF WorkKnown
<1>0. s \in Requests /\ gen[p].at \in Minutes
  BY <1>2, Zenon
<1>4. s.start \in Minutes
  <2>. HIDE DEF s
  <2>. QED  BY <1>0, RequestTimes
<1>5. UNCHANGED <<today, schedule, slots, until, pc, queue, now, faults>>
  BY DEF NextDay
<1>6. day + 1 \in Days /\ day + 1 <= gen[p].until
  BY <1>1, <1>2, GenerationAssumption DEF Days
<1>7. /\ gen'[p] = [gen[p] EXCEPT !.day = day + 1, !.at = s.start]
      /\ \A q \in Procs \ {p} : gen'[q] = gen[q]
  BY DEF NextDay, TypeOK
<1>8. /\ gen'[p].room = r /\ gen'[p].day = day + 1 /\ gen'[p].at = s.start
      /\ gen'[p].until = gen[p].until
  BY <1>2, <1>7 DEF Run
<1>9. gen'[p] \in Run /\ gen'[p] # None
  <2>1. gen'[p] \in Run
    <3>. HIDE DEF r, s, day
    <3>1. gen[p] \in Run
      BY <1>2, Zenon
    <3>2. [gen[p] EXCEPT !.day = day + 1, !.at = s.start] \in Run
      BY <3>1, <1>4, <1>6, RunMoves, Zenon
    <3>. QED  BY <3>2, <1>7, Zenon
  <2>. QED  BY <2>1, NoneIsNoRun
<1>10. DayDone(r, day)
  <2>1. ASSUME IsoDay(day) \in s.days, NEW m \in Grid(s)
        PROVE  <<day, m>> \in slots[r]
    <3>1. Open(s, day)
      BY <1>2, <2>1, OpenIsIso
    <3>2. ~(gen[p].at < s.end)
      BY <1>1, <3>1 DEF AtSlot, Before
    <3>3. m \in Int /\ m < s.end
      BY <1>2, GridTypes
    <3>4. s.end \in Int
      BY <1>0, RequestTypes, Zenon
    <3>5. gen[p].at \in Int
      BY <1>0, MinutesAreInts, Zenon
    <3>6. m < gen[p].at
      BY <3>2, <3>3, <3>4, <3>5
    <3>. QED  BY <1>1, <2>1, <3>6 DEF RunsCover
  <2>. QED  BY <2>1 DEF DayDone
<1>11. \A d \in Days : today <= d /\ d < day + 1 => DayDone(r, d)
  <2>1. \A d \in Days : d < day + 1 => d < day \/ d = day
    BY <1>2, GenerationAssumption DEF Days
  <2>. QED  BY <1>1, <1>10, <2>1 DEF RunsCover
<1>12. /\ s.start <= s.start /\ s.start <= s.end /\ (s.start - s.start) % 30 = 0
       /\ \A m \in Grid(s) : ~(m < s.start)
  BY <1>2, StartFits, Zenon
<1>. HIDE DEF r, s, day
<1>13. TypeOK'
  <2>1. gen' \in [Procs -> Run \cup {None}]
    BY <1>9 DEF NextDay, TypeOK
  <2>2. \A q \in Procs : gen'[q] # None <=> gen[q] # None
    BY <1>1, <1>7, <1>9
  <2>. QED  BY <1>5, <2>1, <2>2 DEF TypeOK
<1>14. SchedulesValid'
  BY <1>5 DEF SchedulesValid
<1>15. WorkKnown'
  BY <1>1, <1>3, <1>5, <1>7, <1>8 DEF WorkKnown, s
<1>16. RunsFit'
  <2>1. gen[p].until <= today + Horizon
    BY <1>1 DEF RunsFit
  <2>2. ASSUME NEW q \in Procs, gen'[q] # None
        PROVE  /\ gen'[q].until <= today + Horizon
               /\ gen'[q].day <= gen'[q].until
               /\ schedule[gen'[q].room].start <= gen'[q].at
               /\ gen'[q].at <= schedule[gen'[q].room].end
               /\ (gen'[q].at - schedule[gen'[q].room].start) % 30 = 0
    <3>1. CASE q = p
      BY <1>6, <1>8, <1>12, <2>1, <3>1, Zenon DEF s
    <3>2. CASE q # p
      BY <1>7, <2>2, <3>2 DEF RunsFit
    <3>. QED  BY <3>1, <3>2
  <2>. QED  BY <1>5, <2>2 DEF RunsFit
<1>17. RunsCover'
  <2>1. ASSUME NEW q \in Procs, gen'[q] # None
        PROVE  /\ \A d \in Days : today <= d /\ d < gen'[q].day => DayDone(gen'[q].room, d)
               /\ IsoDay(gen'[q].day) \in schedule[gen'[q].room].days =>
                     \A m \in Grid(schedule[gen'[q].room]) :
                        m < gen'[q].at => <<gen'[q].day, m>> \in slots[gen'[q].room]
    <3>1. CASE q = p
      BY <1>8, <1>11, <1>12, <3>1, Zenon DEF s
    <3>2. CASE q # p
      BY <1>7, <2>1, <3>2 DEF RunsCover
    <3>. QED  BY <3>1, <3>2
  <2>. QED  BY <1>5, <2>1 DEF RunsCover, DayDone
<1>18. CoveredUntil' /\ SlotsFitSchedule'
  BY <1>5 DEF CoveredUntil, SlotsFitSchedule, DayDone
<1>. QED  BY <1>13, <1>14, <1>15, <1>16, <1>17, <1>18

\* InsertSlot adds a slot of the schedule, and the run has it behind it.
LEMMA InsertSlotKeepsGInv ==
    ASSUME GInv, NEW p \in Procs, InsertSlot(p) PROVE GInv'
<1> USE DEF GInv
<1> DEFINE r == gen[p].room
           s == schedule[r]
           day == gen[p].day
           m == gen[p].at
<1>1. gen[p] # None /\ AtSlot(p) /\ slots' = Inserted(p)
  BY DEF InsertSlot, TypeOK
<1>2. UNCHANGED <<today, schedule, until, pc, queue, now, faults>>
  BY DEF InsertSlot
<1>3. /\ gen[p] \in Run /\ r \in Rooms /\ s \in Requests /\ Valid(s)
      /\ day \in Days /\ gen[p].until \in Days /\ m \in Minutes
  BY <1>1, RunFacts
<1>4. /\ m + 30 <= s.end /\ ((m + 30) - s.start) % 30 = 0
      /\ \A n \in Grid(s) : n < m + 30 => n < m \/ n = m
  BY <1>1, <1>2, SlotFits
<1>5. /\ SlotsFitSchedule'
      /\ slots' \in [Rooms -> SUBSET (Days \X Minutes)]
      /\ \A q \in Rooms : slots[q] \subseteq slots'[q]
      /\ \A q \in Rooms : schedule[q] = None => slots'[q] = slots[q]
      /\ <<day, m>> \in slots'[r]
  BY <1>1, <1>2, SlotFits
<1>6. s.start <= m /\ day <= gen[p].until /\ gen[p].until <= today + Horizon
  BY <1>1, Zenon DEF RunsFit
<1>7. s \in Requests /\ m \in Minutes
  BY <1>3, Zenon
<1>8. s.start <= m + 30 /\ m + 30 \in Minutes
  <2>. HIDE DEF s, m
  <2>1. s.start \in Minutes /\ s.end \in Minutes
    BY <1>7, RequestTimes, Zenon
  <2>2. m + 30 <= s.end
    BY <1>4, Zenon
  <2>. QED  BY <1>6, <1>7, <2>1, <2>2, MinuteStep, Zenon
<1>9. /\ gen'[p] = [gen[p] EXCEPT !.at = m + 30]
      /\ \A q \in Procs \ {p} : gen'[q] = gen[q]
  BY DEF InsertSlot, TypeOK
<1>10. /\ gen'[p].room = r /\ gen'[p].day = day /\ gen'[p].at = m + 30
       /\ gen'[p].until = gen[p].until
  BY <1>3, <1>9 DEF Run
<1>11. gen'[p] \in Run /\ gen'[p] # None
  <2>1. gen[p] \in Run
    BY <1>3, Zenon
  <2>2. day \in Days
    BY <1>3, Zenon
  <2>. HIDE DEF m, day
  <2>3. [gen[p] EXCEPT !.at = m + 30] \in Run
    BY <1>8, <2>1, <2>2, RunMoves, Zenon
  <2>. QED  BY <1>9, <2>3, NoneIsNoRun, Zenon
<1>12. s # None
  BY <1>1 DEF WorkKnown
<1>13. \A q \in Rooms, d \in Days : DayDone(q, d) => DayDone(q, d)'
  BY <1>2, <1>5, DoneStays
<1>. HIDE DEF r, s, day, m
<1>14. TypeOK'
  <2>1. gen' \in [Procs -> Run \cup {None}]
    BY <1>11 DEF InsertSlot, TypeOK
  <2>2. \A q \in Procs : gen'[q] # None <=> gen[q] # None
    BY <1>1, <1>9, <1>11
  <2>. QED  BY <1>2, <1>5, <2>1, <2>2 DEF TypeOK
<1>15. SchedulesValid'
  BY <1>2, <1>5 DEF SchedulesValid
<1>16. WorkKnown'
  BY <1>1, <1>2, <1>9, <1>10, <1>12 DEF WorkKnown, s
<1>17. RunsFit'
  <2>1. ASSUME NEW q \in Procs, gen'[q] # None
        PROVE  /\ gen'[q].until <= today + Horizon
               /\ gen'[q].day <= gen'[q].until
               /\ schedule[gen'[q].room].start <= gen'[q].at
               /\ gen'[q].at <= schedule[gen'[q].room].end
               /\ (gen'[q].at - schedule[gen'[q].room].start) % 30 = 0
    <3>1. CASE q = p
      <4>1. /\ schedule[gen'[q].room] = s /\ gen'[q].at = m + 30
            /\ gen'[q].day = day /\ gen'[q].until = gen[p].until
        BY <1>10, <3>1 DEF s
      <4>. QED  BY <1>4, <1>6, <1>8, <4>1, Zenon
    <3>2. CASE q # p
      BY <1>9, <2>1, <3>2 DEF RunsFit
    <3>. QED  BY <3>1, <3>2
  <2>. QED  BY <1>2, <2>1 DEF RunsFit
<1>18. RunsCover'
  <2>1. \A q \in Procs : gen'[q] # None => /\ gen[q] # None /\ gen[q].room \in Rooms
                                           /\ gen'[q].room = gen[q].room
                                           /\ gen'[q].day = gen[q].day
    BY <1>1, <1>9, <1>10 DEF TypeOK, Run, r, day
  <2>2. ASSUME NEW q \in Procs, gen'[q] # None, NEW d \in Days,
               today <= d, d < gen'[q].day
        PROVE  DayDone(gen[q].room, d)'
    <3>1. PICK x \in Rooms : gen[q].room = x /\ gen'[q].room = x
      BY <2>1, <2>2
    <3>2. DayDone(x, d)
      BY <2>1, <2>2, <3>1 DEF RunsCover
    <3>. QED  BY <1>13, <3>1, <3>2
  <2>3. ASSUME NEW q \in Procs, gen'[q] # None,
               IsoDay(gen'[q].day) \in schedule[gen'[q].room].days,
               NEW n \in Grid(schedule[gen'[q].room]), n < gen'[q].at
        PROVE  <<gen'[q].day, n>> \in slots'[gen'[q].room]
    <3>1. CASE q = p
      <4>1. gen'[q].room = r /\ gen'[q].day = day /\ gen'[q].at = m + 30
        BY <1>10, <3>1
      <4>2. n \in Grid(s) /\ n < m + 30 /\ IsoDay(day) \in s.days
        BY <2>3, <4>1 DEF s
      <4>3. CASE n < m
        <5>1. <<day, n>> \in slots[r]
          BY <1>1, <4>2, <4>3, Zenon DEF RunsCover, r, s, day, m
        <5>. QED  BY <1>3, <1>5, <4>1, <5>1
      <4>4. CASE n = m
        BY <1>5, <4>1, <4>4
      <4>. QED  BY <1>4, <4>2, <4>3, <4>4
    <3>2. CASE q # p
      <4>1. gen'[q] = gen[q] /\ gen[q].room \in Rooms /\ gen[q] # None
        BY <1>9, <2>1, <2>3, <3>2
      <4>2. <<gen[q].day, n>> \in slots[gen[q].room]
        BY <2>3, <4>1 DEF RunsCover
      <4>. QED  BY <1>5, <4>1, <4>2
    <3>. QED  BY <3>1, <3>2
  <2>. QED  BY <1>2, <2>1, <2>2, <2>3 DEF RunsCover
<1>19. CoveredUntil'
  BY <1>2, <1>13 DEF CoveredUntil
<1>. QED  BY <1>5, <1>14, <1>15, <1>16, <1>17, <1>18, <1>19

\* The parts of GInv that the end of a run does not concern: what remains to
\* be shown is about the slots and generated_until it leaves.
LEMMA EndKeepsGInv ==
    ASSUME GInv, NEW p \in Procs, NEW a \in {"idle", "next"}, p \in Rooms => a = "idle",
           pc' = [pc EXCEPT ![p] = a],
           gen' = [gen EXCEPT ![p] = None],
           UNCHANGED <<today, schedule>>,
           queue' \in [Procs -> SUBSET Rooms],
           \A q \in Procs : queue'[q] \subseteq queue[q],
           now' \in [Procs -> 0..MaxDay],
           \A q \in Procs : now'[q] <= today,
           faults' \in 0..MaxFaults,
           slots' \in [Rooms -> SUBSET (Days \X Minutes)],
           \A r \in Rooms : slots[r] \subseteq slots'[r],
           \A r \in Rooms : schedule[r] = None => slots'[r] = slots[r],
           SlotsFitSchedule',
           until' \in [Rooms -> Days \cup {None}],
           \A r \in Rooms :
              \/ until'[r] = until[r]
              \/ /\ gen[p] # None /\ gen[p].room = r
                 /\ until'[r] = gen[p].until /\ gen[p].day >= gen[p].until
    PROVE  GInv'
<1> USE DEF GInv
<1>1. TypeOK'
  BY DEF TypeOK
<1>2. SchedulesValid'
  BY DEF SchedulesValid, WorkKnown
<1>3. WorkKnown'
  <2>1. \A q \in Rooms : pc'[q] # "idle" => schedule[q] # None
    BY DEF TypeOK, WorkKnown
  <2>2. \A q \in Procs : \A x \in queue'[q] : schedule[x] # None
    BY DEF WorkKnown
  <2>3. \A q \in Procs : gen'[q] # None => schedule[gen'[q].room] # None
    BY DEF TypeOK, WorkKnown
  <2>. QED  BY <2>1, <2>2, <2>3 DEF WorkKnown
<1>4. \A q \in Procs : gen'[q] # None => gen'[q] = gen[q]
  BY DEF TypeOK
<1>5. RunsFit'
  <2>1. \A r \in Rooms : until'[r] # None => until'[r] <= today + Horizon
    BY DEF RunsFit
  <2>. QED  BY <1>4, <2>1 DEF RunsFit
<1>6. RunsCover'
  BY EndKeeps
<1>7. CoveredUntil'
  <2>1. ASSUME NEW r \in Rooms, until'[r] # None, NEW d \in Days,
               today <= d, d < until'[r]
        PROVE  DayDone(r, d)'
    <3>1. CASE until'[r] = until[r]
      <4>1. DayDone(r, d)
        BY <2>1, <3>1 DEF CoveredUntil
      <4>. QED  BY <4>1, DoneStays
    <3>2. CASE /\ gen[p] # None /\ gen[p].room = r
               /\ until'[r] = gen[p].until /\ gen[p].day >= gen[p].until
      <4>1. gen[p].day \in Days /\ gen[p].until \in Days
        BY <3>2, RunFacts
      <4>2. d < gen[p].day
        BY <2>1, <3>2, <4>1, GenerationAssumption DEF Days
      <4>. QED  BY <2>1, <3>2, <4>2, EndKeeps
    <3>. QED  BY <3>1, <3>2
  <2>. QED  BY <2>1 DEF CoveredUntil
<1>. QED  BY <1>1, <1>2, <1>3, <1>5, <1>6, <1>7

\* SaveState records what the run has behind it.
LEMMA SaveStateKeepsGInv ==
    ASSUME GInv, NEW p \in Procs, SaveState(p) PROVE GInv'
<1> DEFINE a == IF p \in Rooms THEN "idle" ELSE "next"
<1>1. gen[p] # None /\ gen[p].day >= gen[p].until
  BY DEF SaveState, GInv, TypeOK
<1>2. gen[p].room \in Rooms /\ gen[p].until \in Days
  BY <1>1, RunFacts DEF GInv
<1>3. a \in {"idle", "next"} /\ (p \in Rooms => a = "idle")
  OBVIOUS
<1>4. pc' = [pc EXCEPT ![p] = a] /\ gen' = [gen EXCEPT ![p] = None]
  BY DEF SaveState, RunEnds
<1>5. UNCHANGED <<today, schedule, slots, queue, now, faults>>
  BY DEF SaveState
<1>6. /\ queue' \in [Procs -> SUBSET Rooms]
      /\ \A q \in Procs : queue'[q] \subseteq queue[q]
      /\ now' \in [Procs -> 0..MaxDay] /\ \A q \in Procs : now'[q] <= today
      /\ faults' \in 0..MaxFaults
  BY <1>5 DEF GInv, TypeOK, WorkKnown
<1>7. /\ slots' \in [Rooms -> SUBSET (Days \X Minutes)]
      /\ \A r \in Rooms : slots[r] \subseteq slots'[r]
      /\ \A r \in Rooms : schedule[r] = None => slots'[r] = slots[r]
  BY <1>5 DEF GInv, TypeOK
<1>8. SlotsFitSchedule'
  BY <1>5 DEF GInv, SlotsFitSchedule
<1>9. /\ until' \in [Rooms -> Days \cup {None}]
      /\ \A r \in Rooms :
              \/ until'[r] = until[r]
              \/ /\ gen[p] # None /\ gen[p].room = r
                 /\ until'[r] = gen[p].until /\ gen[p].day >= gen[p].until
  BY <1>1, <1>2 DEF SaveState, GInv, TypeOK
<1>. HIDE DEF a
<1>. QED  BY <1>3, <1>4, <1>5, <1>6, <1>7, <1>8, <1>9, EndKeepsGInv

\* GenerationFails leaves the slots inserted so far.
LEMMA GenerationFailsKeepsGInv ==
    ASSUME GInv, NEW p \in Procs, GenerationFails(p) PROVE GInv'
<1> DEFINE a == IF p \in Rooms THEN "idle" ELSE "next"
<1>1. gen[p] # None
  BY DEF GenerationFails, GInv, TypeOK
<1>2. a \in {"idle", "next"} /\ (p \in Rooms => a = "idle")
  OBVIOUS
<1>3. pc' = [pc EXCEPT ![p] = a] /\ gen' = [gen EXCEPT ![p] = None]
  BY DEF GenerationFails, RunEnds
<1>4. UNCHANGED <<today, schedule, until, queue, now>>
  BY DEF GenerationFails
<1>5. /\ queue' \in [Procs -> SUBSET Rooms]
      /\ \A q \in Procs : queue'[q] \subseteq queue[q]
      /\ now' \in [Procs -> 0..MaxDay] /\ \A q \in Procs : now'[q] <= today
  BY <1>4 DEF GInv, TypeOK, WorkKnown
<1>6. faults' \in 0..MaxFaults
  BY GenerationAssumption DEF GenerationFails, GInv, TypeOK
<1>7. /\ slots' \in [Rooms -> SUBSET (Days \X Minutes)]
      /\ \A r \in Rooms : slots[r] \subseteq slots'[r]
      /\ \A r \in Rooms : schedule[r] = None => slots'[r] = slots[r]
      /\ SlotsFitSchedule'
  <2>1. CASE UNCHANGED slots
    BY <1>4, <2>1 DEF GInv, TypeOK, SlotsFitSchedule
  <2>2. CASE AtSlot(p) /\ slots' = Inserted(p)
    BY <1>1, <1>4, <2>2, SlotFits DEF GInv
  <2>. QED  BY <2>1, <2>2 DEF GenerationFails
<1>8. /\ until' \in [Rooms -> Days \cup {None}]
      /\ \A r \in Rooms : until'[r] = until[r]
  BY <1>4 DEF GInv, TypeOK
<1>. HIDE DEF a
<1>. QED  BY <1>2, <1>3, <1>4, <1>5, <1>6, <1>7, <1>8, EndKeepsGInv

\* Stops forgets the run.
LEMMA StopsKeepsGInv ==
    ASSUME GInv, NEW p \in Procs, Stops(p) PROVE GInv'
<1>1. pc' = [pc EXCEPT ![p] = "idle"] /\ gen' = [gen EXCEPT ![p] = None]
  BY DEF Stops
<1>2. UNCHANGED <<today, schedule, slots, until>>
  BY DEF Stops
<1>3. /\ queue' \in [Procs -> SUBSET Rooms]
      /\ \A q \in Procs : queue'[q] \subseteq queue[q]
  BY DEF Stops, GInv, TypeOK
<1>4. now' \in [Procs -> 0..MaxDay] /\ \A q \in Procs : now'[q] <= today
  BY GenerationAssumption DEF Stops, GInv, TypeOK, WorkKnown
<1>5. faults' \in 0..MaxFaults
  BY GenerationAssumption DEF Stops, GInv, TypeOK
<1>6. /\ slots' \in [Rooms -> SUBSET (Days \X Minutes)]
      /\ \A r \in Rooms : slots[r] \subseteq slots'[r]
      /\ \A r \in Rooms : schedule[r] = None => slots'[r] = slots[r]
      /\ SlotsFitSchedule'
  BY <1>2 DEF GInv, TypeOK, SlotsFitSchedule
<1>7. /\ until' \in [Rooms -> Days \cup {None}]
      /\ \A r \in Rooms : until'[r] = until[r]
  BY <1>2 DEF GInv, TypeOK
<1>. QED  BY <1>1, <1>2, <1>3, <1>4, <1>5, <1>6, <1>7, EndKeepsGInv

\* No step of any process, and no stuttering, breaks GInv.
LEMMA NextKeepsGInv == GInv /\ [Next]_vars => GInv'
<1>. SUFFICES ASSUME GInv, [Next]_vars PROVE GInv'
  OBVIOUS
<1>1. CASE \E r \in Rooms, s \in Requests : CreateSchedule(r, s)
  BY <1>1, CreateScheduleKeepsGInv
<1>2. CASE \E w \in Workers : WorkerStep(w) \/ LoadStateFails(w)
  BY <1>2, ExtendSlotsKeepsGInv, LoadStateKeepsGInv, RestKeepsGInv,
     LoadStateFailsKeepsGInv DEF WorkerStep
<1>3. CASE \E p \in Procs : RunStep(p) \/ GenerationFails(p) \/ Stops(p)
  BY <1>3, ReadClockKeepsGInv, InsertSlotKeepsGInv, NextDayKeepsGInv,
     SaveStateKeepsGInv, GenerationFailsKeepsGInv, StopsKeepsGInv DEF RunStep
<1>4. CASE Midnight
  BY <1>4, MidnightKeepsGInv
<1>5. CASE UNCHANGED vars
  <2>1. today \in Nat /\ today <= today
    BY GenerationAssumption DEF GInv, TypeOK
  <2>2. TypeOK' /\ WorkKnown'
    BY <1>5 DEF GInv, TypeOK, WorkKnown, vars
  <2>. QED  BY <1>5, <2>1, <2>2, BookkeepingKeepsGInv DEF vars
<1>. QED  BY <1>1, <1>2, <1>3, <1>4, <1>5 DEF Next

-----------------------------------------------------------------------------
(* The theorems *)

\* The inductive invariant holds in every reachable state, for any number of
\* rooms, replicas and failures and any horizon.
THEOREM GenerationInvariance == Spec => []GInv
<1>1. Init => GInv
  BY InitGInv
<1>2. GInv /\ [Next]_vars => GInv'
  BY NextKeepsGInv
<1>. QED  BY <1>1, <1>2, PTL DEF Spec

\* Every variable keeps its type; with it, a run is under way exactly when a
\* process inserts.
THEOREM GenerationTypeCorrect == Spec => []TypeOK
<1>1. GInv => TypeOK
  BY DEF GInv
<1>. QED  BY <1>1, GenerationInvariance, PTL

\* generated_until is never ahead of the slots: what the worker skips is there.
THEOREM NoGapsRecorded == Spec => []CoveredUntil
<1>1. GInv => CoveredUntil
  BY DEF GInv
<1>. QED  BY <1>1, GenerationInvariance, PTL

\* GenerateSlots inserts only slots of the schedule, whole and within the
\* horizon.
THEOREM SlotsAreOfSchedule == Spec => []SlotsFitSchedule
<1>1. GInv => SlotsFitSchedule
  BY DEF GInv
<1>. QED  BY <1>1, GenerationInvariance, PTL

\* Slots of a room on one day are at least half an hour apart: they do not
\* overlap, so no slot is kept out of the table by a different one, whoever
\* inserts.
THEOREM SlotsNeverOverlap ==
    Spec => [](\A r \in Rooms : \A x, y \in slots[r] :
                  x[1] = y[1] /\ x[2] < y[2] => x[2] + 30 <= y[2])
<1>1. ASSUME GInv, NEW r \in Rooms, NEW x \in slots[r], NEW y \in slots[r],
             x[2] < y[2]
      PROVE  x[2] + 30 <= y[2]
  <2>1. /\ schedule[r] # None
        /\ x[2] \in Grid(schedule[r]) /\ y[2] \in Grid(schedule[r])
    BY <1>1 DEF GInv, SlotsFitSchedule
  <2>2. PICK s \in Requests : s = schedule[r]
    BY <1>1, <2>1 DEF GInv, TypeOK
  <2>3. /\ x[2] \in Int /\ (x[2] - s.start) % 30 = 0
        /\ y[2] \in Int /\ (y[2] - s.start) % 30 = 0
    BY <2>1, <2>2, GridTypes, Zenon
  <2>4. s.start \in Int
    BY RequestTypes, Zenon
  <2>. QED  BY <1>1, <2>3, <2>4, HalfHoursFrom
<1>2. GInv => (\A r \in Rooms : \A x, y \in slots[r] :
                  x[1] = y[1] /\ x[2] < y[2] => x[2] + 30 <= y[2])
  BY <1>1
<1>. QED  BY <1>2, GenerationInvariance, PTL
-----------------------------------------------------------------------------
(* The refinement of RoomCalendar *)

\* A room with a schedule has an accepted one, and the slots it stands for are
\* those the days and the grid give.
LEMMA AcceptedSchedules ==
    ASSUME TypeOK, SchedulesValid, NEW r \in Rooms, schedule[r] # None
    PROVE  /\ schedule[r] \in Schedules
           /\ \A d \in Days, m \in Grid(schedule[r]) :
                 IsoDay(d) \in schedule[r].days =>
                    <<d, m>> \in SlotsOf[schedule[r]]
           /\ \A x \in SlotsOf[schedule[r]] :
                 /\ x[1] \in Days /\ IsoDay(x[1]) \in schedule[r].days
                 /\ x[2] \in Grid(schedule[r]) /\ x = <<x[1], x[2]>>
<1>1. schedule[r] \in Schedules
  BY DEF TypeOK, SchedulesValid, Schedules
<1>2. SlotsOf[schedule[r]] =
         {d \in Days : IsoDay(d) \in schedule[r].days} \X Grid(schedule[r])
  BY <1>1 DEF SlotsOf
<1>. QED  BY <1>1, <1>2

\* A slot that a run inserts, answered or not, is one that may be offered.
LEMMA InsertOffers ==
    ASSUME GInv, NEW p \in Procs, gen[p] # None, AtSlot(p), slots' = Inserted(p),
           UNCHANGED <<today, schedule, until>>
    PROVE  Calendar!CNext
<1> DEFINE r == gen[p].room
           x == <<gen[p].day, gen[p].at>>
<1>1. r \in Rooms /\ schedule[r] # None /\ gen[p].day \in Days
      /\ schedule[r] \in Requests /\ Valid(schedule[r])
  BY RunFacts DEF GInv, WorkKnown
<1>2. gen[p].at \in Grid(schedule[r]) /\ x \in slots'[r] /\ SlotsFitSchedule'
  BY SlotFits DEF GInv
<1>3. IsoDay(gen[p].day) \in schedule[r].days
  BY <1>1, OpenIsIso DEF AtSlot
<1>4. x \in SlotsOf[schedule[r]]
  BY <1>1, <1>2, <1>3, AcceptedSchedules DEF GInv
<1>5. x[1] < today + Horizon
  BY <1>1, <1>2 DEF SlotsFitSchedule
<1>6. slots' = [slots EXCEPT ![r] = @ \cup {x}]
  BY DEF Inserted
<1>. HIDE DEF r, x
<1>7. Calendar!Offer(r, x)
  BY <1>5, <1>6 DEF Calendar!Offer
<1>. QED  BY <1>1, <1>4, <1>7 DEF Calendar!CNext

\* When a run has all days up to its target behind it, nothing is missing from
\* today on, though it may have begun on an earlier date.
LEMMA SaveVouches ==
    ASSUME GInv, NEW p \in Procs, SaveState(p)
    PROVE  Calendar!CNext
<1> DEFINE r == gen[p].room
           u == gen[p].until
<1>1. gen[p] # None /\ gen[p].day >= u
      /\ until' = [until EXCEPT ![r] = u] /\ UNCHANGED <<today, schedule, slots>>
  BY DEF SaveState, GInv, TypeOK
<1>2. r \in Rooms /\ schedule[r] # None /\ gen[p].day \in Days /\ u \in Days
  BY <1>1, RunFacts DEF GInv, WorkKnown
<1>3. u \in 0..(today + Horizon)
  BY <1>1, <1>2, GenerationAssumption DEF GInv, TypeOK, RunsFit, Days
<1>4. ASSUME NEW x \in SlotsOf[schedule[r]], today <= x[1], x[1] < u
      PROVE  x \in slots[r]
  <2>1. /\ x[1] \in Days /\ IsoDay(x[1]) \in schedule[r].days
        /\ x[2] \in Grid(schedule[r]) /\ x = <<x[1], x[2]>>
    BY <1>2, <1>4, AcceptedSchedules DEF GInv
  <2>2. x[1] < gen[p].day
    BY <1>1, <1>2, <1>4, <2>1, GenerationAssumption DEF Days
  <2>3. DayDone(r, x[1])
    BY <1>1, <1>4, <2>1, <2>2 DEF GInv, RunsCover
  <2>. QED  BY <1>2, <2>1, <2>3 DEF DayDone
<1>. HIDE DEF r, u
<1>5. Calendar!Vouch(r, u)
  BY <1>1, <1>2, <1>4 DEF Calendar!Vouch, Calendar!Filled
<1>. QED  BY <1>2, <1>3, <1>5 DEF Calendar!CNext

\* Every step of a process is a step of the calendar or leaves it alone.
LEMMA StepsOfCalendar ==
    ASSUME GInv, [Next]_vars
    PROVE  [Calendar!CNext]_(Calendar!cvars)
<1> USE DEF Calendar!cvars
<1>1. CASE \E r \in Rooms, s \in Requests : CreateSchedule(r, s)
  <2>1. PICK r \in Rooms, s \in Requests : CreateSchedule(r, s)
    BY <1>1
  <2>2. s \in Schedules /\ Calendar!Publish(r, s)
    BY <2>1 DEF CreateSchedule, InsertSchedule, Schedules, Calendar!Publish
  <2>. QED  BY <2>2 DEF Calendar!CNext
<1>2. ASSUME NEW w \in Workers, WorkerStep(w) \/ LoadStateFails(w)
      PROVE  UNCHANGED Calendar!cvars
  BY <1>2 DEF WorkerStep, ExtendSlots, LoadState, Rest, LoadStateFails
<1>3. ASSUME NEW p \in Procs, ReadClock(p) \/ NextDay(p) \/ Stops(p)
      PROVE  UNCHANGED Calendar!cvars
  BY <1>3 DEF ReadClock, NextDay, Stops
<1>4. ASSUME NEW p \in Procs, InsertSlot(p) \/ GenerationFails(p)
      PROVE  [Calendar!CNext]_(Calendar!cvars)
  <2>1. gen[p] # None /\ UNCHANGED <<today, schedule, until>>
        /\ (UNCHANGED slots \/ (AtSlot(p) /\ slots' = Inserted(p)))
    BY <1>4 DEF InsertSlot, GenerationFails, GInv, TypeOK
  <2>. QED  BY <2>1, InsertOffers
<1>5. ASSUME NEW p \in Procs, SaveState(p) PROVE Calendar!CNext
  BY <1>5, SaveVouches
<1>6. CASE Midnight
  BY <1>6 DEF Midnight, Calendar!CNext, Calendar!NextDate
<1>7. CASE UNCHANGED vars
  BY <1>7 DEF vars
<1>. QED  BY <1>1, <1>2, <1>3, <1>4, <1>5, <1>6, <1>7 DEF Next, RunStep

\* Requests and workers, with everything that fails or comes between their
\* statements, keep the promise of RoomCalendar: no slot is taken back, none is
\* added that is not of the schedule, and generated_until vouches only for what
\* is there at that very step.
THEOREM GenerationRefinesCalendar == Spec => KeepsCalendar
<1>1. Init => Calendar!CInit
  BY DEF Init, Calendar!CInit
<1>2. GInv /\ [Next]_vars => [Calendar!CNext]_(Calendar!cvars)
  BY StepsOfCalendar
<1>. QED  BY <1>1, <1>2, GenerationInvariance, PTL
     DEF Spec, KeepsCalendar, Calendar!CSpec

-----------------------------------------------------------------------------
(* What BookingSaga assumes of slots *)

\* A slot that was generated stays, and so does the schedule it is of: whatever
\* slot a booking names, no later run takes it away or generates it anew.
THEOREM SlotsLast ==
    Spec => [][\A r \in Rooms :
                  /\ slots[r] \subseteq slots'[r]
                  /\ schedule[r] # None => schedule'[r] = schedule[r]
              ]_<<slots, schedule>>
<1> DEFINE Lasts == \A r \in Rooms :
                       /\ slots[r] \subseteq slots'[r]
                       /\ schedule[r] # None => schedule'[r] = schedule[r]
<1>1. GInv /\ [Calendar!CNext]_(Calendar!cvars) => [Lasts]_<<slots, schedule>>
  <2>. SUFFICES ASSUME GInv, [Calendar!CNext]_(Calendar!cvars) PROVE Lasts
    OBVIOUS
  <2>. QED
    BY DEF GInv, TypeOK, Calendar!CNext, Calendar!cvars, Calendar!Publish,
       Calendar!Offer, Calendar!Vouch, Calendar!NextDate
<1>. HIDE DEF Lasts
<1>2. Spec => [][Lasts]_<<slots, schedule>>
  BY <1>1, StepsOfCalendar, GenerationInvariance, PTL DEF Spec
<1>. QED  BY <1>2 DEF Lasts
=============================================================================
